------------------------- MODULE AuthSessionsProofs -------------------------
(***************************************************************************)
(* Theorems about AuthSessions for every set of members, browsers, pages,  *)
(* sessions and calls under way.                                           *)
(***************************************************************************)
EXTENDS AuthSessions, TLAPS

LEMMA CallFields == ASSUME TypeOK, NEW c \in Calls
  PROVE /\ call[c] \in CallState
        /\ Page(c) \in Pages /\ Jar(c) \in Browsers
        /\ c \notin Browsers
BY BrowserAssumption, CallsAssumption DEF TypeOK, Page, Jar

LEMMA IdleState == /\ Idle \in CallState /\ Idle.pc = "idle"
                   /\ [Idle EXCEPT !.pc = "denied"] \in CallState
                   /\ [Idle EXCEPT !.pc = "cleared"] \in CallState
BY DEF Idle, CallState, Carrying, Rotated

LEMMA RevokedRows == ASSUME TypeOK, NEW S
  PROVE /\ Revoked(S) \in [Sids -> Row \cup {None}]
        /\ \A s \in Sids : /\ Revoked(S)[s] # None <=> session[s] # None
                           /\ session[s] # None => Revoked(S)[s].owner = session[s].owner
                           /\ session[s] # None /\ session[s].revoked => Revoked(S)[s].revoked
<1>1. \A s \in Sids : session[s] # None => session[s] \in Row
  BY DEF TypeOK
<1>. QED
  BY <1>1, NoneAssumption DEF Revoked, Known, Row

-----------------------------------------------------------------------------
(* Types. *)

LEMMA InitType == Init => TypeOK
<1>1. Idle \in CallState /\ Idle.pc \notin Carrying /\ Idle.pc # "login"
  BY DEF Idle, CallState, Carrying, Rotated
<1>2. Init => call \in [Calls -> CallState] /\ \A c \in Calls : call[c] = Idle
  BY <1>1 DEF Init
<1>. QED
  BY <1>1, <1>2 DEF Init, TypeOK

\* A call that becomes idle, refused or carries a session that is known.
LEMMA BecomeType ==
  ASSUME TypeOK, NEW c \in Calls, NEW q \in CallState, Become(c, q),
         q.pc \in Carrying => q.sid \in Sids /\ session[q.sid] # None,
         q.pc = "login" => q.staff \in Staff
  PROVE  /\ call' \in [Calls -> CallState]
         /\ \A d \in Calls : call'[d].pc \in Carrying =>
              call'[d].sid \in Sids /\ session[call'[d].sid] # None
         /\ \A d \in Calls : call'[d].pc = "login" => call'[d].staff \in Staff
BY DEF TypeOK, Become, Known

LEMMA MoveBecomes ==
  ASSUME TypeOK, NEW c \in Calls, call[c].pc \in Carrying, NEW pc \in Carrying, Move(c, pc)
  PROVE  \E q \in CallState : /\ Become(c, q) /\ q.pc = pc /\ q.sid = call[c].sid
                              /\ q.sid \in Sids /\ session[q.sid] # None
                              /\ q.pc # "login"
<1> DEFINE q == [call[c] EXCEPT !.pc = pc]
<1>1. q \in CallState /\ q.pc = pc /\ q.sid = call[c].sid
  BY DEF TypeOK, CallState
<1>2. Become(c, q)
  BY DEF Become, Move
<1>. QED
  BY <1>1, <1>2 DEF TypeOK, Known, Carrying, Rotated

LEMMA RefuseType ==
  ASSUME TypeOK, NEW c \in Calls, Refuse(c)
  PROVE  /\ \E q \in CallState : /\ Become(c, q) /\ q.pc \notin Carrying
                                 /\ q.pc # "login" /\ q.pc # "idle"
         /\ current' = current \ {c}
<1>1. [Idle EXCEPT !.pc = "denied"] \in CallState
      /\ [Idle EXCEPT !.pc = "denied"].pc = "denied"
  BY DEF Idle, CallState
<1>. QED
  BY <1>1 DEF Refuse, Carrying, Rotated

\* What TypeOK says of the calls under the rows s.
CallsNameRows(rows, calls) ==
  /\ calls \in [Calls -> CallState]
  /\ \A c \in Calls : calls[c].pc \in Carrying => calls[c].sid \in Sids /\ rows[calls[c].sid] # None
  /\ \A c \in Calls : calls[c].pc = "login" => calls[c].staff \in Staff

LEMMA CallsType ==
  ASSUME TypeOK, NEW c \in Calls, NEW q \in CallState, Become(c, q),
         q.pc \in Carrying => q.sid \in Sids /\ session[q.sid] # None,
         q.pc = "login" => q.staff \in Staff
  PROVE  CallsNameRows(session, call')
BY BecomeType DEF CallsNameRows

LEMMA NextType == TypeOK /\ [Next]_vars => TypeOK'
<1> SUFFICES ASSUME TypeOK, [Next]_vars PROVE TypeOK'
  OBVIOUS
<1> USE DEF TypeOK, ghosts, Known
<1>0. Idle \in CallState /\ Idle.pc \notin Carrying /\ Idle.pc # "login"
  BY DEF Idle, CallState, Carrying, Rotated
<1>1. ASSUME NEW p \in Pages, NEW m \in Staff, Login(p, m) PROVE TypeOK'
  <2> DEFINE c == <<p, "user">>
             q == [Idle EXCEPT !.pc = "login", !.staff = m]
  <2>1. q \in CallState /\ q.pc = "login" /\ q.staff = m /\ q.pc \notin Carrying
    BY DEF Idle, CallState, Carrying, Rotated
  <2>2. c \in Calls /\ Become(c, q)
        /\ UNCHANGED <<active, session, cookie, access, current, strayed, alarmed>>
    BY <1>1 DEF Login, Free
  <2>3. CallsNameRows(session, call')
    BY <2>1, <2>2, CallsType
  <2>. QED
    BY <2>2, <2>3 DEF CallsNameRows
<1>2. ASSUME NEW c \in Calls, SendRefresh(c) PROVE TypeOK'
  <2>1. Jar(c) \in Browsers
    BY CallFields
  <2>2. CASE cookie[Jar(c)] = None
    <3>1. Refuse(c) /\ UNCHANGED <<active, session, cookie, access, strayed, alarmed>>
      BY <1>2, <2>2 DEF SendRefresh
    <3>2. CallsNameRows(session, call') /\ current' \subseteq current
      BY <3>1, RefuseType, CallsType
    <3>. QED
      BY <3>1, <3>2 DEF CallsNameRows
  <2>3. CASE cookie[Jar(c)] # None
    <3> DEFINE s == cookie[Jar(c)]
               q == [Idle EXCEPT !.pc = "refresh", !.sid = s]
    <3>1. s \in Sids /\ session[s] # None
      BY <2>1, <2>3
    <3>2. q \in CallState /\ q.pc = "refresh" /\ q.sid = s /\ q.pc # "login"
      BY <3>1 DEF Idle, CallState, Carrying, Rotated
    <3>3. /\ Become(c, q) /\ UNCHANGED <<active, session, cookie, access, alarmed>>
          /\ current' = Copy(Jar(c), c) /\ strayed' \subseteq strayed \cup {s}
      BY <1>2, <2>3 DEF SendRefresh
    <3>4. CallsNameRows(session, call')
      BY <3>1, <3>2, <3>3, CallsType
    <3>5. current' \subseteq Browsers \cup Calls
      BY <3>3 DEF Copy
    <3>. QED
      BY <3>1, <3>3, <3>4, <3>5 DEF CallsNameRows
  <2>. QED
    BY <2>2, <2>3
<1>3. ASSUME NEW p \in Pages, LinkRefresh(p) \/ OpenPage(p) \/ TimerRefresh(p) PROVE TypeOK'
  BY <1>2, <1>3 DEF LinkRefresh, OpenPage, TimerRefresh, SendRefresh, Free
<1>4. ASSUME NEW p \in Pages, Logout(p) PROVE TypeOK'
  <2> DEFINE c == <<p, "user">>
             q == [Idle EXCEPT !.pc = "logout", !.sid = cookie[Jar(c)]]
  <2>1. c \in Calls /\ Become(c, q) /\ access' = [access EXCEPT ![p] = None]
        /\ UNCHANGED <<active, session, cookie, current, strayed, alarmed>>
    BY <1>4 DEF Logout, Free
  <2>2. cookie[Jar(c)] \in Sids \cup {None}
    BY <2>1, CallFields
  <2>3. q \in CallState /\ q.pc = "logout" /\ q.pc # "login" /\ q.pc \notin Carrying
    BY <2>2 DEF Idle, CallState, Carrying, Rotated
  <2>4. CallsNameRows(session, call')
    BY <2>1, <2>3, CallsType
  <2>. QED
    BY <2>1, <2>4 DEF CallsNameRows
<1>5. ASSUME NEW p \in Pages, ExpireAccess(p) PROVE TypeOK'
  <2>1. access[p] \in Access
    BY <1>5 DEF ExpireAccess
  <2>2. [access[p] EXCEPT !.fresh = FALSE] \in Access
        /\ [access[p] EXCEPT !.fresh = FALSE].sid = access[p].sid
    BY <2>1 DEF Access
  <2>. QED
    BY <1>5, <2>2 DEF ExpireAccess
<1>6. ASSUME NEW c \in Calls, CreateSession(c) PROVE TypeOK'
  <2> DEFINE s == CHOOSE s \in Sids : session[s] = None
             q == [pc |-> "granted", sid |-> s, staff |-> call[c].staff]
  <2>1. s \in Sids /\ session[s] = None
    BY <1>6 DEF CreateSession
  <2>2. call[c].staff \in Staff
    BY <1>6 DEF CreateSession
  <2>3. /\ session' = [session EXCEPT ![s] = [owner |-> call[c].staff, revoked |-> FALSE]]
        /\ Become(c, q) /\ current' = current \cup {c}
        /\ UNCHANGED <<active, cookie, access, strayed, alarmed>>
    BY <1>6 DEF CreateSession
  <2>4. [owner |-> call[c].staff, revoked |-> FALSE] \in Row
    BY <2>2 DEF Row
  <2>5. session' \in [Sids -> Row \cup {None}] /\ session'[s] # None
        /\ \A r \in Sids : session[r] # None => session'[r] # None
    BY <2>1, <2>3, <2>4, NoneAssumption
  <2>6. q \in CallState /\ q.sid = s /\ q.pc = "granted"
    BY <2>1, <2>2 DEF CallState, Carrying, Rotated
  <2>7. /\ call' \in [Calls -> CallState]
        /\ \A d \in Calls : call'[d].pc \in Carrying => call'[d].sid \in Sids /\ session'[call'[d].sid] # None
        /\ \A d \in Calls : call'[d].pc = "login" => call'[d].staff \in Staff
    BY <2>1, <2>3, <2>5, <2>6 DEF Become
  <2>. QED
    BY <2>3, <2>5, <2>7
<1>7. ASSUME NEW c \in Calls, FindSession(c) PROVE TypeOK'
  <2>1. call[c].pc \in Carrying
    BY <1>7 DEF FindSession, Carrying
  <2>2. CASE Refuse(c)
    <3>1. CallsNameRows(session, call') /\ current' \subseteq current
      BY <2>2, RefuseType, CallsType
    <3>. QED
      BY <1>7, <3>1 DEF CallsNameRows, FindSession
  <2>3. ASSUME NEW pc \in {"rotate", "reuse"}, Move(c, pc), UNCHANGED current PROVE TypeOK'
    <3>1. pc \in Carrying
      BY <2>3 DEF Carrying
    <3>2. CallsNameRows(session, call')
      BY <2>1, <2>3, <3>1, MoveBecomes, CallsType
    <3>. QED
      BY <1>7, <2>3, <3>2 DEF CallsNameRows, FindSession
  <2>. QED
    BY <1>7, <2>2, <2>3 DEF FindSession
<1>8. ASSUME NEW c \in Calls, RevokeFamily(c) \/ RevokeInactive(c) PROVE TypeOK'
  <2>1. call[c].sid \in Sids
    BY <1>8 DEF RevokeFamily, RevokeInactive, Carrying, Rotated
  <2>2. /\ session' = Revoked({call[c].sid}) /\ Refuse(c)
        /\ UNCHANGED <<active, cookie, access, strayed>>
        /\ alarmed' \subseteq alarmed \cup {call[c].sid}
    BY <1>8 DEF RevokeFamily, RevokeInactive
  <2>3. CallsNameRows(session, call') /\ current' \subseteq current
    BY <2>2, RefuseType, CallsType
  <2>4. session' \in [Sids -> Row \cup {None}]
        /\ \A s \in Sids : session'[s] # None <=> session[s] # None
    BY <2>2, RevokedRows
  <2>. QED
    BY <2>1, <2>2, <2>3, <2>4 DEF CallsNameRows, Access
<1>9. ASSUME NEW c \in Calls, Rotate(c) PROVE TypeOK'
  <2>1. call[c].pc \in Carrying /\ "actor" \in Carrying
    BY <1>9 DEF Rotate, Carrying, Rotated
  <2>2. CallsNameRows(session, call')
    BY <1>9, <2>1, MoveBecomes, CallsType DEF Rotate
  <2>3. current' \subseteq Browsers \cup Calls
    BY <1>9 DEF Rotate
  <2>. QED
    BY <1>9, <2>2, <2>3 DEF CallsNameRows, Rotate
<1>10. ASSUME NEW c \in Calls, CheckActor(c) PROVE TypeOK'
  <2>1. call[c].pc \in Carrying /\ "granted" \in Carrying /\ "inactive" \in Carrying
    BY <1>10 DEF CheckActor, Carrying, Rotated
  <2>2. PICK pc \in Carrying : Move(c, pc)
    BY <1>10, <2>1 DEF CheckActor
  <2>3. CallsNameRows(session, call')
    BY <2>1, <2>2, MoveBecomes, CallsType
  <2>. QED
    BY <1>10, <2>3 DEF CallsNameRows, CheckActor
<1>11. ASSUME NEW c \in Calls, RevokeSession(c) PROVE TypeOK'
  <2> DEFINE q == [Idle EXCEPT !.pc = "cleared"]
  <2>1. q \in CallState /\ q.pc \notin Carrying /\ q.pc # "login"
    BY DEF Idle, CallState, Carrying, Rotated
  <2>2. CallsNameRows(session, call')
    BY <1>11, <2>1, CallsType DEF RevokeSession
  <2>3. session' \in [Sids -> Row \cup {None}]
        /\ \A s \in Sids : session'[s] # None <=> session[s] # None
    BY <1>11, RevokedRows DEF RevokeSession
  <2>. QED
    BY <1>11, <2>2, <2>3 DEF CallsNameRows, Access, RevokeSession
<1>12. ASSUME NEW c \in Calls, Become(c, Idle) PROVE CallsNameRows(session, call')
  BY <1>0, <1>12, CallsType
<1>13. ASSUME NEW c \in Calls, Granted(c) PROVE TypeOK'
  <2>1. call[c].sid \in Sids /\ session[call[c].sid] # None /\ Page(c) \in Pages /\ Jar(c) \in Browsers
    BY <1>13, CallFields DEF Granted, Carrying, Rotated
  <2>2. [sid |-> call[c].sid, fresh |-> TRUE] \in Access
    BY <2>1 DEF Access
  <2>. QED
    BY <1>12, <1>13, <2>1, <2>2 DEF Granted, SetCookie, Copy, CallsNameRows
<1>14. ASSUME NEW c \in Calls, Denied(c) PROVE TypeOK'
  BY <1>12, <1>14 DEF Denied, Leave, CallsNameRows
<1>15. ASSUME NEW c \in Calls, Cleared(c) PROVE TypeOK'
  BY <1>12, <1>15 DEF Cleared, Leave, CallsNameRows
<1>16. ASSUME NEW c \in Calls, Fail(c) PROVE TypeOK'
  <2>1. strayed' \subseteq Sids
    BY <1>16 DEF Fail, Carrying
  <2>. QED
    BY <1>12, <1>16, <2>1 DEF Fail, Leave, CallsNameRows
<1>17. ASSUME NEW m \in Staff, Disable(m) \/ Enable(m) PROVE TypeOK'
  BY <1>17 DEF Disable, Enable
<1>18. ASSUME NEW m \in Staff, RevokeSubject(m) PROVE TypeOK'
  <2>1. session' \in [Sids -> Row \cup {None}]
        /\ \A s \in Sids : session'[s] # None <=> session[s] # None
    BY <1>18, RevokedRows DEF RevokeSubject
  <2>. QED
    BY <1>18, <2>1 DEF Access, RevokeSubject
<1>19. CASE UNCHANGED vars
  BY <1>19 DEF vars
<1>. QED
  BY <1>1, <1>3, <1>4, <1>5, <1>6, <1>7, <1>8, <1>9, <1>10, <1>11, <1>13, <1>14,
     <1>15, <1>16, <1>17, <1>18, <1>19 DEF Next, Step

\* Rows, cookies, tokens and calls keep their types, and whatever is presented
\* names a session that exists.
THEOREM TypeCorrectness == Spec => []TypeOK
BY InitType, NextType, PTL DEF Spec

-----------------------------------------------------------------------------
(* A session that is live and has not strayed is quiet: it is in one browser, *)
(* at most one call carries it, and what is presented next is its current     *)
(* token.                                                                     *)

Quiet(s) == session[s] # None /\ ~session[s].revoked /\ s \notin strayed

OneCarrier ==
  \A s \in Sids : Quiet(s) =>
    \A c, d \in Calls : Carries(c, s) /\ Carries(d, s) => c = d
OneHolder ==
  \A s \in Sids : Quiet(s) => \A b \in Browsers : cookie[b] = s =>
    /\ \A d \in Browsers : cookie[d] = s => d = b
    /\ \A c \in Calls : Carries(c, s) => Jar(c) = b
CarrierCurrent ==
  \A s \in Sids : Quiet(s) => \A c \in Calls : Carries(c, s) => c \in current
CookieCurrent ==
  \A s \in Sids : Quiet(s) => \A b \in Browsers : cookie[b] = s =>
    b \in current \/ \E c \in Calls : call[c].pc \in Rotated /\ call[c].sid = s
ReuseStrayed == \A c \in Calls : call[c].pc = "reuse" => call[c].sid \in strayed

QuietInv ==
  /\ TypeOK /\ OneCarrier /\ OneHolder /\ CarrierCurrent /\ CookieCurrent
  /\ ReuseStrayed /\ NoFalseAlarm

LEMMA InitQuiet == Init => QuietInv
<1>1. Idle.pc = "idle" /\ "idle" \notin Carrying
  BY DEF Idle, Carrying, Rotated
<1>. QED
  BY <1>1, InitType DEF Init, QuietInv, Quiet, OneCarrier, OneHolder, CarrierCurrent,
     CookieCurrent, ReuseStrayed, NoFalseAlarm

\* A step that leaves cookies and tokens alone and takes no session up.
LEMMA QuietKept ==
  ASSUME QuietInv, TypeOK',
         \A s \in Sids : Quiet(s)' => Quiet(s),
         \A c \in Calls, s \in Sids : Quiet(s)' /\ Carries(c, s)' =>
           Carries(c, s) /\ (call[c].pc \in Rotated <=> call'[c].pc \in Rotated),
         \A c \in Calls, s \in Sids :
           Quiet(s)' /\ Carries(c, s) /\ call[c].pc \in Rotated => Carries(c, s)',
         \A s \in Sids, b \in Browsers : Quiet(s)' /\ cookie'[b] = s =>
           cookie[b] = s /\ (b \in current => b \in current'),
         \A s \in Sids, c \in Calls : Quiet(s)' /\ Carries(c, s)' /\ c \in current => c \in current',
         \A c \in Calls : call'[c].pc = "reuse" => call'[c].sid \in strayed',
         alarmed' \subseteq strayed'
  PROVE  QuietInv'
<1> USE DEF QuietInv
<1>1. OneCarrier'
  BY DEF OneCarrier
<1>2. OneHolder'
  BY DEF OneHolder
<1>3. CarrierCurrent'
  BY DEF CarrierCurrent
<1>4. CookieCurrent'
  <2> SUFFICES ASSUME NEW s \in Sids, Quiet(s)', NEW b \in Browsers, cookie'[b] = s
               PROVE  b \in current' \/ \E c \in Calls : call'[c].pc \in Rotated /\ call'[c].sid = s
    BY DEF CookieCurrent
  <2>1. CASE b \in current
    BY <2>1
  <2>2. CASE \E c \in Calls : call[c].pc \in Rotated /\ call[c].sid = s
    <3>1. PICK c \in Calls : call[c].pc \in Rotated /\ call[c].sid = s
      BY <2>2
    <3>2. Carries(c, s)
      BY <3>1 DEF Carries, Carrying
    <3>3. Carries(c, s)'
      BY <3>1, <3>2
    <3>4. call'[c].pc \in Rotated /\ call'[c].sid = s
      BY <3>1, <3>3 DEF Carries
    <3>. QED
      BY <3>4
  <2>. QED
    BY <2>1, <2>2 DEF CookieCurrent
<1>. QED
  BY <1>1, <1>2, <1>3, <1>4 DEF ReuseStrayed, NoFalseAlarm

\* Refusing, dropping or moving one call along.
LEMMA CallMoves ==
  ASSUME QuietInv, TypeOK', NEW c \in Calls, NEW q, Become(c, q),
         \A s \in Sids : Quiet(s)' => Quiet(s),
         q.pc \in Carrying => call[c].pc \in Carrying /\ q.sid = call[c].sid,
         q.pc \in Carrying /\ Quiet(q.sid)' => (call[c].pc \in Rotated <=> q.pc \in Rotated),
         \A s \in Sids : q.pc \notin Carrying /\ call[c].pc \in Rotated /\ call[c].sid = s
           => ~Quiet(s)',
         \A s \in Sids, b \in Browsers : Quiet(s)' /\ cookie'[b] = s =>
           cookie[b] = s /\ (b \in current => b \in current'),
         \A d \in Calls : d \in current => d \in current' \/ (d = c /\ q.pc \notin Carrying),
         q.pc = "reuse" => q.sid \in strayed',
         strayed \subseteq strayed', alarmed' \subseteq strayed'
  PROVE  QuietInv'
<1> USE DEF Become, Carries
<1>1. call \in [Calls -> CallState]
  BY DEF QuietInv, TypeOK
<1>2. call'[c] = q /\ \A d \in Calls : d # c => call'[d] = call[d]
  BY <1>1
<1>3. \A d \in Calls, s \in Sids : Quiet(s)' /\ Carries(d, s)' =>
        Carries(d, s) /\ (call[d].pc \in Rotated <=> call'[d].pc \in Rotated)
  BY <1>2
<1>4. \A d \in Calls, s \in Sids :
        Quiet(s)' /\ Carries(d, s) /\ call[d].pc \in Rotated => Carries(d, s)'
  BY <1>2
<1>5. \A s \in Sids, d \in Calls : Quiet(s)' /\ Carries(d, s)' /\ d \in current => d \in current'
  BY <1>2
<1>6. \A d \in Calls : call'[d].pc = "reuse" => call'[d].sid \in strayed'
  BY <1>2 DEF QuietInv, ReuseStrayed
<1>. QED
  BY <1>3, <1>4, <1>5, <1>6, QuietKept

LEMMA NextQuiet == QuietInv /\ [Next]_vars => QuietInv'
<1> SUFFICES ASSUME QuietInv, [Next]_vars PROVE QuietInv'
  OBVIOUS
<1>0. TypeOK /\ TypeOK'
  BY NextType DEF QuietInv
<1>a. /\ \A pc \in Rotated : pc \in Carrying
      /\ "idle" \notin Carrying /\ "login" \notin Carrying /\ "logout" \notin Carrying
      /\ "denied" \notin Carrying /\ "cleared" \notin Carrying
      /\ "reuse" \notin Rotated /\ "refresh" \notin Rotated /\ "rotate" \notin Rotated
      /\ {"refresh", "reuse", "rotate"} \subseteq Carrying
      /\ {"actor", "inactive", "granted"} = Rotated
  BY DEF Carrying, Rotated
<1>b. /\ Idle.pc = "idle" /\ [Idle EXCEPT !.pc = "denied"].pc = "denied"
      /\ [Idle EXCEPT !.pc = "cleared"].pc = "cleared"
  BY DEF Idle
<1>1. ASSUME NEW p \in Pages, NEW m \in Staff, Login(p, m) PROVE QuietInv'
  <2> DEFINE c == <<p, "user">>
             q == [Idle EXCEPT !.pc = "login", !.staff = m]
  <2>1. q.pc = "login"
    BY DEF Idle
  <2>2. c \in Calls /\ Become(c, q) /\ call[c].pc = "idle"
        /\ UNCHANGED <<session, cookie, current, strayed, alarmed>>
    BY <1>1 DEF Login, Free, Busy, ghosts
  <2>3. \A s \in Sids : Quiet(s)' => Quiet(s)
    BY <2>2 DEF Quiet
  <2>. HIDE DEF c, q
  <2>. QED
    BY <1>0, <1>a, <2>1, <2>2, <2>3, CallMoves DEF QuietInv, NoFalseAlarm
<1>2. ASSUME NEW p \in Pages, Logout(p) PROVE QuietInv'
  <2> DEFINE c == <<p, "user">>
             q == [Idle EXCEPT !.pc = "logout", !.sid = cookie[Jar(c)]]
  <2>1. q.pc = "logout"
    BY DEF Idle
  <2>2. c \in Calls /\ Become(c, q) /\ call[c].pc = "idle"
        /\ UNCHANGED <<session, cookie, current, strayed, alarmed>>
    BY <1>2 DEF Logout, Free, Busy, ghosts
  <2>3. \A s \in Sids : Quiet(s)' => Quiet(s)
    BY <2>2 DEF Quiet
  <2>. HIDE DEF c, q
  <2>. QED
    BY <1>0, <1>a, <2>1, <2>2, <2>3, CallMoves DEF QuietInv, NoFalseAlarm
<1>3. ASSUME NEW p \in Pages, ExpireAccess(p) PROVE QuietInv'
  <2>1. UNCHANGED <<session, cookie, call, current, strayed, alarmed>>
    BY <1>3 DEF ExpireAccess, ghosts
  <2>2. \A s \in Sids : Quiet(s)' => Quiet(s)
    BY <2>1 DEF Quiet
  <2>. QED
    BY <1>0, <2>1, <2>2, QuietKept DEF QuietInv, ReuseStrayed, NoFalseAlarm, Carries
<1>4. ASSUME NEW m \in Staff, Disable(m) \/ Enable(m) PROVE QuietInv'
  <2>1. UNCHANGED <<session, cookie, call, current, strayed, alarmed>>
    BY <1>4 DEF Disable, Enable, ghosts
  <2>2. \A s \in Sids : Quiet(s)' => Quiet(s)
    BY <2>1 DEF Quiet
  <2>. QED
    BY <1>0, <2>1, <2>2, QuietKept DEF QuietInv, ReuseStrayed, NoFalseAlarm, Carries
<1>c. ASSUME NEW S, session' = Revoked(S), strayed' = strayed
      PROVE  \A s \in Sids : Quiet(s)' => Quiet(s) /\ s \notin S
  BY <1>c DEF Quiet, Revoked, Known, TypeOK, QuietInv, Row
<1>5. ASSUME NEW m \in Staff, RevokeSubject(m) PROVE QuietInv'
  <2>1. UNCHANGED <<cookie, call, current, strayed, alarmed>>
    BY <1>5 DEF RevokeSubject, ghosts
  <2>2. \A s \in Sids : Quiet(s)' => Quiet(s)
    BY <1>5, <1>c, <2>1 DEF RevokeSubject
  <2>. QED
    BY <1>0, <2>1, <2>2, QuietKept DEF QuietInv, ReuseStrayed, NoFalseAlarm, Carries
<1>d. ASSUME NEW c \in Calls, Refuse(c)
      PROVE  /\ Become(c, [Idle EXCEPT !.pc = "denied"])
             /\ current' = current \ {c}
  BY <1>d DEF Refuse
<1>e. ASSUME NEW c \in Calls, cookie' = cookie, current' = current \ {c}
      PROVE  /\ \A s \in Sids, b \in Browsers : cookie'[b] = s =>
                  cookie[b] = s /\ (b \in current => b \in current')
             /\ \A d \in Calls : d \in current => d \in current' \/ d = c
  BY <1>0, <1>e, CallFields
<1>f. \A c \in Calls : call[c].sid \in Sids \cup {None}
  BY <1>0 DEF TypeOK, CallState
<1>6. ASSUME NEW c \in Calls, RevokeFamily(c) \/ RevokeInactive(c) PROVE QuietInv'
  <2> DEFINE q == [Idle EXCEPT !.pc = "denied"]
  <2>1. /\ Become(c, q) /\ current' = current \ {c} /\ session' = Revoked({call[c].sid})
        /\ UNCHANGED <<cookie, strayed>> /\ q.pc \notin Carrying /\ q.pc # "reuse"
    BY <1>6, <1>a, <1>b, <1>d DEF RevokeFamily, RevokeInactive, ghosts
  <2>2. \A s \in Sids : Quiet(s)' => Quiet(s) /\ s # call[c].sid
    BY <1>c, <2>1
  <2>3. alarmed' \subseteq strayed'
    BY <1>6 DEF RevokeFamily, RevokeInactive, ghosts, QuietInv, NoFalseAlarm, ReuseStrayed
  <2>. HIDE DEF q
  <2>. QED
    BY <1>0, <1>e, <2>1, <2>2, <2>3, CallMoves
<1>7. ASSUME NEW c \in Calls, FindSession(c) PROVE QuietInv'
  <2>1. UNCHANGED <<session, cookie, strayed, alarmed>> /\ call[c].pc = "refresh"
    BY <1>7 DEF FindSession, ghosts
  <2>2. \A s \in Sids : Quiet(s)' => Quiet(s)
    BY <2>1 DEF Quiet
  <2>3. CASE Refuse(c)
    <3> DEFINE q == [Idle EXCEPT !.pc = "denied"]
    <3>1. Become(c, q) /\ current' = current \ {c} /\ q.pc \notin Carrying /\ q.pc # "reuse"
      BY <2>3, <1>a, <1>b, <1>d
    <3>. HIDE DEF q
    <3>. QED
      BY <1>0, <1>a, <1>e, <2>1, <2>2, <3>1, CallMoves DEF QuietInv, NoFalseAlarm
  <2>4. ASSUME NEW pc \in {"rotate", "reuse"}, Move(c, pc), UNCHANGED current,
               pc = "reuse" => c \notin current /\ ~session[call[c].sid].revoked
        PROVE  QuietInv'
    <3> DEFINE q == [call[c] EXCEPT !.pc = pc]
    <3>1. Become(c, q) /\ q.pc = pc /\ q.sid = call[c].sid
      BY <2>4, <1>0 DEF Move, Become, TypeOK, CallState
    <3>2. call[c].sid \in Sids /\ Carries(c, call[c].sid) /\ session[call[c].sid] # None
      BY <1>0, <1>a, <2>1 DEF TypeOK, Carries, Known
    <3>3. pc = "reuse" => call[c].sid \in strayed
      BY <2>4, <3>2 DEF QuietInv, CarrierCurrent, Quiet
    <3>. HIDE DEF q
    <3>. QED
      BY <1>0, <1>a, <2>1, <2>2, <2>4, <3>1, <3>3, CallMoves DEF QuietInv, NoFalseAlarm
  <2>. QED
    BY <1>7, <2>3, <2>4 DEF FindSession
<1>8. ASSUME NEW c \in Calls, CheckActor(c) PROVE QuietInv'
  <2>1. PICK pc \in Rotated : Move(c, pc)
    BY <1>8, <1>a DEF CheckActor
  <2>2. UNCHANGED <<session, cookie, current, strayed, alarmed>> /\ call[c].pc \in Rotated
    BY <1>8, <1>a DEF CheckActor, ghosts
  <2>3. \A s \in Sids : Quiet(s)' => Quiet(s)
    BY <2>2 DEF Quiet
  <2> DEFINE q == [call[c] EXCEPT !.pc = pc]
  <2>4. Become(c, q) /\ q.pc = pc /\ q.sid = call[c].sid
    BY <2>1, <1>0 DEF Move, Become, TypeOK, CallState
  <2>. HIDE DEF q
  <2>. QED
    BY <1>0, <1>a, <2>2, <2>3, <2>4, CallMoves DEF QuietInv, NoFalseAlarm
<1>9. ASSUME NEW c \in Calls, RevokeSession(c) PROVE QuietInv'
  <2> DEFINE q == [Idle EXCEPT !.pc = "cleared"]
  <2>1. /\ Become(c, q) /\ session' = Revoked({call[c].sid}) /\ call[c].pc = "logout"
        /\ UNCHANGED <<cookie, current, strayed, alarmed>>
        /\ q.pc \notin Carrying /\ q.pc # "reuse"
    BY <1>9, <1>a, <1>b DEF RevokeSession, ghosts
  <2>2. \A s \in Sids : Quiet(s)' => Quiet(s)
    BY <1>c, <2>1
  <2>. HIDE DEF q
  <2>. QED
    BY <1>0, <1>a, <2>1, <2>2, CallMoves DEF QuietInv, NoFalseAlarm
<1>10. ASSUME NEW c \in Calls, Denied(c) \/ Cleared(c) PROVE QuietInv'
  <2>1. /\ Become(c, Idle) /\ call[c].pc \notin Carrying
        /\ UNCHANGED <<session, strayed, alarmed>>
    BY <1>10, <1>a DEF Denied, Cleared, ghosts
  <2>2. \A s \in Sids, b \in Browsers : cookie'[b] = s =>
          cookie[b] = s /\ (b \in current => b \in current')
    BY <1>10, <1>0, CallFields, NoneAssumption DEF Denied, Cleared, TypeOK
  <2>3. \A d \in Calls : d \in current => d \in current'
    BY <1>10, <1>0, CallFields DEF Denied, Cleared
  <2>4. \A s \in Sids : Quiet(s)' => Quiet(s)
    BY <2>1 DEF Quiet
  <2>. QED
    BY <1>0, <1>a, <1>b, <2>1, <2>2, <2>3, <2>4, CallMoves DEF QuietInv, NoFalseAlarm
<1>11. ASSUME NEW c \in Calls, Fail(c) PROVE QuietInv'
  <2>1. /\ Become(c, Idle) /\ current' = current \ {c}
        /\ UNCHANGED <<session, cookie, alarmed>> /\ strayed \subseteq strayed'
        /\ call[c].pc \in Rotated => call[c].sid \in strayed'
    BY <1>11 DEF Fail
  <2>2. \A s \in Sids : Quiet(s)' => Quiet(s) /\ (call[c].pc \in Rotated => s # call[c].sid)
    BY <2>1 DEF Quiet
  <2>. QED
    BY <1>0, <1>a, <1>b, <1>e, <2>1, <2>2, CallMoves DEF QuietInv, NoFalseAlarm
<1>12. CASE UNCHANGED vars
  <2>1. UNCHANGED <<session, cookie, call, current, strayed, alarmed>>
    BY <1>12 DEF vars
  <2>2. \A s \in Sids : Quiet(s)' => Quiet(s)
    BY <2>1 DEF Quiet
  <2>. QED
    BY <1>0, <2>1, <2>2, QuietKept DEF QuietInv, ReuseStrayed, NoFalseAlarm, Carries
<1>13. ASSUME NEW c \in Calls, SendRefresh(c) PROVE QuietInv'
  <2> DEFINE s0 == cookie[Jar(c)]
  <2>0. Jar(c) \in Browsers /\ c \notin Browsers /\ call[c].pc = "idle"
    BY <1>13, <1>0, CallFields DEF SendRefresh, Free, Busy
  <2>1. CASE s0 = None
    <3> DEFINE q == [Idle EXCEPT !.pc = "denied"]
    <3>1. /\ Become(c, q) /\ current' = current \ {c} /\ q.pc \notin Carrying /\ q.pc # "reuse"
          /\ UNCHANGED <<session, cookie, strayed, alarmed>>
      BY <1>13, <2>1, <1>a, <1>b, <1>d DEF SendRefresh
    <3>2. \A s \in Sids : Quiet(s)' => Quiet(s)
      BY <3>1 DEF Quiet
    <3>. HIDE DEF q, s0
    <3>. QED
      BY <1>0, <1>a, <1>e, <2>0, <3>1, <3>2, CallMoves DEF QuietInv, NoFalseAlarm
  <2>2. CASE s0 # None
    <3> DEFINE q == [Idle EXCEPT !.pc = "refresh", !.sid = s0]
    <3>1. /\ Become(c, q) /\ current' = Copy(Jar(c), c) /\ UNCHANGED <<session, cookie, alarmed>>
          /\ strayed \subseteq strayed' /\ ((\E d \in Calls : Carries(d, s0)) => s0 \in strayed')
      BY <1>13, <2>2 DEF SendRefresh
    <3>2. q.pc = "refresh" /\ q.sid = s0
      BY DEF Idle
    <3>3. \A s \in Sids : Quiet(s)' => Quiet(s) /\ (s = s0 => \A d \in Calls : ~Carries(d, s0))
      BY <3>1 DEF Quiet
    <3>4. call'[c] = q /\ \A d \in Calls : d # c => call'[d] = call[d]
      BY <3>1, <1>0 DEF Become, TypeOK
    <3>. HIDE DEF q
    <3>5. \A d \in Calls, s \in Sids : Carries(d, s)' <=> IF d = c THEN s = s0 ELSE Carries(d, s)
      BY <3>2, <3>4, <1>a DEF Carries
    <3>6. OneCarrier'
      BY <3>3, <3>5 DEF OneCarrier, QuietInv
    <3>7. OneHolder'
      BY <2>0, <3>1, <3>3, <3>5 DEF OneHolder, QuietInv
    <3>8. \A b \in Browsers : b \in current => b \in current'
      BY <2>0, <3>1 DEF Copy
    <3>9. CarrierCurrent'
      <4> SUFFICES ASSUME NEW s \in Sids, Quiet(s)', NEW d \in Calls, Carries(d, s)'
                   PROVE  d \in current'
        BY DEF CarrierCurrent
      <4>1. CASE d = c
        <5>1. s = s0 /\ Quiet(s0) /\ \A e \in Calls : ~Carries(e, s0)
          BY <3>3, <3>5, <4>1
        <5>2. Jar(c) \in current
          BY <2>0, <5>1, <1>a DEF QuietInv, CookieCurrent, Carries
        <5>. QED
          BY <4>1, <5>2, <3>1 DEF Copy
      <4>2. CASE d # c
        <5>1. d \in current
          BY <3>3, <3>5, <4>2 DEF QuietInv, CarrierCurrent
        <5>. QED
          BY <5>1, <4>2, <3>1 DEF Copy
      <4>. QED
        BY <4>1, <4>2
    <3>10. CookieCurrent'
      BY <2>0, <3>1, <3>3, <3>4, <3>8, <1>a DEF CookieCurrent, QuietInv
    <3>11. ReuseStrayed' /\ NoFalseAlarm'
      BY <3>1, <3>2, <3>4 DEF ReuseStrayed, NoFalseAlarm, QuietInv
    <3>. QED
      BY <1>0, <3>6, <3>7, <3>9, <3>10, <3>11 DEF QuietInv
  <2>. QED
    BY <2>1, <2>2
<1>14. ASSUME NEW p \in Pages, LinkRefresh(p) \/ OpenPage(p) \/ TimerRefresh(p) PROVE QuietInv'
  BY <1>13, <1>14 DEF LinkRefresh, OpenPage, TimerRefresh, SendRefresh, Free
<1>15. ASSUME NEW c \in Calls, CreateSession(c) PROVE QuietInv'
  <2> DEFINE s0 == CHOOSE s \in Sids : session[s] = None
             q == [pc |-> "granted", sid |-> s0, staff |-> call[c].staff]
  <2>1. s0 \in Sids /\ session[s0] = None
    BY <1>15 DEF CreateSession, Known
  <2>2. /\ session' = [session EXCEPT ![s0] = [owner |-> call[c].staff, revoked |-> FALSE]]
        /\ Become(c, q) /\ current' = current \cup {c} /\ call[c].pc = "login"
        /\ UNCHANGED <<cookie, strayed, alarmed>>
    BY <1>15 DEF CreateSession, ghosts, Known
  <2>3. q.pc = "granted" /\ q.sid = s0
    OBVIOUS
  <2>. HIDE DEF q, s0
  <2>4. \A s \in Sids : s # s0 /\ Quiet(s)' => Quiet(s)
    BY <1>0, <2>1, <2>2 DEF Quiet, TypeOK
  <2>5. call'[c] = q /\ \A d \in Calls : d # c => call'[d] = call[d]
    BY <2>2, <1>0 DEF Become, TypeOK
  <2>6. \A d \in Calls, s \in Sids : Carries(d, s)' <=> IF d = c THEN s = s0 ELSE Carries(d, s)
    BY <2>3, <2>5, <1>a DEF Carries
  <2>7. (\A d \in Calls : ~Carries(d, s0)) /\ (\A b \in Browsers : cookie[b] # s0)
    BY <1>0, <2>1, NoneAssumption DEF TypeOK, Known, Carries
  <2>8. OneCarrier'
    BY <2>4, <2>6, <2>7 DEF OneCarrier, QuietInv
  <2>9. OneHolder'
    BY <2>2, <2>4, <2>6, <2>7, <1>0 DEF OneHolder, QuietInv, TypeOK
  <2>10. CarrierCurrent'
    BY <2>2, <2>4, <2>6, <2>7 DEF CarrierCurrent, QuietInv
  <2>11. CookieCurrent'
    BY <2>2, <2>4, <2>5, <2>7, <1>a DEF CookieCurrent, QuietInv
  <2>12. ReuseStrayed' /\ NoFalseAlarm'
    BY <2>2, <2>3, <2>5 DEF ReuseStrayed, NoFalseAlarm, QuietInv
  <2>. QED
    BY <1>0, <2>8, <2>9, <2>10, <2>11, <2>12 DEF QuietInv
<1>16. ASSUME NEW c \in Calls, Rotate(c) PROVE QuietInv'
  <2> DEFINE s0 == call[c].sid
             q == [call[c] EXCEPT !.pc = "actor"]
  <2>1. /\ UNCHANGED <<session, cookie, strayed, alarmed>> /\ call[c].pc = "rotate"
        /\ current' = IF session[s0].revoked THEN current \ {c}
                      ELSE (current \ CopiesOf(s0)) \cup {c}
    BY <1>16 DEF Rotate, ghosts
  <2>2. Become(c, q) /\ q.pc = "actor" /\ q.sid = s0
    BY <1>16, <1>0 DEF Rotate, Move, Become, TypeOK, CallState
  <2>3. s0 \in Sids /\ Carries(c, s0)
    BY <2>1, <1>0, <1>a DEF TypeOK, Carries
  <2>4. call'[c] = q /\ \A d \in Calls : d # c => call'[d] = call[d]
    BY <2>2, <1>0 DEF Become, TypeOK
  <2>. HIDE DEF q, s0
  <2>5. \A s \in Sids : Quiet(s)' <=> Quiet(s)
    BY <2>1 DEF Quiet
  <2>6. \A d \in Calls, s \in Sids : Carries(d, s)' <=> Carries(d, s)
    BY <2>2, <2>3, <2>4, <1>a DEF Carries
  <2>7. OneCarrier' /\ OneHolder'
    BY <2>1, <2>5, <2>6 DEF OneCarrier, OneHolder, QuietInv
  <2>8. CarrierCurrent'
    <3> SUFFICES ASSUME NEW s \in Sids, Quiet(s), NEW d \in Calls, Carries(d, s)
                 PROVE  d \in current'
      BY <2>5, <2>6 DEF CarrierCurrent
    <3>1. d \in current
      BY DEF QuietInv, CarrierCurrent
    <3>2. CASE d = c
      BY <2>1, <2>3, <3>2 DEF Quiet, Carries
    <3>3. CASE d # c
      <4>1. s # s0
        BY <2>3, <3>3 DEF QuietInv, OneCarrier
      <4>2. d \notin CopiesOf(s0)
        BY <4>1, <1>0, CallFields DEF CopiesOf, Carries
      <4>. QED
        BY <2>1, <3>1, <3>3, <4>2
    <3>. QED
      BY <3>2, <3>3
  <2>9. CookieCurrent'
    <3> SUFFICES ASSUME NEW s \in Sids, Quiet(s), NEW b \in Browsers, cookie[b] = s
                 PROVE  b \in current' \/ \E d \in Calls : call'[d].pc \in Rotated /\ call'[d].sid = s
      BY <2>1, <2>5 DEF CookieCurrent
    <3>1. CASE s = s0
      BY <2>2, <2>4, <3>1, <1>a
    <3>2. CASE s # s0
      <4>1. b \in current => b \in current'
        <5>1. b \notin CopiesOf(s0) /\ b # c
          BY <3>2, CallFields, <1>0 DEF CopiesOf
        <5>. QED
          BY <2>1, <5>1
      <4>2. ASSUME NEW d \in Calls, call[d].pc \in Rotated, call[d].sid = s
            PROVE  call'[d].pc \in Rotated /\ call'[d].sid = s
        BY <2>1, <2>4, <4>2, <1>a
      <4>. QED
        BY <4>1, <4>2 DEF QuietInv, CookieCurrent
    <3>. QED
      BY <3>1, <3>2
  <2>10. ReuseStrayed' /\ NoFalseAlarm'
    BY <2>1, <2>2, <2>4 DEF ReuseStrayed, NoFalseAlarm, QuietInv
  <2>. QED
    BY <1>0, <2>7, <2>8, <2>9, <2>10 DEF QuietInv
<1>17. ASSUME NEW c \in Calls, Granted(c) PROVE QuietInv'
  <2> DEFINE s0 == call[c].sid
             b0 == Jar(c)
  <2>1. /\ UNCHANGED <<session, strayed, alarmed>> /\ call[c].pc = "granted" /\ Become(c, Idle)
        /\ cookie' = [cookie EXCEPT ![b0] = s0] /\ current' = Copy(c, b0) \ {c}
    BY <1>17 DEF Granted, SetCookie, ghosts
  <2>2. s0 \in Sids /\ Carries(c, s0) /\ b0 \in Browsers /\ c \notin Browsers
    BY <2>1, <1>0, <1>a, CallFields DEF TypeOK, Carries
  <2>3. call'[c] = Idle /\ \A d \in Calls : d # c => call'[d] = call[d]
    BY <2>1, <1>0 DEF Become, TypeOK
  <2>4. cookie'[b0] = s0 /\ \A b \in Browsers : b # b0 => cookie'[b] = cookie[b]
    BY <2>1, <2>2, <1>0 DEF TypeOK
  <2>. HIDE DEF s0, b0
  <2>5. \A s \in Sids : Quiet(s)' <=> Quiet(s)
    BY <2>1 DEF Quiet
  <2>6. \A d \in Calls, s \in Sids : Carries(d, s)' <=> d # c /\ Carries(d, s)
    BY <2>3, <1>a, <1>b DEF Carries
  <2>7. OneCarrier'
    BY <2>5, <2>6 DEF OneCarrier, QuietInv
  <2>8. OneHolder'
    <3>1. Quiet(s0) => \A b \in Browsers : cookie[b] = s0 => b = b0
      BY <2>2 DEF QuietInv, OneHolder, b0
    <3>2. Quiet(s0) => \A d \in Calls : Carries(d, s0) => d = c
      BY <2>2 DEF QuietInv, OneCarrier
    <3> SUFFICES ASSUME NEW s \in Sids, Quiet(s), NEW b \in Browsers, cookie'[b] = s
                 PROVE  /\ \A d \in Browsers : cookie'[d] = s => d = b
                        /\ \A d \in Calls : Carries(d, s)' => Jar(d) = b
      BY <2>5 DEF OneHolder, Jar, Page
    <3>3. CASE s = s0
      BY <2>2, <2>4, <2>6, <3>1, <3>2, <3>3
    <3>4. CASE s # s0
      BY <2>4, <2>6, <3>4 DEF QuietInv, OneHolder
    <3>. QED
      BY <3>3, <3>4
  <2>9. CarrierCurrent'
    BY <2>1, <2>2, <2>5, <2>6, CallsAssumption DEF CarrierCurrent, QuietInv, Copy
  <2>10. CookieCurrent'
    <3> SUFFICES ASSUME NEW s \in Sids, Quiet(s), NEW b \in Browsers, cookie'[b] = s
                 PROVE  b \in current' \/ \E d \in Calls : call'[d].pc \in Rotated /\ call'[d].sid = s
      BY <2>5 DEF CookieCurrent
    <3>1. CASE b = b0
      <4>1. c \in current
        BY <2>2, <2>4, <3>1 DEF QuietInv, CarrierCurrent
      <4>. QED
        BY <2>1, <2>2, <3>1, <4>1 DEF Copy
    <3>2. CASE b # b0
      <4>1. cookie[b] = s /\ (b \in current => b \in current')
        BY <2>1, <2>2, <2>4, <3>2 DEF Copy
      <4>2. s # s0
        BY <2>2, <3>2, <4>1 DEF QuietInv, OneHolder, b0
      <4>3. ASSUME NEW d \in Calls, call[d].pc \in Rotated, call[d].sid = s
            PROVE  call'[d].pc \in Rotated /\ call'[d].sid = s
        BY <2>3, <4>2, <4>3 DEF s0
      <4>. QED
        BY <4>1, <4>3 DEF QuietInv, CookieCurrent
    <3>. QED
      BY <3>1, <3>2
  <2>11. ReuseStrayed' /\ NoFalseAlarm'
    BY <2>1, <2>3, <1>b DEF ReuseStrayed, NoFalseAlarm, QuietInv
  <2>. QED
    BY <1>0, <2>7, <2>8, <2>9, <2>10, <2>11 DEF QuietInv
<1>. QED
  BY <1>1, <1>2, <1>3, <1>4, <1>5, <1>6, <1>7, <1>8, <1>9, <1>10, <1>11, <1>12,
     <1>14, <1>15, <1>16, <1>17 DEF Next, Step

\* A session is revoked for reuse of its refresh token only after two of its
\* refreshes were under way at once or the answer to one was lost.
THEOREM AlarmsAreExplained == Spec => []NoFalseAlarm
<1>1. QuietInv => NoFalseAlarm
  BY DEF QuietInv
<1>. QED
  BY <1>1, InitQuiet, NextQuiet, PTL DEF Spec

=============================================================================
