---------------------------- MODULE AuthSessions ----------------------------
(***************************************************************************)
(* Staff sessions: auth-session.service.ts and the resolvers and services  *)
(* that create, rotate and revoke a session, with the pages of the shop    *)
(* console (admin-web) that share one refresh cookie per browser.          *)
(*                                                                         *)
(* A page keeps a short access token in memory and asks for another from   *)
(* two places that do not know of each other: the error link of its        *)
(* client, and its own timer, which also runs when the page is opened.     *)
(* Every await of the server is a step.  A call whose connection breaks    *)
(* ends both at the page and at the server, at any step.                   *)
(***************************************************************************)
EXTENDS FiniteSets, Naturals

CONSTANTS
  Staff, Browsers, Pages, Sids, None,
  BrowserOf,  \* the browser each page is open in
  Calls,      \* the calls that may be under way: page, and whether its user
              \* asks or the page on its own
  MaxCalls    \* those under way when a user starts another or opens a page

ASSUME BrowserAssumption == BrowserOf \in [Pages -> Browsers]
ASSUME CallsAssumption ==
  /\ Calls \subseteq Pages \X {"own", "user"}
  /\ Calls \cap Browsers = {}
ASSUME MaxCallsAssumption == MaxCalls \in Nat

VARIABLES
  active,   \* members with Staff.status ACTIVE
  session,  \* AuthSession rows
  cookie,   \* the session whose refresh token is the cookie of each browser
  access,   \* the access token in the memory of each page
  call,     \* local state of the calls of each page
  current,  \* browsers and calls whose refresh token has the hash in its row
  strayed,  \* sessions with two refreshes at once, or a rotated token lost
  alarmed   \* sessions revoked for refresh_reuse_detected

vars == <<active, session, cookie, access, call, current, strayed, alarmed>>
ghosts == <<strayed, alarmed>>

Page(c) == c[1]
Jar(c) == BrowserOf[Page(c)]

Row == [owner: Staff, revoked: BOOLEAN]
Access == [sid: Sids, fresh: BOOLEAN]
ASSUME NoneAssumption ==
  None \notin Staff /\ None \notin Sids /\ None \notin Row /\ None \notin Access
Rotated == {"actor", "inactive", "granted"}
Carrying == {"refresh", "reuse", "rotate"} \cup Rotated
CallState ==
  [pc: {"login", "logout", "cleared", "denied", "idle"} \cup Carrying,
   sid: Sids \cup {None}, staff: Staff \cup {None}]

Idle == [pc |-> "idle", sid |-> None, staff |-> None]

Init ==
  /\ active = Staff
  /\ session = [s \in Sids |-> None]
  /\ cookie = [b \in Browsers |-> None]
  /\ access = [p \in Pages |-> None]
  /\ call = [c \in Calls |-> Idle]
  /\ current = {} /\ strayed = {} /\ alarmed = {}

-----------------------------------------------------------------------------
Busy(c) == call[c].pc # "idle"
Carries(c, s) == call[c].pc \in Carrying /\ call[c].sid = s

Known(s) == session[s] # None

\* A new token differs from every other, so a token that is not the current
\* one of its session never will be.
CopiesOf(s) == {b \in Browsers : cookie[b] = s} \cup {c \in Calls : Carries(c, s)}
Copy(from, to) == IF from \in current THEN current \cup {to} ELSE current \ {to}

\* Mutant: the rows are deleted.
RevokedByDeletion(S) == [s \in Sids |-> IF s \in S THEN None ELSE session[s]]

Revoked(S) == [s \in Sids |-> IF s \in S /\ Known(s)
                              THEN [session[s] EXCEPT !.revoked = TRUE]
                              ELSE session[s]]

\* JwtStrategy.validate and requireLiveSession, on every call.
Accepted(p) ==
  access[p] # None /\ access[p].fresh /\ ~session[access[p].sid].revoked

Room == Cardinality({c \in Calls : Busy(c)}) < MaxCalls
Free(c) == c \in Calls /\ ~Busy(c)
Become(c, q) == call' = [call EXCEPT ![c] = q]
Move(c, pc) == call' = [call EXCEPT ![c].pc = pc]
Refuse(c) == Become(c, [Idle EXCEPT !.pc = "denied"]) /\ current' = current \ {c}

-----------------------------------------------------------------------------
(* Login: authenticateStaff, then createSession. *)

Login(p, m) ==
  LET c == <<p, "user">> IN
  /\ Free(c) /\ Room
  /\ access[p] = None
  /\ m \in active
  /\ Become(c, [Idle EXCEPT !.pc = "login", !.staff = m])
  /\ UNCHANGED <<active, session, cookie, access, current, ghosts>>

CreateSession(c) ==
  LET s == CHOOSE s \in Sids : ~Known(s) IN
  /\ call[c].pc = "login"
  /\ \E s0 \in Sids : ~Known(s0)
  /\ session' = [session EXCEPT ![s] = [owner |-> call[c].staff, revoked |-> FALSE]]
  /\ Become(c, [pc |-> "granted", sid |-> s, staff |-> call[c].staff])
  /\ current' = current \cup {c}
  /\ UNCHANGED <<active, cookie, access, ghosts>>

-----------------------------------------------------------------------------
(* refreshSession. *)

\* Without a cookie the answer is "Login required".
SendRefresh(c) ==
  LET s == cookie[Jar(c)] IN
  /\ Free(c)
  /\ IF s = None
     THEN Refuse(c) /\ UNCHANGED strayed
     ELSE /\ Become(c, [Idle EXCEPT !.pc = "refresh", !.sid = s])
          /\ current' = Copy(Jar(c), c)
          /\ strayed' = IF \E d \in Calls : Carries(d, s)
                        THEN strayed \cup {s} ELSE strayed
  /\ UNCHANGED <<active, session, cookie, access, alarmed>>

\* refreshAccessToken: what the user asked for was answered UNAUTHENTICATED and
\* waits for the one refresh that all such calls of a page share.
LinkRefresh(p) == access[p] # None /\ ~Accepted(p) /\ Room /\ SendRefresh(<<p, "user">>)

\* restoreSession, when the page is opened without an access token.
OpenPage(p) == access[p] = None /\ Room /\ SendRefresh(<<p, "own">>)

\* The timer of the page, set for 30 seconds before expiry.
TimerRefresh(p) == access[p] # None /\ SendRefresh(<<p, "own">>)

\* The row is revoked, keeps the hash of this token, or that of another one.
FindSession(c) ==
  /\ call[c].pc = "refresh"
  /\ IF session[call[c].sid].revoked
     THEN Refuse(c)
     ELSE /\ Move(c, IF c \in current THEN "rotate" ELSE "reuse")
          /\ UNCHANGED current
  /\ UNCHANGED <<active, session, cookie, access, ghosts>>

\* revokeFamily: every login starts a family of one session.
RevokeFamily(c) ==
  /\ call[c].pc = "reuse"
  /\ session' = Revoked({call[c].sid})
  /\ alarmed' = alarmed \cup {call[c].sid}
  /\ Refuse(c)
  /\ UNCHANGED <<active, cookie, access, strayed>>

\* UPDATE ... WHERE "revokedAt" IS NULL; how many rows it met is not looked at.
Rotate(c) ==
  LET s == call[c].sid IN
  /\ call[c].pc = "rotate"
  /\ current' = IF session[s].revoked THEN current \ {c}
                ELSE (current \ CopiesOf(s)) \cup {c}
  /\ Move(c, "actor")
  /\ UNCHANGED <<active, session, cookie, access, ghosts>>

\* Mutant: whoever has a session gets a token.
MayActAnyway(m) == TRUE

\* staffActor: an ACTIVE member.
MayAct(m) == m \in active

CheckActor(c) ==
  /\ call[c].pc = "actor"
  /\ Move(c, IF MayAct(session[call[c].sid].owner) THEN "granted" ELSE "inactive")
  /\ UNCHANGED <<active, session, cookie, access, current, ghosts>>

RevokeInactive(c) ==
  /\ call[c].pc = "inactive"
  /\ session' = Revoked({call[c].sid})
  /\ Refuse(c)
  /\ UNCHANGED <<active, cookie, access, ghosts>>

-----------------------------------------------------------------------------
(* Logout: the page forgets its token and then tells the server. *)

Logout(p) ==
  LET c == <<p, "user">> IN
     /\ Free(c) /\ Room
     /\ access[p] # None
     /\ access' = [access EXCEPT ![p] = None]
     /\ Become(c, [Idle EXCEPT !.pc = "logout", !.sid = cookie[Jar(c)]])
     /\ UNCHANGED <<active, session, cookie, current, ghosts>>

RevokeSession(c) ==
  /\ call[c].pc = "logout"
  /\ session' = Revoked({call[c].sid})
  /\ Become(c, [Idle EXCEPT !.pc = "cleared"])
  /\ UNCHANGED <<active, cookie, access, current, ghosts>>

-----------------------------------------------------------------------------
(* Answers. *)

\* Mutant: a refresh does not send its new token.
SetCookieOnLogin(c) ==
  /\ cookie' = [cookie EXCEPT ![Jar(c)] = IF @ = None THEN call[c].sid ELSE @]
  /\ current' = (IF cookie[Jar(c)] = None THEN Copy(c, Jar(c)) ELSE current) \ {c}

\* setRefreshCookie.
SetCookie(c) ==
  /\ cookie' = [cookie EXCEPT ![Jar(c)] = call[c].sid]
  /\ current' = Copy(c, Jar(c)) \ {c}

Granted(c) ==
  /\ call[c].pc = "granted"
  /\ SetCookie(c)
  /\ access' = [access EXCEPT ![Page(c)] = [sid |-> call[c].sid, fresh |-> TRUE]]
  /\ Become(c, Idle)
  /\ UNCHANGED <<active, session, ghosts>>

\* Mutant: the page goes on with the token it has.
StayAnyway(p) == access

\* Any refusal makes the page forget its token.
Leave(p) == [access EXCEPT ![p] = None]

Denied(c) ==
  /\ call[c].pc = "denied"
  /\ access' = Leave(Page(c))
  /\ Become(c, Idle)
  /\ UNCHANGED <<active, session, cookie, current, ghosts>>

\* clearRefreshCookie, whatever the cookie has become since.
Cleared(c) ==
  /\ call[c].pc = "cleared"
  /\ cookie' = [cookie EXCEPT ![Jar(c)] = None]
  /\ current' = current \ {Jar(c)}
  /\ access' = Leave(Page(c))
  /\ Become(c, Idle)
  /\ UNCHANGED <<active, session, ghosts>>

\* The connection breaks or the server dies: no answer, and no cookie.  After
\* a login the form shows the error; after the rest the page forgets its token.
Fail(c) ==
  /\ Busy(c)
  /\ strayed' = IF call[c].pc \in Rotated THEN strayed \cup {call[c].sid} ELSE strayed
  /\ access' = IF call[c].staff = None THEN Leave(Page(c)) ELSE access
  /\ Become(c, Idle)
  /\ current' = current \ {c}
  /\ UNCHANGED <<active, session, cookie, alarmed>>

-----------------------------------------------------------------------------
(* Members, and time. *)

\* deleteStaffUser and deleteStaff.
Disable(m) ==
  /\ m \in active
  /\ active' = active \ {m}
  /\ UNCHANGED <<session, cookie, access, call, current, ghosts>>

\* updateStaff with status ACTIVE.
Enable(m) ==
  /\ m \notin active
  /\ active' = active \cup {m}
  /\ UNCHANGED <<session, cookie, access, call, current, ghosts>>

\* The second statement of deleteStaffUser (deleteStaff has none), of
\* updateStaffRole, changePassword and resetStaffPassword, and
\* logoutAllSessions.  It never runs when the server dies after the first.
RevokeSubject(m) ==
  /\ session' = Revoked({s \in Sids : Known(s) /\ session[s].owner = m})
  /\ UNCHANGED <<active, cookie, access, call, current, ghosts>>

ExpireAccess(p) ==
  /\ access[p] # None /\ access[p].fresh
  /\ access' = [access EXCEPT ![p].fresh = FALSE]
  /\ UNCHANGED <<active, session, cookie, call, current, ghosts>>

-----------------------------------------------------------------------------
Step(c) ==
  \/ CreateSession(c)
  \/ FindSession(c) \/ RevokeFamily(c) \/ Rotate(c) \/ CheckActor(c) \/ RevokeInactive(c)
  \/ RevokeSession(c)
  \/ Granted(c) \/ Denied(c) \/ Cleared(c) \/ Fail(c)

Next ==
  \/ \E p \in Pages :
       \/ \E m \in Staff : Login(p, m)
       \/ LinkRefresh(p) \/ OpenPage(p) \/ TimerRefresh(p) \/ Logout(p) \/ ExpireAccess(p)
  \/ \E c \in Calls : Step(c)
  \/ \E m \in Staff :
       Disable(m) \/ Enable(m) \/ RevokeSubject(m)

\* Calls end, access tokens expire, and timers fire.
Fairness ==
  /\ \A c \in Calls : WF_vars(Step(c))
  /\ \A p \in Pages : WF_vars(TimerRefresh(p)) /\ WF_vars(ExpireAccess(p))

Spec == Init /\ [][Next]_vars /\ Fairness

-----------------------------------------------------------------------------
\* Rows, cookies, tokens and calls keep their shape; whatever is presented
\* names a session that exists.
TypeOK ==
  /\ active \subseteq Staff
  /\ session \in [Sids -> Row \cup {None}]
  /\ cookie \in [Browsers -> Sids \cup {None}]
  /\ access \in [Pages -> Access \cup {None}]
  /\ call \in [Calls -> CallState]
  /\ current \subseteq Browsers \cup Calls
  /\ strayed \subseteq Sids /\ alarmed \subseteq Sids
  /\ \A b \in Browsers : cookie[b] # None => Known(cookie[b])
  /\ \A p \in Pages : access[p] # None => Known(access[p].sid)
  /\ \A c \in Calls : call[c].pc \in Carrying => call[c].sid \in Sids /\ Known(call[c].sid)
  /\ \A c \in Calls : call[c].pc = "login" => call[c].staff \in Staff

\* rotateRefreshToken takes a session for stolen only after two refreshes of
\* it were under way at once or the answer to one was lost: pages that take
\* turns, other logins in the same browser, logouts and members disabled
\* never look like a theft.
NoFalseAlarm == alarmed \subseteq strayed

\* A member who stays disabled is shut out in the end, even when nobody
\* revokes the sessions (deleteStaff), the server dies before it does, or a
\* login that began before creates a session after.
DisabledLoseAccess ==
  \A m \in Staff :
    <>[](m \notin active) =>
      <>[](\A p \in Pages : Accepted(p) => session[access[p].sid].owner # m)

\* A page does not stay on a session that is revoked, as after a logout that
\* a refresh under way overtakes: it ends without a token or with a live one.
Dead(p) == access[p] # None /\ session[access[p].sid].revoked
DeadPagesLeave == \A p \in Pages : Dead(p) ~> ~Dead(p)

=============================================================================
