--------------------------- MODULE MCAuthSessions ---------------------------
(* Two pages of the shop console in one browser. *)
EXTENDS AuthSessions, TLC

CONSTANTS b1, p1, p2
OneBrowser == p1 :> b1 @@ p2 :> b1
AllCalls == Pages \X {"own", "user"}
=============================================================================
