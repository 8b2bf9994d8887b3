------------------------------ MODULE MCSession ------------------------------
(* Session in four scenes: two requests and no user; one request and the    *)
(* user who logs in, or logs out, of an app that has just come up with an   *)
(* expired token; one request and no user, with a restart.                  *)
EXTENDS Session

CONSTANTS r1, r2

VARIABLE scene

\* The roles could not be read, the session was restored, refreshSession() runs.
JustRestored ==
  /\ access = 1 /\ refresh = 1 /\ uuid = TRUE
  /\ authed = TRUE /\ needsRelogin = FALSE /\ offlineExpired = FALSE
  /\ phase = "up" /\ keep = TRUE /\ relogin = FALSE
  /\ call = [c \in Callers |->
               IF c = Boot THEN [Idle EXCEPT !.kind = "refresh",
                                             !.stage = "reading"]
               ELSE Idle]
  /\ fix = NoFix
  /\ issued = 1 /\ expired = 1 /\ revoked = {} /\ spent = {} /\ orphans = {}
  /\ parent = [p \in Pairs |-> 0]
  /\ rejected = FALSE /\ quit = FALSE /\ overlapped = FALSE
  /\ starts = 1 /\ logins = 0

MCInit == \/ Init /\ scene \in {"requests", "restart"}
          \/ JustRestored /\ scene \in {"login", "logout"}

MCNext ==
  /\ Next /\ UNCHANGED scene
  /\ scene # "requests" => ~Ask(r2)
  /\ scene # "login" => ~Login
  /\ scene # "logout" => ~Logout
  /\ scene \in {"login", "logout"} => phase' = "up"
  /\ scene = "requests" => starts' <= 1 /\ expired' <= 1
  /\ scene \in {"logout", "restart"} => issued' <= 2

MCFairSpec == MCInit /\ [][MCNext]_<<vars, scene>> /\ Fairness
=============================================================================
