------------------------------ MODULE WebServer ------------------------------
(***************************************************************************)
(* Logins behind their limiter: web/middleware.py lets a login through to  *)
(* web/routes.py only if the limiter of logins accepts it.                 *)
(***************************************************************************)
EXTENDS RateLimiter, Sessions

ASSUME WebAssumption == Login = Request

webVars == <<clock, limiterVars, sessionsVars>>

Init == LimiterInit /\ SessionsInit

\* security_middleware: a login that is refused gets no further.
LoginRequest(k, l) == Check(k, l) /\ UNCHANGED sessionsVars

\* The route, for a login that was let through.
LoginRoute(l) ==
    /\ \E k \in Key : l \in accepted[k]
    /\ LoginStep(l) /\ UNCHANGED limiterVars

Next ==
    \/ \E k \in Key, l \in Login : LoginRequest(k, l)
    \/ \E l \in Login : LoginRoute(l)
    \/ OtherStep /\ UNCHANGED limiterVars
    \/ Sweep /\ UNCHANGED sessionsVars
    \/ LimiterTick /\ UNCHANGED sessionsVars

Spec == Init /\ [][Next]_webVars

\* The variables of both parts hold values the program's own can; only a login that was
\* let through has got to the password check (middleware.py:34-37).
TypeOK ==
    /\ LimiterTypeOK /\ SessionsTypeOK
    /\ \A l \in Login : login[l] # "new" => \E k \in Key : l \in accepted[k]
=============================================================================
