------------------------------- MODULE Sessions -------------------------------
(***************************************************************************)
(* Logins and sessions: web/routes.py, web/auth.py and web/user_store.py   *)
(* in the server, cli/manage_users.py in a process of its own.  Every      *)
(* function of user_store is one SQLite transaction, hence one step; a     *)
(* login is three steps, since the password is checked in a thread while   *)
(* the event loop and the command line go on.                              *)
(*                                                                         *)
(* A login is its own token.  Passwords are compared, never hashed here.   *)
(***************************************************************************)
EXTENDS WebClock

CONSTANTS
    User, Password, Login,
    None,       \* no such user
    Expiry,     \* SESSION_EXPIRY_SECONDS
    MaxChanges  \* bound of epoch

ASSUME SessionsAssumption ==
    None \notin Password /\ Expiry \in Nat /\ MaxChanges \in Nat

VARIABLES
    users,      \* the table users: a password, or None for no row
    sessions,   \* the table sessions: the tokens that have a row
    owner,      \* username of each token
    expires,    \* expires_at of each token
    login,      \* where each login is
    saw,        \* the stored password it has read
    tried,      \* the password it was given
    \* history, for the properties:
    epoch,      \* the times a user's row was written or removed
    since,      \* epoch of the owner when the session was created
    loggedOut

loginVars == <<login, saw, tried>>
rowVars == <<owner, expires, since>>
sessionsVars == <<users, sessions, owner, expires, login, saw, tried, epoch, since, loggedOut>>

SessionsInit ==
    /\ clock = 0
    /\ users \in [User -> Password \cup {None}]
    /\ sessions = {} /\ loggedOut = {}
    /\ owner \in [Login -> User] /\ tried \in [Login -> Password]
    /\ expires = [l \in Login |-> 0]
    /\ login = [l \in Login |-> "new"]
    /\ saw = [l \in Login |-> None]
    /\ epoch = [u \in User |-> 0] /\ since = [l \in Login |-> 0]
-----------------------------------------------------------------------------
(* The server.                                                             *)

GetHash(l) ==
    /\ login[l] = "new"
    /\ saw' = [saw EXCEPT ![l] = users[owner[l]]]
    /\ login' = [login EXCEPT ![l] = "checking"]
    /\ UNCHANGED <<clock, users, sessions, tried, epoch, rowVars, loggedOut>>

\* checkpw ran against the stored hash, or against the dummy one.
CheckPassword(l) ==
    /\ login[l] = "checking"
    /\ login' = [login EXCEPT ![l] = IF saw[l] = tried[l] THEN "matches" ELSE "refused"]
    /\ UNCHANGED <<clock, users, sessions, saw, tried, epoch, rowVars, loggedOut>>

CreateSession(l) ==
    /\ login[l] = "matches"
    /\ login' = [login EXCEPT ![l] = "done"]
    /\ sessions' = sessions \cup {l}
    /\ expires' = [expires EXCEPT ![l] = clock + Expiry]
    /\ since' = [since EXCEPT ![l] = epoch[owner[l]]]
    /\ UNCHANGED <<clock, users, owner, saw, tried, epoch, loggedOut>>

Logout(l) ==
    /\ login[l] = "done" /\ l \notin loggedOut
    /\ sessions' = sessions \ {l}
    /\ loggedOut' = loggedOut \cup {l}
    /\ UNCHANGED <<clock, users, loginVars, epoch, rowVars>>

\* Mutant: a session is purged in its last second.
PurgeEarly ==
    /\ sessions' = {l \in sessions : expires[l] > clock + 1}
    /\ UNCHANGED <<clock, users, loginVars, epoch, rowVars, loggedOut>>

PurgeExpired ==
    /\ sessions' = {l \in sessions : expires[l] > clock}
    /\ UNCHANGED <<clock, users, loginVars, epoch, rowVars, loggedOut>>

\* validate_session: the token is accepted.
Authenticates(l) == l \in sessions /\ expires[l] > clock /\ users[owner[l]] # None
-----------------------------------------------------------------------------
(* The command line, a process of its own.                                 *)

\* Mutant: only the password is written.
UpsertOnly(u, p) ==
    /\ epoch[u] < MaxChanges /\ epoch' = [epoch EXCEPT ![u] = @ + 1]
    /\ users' = [users EXCEPT ![u] = p]
    /\ UNCHANGED <<clock, sessions, loginVars, rowVars, loggedOut>>

UpsertUser(u, p) ==
    /\ epoch[u] < MaxChanges /\ epoch' = [epoch EXCEPT ![u] = @ + 1]
    /\ users' = [users EXCEPT ![u] = p]
    /\ sessions' = {l \in sessions : owner[l] # u}
    /\ UNCHANGED <<clock, loginVars, rowVars, loggedOut>>

DeleteUser(u) ==
    /\ epoch[u] < MaxChanges /\ epoch' = [epoch EXCEPT ![u] = @ + 1]
    /\ users' = [users EXCEPT ![u] = None]
    /\ sessions' = {l \in sessions : owner[l] # u}
    /\ UNCHANGED <<clock, loginVars, rowVars, loggedOut>>

SessionsTick ==
    /\ clock < MaxTime /\ clock' = clock + 1
    /\ UNCHANGED sessionsVars

LoginStep(l) == GetHash(l) \/ CheckPassword(l) \/ CreateSession(l)
OtherStep ==
    \/ \E l \in Login : Logout(l)
    \/ \E u \in User : DeleteUser(u) \/ \E p \in Password : UpsertUser(u, p)
    \/ PurgeExpired

SessionsNext == (\E l \in Login : LoginStep(l)) \/ OtherStep \/ SessionsTick
SessionsSpec == SessionsInit /\ [][SessionsNext]_<<clock, sessionsVars>>
-----------------------------------------------------------------------------
(* Properties.                                                             *)

\* The variables hold values the program's own can (user_store.py:24-40); only a login
\* whose password matched has a session.
SessionsTypeOK ==
    /\ clock \in Nat
    /\ users \in [User -> Password \cup {None}]
    /\ sessions \subseteq {l \in Login : login[l] = "done"}
    /\ owner \in [Login -> User] /\ expires \in [Login -> Nat]
    /\ login \in [Login -> {"new", "checking", "matches", "refused", "done"}]
    /\ saw \in [Login -> Password \cup {None}] /\ tried \in [Login -> Password]
    /\ \A l \in Login : login[l] \in {"matches", "done"} => saw[l] = tried[l]
    /\ epoch \in [User -> Nat] /\ since \in [Login -> Nat]
    /\ loggedOut \subseteq {l \in Login : login[l] = "done"}

\* A token is accepted from its login until it expires, is logged out, or its user's
\* password is updated or the user removed, and then no more: "All sessions for a user
\* are revoked when their password is updated or they are removed" (README.md:191-192).
AcceptedExactlyWhile ==
    \A l \in Login : login[l] = "done" =>
        (Authenticates(l) <=>
            /\ clock < expires[l] /\ l \notin loggedOut
            /\ since[l] = epoch[owner[l]] /\ users[owner[l]] # None)

\* A token that is not accepted any more is never accepted again, not even one that a
\* login in progress opened for a user who had been removed and then comes back.
NeverRevived ==
    [][\A l \in Login : login[l] = "done" /\ ~Authenticates(l) => ~Authenticates(l)']_<<clock, sessionsVars>>
-----------------------------------------------------------------------------
(***************************************************************************)
(* The inductive invariant: the row of a session is exactly as old as the  *)
(* last change of its user lets it be.                                     *)
(***************************************************************************)
RowsFollowUsers ==
    \A l \in Login : login[l] = "done" =>
        /\ since[l] <= epoch[owner[l]]
        /\ l \in sessions => since[l] = epoch[owner[l]] /\ l \notin loggedOut
        /\ clock < expires[l] /\ l \notin loggedOut /\ since[l] = epoch[owner[l]] => l \in sessions

SessionsInv == SessionsTypeOK /\ RowsFollowUsers
=============================================================================
