-------------------------- MODULE SqliteConnections --------------------------
(***************************************************************************)
(* The connections of common/sqlite_store.py: one for each thread, opened  *)
(* on first use and cached in a thread-local, and close(), which any       *)
(* thread may call at any moment.  Looking up the cache, connecting and    *)
(* registering are steps of their own; what the lock covers is one step.   *)
(* A thread that has exited does not come back.                            *)
(***************************************************************************)
EXTENDS FiniteSets

CONSTANTS
    Thread,
    Conn,       \* bound: the connections ever opened
    NoConn

ASSUME ConnAssumption == NoConn \notin Conn

VARIABLES
    alive,      \* threads that run
    at,         \* what each does: "idle", "connecting", "registering", "using"
    handle,     \* the connection it has in hand
    cached,     \* what the thread-local holds for it
    conns,      \* _conns: <<thread, connection>>
    opened      \* connections that are open

connVars == <<alive, at, handle, cached, conns, opened>>

ConnInit ==
    /\ alive = Thread
    /\ at = [t \in Thread |-> "idle"]
    /\ handle = [t \in Thread |-> NoConn] /\ cached = [t \in Thread |-> NoConn]
    /\ conns = {} /\ opened = {}

\* The thread-local is read once.
Lookup(t) ==
    /\ t \in alive /\ at[t] = "idle"
    /\ handle' = [handle EXCEPT ![t] = cached[t]]
    /\ at' = [at EXCEPT ![t] = IF cached[t] = NoConn THEN "connecting" ELSE "using"]
    /\ UNCHANGED <<alive, cached, conns, opened>>

Used == opened \cup {c[2] : c \in conns} \cup {handle[t] : t \in Thread}

\* Mutant: the cache is written before the lock is taken.
ConnectAndCache(t) ==
    /\ at[t] = "connecting"
    /\ \E c \in Conn \ Used :
          /\ handle' = [handle EXCEPT ![t] = c] /\ opened' = opened \cup {c}
          /\ cached' = [cached EXCEPT ![t] = c]
    /\ at' = [at EXCEPT ![t] = "registering"]
    /\ UNCHANGED <<alive, conns>>

Connect(t) ==
    /\ at[t] = "connecting"
    /\ \E c \in Conn \ Used :
          handle' = [handle EXCEPT ![t] = c] /\ opened' = opened \cup {c}
    /\ at' = [at EXCEPT ![t] = "registering"]
    /\ UNCHANGED <<alive, cached, conns>>

Dead == {c \in conns : c[1] \notin alive}

\* Under the lock: the connections of dead threads are closed, the new one is tracked
\* and cached.
Register(t) ==
    /\ at[t] = "registering"
    /\ conns' = (conns \ Dead) \cup {<<t, handle[t]>>}
    /\ opened' = opened \ {c[2] : c \in Dead}
    /\ cached' = [cached EXCEPT ![t] = handle[t]]
    /\ at' = [at EXCEPT ![t] = "using"]
    /\ UNCHANGED <<alive, handle>>

\* What it did with the connection is done, or raised because close() had closed it.
Finish(t) ==
    /\ at[t] = "using"
    /\ at' = [at EXCEPT ![t] = "idle"] /\ handle' = [handle EXCEPT ![t] = NoConn]
    /\ UNCHANGED <<alive, cached, conns, opened>>

Exit(t) ==
    /\ t \in alive /\ at[t] = "idle"
    /\ alive' = alive \ {t} /\ cached' = [cached EXCEPT ![t] = NoConn]
    /\ UNCHANGED <<at, handle, conns, opened>>

\* close(): everything registered is closed, and the thread-local replaced.
Close ==
    /\ opened' = opened \ {c[2] : c \in conns}
    /\ conns' = {} /\ cached' = [t \in Thread |-> NoConn]
    /\ UNCHANGED <<alive, at, handle>>

ConnNext ==
    \/ \E t \in Thread : Lookup(t) \/ Connect(t) \/ Register(t) \/ Finish(t) \/ Exit(t)
    \/ Close

ConnSpec == ConnInit /\ [][ConnNext]_connVars
-----------------------------------------------------------------------------
\* However threads and close() interleave, no open connection is forgotten: it is tracked,
\* or just being opened; what a thread has cached is open and its own, so that after close()
\* its next use opens a fresh one; and a live thread has one tracked connection at most
\* (sqlite_store.py:22-60).
ConnectionsSound ==
    /\ \A c \in opened : \/ \E t \in Thread : <<t, c>> \in conns
                         \/ \E t \in Thread : at[t] = "registering" /\ handle[t] = c
    /\ \A t \in Thread : cached[t] # NoConn => cached[t] \in opened /\ <<t, cached[t]>> \in conns
    /\ \A t \in Thread : at[t] = "registering" => handle[t] \in opened
    /\ \A c \in conns : c[2] \in opened /\ \A d \in conns : d[2] = c[2] => d = c
    /\ \A c \in conns : c[1] \in alive => cached[c[1]] = c[2]

ConnTypeOK ==
    /\ alive \subseteq Thread
    /\ at \in [Thread -> {"idle", "connecting", "registering", "using"}]
    /\ handle \in [Thread -> Conn \cup {NoConn}] /\ cached \in [Thread -> Conn \cup {NoConn}]
    /\ conns \subseteq Thread \X Conn /\ opened \subseteq Conn

\* A new connection is in nobody else's hand before it is registered, a thread that opens one
\* has none, and one that has exited keeps none in its cache.
ConnInv ==
    /\ ConnTypeOK /\ ConnectionsSound
    /\ \A t \in Thread : at[t] = "registering" =>
           /\ handle[t] # NoConn
           /\ \A c \in conns : c[2] # handle[t]
           /\ \A u \in Thread \ {t} : handle[u] # handle[t]
    /\ \A t \in Thread : at[t] \in {"connecting", "registering"} => cached[t] = NoConn
    /\ \A t \in Thread : t \notin alive => at[t] = "idle" /\ cached[t] = NoConn
=============================================================================
