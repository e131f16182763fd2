----------------------------- MODULE RateLimiter -----------------------------
(***************************************************************************)
(* The sliding-window limiter, web/rate_limit.py: check_rate_limit and the *)
(* task that sweeps idle keys.  Both hold the lock of the buckets and do   *)
(* not wait inside, so each is one step; the sweeper may wake at any time. *)
(* The limiters of logins and of other requests are two instances.         *)
(*                                                                         *)
(* A bucket's list of time stamps is the set of the requests that left     *)
(* them, at[r] the time stamp of r; a key without a list and one with an   *)
(* empty list read the same.                                               *)
(***************************************************************************)
EXTENDS WebClock, FiniteSets

CONSTANTS
    Key,        \* client addresses
    Request,    \* each is checked at most once
    Max,        \* max_requests
    Window      \* RATE_WINDOW_SECONDS

ASSUME LimiterAssumption ==
    /\ IsFiniteSet(Request)
    /\ Max \in Nat /\ Window \in Nat \ {0}

VARIABLES
    bucket,     \* the time stamps kept, by key
    at,         \* when each request was checked
    accepted,   \* the requests let through so far, by key
    rejected    \* and those refused

limiterVars == <<bucket, at, accepted, rejected>>

LimiterInit ==
    /\ clock = 0
    /\ bucket = [k \in Key |-> {}]
    /\ at = [r \in Request |-> 0]
    /\ accepted = [k \in Key |-> {}] /\ rejected = [k \in Key |-> {}]

Checked == UNION {accepted[k] \cup rejected[k] : k \in Key}

\* Mutant: a time stamp as old as the window still counts.
ActiveLonger(k) == {r \in bucket[k] : clock - at[r] <= Window}

Active(k) == {r \in bucket[k] : clock - at[r] < Window}

\* Mutant: a full bucket takes one more.
AcceptOneMore(k, r) ==
    /\ Cardinality(Active(k)) <= Max
    /\ bucket' = [bucket EXCEPT ![k] = Active(k) \cup {r}]
    /\ accepted' = [accepted EXCEPT ![k] = @ \cup {r}]
    /\ UNCHANGED rejected

Accept(k, r) ==
    /\ Cardinality(Active(k)) < Max
    /\ bucket' = [bucket EXCEPT ![k] = Active(k) \cup {r}]
    /\ accepted' = [accepted EXCEPT ![k] = @ \cup {r}]
    /\ UNCHANGED rejected

Reject(k, r) ==
    /\ Cardinality(Active(k)) >= Max
    /\ rejected' = [rejected EXCEPT ![k] = @ \cup {r}]
    /\ UNCHANGED <<bucket, accepted>>

Check(k, r) ==
    /\ r \notin Checked
    /\ at' = [at EXCEPT ![r] = clock]
    /\ Accept(k, r) \/ Reject(k, r)
    /\ UNCHANGED clock

\* The keys without a time stamp in the window are deleted.
Sweep ==
    /\ bucket' = [k \in Key |-> IF Active(k) = {} THEN {} ELSE bucket[k]]
    /\ UNCHANGED <<clock, at, accepted, rejected>>

LimiterTick ==
    /\ clock < MaxTime /\ clock' = clock + 1
    /\ UNCHANGED limiterVars

LimiterNext == (\E k \in Key, r \in Request : Check(k, r)) \/ Sweep \/ LimiterTick
LimiterSpec == LimiterInit /\ [][LimiterNext]_<<clock, limiterVars>>
-----------------------------------------------------------------------------
\* The variables hold values the program's own can; no list outgrows the limit
\* (rate_limit.py:9-30).
LimiterTypeOK ==
    /\ clock \in Nat
    /\ bucket \in [Key -> SUBSET Request]
    /\ \A k \in Key : Cardinality(bucket[k]) <= Max
    /\ at \in [Request -> Nat]
    /\ accepted \in [Key -> SUBSET Request] /\ rejected \in [Key -> SUBSET Request]

Within(k, from, to) == {r \in accepted[k] : from <= at[r] /\ at[r] < to}

WindowBound ==
    \A k \in Key : \A r \in accepted[k] :
        Cardinality(Within(k, at[r], at[r] + Window)) <= Max
RefusedForCause ==
    \A k \in Key : \A r \in rejected[k] :
        Cardinality(Within(k, at[r] - Window + 1, at[r] + 1)) >= Max

\* No stretch of time as long as the window holds more than Max requests that were let
\* through, and a request is refused only where Max were let through in the window
\* before it, whatever the sweeper removed in between (rate_limit.py:23-30, 47-55).
LimitExact == WindowBound /\ RefusedForCause
-----------------------------------------------------------------------------
(***************************************************************************)
(* The inductive invariant: whoever was let through in the last window is  *)
(* still in the bucket.                                                    *)
(***************************************************************************)
BucketRemembers ==
    \A k \in Key :
        /\ bucket[k] \subseteq accepted[k]
        /\ \A r \in accepted[k] : at[r] <= clock /\ (clock - at[r] < Window => r \in bucket[k])

LimiterInv == LimiterTypeOK /\ LimitExact /\ BucketRemembers
=============================================================================
