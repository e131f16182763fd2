-------------------------- MODULE WebServer_proofs --------------------------
(***************************************************************************)
(* The limiter and the sessions keep what they promise, each on its own    *)
(* and together, for any number of clients, users and logins.              *)
(***************************************************************************)
EXTENDS WebServer, FiniteSetTheorems, TLAPS

(***************************************************************************)
(* Counting requests.                                                      *)
(***************************************************************************)
LEMMA RequestsFinite ==
    ASSUME NEW S \in SUBSET Request
    PROVE  IsFiniteSet(S) /\ Cardinality(S) \in Nat
BY LimiterAssumption, FS_Subset, FS_CardinalityType DEF LimiterAssumption

LEMMA SubsetSmaller ==
    ASSUME NEW T \in SUBSET Request, NEW S \in SUBSET T
    PROVE  Cardinality(S) <= Cardinality(T)
BY RequestsFinite, FS_Subset

LEMMA OneMore ==
    ASSUME NEW S \in SUBSET Request, NEW r \in Request
    PROVE  Cardinality(S \cup {r}) <= Cardinality(S) + 1
BY RequestsFinite, FS_AddElement
-----------------------------------------------------------------------------
LEMMA LimiterInitInv == LimiterInit => LimiterInv
<1> SUFFICES ASSUME LimiterInit PROVE LimiterInv
  OBVIOUS
<1>1. LimiterTypeOK
  BY FS_EmptySet, LimiterAssumption DEF LimiterInit, LimiterTypeOK, LimiterAssumption
<1>2. LimitExact /\ BucketRemembers
  BY DEF LimiterInit, LimitExact, WindowBound, RefusedForCause, BucketRemembers
<1> QED BY <1>1, <1>2 DEF LimiterInv

\* A request refused for cause stays so: those let through before it are never forgotten.
LEMMA CauseKept ==
    ASSUME LimiterInv, accepted' \in [Key -> SUBSET Request],
           NEW k \in Key, NEW p \in rejected[k],
           accepted[k] \subseteq accepted'[k],
           \A x \in accepted[k] \cup {p} : at'[x] = at[x]
    PROVE  Cardinality(Within(k, at[p] - Window + 1, at[p] + 1)') >= Max
<1> DEFINE before == Within(k, at[p] - Window + 1, at[p] + 1)
<1>1. before \subseteq before'
  BY DEF Within
<1>2. before' \in SUBSET Request
  BY DEF Within
<1>3. Cardinality(before) >= Max
  BY DEF LimiterInv, LimitExact, RefusedForCause
<1>4. Cardinality(before) <= Cardinality(before')
  BY <1>1, <1>2, SubsetSmaller
<1>5. Cardinality(before) \in Nat /\ Cardinality(before') \in Nat /\ Max \in Nat
  BY <1>1, <1>2, RequestsFinite, LimiterAssumption DEF LimiterAssumption
<1> HIDE DEF before
<1>6. Cardinality(before') >= Max
  BY <1>3, <1>4, <1>5
<1> QED BY <1>6 DEF before

\* A window without new requests holds what it held.
LEMMA SameWindows ==
    ASSUME LimiterInv, UNCHANGED accepted,
           \A k \in Key : \A x \in accepted[k] : at'[x] = at[x]
    PROVE  WindowBound'
<1> SUFFICES ASSUME NEW k \in Key, NEW r \in accepted[k]
             PROVE  Cardinality(Within(k, at[r], at[r] + Window)') <= Max
  BY DEF WindowBound
<1>1. Within(k, at[r], at[r] + Window)' = Within(k, at[r], at[r] + Window)
  BY DEF Within
<1> QED BY <1>1 DEF LimiterInv, LimitExact, WindowBound
-----------------------------------------------------------------------------
LEMMA AcceptInv ==
    ASSUME LimiterInv, NEW k \in Key, NEW r \in Request, Check(k, r), Accept(k, r)
    PROVE  LimiterInv'
<1> DEFINE A == Active(k)
<1>a. Max \in Nat /\ Window \in Nat \ {0} /\ clock \in Nat /\ at \in [Request -> Nat]
  BY LimiterAssumption DEF LimiterAssumption, LimiterInv, LimiterTypeOK
<1>0. A \in SUBSET Request /\ Cardinality(A) < Max /\ A \subseteq bucket[k]
  BY DEF LimiterInv, LimiterTypeOK, Active, Accept
<1>1. /\ bucket' = [bucket EXCEPT ![k] = A \cup {r}]
      /\ accepted' = [accepted EXCEPT ![k] = @ \cup {r}]
      /\ at' = [at EXCEPT ![r] = clock]
      /\ UNCHANGED <<clock, rejected>>
  BY DEF Check, Accept
<1>2. \A l \in Key : r \notin accepted[l] /\ r \notin rejected[l]
  BY DEF Check, Checked
<1>3. /\ bucket \in [Key -> SUBSET Request]
      /\ accepted \in [Key -> SUBSET Request] /\ rejected \in [Key -> SUBSET Request]
  BY DEF LimiterInv, LimiterTypeOK
<1>b. \A l \in Key : \A x \in accepted[l] \cup rejected[l] : at'[x] = at[x]
  BY <1>1, <1>2, <1>3, <1>a
<1>c. at'[r] = clock /\ \A x \in Request : at'[x] \in Nat
  BY <1>1, <1>a
<1>4. Cardinality(A \cup {r}) <= Max
  BY <1>0, <1>a, OneMore, RequestsFinite
<1> HIDE DEF A
<1>5. LimiterTypeOK'
  <2>1. bucket' \in [Key -> SUBSET Request] /\ accepted' \in [Key -> SUBSET Request]
    BY <1>0, <1>1, <1>3
  <2>2. at' \in [Request -> Nat]
    BY <1>1, <1>a
  <2>3. \A l \in Key : Cardinality(bucket'[l]) <= Max
    BY <1>1, <1>3, <1>4 DEF LimiterInv, LimiterTypeOK
  <2> QED BY <1>1, <1>3, <1>a, <2>1, <2>2, <2>3 DEF LimiterTypeOK
<1>6. BucketRemembers'
  <2> SUFFICES ASSUME NEW l \in Key
               PROVE  /\ bucket'[l] \subseteq accepted'[l]
                      /\ \A q \in accepted'[l] :
                            at'[q] <= clock /\ (clock - at'[q] < Window => q \in bucket'[l])
    BY <1>1 DEF BucketRemembers
  <2>1. /\ bucket[l] \subseteq accepted[l]
        /\ \A q \in accepted[l] :
              at[q] <= clock /\ (clock - at[q] < Window => q \in bucket[l])
    BY DEF LimiterInv, BucketRemembers
  <2>2. CASE l # k
    BY <1>1, <1>3, <1>b, <2>1, <2>2
  <2>3. CASE l = k
    <3>1. bucket'[l] = A \cup {r} /\ accepted'[l] = accepted[l] \cup {r}
      BY <1>1, <1>3, <2>3
    <3>2. A = {q \in bucket[l] : clock - at[q] < Window}
      BY <2>3 DEF A, Active
    <3> QED BY <1>a, <1>b, <1>c, <2>1, <3>1, <3>2
  <2> QED BY <2>2, <2>3
<1>7. WindowBound'
  <2> SUFFICES ASSUME NEW l \in Key, NEW q \in accepted'[l]
               PROVE  Cardinality(Within(l, at[q], at[q] + Window)') <= Max
    BY DEF WindowBound
  <2> DEFINE W == {x \in accepted'[l] : at'[q] <= at'[x] /\ at'[x] < at'[q] + Window}
  <2>1. Within(l, at[q], at[q] + Window)' = W
    BY DEF Within
  <2>2. accepted'[l] \in SUBSET Request /\ W \in SUBSET Request
    BY <1>5 DEF LimiterTypeOK
  <2>3. CASE l = k /\ r \in W
    <3>1. accepted'[l] = accepted[k] \cup {r}
      BY <1>1, <1>3, <2>3
    <3>2. at'[q] <= clock /\ clock < at'[q] + Window /\ at'[q] \in Nat
      BY <1>c, <2>2, <2>3
    <3>3. ASSUME NEW x \in W, x # r PROVE x \in A
      <4>1. x \in accepted[k] /\ at'[x] = at[x] /\ at[x] \in Nat /\ at'[q] <= at'[x]
        BY <3>1, <3>3, <1>b, <1>3, <1>a
      <4>2. clock - at[x] < Window
        BY <1>a, <3>2, <4>1
      <4>3. x \in bucket[k]
        BY <4>1, <4>2 DEF LimiterInv, BucketRemembers
      <4> QED BY <4>2, <4>3 DEF A, Active
    <3>4. W \subseteq A \cup {r} /\ A \cup {r} \in SUBSET Request
      BY <1>0, <3>3
    <3> HIDE DEF W
    <3>5. Cardinality(W) <= Cardinality(A \cup {r})
      BY <3>4, SubsetSmaller
    <3>6. Cardinality(W) \in Nat /\ Cardinality(A \cup {r}) \in Nat
      BY <2>2, <3>4, RequestsFinite
    <3> QED BY <1>4, <1>a, <2>1, <3>5, <3>6
  <2>4. CASE ~(l = k /\ r \in W)
    <3>1. r \notin W
      BY <1>1, <1>2, <1>3, <2>4
    <3>2. accepted[l] \subseteq accepted'[l] /\ accepted'[l] \subseteq accepted[l] \cup {r}
      BY <1>1, <1>3
    <3>3. q # r
      <4>1. SUFFICES ASSUME q = r PROVE r \in W
        BY <3>1
      <4> QED BY <1>a, <1>c, <4>1
    <3>4. q \in accepted[l] /\ at'[q] = at[q]
      BY <1>b, <3>2, <3>3
    <3>5. W = Within(l, at[q], at[q] + Window)
      BY <1>b, <3>1, <3>2, <3>4 DEF Within
    <3> QED BY <2>1, <3>4, <3>5 DEF LimiterInv, LimitExact, WindowBound
  <2> QED BY <2>3, <2>4
<1>8. RefusedForCause'
  <2> SUFFICES ASSUME NEW l \in Key, NEW p \in rejected[l]
               PROVE  Cardinality(Within(l, at[p] - Window + 1, at[p] + 1)') >= Max
    BY <1>1 DEF RefusedForCause
  <2>1. accepted' \in [Key -> SUBSET Request]
    BY <1>5 DEF LimiterTypeOK
  <2>2. accepted[l] \subseteq accepted'[l]
    BY <1>1, <1>3
  <2> QED BY <1>b, <2>1, <2>2, CauseKept
<1> QED BY <1>5, <1>6, <1>7, <1>8 DEF LimiterInv, LimitExact

LEMMA RejectInv ==
    ASSUME LimiterInv, NEW k \in Key, NEW r \in Request, Check(k, r), Reject(k, r)
    PROVE  LimiterInv'
<1>1. /\ rejected' = [rejected EXCEPT ![k] = @ \cup {r}]
      /\ at' = [at EXCEPT ![r] = clock]
      /\ UNCHANGED <<clock, bucket, accepted>>
      /\ Cardinality(Active(k)) >= Max
  BY DEF Check, Reject
<1>2. \A l \in Key : r \notin accepted[l] /\ r \notin rejected[l]
  BY DEF Check, Checked
<1>3. /\ Max \in Nat /\ Window \in Nat \ {0} /\ clock \in Nat /\ at \in [Request -> Nat]
      /\ bucket \in [Key -> SUBSET Request]
      /\ accepted \in [Key -> SUBSET Request] /\ rejected \in [Key -> SUBSET Request]
  BY LimiterAssumption DEF LimiterAssumption, LimiterInv, LimiterTypeOK
<1>4. \A l \in Key : \A x \in accepted[l] \cup rejected[l] : at'[x] = at[x]
  BY <1>1, <1>2, <1>3
<1>5. LimiterTypeOK'
  BY <1>1, <1>3 DEF LimiterInv, LimiterTypeOK
<1>6. BucketRemembers'
  BY <1>1, <1>4 DEF LimiterInv, BucketRemembers
<1>7. WindowBound'
  BY <1>1, <1>4, SameWindows
<1>8. RefusedForCause'
  <2> SUFFICES ASSUME NEW l \in Key, NEW p \in rejected'[l]
               PROVE  Cardinality(Within(l, at[p] - Window + 1, at[p] + 1)') >= Max
    BY DEF RefusedForCause
  <2>1. CASE p \in rejected[l]
    BY <1>1, <1>3, <1>4, <2>1, CauseKept
  <2>2. CASE p \notin rejected[l]
    <3>1. l = k /\ p = r
      BY <1>1, <1>3, <2>2
    <3> DEFINE W == {x \in accepted[k] : clock - Window + 1 <= at[x] /\ at[x] < clock + 1}
    <3>2. Within(l, at[p] - Window + 1, at[p] + 1)' = W
      BY <1>1, <1>3, <1>4, <3>1 DEF Within
    <3>3. Active(k) \subseteq W
      <4> SUFFICES ASSUME NEW x \in Active(k) PROVE x \in W
        OBVIOUS
      <4>1. x \in bucket[k] /\ clock - at[x] < Window
        BY DEF Active
      <4>2. x \in accepted[k] /\ at[x] <= clock /\ at[x] \in Nat
        BY <1>3, <4>1 DEF LimiterInv, BucketRemembers
      <4> QED BY <1>3, <4>1, <4>2
    <3>4. W \in SUBSET Request /\ Active(k) \in SUBSET Request
      BY <1>3 DEF Active
    <3> HIDE DEF W
    <3>5. /\ Cardinality(Active(k)) <= Cardinality(W)
          /\ Cardinality(W) \in Nat /\ Cardinality(Active(k)) \in Nat
      BY <3>3, <3>4, SubsetSmaller, RequestsFinite
    <3> QED BY <1>1, <1>3, <3>2, <3>5
  <2> QED BY <2>1, <2>2
<1> QED BY <1>5, <1>6, <1>7, <1>8 DEF LimiterInv, LimitExact

LEMMA QuietInv ==
    ASSUME LimiterInv, UNCHANGED <<at, accepted, rejected>>,
           LimiterTypeOK', BucketRemembers'
    PROVE  LimiterInv'
<1>1. WindowBound'
  BY SameWindows
<1>2. RefusedForCause'
  <2> SUFFICES ASSUME NEW l \in Key, NEW p \in rejected[l]
               PROVE  Cardinality(Within(l, at[p] - Window + 1, at[p] + 1)') >= Max
    BY DEF RefusedForCause
  <2> QED BY CauseKept DEF LimiterTypeOK
<1> QED BY <1>1, <1>2 DEF LimiterInv, LimitExact

LEMMA SweepInv == ASSUME LimiterInv, Sweep PROVE LimiterInv'
<1>1. /\ bucket' = [k \in Key |-> IF Active(k) = {} THEN {} ELSE bucket[k]]
      /\ UNCHANGED <<clock, at, accepted, rejected>>
  BY DEF Sweep
<1>2. LimiterTypeOK'
  <2>1. \A k \in Key : bucket'[k] \in SUBSET Request /\ Cardinality(bucket'[k]) <= Max
    BY <1>1, FS_EmptySet, LimiterAssumption DEF LimiterAssumption, LimiterInv, LimiterTypeOK
  <2> QED BY <1>1, <2>1 DEF LimiterInv, LimiterTypeOK
<1>3. BucketRemembers'
  <2> SUFFICES ASSUME NEW k \in Key
               PROVE  /\ bucket'[k] \subseteq accepted[k]
                      /\ \A r \in accepted[k] :
                            at[r] <= clock /\ (clock - at[r] < Window => r \in bucket'[k])
    BY <1>1 DEF BucketRemembers
  <2>1. \A r \in accepted[k] : clock - at[r] < Window => r \in Active(k)
    BY DEF LimiterInv, BucketRemembers, Active
  <2> QED BY <1>1, <2>1 DEF LimiterInv, BucketRemembers
<1> QED BY <1>1, <1>2, <1>3, QuietInv

LEMMA TickInv == ASSUME LimiterInv, LimiterTick PROVE LimiterInv'
<1>1. clock' = clock + 1 /\ clock \in Nat /\ UNCHANGED <<bucket, at, accepted, rejected>>
  BY DEF LimiterTick, limiterVars, LimiterInv, LimiterTypeOK
<1>2. LimiterTypeOK'
  BY <1>1 DEF LimiterInv, LimiterTypeOK
<1>3. BucketRemembers'
  <2>0. \A k \in Key : bucket'[k] \subseteq accepted'[k]
    BY <1>1 DEF LimiterInv, BucketRemembers
  <2> SUFFICES ASSUME NEW k \in Key, NEW r \in accepted'[k]
               PROVE  at'[r] <= clock' /\ (clock' - at'[r] < Window => r \in bucket'[k])
    BY <2>0 DEF BucketRemembers
  <2>3. r \in accepted[k] /\ at'[r] = at[r] /\ bucket'[k] = bucket[k]
    BY <1>1
  <2>1. at[r] \in Nat /\ Window \in Nat
    BY <2>3, LimiterAssumption DEF LimiterAssumption, LimiterInv, LimiterTypeOK
  <2>2. at[r] <= clock /\ (clock - at[r] < Window => r \in bucket[k])
    BY <2>3 DEF LimiterInv, BucketRemembers
  <2> QED BY <1>1, <2>1, <2>2, <2>3
<1> QED BY <1>1, <1>2, <1>3, QuietInv

\* The window is never exceeded, and refusals are for cause, whatever the sweeper does
\* (rate_limit.py:15-55).
THEOREM LimiterInvariant == LimiterSpec => []LimiterInv
<1>1. LimiterInv /\ [LimiterNext]_<<clock, limiterVars>> => LimiterInv'
  <2> SUFFICES ASSUME LimiterInv, [LimiterNext]_<<clock, limiterVars>> PROVE LimiterInv'
    OBVIOUS
  <2>1. ASSUME NEW k \in Key, NEW r \in Request, Check(k, r) PROVE LimiterInv'
    BY <2>1, AcceptInv, RejectInv DEF Check
  <2>2. CASE Sweep
    BY <2>2, SweepInv
  <2>3. CASE LimiterTick
    BY <2>3, TickInv
  <2>4. CASE UNCHANGED <<clock, limiterVars>>
    <3>1. LimiterTypeOK' /\ BucketRemembers'
      BY <2>4 DEF LimiterInv, LimiterTypeOK, BucketRemembers, limiterVars
    <3> QED BY <2>4, <3>1, QuietInv DEF limiterVars
  <2> QED BY <2>1, <2>2, <2>3, <2>4 DEF LimiterNext
<1> QED BY <1>1, LimiterInitInv, PTL DEF LimiterSpec
-----------------------------------------------------------------------------
(***************************************************************************)
(* The sessions.                                                           *)
(***************************************************************************)
LEMMA SessionsInitInv == SessionsInit => SessionsInv
BY SessionsAssumption DEF SessionsAssumption, SessionsInit, SessionsInv, SessionsTypeOK, RowsFollowUsers

\* What creates no session and changes no user keeps the invariant, if it removes rows
\* only of sessions that have expired or are logged out, and moves no login to "done".
LEMMA RowsKept ==
    ASSUME SessionsInv, SessionsTypeOK',
           UNCHANGED <<owner, expires, epoch, since>>,
           clock' \in Nat, clock' >= clock,
           \A l \in Login : login'[l] = "done" => login[l] = "done",
           sessions' \subseteq sessions, loggedOut \subseteq loggedOut',
           sessions' \cap loggedOut' = {},
           \A l \in sessions : clock' < expires[l] /\ l \notin loggedOut' => l \in sessions'
    PROVE  SessionsInv'
<1> SUFFICES ASSUME NEW l \in Login, login'[l] = "done"
             PROVE  /\ since[l] <= epoch[owner[l]]
                    /\ l \in sessions' => since[l] = epoch[owner[l]] /\ l \notin loggedOut'
                    /\ clock' < expires[l] /\ l \notin loggedOut' /\ since[l] = epoch[owner[l]]
                          => l \in sessions'
  BY DEF SessionsInv, RowsFollowUsers
<1>1. /\ since[l] <= epoch[owner[l]]
      /\ l \in sessions => since[l] = epoch[owner[l]] /\ l \notin loggedOut
      /\ clock < expires[l] /\ l \notin loggedOut /\ since[l] = epoch[owner[l]] => l \in sessions
  BY DEF SessionsInv, RowsFollowUsers
<1>2. clock \in Nat /\ expires[l] \in Nat
  BY DEF SessionsInv, SessionsTypeOK
<1> QED BY <1>1, <1>2

\* A session in the table was not logged out.
LEMMA LiveNotLoggedOut == ASSUME SessionsInv PROVE sessions \cap loggedOut = {}
BY DEF SessionsInv, SessionsTypeOK, RowsFollowUsers

LEMMA GetHashInv == ASSUME SessionsInv, NEW l \in Login, GetHash(l) PROVE SessionsInv'
<1>1. /\ login[l] = "new" /\ login' = [login EXCEPT ![l] = "checking"]
      /\ saw' = [saw EXCEPT ![l] = users[owner[l]]]
      /\ UNCHANGED <<clock, users, sessions, tried, epoch, owner, expires, since, loggedOut>>
  BY DEF GetHash, rowVars
<1>2. SessionsTypeOK'
  BY <1>1 DEF SessionsInv, SessionsTypeOK
<1>3. \A m \in Login : login'[m] = "done" => login[m] = "done"
  BY <1>1 DEF SessionsInv, SessionsTypeOK
<1>4. clock \in Nat /\ clock >= clock
  BY DEF SessionsInv, SessionsTypeOK
<1> QED BY <1>1, <1>2, <1>3, <1>4, RowsKept, LiveNotLoggedOut

LEMMA CheckPasswordInv == ASSUME SessionsInv, NEW l \in Login, CheckPassword(l) PROVE SessionsInv'
<1>1. /\ login[l] = "checking"
      /\ login' = [login EXCEPT ![l] = IF saw[l] = tried[l] THEN "matches" ELSE "refused"]
      /\ UNCHANGED <<clock, users, sessions, saw, tried, epoch, owner, expires, since, loggedOut>>
  BY DEF CheckPassword, rowVars
<1>2. SessionsTypeOK'
  BY <1>1 DEF SessionsInv, SessionsTypeOK
<1>3. \A m \in Login : login'[m] = "done" => login[m] = "done"
  BY <1>1 DEF SessionsInv, SessionsTypeOK
<1>4. clock \in Nat /\ clock >= clock
  BY DEF SessionsInv, SessionsTypeOK
<1> QED BY <1>1, <1>2, <1>3, <1>4, RowsKept, LiveNotLoggedOut

LEMMA CreateSessionInv == ASSUME SessionsInv, NEW l \in Login, CreateSession(l) PROVE SessionsInv'
<1>1. /\ login[l] = "matches" /\ login' = [login EXCEPT ![l] = "done"]
      /\ sessions' = sessions \cup {l}
      /\ expires' = [expires EXCEPT ![l] = clock + Expiry]
      /\ since' = [since EXCEPT ![l] = epoch[owner[l]]]
      /\ UNCHANGED <<clock, users, owner, saw, tried, epoch, loggedOut>>
  BY DEF CreateSession
<1>2. clock + Expiry \in Nat
  BY SessionsAssumption DEF SessionsAssumption, SessionsInv, SessionsTypeOK
<1>3. SessionsTypeOK'
  BY <1>1, <1>2 DEF SessionsInv, SessionsTypeOK
<1>4. RowsFollowUsers'
  <2> SUFFICES ASSUME NEW m \in Login, login'[m] = "done"
               PROVE  /\ since'[m] <= epoch[owner[m]]
                      /\ m \in sessions' => since'[m] = epoch[owner[m]] /\ m \notin loggedOut
                      /\ clock < expires'[m] /\ m \notin loggedOut /\ since'[m] = epoch[owner[m]]
                            => m \in sessions'
    BY <1>1 DEF RowsFollowUsers
  <2>1. CASE m = l
    <3>1. since'[m] = epoch[owner[m]] /\ epoch[owner[m]] \in Nat /\ m \in sessions' /\ m \notin loggedOut
      BY <1>1, <2>1 DEF SessionsInv, SessionsTypeOK
    <3> QED BY <3>1
  <2>2. CASE m # l
    BY <1>1, <2>2 DEF SessionsInv, SessionsTypeOK, RowsFollowUsers
  <2> QED BY <2>1, <2>2
<1> QED BY <1>3, <1>4 DEF SessionsInv

LEMMA LogoutInv == ASSUME SessionsInv, NEW l \in Login, Logout(l) PROVE SessionsInv'
<1>1. /\ login[l] = "done" /\ sessions' = sessions \ {l} /\ loggedOut' = loggedOut \cup {l}
      /\ UNCHANGED <<clock, users, login, saw, tried, epoch, owner, expires, since>>
  BY DEF Logout, loginVars, rowVars
<1>2. SessionsTypeOK'
  BY <1>1 DEF SessionsInv, SessionsTypeOK
<1>3. clock \in Nat /\ clock >= clock
  BY DEF SessionsInv, SessionsTypeOK
<1>4. sessions' \cap loggedOut' = {}
  BY <1>1, LiveNotLoggedOut
<1> QED BY <1>1, <1>2, <1>3, <1>4, RowsKept

LEMMA PurgeExpiredInv == ASSUME SessionsInv, PurgeExpired PROVE SessionsInv'
<1>1. /\ sessions' = {l \in sessions : expires[l] > clock}
      /\ UNCHANGED <<clock, users, login, saw, tried, epoch, owner, expires, since, loggedOut>>
  BY DEF PurgeExpired, loginVars, rowVars
<1>2. SessionsTypeOK'
  BY <1>1 DEF SessionsInv, SessionsTypeOK
<1>3. clock \in Nat /\ clock >= clock
  BY DEF SessionsInv, SessionsTypeOK
<1>4. \A l \in sessions : expires[l] \in Nat
  BY DEF SessionsInv, SessionsTypeOK
<1>5. \A l \in sessions : clock' < expires[l] => l \in sessions'
  BY <1>1, <1>3, <1>4
<1>6. sessions' \cap loggedOut' = {}
  BY <1>1, LiveNotLoggedOut
<1> QED BY <1>1, <1>2, <1>3, <1>5, <1>6, RowsKept

\* A user's row is written or removed, and every session of that user with it.
LEMMA UserChangedInv ==
    ASSUME SessionsInv, NEW u \in User, NEW p \in Password \cup {None},
           epoch' = [epoch EXCEPT ![u] = @ + 1], users' = [users EXCEPT ![u] = p],
           sessions' = {l \in sessions : owner[l] # u},
           UNCHANGED <<clock, login, saw, tried, owner, expires, since, loggedOut>>
    PROVE  SessionsInv'
<1>1. SessionsTypeOK'
  BY DEF SessionsInv, SessionsTypeOK
<1>2. RowsFollowUsers'
  <2> SUFFICES ASSUME NEW l \in Login, login[l] = "done"
               PROVE  /\ since[l] <= epoch'[owner[l]]
                      /\ l \in sessions' => since[l] = epoch'[owner[l]] /\ l \notin loggedOut
                      /\ clock < expires[l] /\ l \notin loggedOut /\ since[l] = epoch'[owner[l]]
                            => l \in sessions'
    BY DEF RowsFollowUsers
  <2>1. /\ since[l] <= epoch[owner[l]] /\ since[l] \in Nat /\ epoch[owner[l]] \in Nat
        /\ l \in sessions => since[l] = epoch[owner[l]] /\ l \notin loggedOut
        /\ clock < expires[l] /\ l \notin loggedOut /\ since[l] = epoch[owner[l]] => l \in sessions
    BY DEF SessionsInv, SessionsTypeOK, RowsFollowUsers
  <2>2. epoch'[owner[l]] = IF owner[l] = u THEN epoch[owner[l]] + 1 ELSE epoch[owner[l]]
    BY DEF SessionsInv, SessionsTypeOK
  <2>3. l \in sessions' <=> l \in sessions /\ owner[l] # u
    OBVIOUS
  <2> QED BY <2>1, <2>2, <2>3
<1> QED BY <1>1, <1>2 DEF SessionsInv

LEMMA SessionsTickInv == ASSUME SessionsInv, SessionsTick PROVE SessionsInv'
<1>1. /\ clock' = clock + 1 /\ clock \in Nat
      /\ UNCHANGED <<users, sessions, login, saw, tried, epoch, owner, expires, since, loggedOut>>
  BY DEF SessionsTick, sessionsVars, SessionsInv, SessionsTypeOK
<1>2. SessionsTypeOK'
  BY <1>1 DEF SessionsInv, SessionsTypeOK
<1>3. clock' \in Nat /\ clock' >= clock
  BY <1>1
<1> QED BY <1>1, <1>2, <1>3, RowsKept, LiveNotLoggedOut

LEMMA SessionsStepInv ==
    ASSUME SessionsInv, [SessionsNext]_<<clock, sessionsVars>>
    PROVE  SessionsInv'
<1>1. ASSUME NEW l \in Login, LoginStep(l) PROVE SessionsInv'
  BY <1>1, GetHashInv, CheckPasswordInv, CreateSessionInv DEF LoginStep
<1>2. CASE OtherStep
  <2>1. ASSUME NEW l \in Login, Logout(l) PROVE SessionsInv'
    BY <2>1, LogoutInv
  <2>2. ASSUME NEW u \in User, DeleteUser(u) PROVE SessionsInv'
    BY <2>2, UserChangedInv DEF DeleteUser, loginVars, rowVars
  <2>3. ASSUME NEW u \in User, NEW p \in Password, UpsertUser(u, p) PROVE SessionsInv'
    BY <2>3, UserChangedInv DEF UpsertUser, loginVars, rowVars
  <2> QED BY <1>2, <2>1, <2>2, <2>3, PurgeExpiredInv DEF OtherStep
<1>3. CASE SessionsTick
  BY <1>3, SessionsTickInv
<1>4. CASE UNCHANGED <<clock, sessionsVars>>
  BY <1>4 DEF sessionsVars, SessionsInv, SessionsTypeOK, RowsFollowUsers
<1> QED BY <1>1, <1>2, <1>3, <1>4 DEF SessionsNext

LEMMA InvAcceptsExactly == SessionsInv => AcceptedExactlyWhile
<1> SUFFICES ASSUME SessionsInv, NEW l \in Login, login[l] = "done"
             PROVE  Authenticates(l) <=>
                       /\ clock < expires[l] /\ l \notin loggedOut
                       /\ since[l] = epoch[owner[l]] /\ users[owner[l]] # None
  BY DEF AcceptedExactlyWhile
<1>1. clock \in Nat /\ expires[l] \in Nat
  BY DEF SessionsInv, SessionsTypeOK
<1>2. /\ l \in sessions => since[l] = epoch[owner[l]] /\ l \notin loggedOut
      /\ clock < expires[l] /\ l \notin loggedOut /\ since[l] = epoch[owner[l]] => l \in sessions
  BY DEF SessionsInv, RowsFollowUsers
<1> QED BY <1>1, <1>2 DEF Authenticates

LEMMA DeadStaysDead ==
    ASSUME SessionsInv, [SessionsNext]_<<clock, sessionsVars>>,
           NEW l \in Login, login[l] = "done", ~Authenticates(l)
    PROVE  ~Authenticates(l)'
<1>1. owner' = owner /\ owner[l] \in User /\ login \in [Login -> {"new", "checking", "matches", "refused", "done"}]
  BY DEF SessionsInv, SessionsTypeOK, SessionsNext, LoginStep, OtherStep, GetHash, CheckPassword,
         CreateSession, Logout, PurgeExpired, UpsertUser, DeleteUser, SessionsTick, rowVars, sessionsVars
<1>2. clock' >= clock /\ clock' \in Nat /\ clock \in Nat
  BY DEF SessionsInv, SessionsTypeOK, SessionsNext, LoginStep, OtherStep, GetHash, CheckPassword,
         CreateSession, Logout, PurgeExpired, UpsertUser, DeleteUser, SessionsTick
<1>3. expires'[l] = expires[l] /\ expires[l] \in Nat
  BY DEF SessionsInv, SessionsTypeOK, SessionsNext, LoginStep, OtherStep, GetHash, CheckPassword,
         CreateSession, Logout, PurgeExpired, UpsertUser, DeleteUser, SessionsTick, rowVars, sessionsVars
<1>4. l \in sessions' => l \in sessions
  BY DEF SessionsInv, SessionsTypeOK, SessionsNext, LoginStep, OtherStep, GetHash, CheckPassword,
         CreateSession, Logout, PurgeExpired, UpsertUser, DeleteUser, SessionsTick, sessionsVars
<1>5. users[owner[l]] = None /\ users'[owner[l]] # None => l \notin sessions'
  BY <1>1 DEF SessionsInv, SessionsTypeOK, SessionsNext, LoginStep, OtherStep, GetHash, CheckPassword,
         CreateSession, Logout, PurgeExpired, UpsertUser, DeleteUser, SessionsTick, sessionsVars
<1> QED BY <1>1, <1>2, <1>3, <1>4, <1>5 DEF Authenticates

\* The row of a session is as old as the last change of its user lets it be
\* (user_store.py:52-118).
THEOREM SessionsInvariant == SessionsSpec => []SessionsInv
BY SessionsInitInv, SessionsStepInv, PTL DEF SessionsSpec
-----------------------------------------------------------------------------
(***************************************************************************)
(* Together.                                                               *)
(***************************************************************************)
LEMMA StepOfParts ==
    ASSUME [Next]_webVars
    PROVE  [LimiterNext]_<<clock, limiterVars>> /\ [SessionsNext]_<<clock, sessionsVars>>
<1>1. ASSUME NEW k \in Key, NEW l \in Login, LoginRequest(k, l)
      PROVE  LimiterNext /\ UNCHANGED <<clock, sessionsVars>>
  BY <1>1, WebAssumption DEF LoginRequest, LimiterNext, WebAssumption, Check
<1>2. ASSUME NEW l \in Login, LoginRoute(l)
      PROVE  SessionsNext /\ UNCHANGED <<clock, limiterVars>>
  BY <1>2 DEF LoginRoute, SessionsNext, LoginStep, GetHash, CheckPassword, CreateSession
<1>3. CASE OtherStep /\ UNCHANGED limiterVars
  <2>1. UNCHANGED clock
    BY <1>3 DEF OtherStep, Logout, DeleteUser, UpsertUser, PurgeExpired
  <2> QED BY <1>3, <2>1 DEF SessionsNext
<1>4. CASE Sweep /\ UNCHANGED sessionsVars
  <2>1. UNCHANGED clock
    BY <1>4 DEF Sweep
  <2> QED BY <1>4, <2>1 DEF LimiterNext
<1>5. CASE LimiterTick /\ UNCHANGED sessionsVars
  BY <1>5 DEF LimiterNext, SessionsNext, LimiterTick, SessionsTick
<1>6. CASE UNCHANGED webVars
  BY <1>6 DEF webVars
<1> QED BY <1>1, <1>2, <1>3, <1>4, <1>5, <1>6 DEF Next

\* The web server's steps are steps of the limiter and steps of the sessions: what
\* either part promises alone it promises in the server (middleware.py:33-51).
THEOREM PartsComposed == Spec => LimiterSpec /\ SessionsSpec
BY StepOfParts, PTL DEF Spec, Init, LimiterSpec, SessionsSpec

\* The variables stay typed, and no login gets past the limiter (middleware.py:34-37).
THEOREM WebTypeCorrect == Spec => []TypeOK
<1> DEFINE Let == \A l \in Login : login[l] # "new" => \E k \in Key : l \in accepted[k]
<1>1. Init => Let
  BY DEF Init, SessionsInit
<1>2. LimiterInv /\ SessionsInv /\ Let /\ [Next]_webVars => Let'
  <2> SUFFICES ASSUME LimiterInv, SessionsInv, Let, [Next]_webVars, NEW l \in Login, login'[l] # "new"
               PROVE  \E k \in Key : l \in accepted'[k]
    OBVIOUS
  <2>1. \A k \in Key : accepted[k] \subseteq accepted'[k]
    <3>1. accepted \in [Key -> SUBSET Request]
      BY DEF LimiterInv, LimiterTypeOK
    <3>2. [LimiterNext]_<<clock, limiterVars>>
      BY StepOfParts
    <3> QED BY <3>1, <3>2 DEF LimiterNext, Check, Accept, Reject, Sweep, LimiterTick, limiterVars
  <2>2. CASE login[l] # "new"
    BY <2>1, <2>2
  <2>3. CASE login[l] = "new"
    <3>1. LoginRoute(l)
      <4>1. login'[l] # login[l] /\ login \in [Login -> {"new", "checking", "matches", "refused", "done"}]
        BY <2>3 DEF SessionsInv, SessionsTypeOK
      <4>2. ASSUME NEW m \in Login, LoginRoute(m) PROVE m = l
        BY <4>1, <4>2 DEF LoginRoute, LoginStep, GetHash, CheckPassword, CreateSession
      <4>3. \E m \in Login : LoginRoute(m)
        BY <4>1 DEF Next, webVars, LoginRequest, OtherStep, Logout, DeleteUser, UpsertUser,
                    PurgeExpired, loginVars, sessionsVars
      <4> QED BY <4>2, <4>3
    <3> QED BY <3>1, <2>1 DEF LoginRoute
  <2> QED BY <2>2, <2>3
<1>3. LimiterInv /\ SessionsInv /\ Let => TypeOK
  BY DEF LimiterInv, SessionsInv, TypeOK
<1>4. Spec => []LimiterInv /\ []SessionsInv
  BY PartsComposed, LimiterInvariant, SessionsInvariant, PTL
<1> HIDE DEF Let
<1> QED BY <1>1, <1>2, <1>3, <1>4, PTL DEF Spec

\* The window of the limiter of logins holds exactly, for any number of clients and
\* requests (rate_limit.py:23-30, 47-55).
THEOREM LimitIsExact == Spec => []LimitExact
<1>1. LimiterInv => LimitExact
  BY DEF LimiterInv
<1> QED BY <1>1, PartsComposed, LimiterInvariant, PTL

\* Tokens are accepted exactly while README.md:191-192 says, for any number of users
\* and logins (user_store.py:52-112).
THEOREM TokensExact == Spec => []AcceptedExactlyWhile
BY InvAcceptsExactly, PartsComposed, SessionsInvariant, PTL

\* What is not accepted any more never is again (user_store.py:52-118).
THEOREM TokensStayDead == Spec => NeverRevived
<1>1. SessionsInv /\ [SessionsNext]_<<clock, sessionsVars>> =>
        [\A l \in Login : login[l] = "done" /\ ~Authenticates(l) => ~Authenticates(l)']_<<clock, sessionsVars>>
  BY DeadStaysDead
<1> QED BY <1>1, PartsComposed, SessionsInvariant, PTL DEF SessionsSpec, NeverRevived
=============================================================================
