----------------------------- MODULE ClaimBuckets -----------------------------
(***************************************************************************)
(* The buckets of crates/claim: ClaimManager keeps one ClaimBucket per     *)
(* token, whose semaphore bounds the connections the token may have open.  *)
(* claim_auth_middleware verifies the token, gets or creates its bucket,   *)
(* tries to take a permit, runs the handler and gives the permit back; a   *)
(* background task removes the buckets of expired tokens.                  *)
(*                                                                         *)
(* Requests run on many threads, so every use of the map's RwLock is a     *)
(* step.  A bucket is named by the request that created it: a request      *)
(* creates at most one.                                                    *)
(***************************************************************************)
EXTENDS Naturals, FiniteSets

CONSTANTS
  Requests,   \* GET /videos/... requests
  Claims,     \* tokens, that is bucket keys
  ClaimOf,    \* the token of each request
  LimitOf,    \* max_concurrency of each token, 0 for no limit
  NbfOf,      \* nbf_unix of each token
  ExpOf,      \* exp_unix of each token
  Serial,     \* TRUE if calls of get_or_create_bucket for a key do not overlap
  Stalls,     \* what Instant::now().elapsed() may return
  IdleLimit,  \* the 600_000 ms of cleanup_expired
  MaxTime,    \* bound on the clock
  NoBucket

ASSUME ClaimAssumption ==
  /\ IsFiniteSet(Requests) /\ NoBucket \notin Requests
  /\ ClaimOf \in [Requests -> Claims]
  /\ LimitOf \in [Claims -> Nat]
  /\ NbfOf \in [Claims -> Nat] /\ ExpOf \in [Claims -> Nat]
  /\ Serial \in BOOLEAN
  /\ Stalls \subseteq Nat /\ Stalls # {} /\ IdleLimit \in Nat /\ MaxTime \in Nat

VARIABLES
  now,          \* the clock, in the unit of nbf_unix and exp_unix
  buckets,      \* ClaimManagerInner.buckets
  pc,           \* of each request, its next step
  uses,         \* of each request, the bucket it was given
  free,         \* of each bucket, the permits of its semaphore that are not taken
  last_access   \* of each bucket

claimVars == <<now, buckets, pc, uses, free, last_access>>

Steps == {"idle", "verified", "missing", "got", "acquired", "serving", "streaming",
          "closed"}

ClaimTypeOK ==
  /\ now \in 0 .. MaxTime
  /\ buckets \in [Claims -> Requests \cup {NoBucket}]
  /\ pc \in [Requests -> Steps]
  /\ uses \in [Requests -> Requests \cup {NoBucket}]
  /\ free \in [Requests -> Nat]
  /\ last_access \in [Requests -> Nat]

Goto(r, l) == pc' = [pc EXCEPT ![r] = l]

\* ClaimBucket::touch stores the time that has passed since just now.
Touch(b) == \E e \in Stalls : last_access' = [last_access EXCEPT ![b] = e]

\* Payload::verify, for a token that covers the file.
Valid(c) == NbfOf[c] <= now /\ now < ExpOf[c]

\* verify_claim up to the bucket, for a token that decrypts.
Verify(r) ==
  /\ pc[r] = "idle"
  /\ Goto(r, IF Valid(ClaimOf[r]) THEN "verified" ELSE "closed")
  /\ UNCHANGED <<now, buckets, uses, free, last_access>>

\* get_or_create_bucket: the look-up, under the read lock.
GetBucket(r) ==
  LET b == buckets[ClaimOf[r]] IN
  /\ pc[r] = "verified"
  /\ Serial => \A s \in Requests : ClaimOf[s] = ClaimOf[r] => pc[s] # "missing"
  /\ \/ /\ b # NoBucket
        /\ Goto(r, "got")
        /\ uses' = [uses EXCEPT ![r] = b]
        /\ Touch(b)
     \/ /\ b = NoBucket
        /\ Goto(r, "missing")
        /\ UNCHANGED <<uses, last_access>>
  /\ UNCHANGED <<now, buckets, free>>

\* get_or_create_bucket: the insertion, under the write lock.  It does not look
\* again, and replaces what another request has put there.
CreateBucket(r) ==
  /\ pc[r] = "missing"
  /\ Goto(r, "got")
  /\ buckets' = [buckets EXCEPT ![ClaimOf[r]] = r]
  /\ uses' = [uses EXCEPT ![r] = r]
  /\ free' = [free EXCEPT ![r] = LimitOf[ClaimOf[r]]]
  /\ Touch(r)
  /\ UNCHANGED now

\* A mutant: one connection more than the limit.
AcquireOneMore(r) ==
  LET b == uses[r] IN
  /\ pc[r] = "got"
  /\ \/ /\ LimitOf[ClaimOf[r]] = 0
        /\ Goto(r, "acquired")
        /\ UNCHANGED free
     \/ /\ LimitOf[ClaimOf[r]] # 0
        /\ Goto(r, "acquired")
        /\ free' = [free EXCEPT ![b] = IF free[b] > 0 THEN free[b] - 1 ELSE 0]
  /\ UNCHANGED <<now, buckets, uses, last_access>>

\* try_acquire_connection, and 429 if there is no permit.
Acquire(r) ==
  LET b == uses[r] IN
  /\ pc[r] = "got"
  /\ \/ /\ LimitOf[ClaimOf[r]] = 0
        /\ Goto(r, "acquired")
        /\ UNCHANGED free
     \/ /\ LimitOf[ClaimOf[r]] # 0 /\ free[b] > 0
        /\ Goto(r, "acquired")
        /\ free' = [free EXCEPT ![b] = free[b] - 1]
     \/ /\ LimitOf[ClaimOf[r]] # 0 /\ free[b] = 0
        /\ Goto(r, "closed")
        /\ UNCHANGED free
  /\ UNCHANGED <<now, buckets, uses, last_access>>

\* touch_bucket goes by the key, to the bucket that is in the map by now.
TouchBucket(r) ==
  LET b == buckets[ClaimOf[r]] IN
  /\ pc[r] = "acquired"
  /\ Goto(r, "serving")
  /\ \/ b # NoBucket /\ Touch(b)
     \/ b = NoBucket /\ UNCHANGED last_access
  /\ UNCHANGED <<now, buckets, uses, free>>

\* The permit of r, if it has one, is dropped.
Release(r) ==
  free' = IF LimitOf[ClaimOf[r]] = 0 THEN free
          ELSE [free EXCEPT ![uses[r]] = free[uses[r]] + 1]

\* next.run, that is serve_video, returns: an error, or a response whose body is
\* still to be sent.
\* The middleware returns with it, which drops the guard.
Respond(r) ==
  /\ pc[r] = "serving"
  /\ Goto(r, "streaming") \/ Goto(r, "closed")
  /\ Release(r)
  /\ UNCHANGED <<now, buckets, uses, last_access>>

\* The body has been sent, or the client is gone.
Close(r) ==
  /\ pc[r] = "streaming"
  /\ Goto(r, "closed")
  /\ UNCHANGED <<now, buckets, uses, free, last_access>>

\* The client goes away while the handler awaits: its future is dropped.
Cancel(r) ==
  /\ pc[r] = "serving"
  /\ Goto(r, "closed")
  /\ Release(r)
  /\ UNCHANGED <<now, buckets, uses, last_access>>

saturating_sub(a, b) == IF a >= b THEN a - b ELSE 0

is_expired(c) == ExpOf[c] < now

is_idle(b, now_ms) == saturating_sub(now_ms, last_access[b]) > IdleLimit

\* A mutant: only idle buckets are removed.
CleanupIdleOnly ==
  /\ \E now_ms \in Stalls :
       buckets' = [c \in Claims |->
         IF buckets[c] # NoBucket /\ is_idle(buckets[c], now_ms)
         THEN NoBucket ELSE buckets[c]]
  /\ UNCHANGED <<now, pc, uses, free, last_access>>

\* One tick of the cleanup task; requests that have the bucket keep it.
cleanup_expired ==
  /\ \E now_ms \in Stalls :
       buckets' = [c \in Claims |->
         IF buckets[c] # NoBucket /\ (is_expired(c) \/ is_idle(buckets[c], now_ms))
         THEN NoBucket ELSE buckets[c]]
  /\ UNCHANGED <<now, pc, uses, free, last_access>>

Tick ==
  /\ now < MaxTime
  /\ now' = now + 1
  /\ UNCHANGED <<buckets, pc, uses, free, last_access>>

ClaimInit ==
  /\ now = 0
  /\ buckets = [c \in Claims |-> NoBucket]
  /\ pc = [r \in Requests |-> "idle"]
  /\ uses = [r \in Requests |-> NoBucket]
  /\ free = [r \in Requests |-> 0]
  /\ last_access = [r \in Requests |-> 0]

RequestStep(r) ==
  \/ Verify(r) \/ GetBucket(r) \/ CreateBucket(r) \/ Acquire(r) \/ TouchBucket(r)
  \/ Respond(r) \/ Close(r) \/ Cancel(r)

ClaimNext ==
  \/ \E r \in Requests : RequestStep(r)
  \/ cleanup_expired
  \/ Tick

ClaimSpec == ClaimInit /\ [][ClaimNext]_claimVars

\* The cleanup task's interval ticks for ever, and time passes; requests need
\* not go on.
FairClaimSpec == ClaimSpec /\ WF_claimVars(cleanup_expired) /\ WF_claimVars(Tick)

-------------------------------------------------------------------------------
Holding == {"acquired", "serving"}

Holders(b) == {r \in Requests : pc[r] \in Holding /\ uses[r] = b}

Limited(r) == LimitOf[ClaimOf[r]] # 0

\* A bucket's users have the bucket's token, and a bucket that is in the map or
\* in use has been created.
BucketsPlaced ==
  /\ \A c \in Claims : buckets[c] # NoBucket =>
       ClaimOf[buckets[c]] = c /\ uses[buckets[c]] = buckets[c]
  /\ \A r \in Requests : uses[r] # NoBucket =>
       ClaimOf[uses[r]] = ClaimOf[r] /\ uses[uses[r]] = uses[r]
  /\ \A r \in Requests :
       /\ pc[r] \in {"idle", "verified", "missing"} => uses[r] = NoBucket
       /\ pc[r] \in {"got", "acquired", "serving"} => uses[r] # NoBucket

\* No permit is lost and none is made, whether a request is answered, refused or
\* cancelled, and whatever happens to its bucket in the map meanwhile: a
\* bucket's free permits and its users' are its limit.
PermitsBalanced ==
  \A b \in Requests :
    uses[b] = b /\ Limited(b) => free[b] + Cardinality(Holders(b)) = LimitOf[ClaimOf[b]]

\* The concurrency limit: as long as a token is valid, no more requests than its
\* max_concurrency are being answered with it.  It needs that two requests do
\* not create the token's bucket at the same time.
WithinLimit ==
  \A c \in Claims :
    LimitOf[c] # 0 /\ now <= ExpOf[c] =>
      Cardinality({r \in Requests : pc[r] \in Holding /\ ClaimOf[r] = c}) <= LimitOf[c]

\* Why WithinLimit holds: one request at a time creates a token's bucket, and
\* until the token expires its only bucket is in the map.
OneCreator ==
  \A r, s \in Requests :
    pc[r] = "missing" /\ pc[s] = "missing" /\ ClaimOf[r] = ClaimOf[s] => r = s

OneBucket ==
  \A r \in Requests : now <= ExpOf[ClaimOf[r]] =>
    /\ uses[r] # NoBucket => uses[r] = buckets[ClaimOf[r]]
    /\ pc[r] = "missing" => buckets[ClaimOf[r]] = NoBucket

ClaimInv == ClaimTypeOK /\ BucketsPlaced /\ PermitsBalanced

LimitInv == ClaimInv /\ OneCreator /\ OneBucket

\* The map does not grow for ever: in the end the buckets of all expired tokens
\* are gone, even one that a slow request creates after its token was cleaned up.
ExpiredGone == <>[](\A c \in Claims : ExpOf[c] < now => buckets[c] = NoBucket)
===============================================================================
