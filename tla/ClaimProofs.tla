------------------------------ MODULE ClaimProofs -----------------------------
(***************************************************************************)
(* Proofs about claims. ClaimBuckets: permits are neither lost nor made,   *)
(* and, when no two requests create a token's bucket at the same time, a   *)
(* token's concurrency limit holds until it expires. FuseFilter, the       *)
(* filter of the assets a claim grants: a built filter contains every key. *)
(* ClaimTokens: a token's bytes give back what was signed, and the verdict *)
(* on a file is that of the request the token was created for.             *)
(***************************************************************************)
EXTENDS ClaimBuckets, ClaimTokens, FuseFilter, FiniteSetTheorems, SequenceTheorems, NaturalsInduction, WellFoundedInduction, TLAPS

\* The size of a set of requests when one comes or goes.
LEMMA Counting ==
  ASSUME NEW S \in SUBSET Requests, NEW r
  PROVE  /\ IsFiniteSet(S) /\ Cardinality(S) \in Nat
         /\ r \notin S => Cardinality(S \cup {r}) = Cardinality(S) + 1
         /\ r \in S => Cardinality(S \ {r}) = Cardinality(S) - 1
<1>1. IsFiniteSet(S)
  BY ClaimAssumption, FS_Subset
<1> QED BY <1>1, FS_CardinalityType, FS_AddElement, FS_RemoveElement

LEMMA ClaimTypes ==
  ASSUME ClaimTypeOK, BucketsPlaced, [ClaimNext]_claimVars
  PROVE  ClaimTypeOK'
<1> USE ClaimAssumption DEF ClaimTypeOK, Goto, Steps
<1>1. ASSUME NEW r \in Requests, Verify(r)
      PROVE  ClaimTypeOK'
  BY <1>1 DEF Verify
<1>2. ASSUME NEW r \in Requests, GetBucket(r)
      PROVE  ClaimTypeOK'
  BY <1>2 DEF GetBucket, Touch
<1>3. ASSUME NEW r \in Requests, CreateBucket(r)
      PROVE  ClaimTypeOK'
  BY <1>3 DEF CreateBucket, Touch
<1>4. ASSUME NEW r \in Requests, Acquire(r)
      PROVE  ClaimTypeOK'
  BY <1>4 DEF Acquire
<1>5. ASSUME NEW r \in Requests, TouchBucket(r)
      PROVE  ClaimTypeOK'
  BY <1>5 DEF TouchBucket, Touch
<1>6. ASSUME NEW r \in Requests, Respond(r) \/ Cancel(r)
      PROVE  ClaimTypeOK'
  BY <1>6 DEF Respond, Cancel, Release
<1>7. ASSUME NEW r \in Requests, Close(r)
      PROVE  ClaimTypeOK'
  BY <1>7 DEF Close
<1>8. CASE cleanup_expired
  BY <1>8 DEF cleanup_expired
<1>9. CASE Tick
  BY <1>9 DEF Tick
<1>10. CASE UNCHANGED claimVars
  BY <1>10 DEF claimVars
<1> QED BY <1>1, <1>2, <1>3, <1>4, <1>5, <1>6, <1>7, <1>8, <1>9, <1>10
        DEF ClaimNext, RequestStep

LEMMA ClaimPlaced ==
  ASSUME ClaimTypeOK, BucketsPlaced, [ClaimNext]_claimVars
  PROVE  BucketsPlaced'
<1> USE ClaimAssumption DEF ClaimTypeOK, BucketsPlaced, Goto
<1>1. ASSUME NEW r \in Requests, Verify(r)
      PROVE  BucketsPlaced'
  BY <1>1 DEF Verify
<1>2. ASSUME NEW r \in Requests, GetBucket(r)
      PROVE  BucketsPlaced'
  BY <1>2 DEF GetBucket
<1>3. ASSUME NEW r \in Requests, CreateBucket(r)
      PROVE  BucketsPlaced'
  BY <1>3 DEF CreateBucket
<1>4. ASSUME NEW r \in Requests, Acquire(r)
      PROVE  BucketsPlaced'
  BY <1>4 DEF Acquire
<1>5. ASSUME NEW r \in Requests, TouchBucket(r) \/ Respond(r) \/ Cancel(r) \/ Close(r)
      PROVE  BucketsPlaced'
  BY <1>5 DEF TouchBucket, Respond, Cancel, Close
<1>6. CASE cleanup_expired
  BY <1>6 DEF cleanup_expired
<1>7. CASE Tick
  BY <1>7 DEF Tick
<1>8. CASE UNCHANGED claimVars
  BY <1>8 DEF claimVars
<1> QED BY <1>1, <1>2, <1>3, <1>4, <1>5, <1>6, <1>7, <1>8 DEF ClaimNext, RequestStep

\* The balance of one bucket, b, that exists after the step.
Balance(b) == free[b] + Cardinality(Holders(b)) = LimitOf[ClaimOf[b]]

LEMMA BalanceKept ==
  ASSUME ClaimInv, NEW b \in Requests, uses[b] = b, Limited(b),
         free'[b] = free[b], Holders(b)' = Holders(b)
  PROVE  Balance(b)'
  BY DEF ClaimInv, PermitsBalanced, Balance

\* A request of the token of b that takes or leaves a permit of b.
LEMMA BalanceStep ==
  ASSUME ClaimInv, NEW b \in Requests, uses[b] = b, Limited(b), NEW r \in Requests,
         \/ /\ Holders(b)' = Holders(b) \cup {r} /\ r \notin Holders(b)
            /\ free[b] > 0 /\ free'[b] = free[b] - 1
         \/ /\ Holders(b)' = Holders(b) \ {r} /\ r \in Holders(b)
            /\ free'[b] = free[b] + 1
  PROVE  Balance(b)'
<1> DEFINE S == Holders(b)
<1>1. S \in SUBSET Requests /\ free[b] \in Nat /\ LimitOf[ClaimOf[b]] \in Nat
  BY ClaimAssumption DEF Holders, ClaimInv, ClaimTypeOK
<1>2. free[b] + Cardinality(S) = LimitOf[ClaimOf[b]]
  BY DEF ClaimInv, PermitsBalanced
<1> HIDE DEF S
<1>3. /\ Cardinality(S) \in Nat
      /\ r \notin S => Cardinality(S \cup {r}) = Cardinality(S) + 1
      /\ r \in S => Cardinality(S \ {r}) = Cardinality(S) - 1
  BY <1>1, Counting
<1>4. \/ /\ Holders(b)' = S \cup {r} /\ r \notin S
         /\ free[b] > 0 /\ free'[b] = free[b] - 1
      \/ /\ Holders(b)' = S \ {r} /\ r \in S
         /\ free'[b] = free[b] + 1
  BY DEF S
<1>5. free'[b] + Cardinality(Holders(b)') = LimitOf[ClaimOf[b]]
  <2>1. CASE /\ Holders(b)' = S \cup {r} /\ r \notin S
             /\ free[b] > 0 /\ free'[b] = free[b] - 1
    <3>1. Cardinality(Holders(b)') = Cardinality(S) + 1
      BY <1>3, <2>1
    <3> QED BY <1>1, <1>2, <1>3, <2>1, <3>1
  <2>2. CASE /\ Holders(b)' = S \ {r} /\ r \in S
             /\ free'[b] = free[b] + 1
    <3>1. Cardinality(Holders(b)') = Cardinality(S) - 1
      BY <1>3, <2>2
    <3> QED BY <1>1, <1>2, <1>3, <2>2, <3>1
  <2> QED BY <1>4, <2>1, <2>2
<1> QED BY <1>5 DEF Balance

LEMMA ClaimBalanced ==
  ASSUME ClaimInv, [ClaimNext]_claimVars
  PROVE  PermitsBalanced'
<1> SUFFICES ASSUME NEW b \in Requests, uses'[b] = b, Limited(b)
             PROVE  Balance(b)'
  BY DEF PermitsBalanced, Balance, Limited
<1>t. ClaimTypeOK /\ BucketsPlaced
  BY DEF ClaimInv
<1> USE <1>t, ClaimAssumption DEF ClaimTypeOK, BucketsPlaced, Goto
<1>1. ASSUME NEW r \in Requests, Verify(r)
      PROVE  Balance(b)'
  <2>1. uses[b] = b /\ free'[b] = free[b] /\ Holders(b)' = Holders(b)
    BY <1>1 DEF Verify, Holders, Holding
  <2> QED BY <2>1, BalanceKept
<1>2. ASSUME NEW r \in Requests, GetBucket(r)
      PROVE  Balance(b)'
  <2>1. uses[b] = b
    BY <1>2 DEF GetBucket
  <2>2. free'[b] = free[b] /\ Holders(b)' = Holders(b)
    BY <1>2 DEF GetBucket, Holders, Holding
  <2> QED BY <2>1, <2>2, BalanceKept
<1>3. ASSUME NEW r \in Requests, CreateBucket(r)
      PROVE  Balance(b)'
  <2>1. CASE b = r
    <3>1. Holders(b)' = {} /\ free'[b] = LimitOf[ClaimOf[b]]
      BY <1>3, <2>1 DEF CreateBucket, Holders, Holding
    <3> QED BY <3>1, FS_EmptySet DEF Balance
  <2>2. CASE b # r
    <3>1. uses[b] = b /\ free'[b] = free[b] /\ Holders(b)' = Holders(b)
      BY <1>3, <2>2 DEF CreateBucket, Holders, Holding
    <3> QED BY <3>1, BalanceKept
  <2> QED BY <2>1, <2>2
<1>4. ASSUME NEW r \in Requests, Acquire(r)
      PROVE  Balance(b)'
  <2>1. uses[b] = b /\ uses' = uses /\ uses[r] \in Requests
    BY <1>4 DEF Acquire
  <2>2. CASE uses[r] = b /\ pc' = [pc EXCEPT ![r] = "acquired"]
    <3>1. LimitOf[ClaimOf[r]] # 0
      BY <2>1, <2>2 DEF Limited
    <3>2. free[b] > 0 /\ free'[b] = free[b] - 1
      BY <1>4, <2>2, <3>1 DEF Acquire
    <3>3. Holders(b)' = Holders(b) \cup {r} /\ r \notin Holders(b)
      BY <1>4, <2>1, <2>2 DEF Acquire, Holders, Holding
    <3> QED BY <2>1, <3>2, <3>3, BalanceStep
  <2>3. CASE uses[r] # b
    <3>1. free'[b] = free[b]
      BY <1>4, <2>3 DEF Acquire
    <3>2. Holders(b)' = Holders(b)
      BY <1>4, <2>1, <2>3 DEF Acquire, Holders, Holding
    <3> QED BY <2>1, <3>1, <3>2, BalanceKept
  <2>4. CASE pc' = [pc EXCEPT ![r] = "closed"]
    <3>1. free'[b] = free[b]
      BY <1>4, <2>4 DEF Acquire
    <3>2. Holders(b)' = Holders(b)
      BY <1>4, <2>1, <2>4 DEF Acquire, Holders, Holding
    <3> QED BY <2>1, <3>1, <3>2, BalanceKept
  <2> QED BY <1>4, <2>2, <2>3, <2>4 DEF Acquire
<1>5. ASSUME NEW r \in Requests, TouchBucket(r)
      PROVE  Balance(b)'
  <2>1. uses[b] = b /\ free'[b] = free[b] /\ Holders(b)' = Holders(b)
    BY <1>5 DEF TouchBucket, Holders, Holding
  <2> QED BY <2>1, BalanceKept
<1>6. ASSUME NEW r \in Requests, Respond(r) \/ Cancel(r)
      PROVE  Balance(b)'
  <2>1. /\ uses' = uses /\ uses[r] \in Requests /\ pc[r] = "serving" /\ Release(r)
        /\ pc' = [pc EXCEPT ![r] = "streaming"] \/ pc' = [pc EXCEPT ![r] = "closed"]
    BY <1>6 DEF Respond, Cancel
  <2>2. CASE uses[r] = b
    <3>1. free'[b] = free[b] + 1
      BY <2>1, <2>2 DEF Release, Limited
    <3>2. Holders(b)' = Holders(b) \ {r} /\ r \in Holders(b)
      BY <2>1, <2>2 DEF Holders, Holding
    <3> QED BY <2>1, <3>1, <3>2, BalanceStep
  <2>3. CASE uses[r] # b
    <3>1. free'[b] = free[b] /\ Holders(b)' = Holders(b)
      BY <2>1, <2>3 DEF Release, Holders, Holding
    <3> QED BY <2>1, <3>1, BalanceKept
  <2> QED BY <2>2, <2>3
<1>7. ASSUME NEW r \in Requests, Close(r)
      PROVE  Balance(b)'
  <2>1. uses[b] = b /\ free'[b] = free[b] /\ Holders(b)' = Holders(b)
    BY <1>7 DEF Close, Holders, Holding
  <2> QED BY <2>1, BalanceKept
<1>8. CASE cleanup_expired \/ Tick \/ UNCHANGED claimVars
  <2>1. uses[b] = b /\ free'[b] = free[b] /\ Holders(b)' = Holders(b)
    BY <1>8 DEF cleanup_expired, Tick, claimVars, Holders
  <2> QED BY <2>1, BalanceKept
<1> QED BY <1>1, <1>2, <1>3, <1>4, <1>5, <1>6, <1>7, <1>8 DEF ClaimNext, RequestStep

LEMMA ClaimStarts == ClaimInit => ClaimInv
  BY ClaimAssumption
  DEF ClaimInit, ClaimInv, ClaimTypeOK, Steps, BucketsPlaced, PermitsBalanced

LEMMA ClaimStep == ClaimInv /\ [ClaimNext]_claimVars => ClaimInv'
  BY ClaimTypes, ClaimPlaced, ClaimBalanced DEF ClaimInv

\* However requests race, are refused or cancelled, and whenever the cleanup
\* runs, no permit of a bucket is lost and none is made.
THEOREM PermitsKept == ClaimSpec => []PermitsBalanced
<1>1. ClaimInv => PermitsBalanced
  BY DEF ClaimInv
<1> QED BY <1>1, ClaimStarts, ClaimStep, PTL DEF ClaimSpec

-------------------------------------------------------------------------------
(* The limit.                                                              *)

\* A bucket is removed only once its token is refused.
LEMMA CleanupHarmless ==
  ASSUME ClaimTypeOK, \A e \in Stalls : e <= IdleLimit, cleanup_expired,
         NEW c \in Claims, now <= ExpOf[c]
  PROVE  buckets'[c] = buckets[c]
<1>1. PICK now_ms \in Stalls :
        buckets' = [d \in Claims |->
          IF buckets[d] # NoBucket /\ (is_expired(d) \/ is_idle(buckets[d], now_ms))
          THEN NoBucket ELSE buckets[d]]
  BY DEF cleanup_expired
<1>2. ~is_expired(c)
  BY ClaimAssumption DEF is_expired, ClaimTypeOK
<1>3. \A b \in Requests : ~is_idle(b, now_ms)
  BY ClaimAssumption DEF is_idle, saturating_sub, ClaimTypeOK
<1>4. buckets[c] \in Requests \cup {NoBucket}
  BY DEF ClaimTypeOK
<1> QED BY <1>1, <1>2, <1>3, <1>4

LEMMA OneCreatorStep ==
  ASSUME Serial, ClaimTypeOK, OneCreator, [ClaimNext]_claimVars
  PROVE  OneCreator'
<1> USE ClaimAssumption DEF ClaimTypeOK, OneCreator, Goto
<1>1. ASSUME NEW r \in Requests, GetBucket(r)
      PROVE  OneCreator'
  BY <1>1 DEF GetBucket
<1>2. ASSUME NEW r \in Requests,
             \/ Verify(r) \/ CreateBucket(r) \/ Acquire(r) \/ TouchBucket(r)
             \/ Respond(r) \/ Cancel(r) \/ Close(r)
      PROVE  OneCreator'
  BY <1>2 DEF Verify, CreateBucket, Acquire, TouchBucket, Respond, Cancel, Close
<1>3. CASE cleanup_expired \/ Tick \/ UNCHANGED claimVars
  BY <1>3 DEF cleanup_expired, Tick, claimVars
<1> QED BY <1>1, <1>2, <1>3 DEF ClaimNext, RequestStep

LEMMA OneBucketStep ==
  ASSUME Serial, \A e \in Stalls : e <= IdleLimit,
         ClaimInv, OneCreator, OneBucket, [ClaimNext]_claimVars
  PROVE  OneBucket'
<1> SUFFICES ASSUME NEW s \in Requests, now' <= ExpOf[ClaimOf[s]]
             PROVE  /\ uses'[s] # NoBucket => uses'[s] = buckets'[ClaimOf[s]]
                    /\ pc'[s] = "missing" => buckets'[ClaimOf[s]] = NoBucket
  BY DEF OneBucket
<1>t. ClaimTypeOK /\ BucketsPlaced
  BY DEF ClaimInv
<1>n. now <= ExpOf[ClaimOf[s]] /\ ClaimOf[s] \in Claims
  BY <1>t, ClaimAssumption
  DEF ClaimTypeOK, ClaimNext, RequestStep, Verify, GetBucket, CreateBucket, Acquire,
      TouchBucket, Respond, Close, Cancel, cleanup_expired, Tick, claimVars
<1>s. /\ uses[s] # NoBucket => uses[s] = buckets[ClaimOf[s]]
      /\ pc[s] = "missing" => buckets[ClaimOf[s]] = NoBucket
  BY <1>n DEF OneBucket
<1> USE <1>t, <1>n, <1>s, ClaimAssumption DEF ClaimTypeOK, BucketsPlaced, Goto
<1>1. ASSUME NEW r \in Requests, Verify(r)
      PROVE  /\ uses'[s] # NoBucket => uses'[s] = buckets'[ClaimOf[s]]
             /\ pc'[s] = "missing" => buckets'[ClaimOf[s]] = NoBucket
  BY <1>1 DEF Verify
<1>2. ASSUME NEW r \in Requests, GetBucket(r)
      PROVE  /\ uses'[s] # NoBucket => uses'[s] = buckets'[ClaimOf[s]]
             /\ pc'[s] = "missing" => buckets'[ClaimOf[s]] = NoBucket
  BY <1>2 DEF GetBucket
<1>3. ASSUME NEW r \in Requests, CreateBucket(r)
      PROVE  /\ uses'[s] # NoBucket => uses'[s] = buckets'[ClaimOf[s]]
             /\ pc'[s] = "missing" => buckets'[ClaimOf[s]] = NoBucket
  <2>1. CASE ClaimOf[s] # ClaimOf[r]
    BY <1>3, <2>1 DEF CreateBucket
  <2>2. CASE ClaimOf[s] = ClaimOf[r]
    <3>1. uses[s] = NoBucket /\ uses[r] = NoBucket
      BY <1>3, <2>2 DEF CreateBucket, OneBucket
    <3>2. pc[s] = "missing" => s = r
      BY <1>3, <2>2 DEF CreateBucket, OneCreator
    <3> QED BY <1>3, <2>2, <3>1, <3>2 DEF CreateBucket
  <2> QED BY <2>1, <2>2
<1>4. ASSUME NEW r \in Requests,
             Acquire(r) \/ TouchBucket(r) \/ Respond(r) \/ Cancel(r) \/ Close(r)
      PROVE  /\ uses'[s] # NoBucket => uses'[s] = buckets'[ClaimOf[s]]
             /\ pc'[s] = "missing" => buckets'[ClaimOf[s]] = NoBucket
  BY <1>4 DEF Acquire, TouchBucket, Respond, Cancel, Close
<1>5. CASE cleanup_expired
  <2>1. buckets'[ClaimOf[s]] = buckets[ClaimOf[s]]
    BY <1>5, CleanupHarmless
  <2> QED BY <1>5, <2>1 DEF cleanup_expired
<1>6. CASE Tick \/ UNCHANGED claimVars
  BY <1>6 DEF Tick, claimVars
<1> QED BY <1>1, <1>2, <1>3, <1>4, <1>5, <1>6 DEF ClaimNext, RequestStep

\* All requests that are being answered with a token that is still valid hold
\* permits of one bucket.
LEMMA LimitFromPermits ==
  ASSUME ClaimInv, OneBucket
  PROVE  WithinLimit
<1> SUFFICES ASSUME NEW c \in Claims, LimitOf[c] # 0, now <= ExpOf[c]
             PROVE  Cardinality({r \in Requests : pc[r] \in Holding /\ ClaimOf[r] = c})
                      <= LimitOf[c]
  BY DEF WithinLimit
<1> DEFINE S == {r \in Requests : pc[r] \in Holding /\ ClaimOf[r] = c}
           b == buckets[c]
<1>t. ClaimTypeOK /\ BucketsPlaced
  BY DEF ClaimInv
<1>1. \A r \in S : uses[r] = b /\ b # NoBucket
  BY <1>t DEF BucketsPlaced, OneBucket, Holding
<1>2. CASE S = {}
  <2>1. Cardinality(S) = 0 /\ LimitOf[c] \in Nat
    BY <1>2, FS_EmptySet, ClaimAssumption
  <2> QED BY <2>1
<1>3. CASE S # {}
  <2>1. b \in Requests /\ b # NoBucket
    BY <1>1, <1>3, <1>t DEF ClaimTypeOK
  <2>2. uses[b] = b /\ ClaimOf[b] = c
    BY <1>t, <2>1 DEF BucketsPlaced
  <2>3. S = Holders(b)
    BY <1>1, <1>t, <2>1, <2>2, ClaimAssumption DEF Holders, BucketsPlaced
  <2>4. free[b] + Cardinality(Holders(b)) = LimitOf[c] /\ free[b] \in Nat
    BY <2>1, <2>2, <1>t DEF ClaimInv, PermitsBalanced, Limited, ClaimTypeOK
  <2>5. Cardinality(Holders(b)) \in Nat
    BY Counting DEF Holders
  <2>6. Cardinality(Holders(b)) <= LimitOf[c]
    BY <2>4, <2>5, ClaimAssumption
  <2> QED BY <2>3, <2>6
<1> QED BY <1>2, <1>3

\* If calls of get_or_create_bucket for a token do not overlap, and no thread
\* stops for ten minutes between two reads of the clock, then for every number
\* of requests and tokens, and whatever the limits and the validity, a token
\* that is valid is used by no more requests at a time than its limit.
THEOREM LimitKept ==
  ASSUME Serial, \A e \in Stalls : e <= IdleLimit
  PROVE  ClaimSpec => []WithinLimit
<1>1. ClaimInit => LimitInv
  BY ClaimStarts DEF ClaimInit, LimitInv, OneCreator, OneBucket
<1>2. LimitInv /\ [ClaimNext]_claimVars => LimitInv'
  BY ClaimStep, OneCreatorStep, OneBucketStep DEF LimitInv, ClaimInv
<1>3. LimitInv => WithinLimit
  BY LimitFromPermits DEF LimitInv
<1> QED BY <1>1, <1>2, <1>3, PTL DEF ClaimSpec

-----------------------------------------------------------------------------
(* The filter of the assets: a built filter contains all its keys.          *)
(* The least element of a set of numbers                                   *)
LEMMA LeastIn ==
  ASSUME NEW T, T \subseteq Nat, T # {}
  PROVE  \E x \in T : \A y \in T : x <= y
<1>1. PICK x \in T : \A y \in T : ~(<<y, x>> \in OpToRel(<, Nat))
  BY NatLessThanWellFounded, WFMin, Zenon
<1>2. \A y \in T : ~(y < x)
  BY <1>1 DEF OpToRel
<1> QED BY <1>2

LEMMA ModBack ==
  ASSUME NEW c \in Nat \ {0}, NEW a \in Int, NEW b \in 0 .. c - 1, a = b \/ a = b + c
  PROVE  a % c = b
OBVIOUS

LEMMA ModIn ==
  ASSUME NEW c \in Nat \ {0}, NEW a \in Nat
  PROVE  a % c \in 0 .. c - 1
OBVIOUS

SlotsOf(keys, order, k) == {s \in 0 .. Len(keys) - 1 : order[s] = {k}}
FilledSlots(keys, order) == {s \in 0 .. Len(keys) - 1 : order[s] # {}}
Listed(keys, n, k) == {i \in 1 .. n : keys[i] = k}
(* Slot s belongs to what block b has filled so far.                       *)
Covered(keys, start, s) == \E b \in 0 .. Blocks - 1 : Start(keys)[b] <= s /\ s < start[b]

IsList(keys) == keys \in Seq(Range(keys)) /\ keys # << >>

(* The first n keys have their slots: each block fills its slots in order, *)
(* and goes on into those of the next.                                     *)
PlacedUpTo(keys, start, order, n) ==
  /\ n \in 0 .. Len(keys)
  /\ start \in [0 .. Blocks - 1 -> 0 .. Len(keys)]
  /\ \A b \in 0 .. Blocks - 1 : Start(keys)[b] <= start[b]
  /\ DOMAIN order = 0 .. Len(keys) /\ order[Len(keys)] # {}
  /\ \A s \in 0 .. Len(keys) - 1 : /\ (order[s] # {}) <=> Covered(keys, start, s)
                                   /\ order[s] # {} => \E k \in Range(keys) : order[s] = {k}
  /\ Cardinality(FilledSlots(keys, order)) = n
  /\ \A k \in Range(keys) : Cardinality(SlotsOf(keys, order, k)) = Cardinality(Listed(keys, n, k))

LEMMA ListIs ==
  ASSUME NEW keys, IsList(keys)
  PROVE  /\ Len(keys) \in Nat \ {0} /\ DOMAIN keys = 1 .. Len(keys)
         /\ \A i \in 1 .. Len(keys) : keys[i] \in Range(keys)
         /\ \A k \in Range(keys) : \E i \in 1 .. Len(keys) : keys[i] = k
<1>1. Len(keys) \in Nat /\ DOMAIN keys = 1 .. Len(keys) BY DEF IsList
<1>2. Len(keys) # 0 BY DEF IsList
<1> QED BY <1>1, <1>2 DEF Range

LEMMA SlotsFinite ==
  ASSUME NEW n \in Nat \ {0}, NEW T, T \subseteq 0 .. n - 1
  PROVE  /\ IsFiniteSet(T) /\ Cardinality(T) \in Nat /\ Cardinality(T) <= n
         /\ Cardinality(T) = n => T = 0 .. n - 1
<1>1. IsFiniteSet(0 .. n - 1) /\ Cardinality(0 .. n - 1) = n BY FS_Interval
<1>2. T \in SUBSET (0 .. n - 1) OBVIOUS
<1> QED BY <1>1, <1>2, FS_Subset, FS_CardinalityType

LEMMA Share ==
  ASSUME NEW b \in Nat, NEW c \in Nat \ {0}, NEW n \in Nat, b < c
  PROVE  (b * n) \div c \in 0 .. n
<1>1. b * n \in Nat /\ b * n <= c * n OBVIOUS
<1>2. \A x, y \in Nat : x <= c * y => x \div c <= y /\ x \div c \in Nat OBVIOUS
<1> QED BY <1>1, <1>2

LEMMA StartIs ==
  ASSUME NEW keys, IsList(keys)
  PROVE  /\ Start(keys) \in [0 .. Blocks - 1 -> 0 .. Len(keys)] /\ Start(keys)[0] = 0 /\ 0 \in 0 .. Blocks - 1
<1>1. Len(keys) \in Nat /\ Blocks \in Nat \ {0} BY ListIs, FuseAssumption
<1>2. \A b \in 0 .. Blocks - 1 : (b * Len(keys)) \div Blocks \in 0 .. Len(keys)
  <2> TAKE b \in 0 .. Blocks - 1
  <2>1. b \in Nat /\ b < Blocks BY <1>1
  <2> QED BY <1>1, <2>1, Share
<1>3. (0 * Len(keys)) \div Blocks = 0
  <2>1. 0 * Len(keys) = 0 BY <1>1
  <2>2. 0 \div Blocks = 0 BY <1>1
  <2> QED BY <2>1, <2>2
<1>4. 0 \in 0 .. Blocks - 1 BY <1>1
<1> QED BY <1>2, <1>3, <1>4 DEF Start

(* While a key is left, some block can take it: of the blocks that start   *)
(* before an empty slot, the one that has come furthest.                   *)
LEMMA FreeExists ==
  ASSUME NEW keys, IsList(keys), NEW start, NEW order, NEW n, PlacedUpTo(keys, start, order, n), n < Len(keys)
  PROVE  \E b \in 0 .. Blocks - 1 : order[start[b]] = {}
<1> DEFINE N == Len(keys)
           S0 == Start(keys)
<1>0. N \in Nat \ {0} BY ListIs
<1>1. PICK e \in 0 .. N - 1 : order[e] = {}
  <2>1. FilledSlots(keys, order) \subseteq 0 .. N - 1 BY DEF FilledSlots
  <2>2. CASE FilledSlots(keys, order) = 0 .. N - 1
    <3>1. Cardinality(0 .. N - 1) = N BY <1>0, FS_Interval
    <3> QED BY <1>0, <2>2, <3>1 DEF PlacedUpTo
  <2>3. CASE FilledSlots(keys, order) # 0 .. N - 1 BY <2>1, <2>3 DEF FilledSlots
  <2> QED BY <2>2, <2>3
<1>2. /\ S0 \in [0 .. Blocks - 1 -> 0 .. N] /\ S0[0] = 0 /\ 0 \in 0 .. Blocks - 1 BY StartIs
<1>3. start \in [0 .. Blocks - 1 -> 0 .. N] BY DEF PlacedUpTo
<1> DEFINE B == {b \in 0 .. Blocks - 1 : S0[b] <= e}
           D == {e - start[b] : b \in B}
<1>4. 0 \in B BY <1>0, <1>1, <1>2
<1>5. \A b \in B : start[b] <= e /\ start[b] \in Nat
  <2> TAKE b \in B
  <2>1. start[b] \in 0 .. N /\ e \in Nat BY <1>0, <1>1, <1>3
  <2>2. ~Covered(keys, start, e) BY <1>1 DEF PlacedUpTo
  <2>3. ~(S0[b] <= e /\ e < start[b]) BY <2>2 DEF Covered
  <2> QED BY <1>0, <2>1, <2>3
<1>6. D \subseteq Nat /\ D # {} BY <1>0, <1>1, <1>4, <1>5
<1>7. PICK x \in D : \A y \in D : x <= y
  <2> HIDE DEF D
  <2> QED BY <1>6, LeastIn
<1>8. PICK b \in B : x = e - start[b] BY <1>7
<1>9. \A a \in B : start[a] <= start[b]
  <2> TAKE a \in B
  <2>1. e - start[a] \in D OBVIOUS
  <2>2. e - start[b] <= e - start[a] BY <1>7, <1>8, <2>1
  <2> QED BY <1>0, <1>1, <1>5, <2>2
<1>10. order[start[b]] = {}
  <2> SUFFICES ASSUME order[start[b]] # {} PROVE FALSE OBVIOUS
  <2>1. start[b] \in 0 .. N - 1 BY <1>0, <1>1, <1>5
  <2>2. Covered(keys, start, start[b]) BY <2>1 DEF PlacedUpTo
  <2>3. PICK a \in 0 .. Blocks - 1 : S0[a] <= start[b] /\ start[b] < start[a] BY <2>2 DEF Covered
  <2>4. S0[a] \in 0 .. N /\ start[a] \in 0 .. N BY <1>2, <1>3
  <2>5. a \in B BY <1>0, <1>1, <1>5, <2>3, <2>4
  <2> QED BY <1>0, <1>5, <1>9, <2>3, <2>4, <2>5
<1> QED BY <1>10

LEMMA FreeBlockIs ==
  ASSUME NEW n, IsList(fuse.keys), PlacedUpTo(fuse.keys, fuse.start, fuse.order, n), n < Len(fuse.keys),
         NEW block \in 0 .. Blocks - 1
  PROVE  FreeBlock(block) \in 0 .. Blocks - 1 /\ fuse.order[fuse.start[FreeBlock(block)]] = {}
<1> DEFINE vacant == {d \in 0 .. Blocks - 1 : fuse.order[fuse.start[(block + d) % Blocks]] = {}}
<1>0. Blocks \in Nat \ {0} BY FuseAssumption
<1>1. PICK b \in 0 .. Blocks - 1 : fuse.order[fuse.start[b]] = {}
  <2> DEFINE ks == fuse.keys
             st == fuse.start
             od == fuse.order
  <2>1. IsList(ks) /\ PlacedUpTo(ks, st, od, n) /\ n < Len(ks) OBVIOUS
  <2> HIDE DEF ks, st, od
  <2>2. \E b \in 0 .. Blocks - 1 : od[st[b]] = {} BY <2>1, FreeExists
  <2> QED BY <2>2 DEF st, od
<1>2. vacant # {}
  <2> DEFINE d == IF block <= b THEN b - block ELSE b + Blocks - block
  <2>1. d \in 0 .. Blocks - 1 /\ 0 <= block + d /\ block + d < 2 * Blocks /\ block + d \in Int
        /\ (block + d = b \/ block + d = b + Blocks)
    BY <1>0, <1>1
  <2> HIDE DEF d
  <2>3. (block + d) % Blocks = b BY <1>0, <1>1, <2>1, ModBack
  <2>4. d \in vacant BY <1>1, <2>1, <2>3
  <2> QED BY <2>4
<1>3. vacant \subseteq Nat BY <1>0
<1>4. PICK x \in vacant : \A y \in vacant : x <= y
  <2> HIDE DEF vacant
  <2> QED BY <1>2, <1>3, LeastIn
<1>5. Min(vacant) \in vacant
  <2> HIDE DEF vacant
  <2> QED BY <1>4 DEF Min
<1>6. FreeBlock(block) = (block + Min(vacant)) % Blocks BY <1>2 DEF FreeBlock
<1>7. (block + Min(vacant)) % Blocks \in 0 .. Blocks - 1
  <2>1. Min(vacant) \in Nat BY <1>3, <1>5
  <2> HIDE DEF vacant
  <2>2. block + Min(vacant) \in Nat BY <1>0, <2>1
  <2> QED BY <1>0, <2>2, ModIn
<1>8. fuse.order[fuse.start[(block + Min(vacant)) % Blocks]] = {} BY <1>5
<1> QED BY <1>6, <1>7, <1>8

LEMMA PlaceKeeps ==
  ASSUME NEW keys, IsList(keys), NEW start, NEW order, NEW n, PlacedUpTo(keys, start, order, n), n < Len(keys),
         NEW b \in 0 .. Blocks - 1, order[start[b]] = {}
  PROVE  PlacedUpTo(keys, [start EXCEPT ![b] = @ + 1], [order EXCEPT ![start[b]] = {keys[n + 1]}], n + 1)
<1> DEFINE N == Len(keys)
           s0 == start[b]
           k0 == keys[n + 1]
           st == [start EXCEPT ![b] = @ + 1]
           od == [order EXCEPT ![start[b]] = {keys[n + 1]}]
<1>0. N \in Nat \ {0} /\ n \in Nat /\ n + 1 \in 1 .. N /\ k0 \in Range(keys) BY ListIs DEF PlacedUpTo
<1>1. start \in [0 .. Blocks - 1 -> 0 .. N] /\ DOMAIN order = 0 .. N /\ order[N] # {} BY DEF PlacedUpTo
<1>2. s0 \in 0 .. N - 1 BY <1>0, <1>1
<1>3. st \in [0 .. Blocks - 1 -> 0 .. N] /\ st[b] = s0 + 1 /\ \A a \in 0 .. Blocks - 1 : a # b => st[a] = start[a]
  BY <1>0, <1>1, <1>2
<1>4. DOMAIN od = 0 .. N /\ od[s0] = {k0} /\ \A s \in 0 .. N : s # s0 => od[s] = order[s] BY <1>0, <1>1, <1>2
<1>14. \A s \in 0 .. N - 1 : s \in 0 .. N BY <1>0
<1>5. od[N] # {} BY <1>0, <1>1, <1>2, <1>4
<1>6. Start(keys) \in [0 .. Blocks - 1 -> 0 .. N] BY StartIs
<1>7. Start(keys)[b] <= s0 BY DEF PlacedUpTo
<1>8. \A a \in 0 .. Blocks - 1 : Start(keys)[a] <= st[a]
  <2> TAKE a \in 0 .. Blocks - 1
  <2>1. Start(keys)[a] \in 0 .. N /\ start[a] \in 0 .. N /\ Start(keys)[a] <= start[a] BY <1>1, <1>6 DEF PlacedUpTo
  <2> QED BY <1>0, <1>2, <1>3, <2>1
<1> HIDE DEF st, od
<1>9. ASSUME NEW s \in 0 .. N - 1
      PROVE  /\ (od[s] # {}) <=> Covered(keys, st, s)
             /\ od[s] # {} => \E k \in Range(keys) : od[s] = {k}
  <2>1. CASE s = s0
    <3>1. Covered(keys, st, s) BY <1>0, <1>2, <1>3, <1>7, <2>1 DEF Covered
    <3> QED BY <1>0, <1>4, <2>1, <3>1
  <2>2. CASE s # s0
    <3>1. od[s] = order[s] BY <1>0, <1>4, <2>2
    <3>2. Covered(keys, st, s) <=> Covered(keys, start, s)
      <4>1. \A a \in 0 .. Blocks - 1 : s < st[a] <=> s < start[a]
        <5> TAKE a \in 0 .. Blocks - 1
        <5>1. CASE a = b BY <1>0, <1>2, <1>3, <2>2, <5>1
        <5>2. CASE a # b BY <1>3, <5>2
        <5> QED BY <5>1, <5>2
      <4> QED BY <4>1 DEF Covered
    <3> QED BY <3>1, <3>2 DEF PlacedUpTo
  <2> QED BY <2>1, <2>2
<1>10. Cardinality(FilledSlots(keys, od)) = n + 1
  <2>1. FilledSlots(keys, od) = FilledSlots(keys, order) \cup {s0}
    <3>1. \A s \in 0 .. N - 1 : od[s] # {} <=> (order[s] # {} \/ s = s0) BY <1>4, <1>14
    <3> QED BY <1>2, <3>1 DEF FilledSlots
  <2>2. s0 \notin FilledSlots(keys, order) BY DEF FilledSlots
  <2>3. FilledSlots(keys, order) \subseteq 0 .. N - 1 BY DEF FilledSlots
  <2>4. IsFiniteSet(FilledSlots(keys, order)) BY <1>0, <2>3, SlotsFinite
  <2>5. Cardinality(FilledSlots(keys, order)) = n BY DEF PlacedUpTo
  <2> QED BY <2>1, <2>2, <2>4, <2>5, FS_AddElement
<1>11. ASSUME NEW k \in Range(keys)
       PROVE  Cardinality(SlotsOf(keys, od, k)) = Cardinality(Listed(keys, n + 1, k))
  <2> DEFINE S == SlotsOf(keys, order, k)
             T == Listed(keys, n, k)
  <2>1. Cardinality(S) = Cardinality(T) BY DEF PlacedUpTo
  <2>2. CASE k = k0
    <3>1. SlotsOf(keys, od, k) = S \cup {s0} BY <1>0, <1>2, <1>4, <2>2 DEF SlotsOf
    <3>2. s0 \notin S BY DEF SlotsOf
    <3>3. Listed(keys, n + 1, k) = T \cup {n + 1} BY <1>0, <2>2 DEF Listed
    <3>4. n + 1 \notin T BY <1>0 DEF Listed
    <3>5. IsFiniteSet(S)
      <4>1. S \subseteq 0 .. N - 1 BY DEF SlotsOf
      <4> QED BY <1>0, <4>1, SlotsFinite
    <3>6. IsFiniteSet(T)
      <4>1. T \in SUBSET (1 .. n) BY DEF Listed
      <4>2. IsFiniteSet(1 .. n) BY <1>0, FS_Interval
      <4> QED BY <4>1, <4>2, FS_Subset
    <3> HIDE DEF S, T
    <3>7. Cardinality(S \cup {s0}) = Cardinality(S) + 1 BY <3>2, <3>5, FS_AddElement
    <3>8. Cardinality(T \cup {n + 1}) = Cardinality(T) + 1 BY <3>4, <3>6, FS_AddElement
    <3> QED BY <2>1, <3>1, <3>3, <3>7, <3>8
  <2>3. CASE k # k0
    <3>1. SlotsOf(keys, od, k) = S
      <4>1. \A s \in 0 .. N - 1 : od[s] = {k} <=> order[s] = {k}
        <5> TAKE s \in 0 .. N - 1
        <5>1. {k0} # {k} /\ {} # {k} BY <2>3
        <5>2. CASE s = s0 BY <1>4, <5>1, <5>2
        <5>3. CASE s # s0 BY <1>4, <1>14, <5>3
        <5> QED BY <5>2, <5>3
      <4> QED BY <4>1 DEF SlotsOf
    <3>2. Listed(keys, n + 1, k) = T BY <1>0, <2>3 DEF Listed
    <3> QED BY <2>1, <3>1, <3>2
  <2> QED BY <2>2, <2>3
<1>12. n + 1 \in 0 .. Len(keys) BY <1>0
<1>13. PlacedUpTo(keys, st, od, n + 1) BY <1>3, <1>4, <1>5, <1>8, <1>9, <1>10, <1>11, <1>12 DEF PlacedUpTo
<1> QED BY <1>13 DEF st, od

LEMMA PlacedNone ==
  ASSUME NEW keys, IsList(keys)
  PROVE  PlacedUpTo(keys, Start(keys), [s \in 0 .. Len(keys) |-> IF s = Len(keys) THEN {0} ELSE {}], 0)
<1> DEFINE od == [s \in 0 .. Len(keys) |-> IF s = Len(keys) THEN {0} ELSE {}]
<1>1. Len(keys) \in Nat \ {0} BY ListIs
<1>2. Start(keys) \in [0 .. Blocks - 1 -> 0 .. Len(keys)] BY StartIs
<1>3. DOMAIN od = 0 .. Len(keys) /\ od[Len(keys)] # {} /\ \A s \in 0 .. Len(keys) - 1 : od[s] = {} BY <1>1
<1>4. \A s \in 0 .. Len(keys) - 1 : ~Covered(keys, Start(keys), s)
  <2>1. \A x, y \in Nat : ~(x <= y /\ y < x) OBVIOUS
  <2> QED BY <1>1, <1>2, <2>1 DEF Covered
<1> HIDE DEF od
<1>5. FilledSlots(keys, od) = {} BY <1>3 DEF FilledSlots
<1>6. \A k \in Range(keys) : SlotsOf(keys, od, k) = {} /\ Listed(keys, 0, k) = {}
  <2>1. \A k : {k} # {} OBVIOUS
  <2>2. \A k : SlotsOf(keys, od, k) = {} BY <1>3, <2>1, Zenon DEF SlotsOf
  <2>3. 1 .. 0 = {} OBVIOUS
  <2>4. \A k : Listed(keys, 0, k) = {} BY <2>3, Zenon DEF Listed
  <2> QED BY <2>2, <2>4
<1>7. 0 \in 0 .. Len(keys) BY <1>1
<1>8. \A b \in 0 .. Blocks - 1 : Start(keys)[b] <= Start(keys)[b] BY <1>1, <1>2
<1>9. PlacedUpTo(keys, Start(keys), od, 0) BY <1>2, <1>3, <1>4, <1>5, <1>6, <1>7, <1>8, FS_EmptySet DEF PlacedUpTo
<1> QED BY <1>9 DEF od

(* When all keys have their slots, no slot is empty.                       *)
Sorted(keys, order) ==
  /\ \A s \in 0 .. Len(keys) - 1 : \E k \in Range(keys) : order[s] = {k}
  /\ \A k \in Range(keys) : Cardinality(SlotsOf(keys, order, k)) = Cardinality(Listed(keys, Len(keys), k))

LEMMA AllPlaced ==
  ASSUME NEW keys, IsList(keys), NEW start, NEW order, PlacedUpTo(keys, start, order, Len(keys))
  PROVE  Sorted(keys, order)
<1>1. Len(keys) \in Nat \ {0} BY ListIs
<1>2. FilledSlots(keys, order) \subseteq 0 .. Len(keys) - 1 BY DEF FilledSlots
<1>3. FilledSlots(keys, order) = 0 .. Len(keys) - 1 BY <1>1, <1>2, SlotsFinite DEF PlacedUpTo
<1>4. \A s \in 0 .. Len(keys) - 1 : order[s] # {} BY <1>3 DEF FilledSlots
<1> QED BY <1>4 DEF PlacedUpTo, Sorted

LEMMA SlotOfKey ==
  ASSUME NEW keys, IsList(keys), NEW order, Sorted(keys, order), NEW k \in Range(keys)
  PROVE  \E s \in 0 .. Len(keys) - 1 : order[s] = {k}
<1>1. Len(keys) \in Nat \ {0} BY ListIs
<1>2. PICK i \in 1 .. Len(keys) : keys[i] = k BY ListIs
<1>3. IsFiniteSet(Listed(keys, Len(keys), k))
  <2>1. IsFiniteSet(1 .. Len(keys)) BY <1>1, FS_Interval
  <2>2. Listed(keys, Len(keys), k) \in SUBSET (1 .. Len(keys)) BY DEF Listed
  <2> QED BY <2>1, <2>2, FS_Subset
<1>4. Listed(keys, Len(keys), k) # {} BY <1>2 DEF Listed
<1>5. Cardinality(SlotsOf(keys, order, k)) # 0 BY <1>3, <1>4, FS_EmptySet DEF Sorted
<1>6. SlotsOf(keys, order, k) # {} BY <1>5, FS_EmptySet
<1> QED BY <1>6 DEF SlotsOf

-----------------------------------------------------------------------------
(* The table of cells: what the hashes of the slots in live leave in it.   *)
Uses(H, k, c) == \E j \in 1 .. 3 : H[k].cells[j] = c
Odd(S) == Cardinality(S) % 2 = 1
Bit(S) == IF Odd(S) THEN 1 ELSE 0
UsersOf(H, own, live, c) == {s \in live : Uses(H, own[s], c)}
UsersAt(H, own, live, c, j) == {s \in live : H[own[s]].cells[j] = c}
UsersBy(H, own, live, c, k) == {s \in live : own[s] = k /\ Uses(H, k, c)}
CountOf(H, own, live, c) == Cardinality(UsersOf(H, own, live, c))
PosOf(H, own, live, c) == Bit(UsersAt(H, own, live, c, 2)) + 2 * Bit(UsersAt(H, own, live, c, 3))
HashOf(H, own, live, c) == {k \in DOMAIN H : Odd(UsersBy(H, own, live, c, k))}
CellIs(e, H, own, live, c) ==
  e.count = CountOf(H, own, live, c) /\ e.pos = PosOf(H, own, live, c) /\ e.hash = HashOf(H, own, live, c)

Hashed(H, K) == H \in [K -> [cells : CellTriples, block : 0 .. Blocks - 1]]

LEMMA CellTotal == CellCount \in Nat \ {0}
<1>1. SegmentLength \in Nat \ {0} /\ SegmentCount \in Nat \ {0} BY FuseAssumption
<1>2. SegmentCount + 2 \in Nat \ {0} BY <1>1
<1>3. \A x, y \in Nat \ {0} : x * y \in Nat \ {0} OBVIOUS
<1> QED BY <1>1, <1>2, <1>3 DEF CellCount

(* The three cells of a hash lie in three segments.                        *)
LEMMA TripleApart ==
  ASSUME NEW t \in CellTriples
  PROVE  /\ t[1] \in Cells /\ t[2] \in Cells /\ t[3] \in Cells
         /\ t[1] # t[2] /\ t[1] # t[3] /\ t[2] # t[3]
<1>1. t[1] \in Cells /\ t[2] \in Cells /\ t[3] \in Cells BY DEF CellTriples
<1>2. t[1] \in Nat /\ SegmentLength \in Nat \ {0} BY <1>1, CellTotal, FuseAssumption DEF Cells
<1> DEFINE a == t[1] \div SegmentLength
<1>3. a \in Int
  <2>1. \A x \in Nat, y \in Nat \ {0} : x \div y \in Int OBVIOUS
  <2> QED BY <1>2, <2>1
<1>4. t[2] \div SegmentLength = a + 2 - 1 /\ t[3] \div SegmentLength = a + 3 - 1 BY DEF CellTriples
<1> HIDE DEF a
<1>5. a # a + 2 - 1 /\ a # a + 3 - 1 /\ a + 2 - 1 # a + 3 - 1 BY <1>3
<1>6. t[1] \div SegmentLength = a BY DEF a
<1> QED BY <1>1, <1>4, <1>5, <1>6

LEMMA HashedIs ==
  ASSUME NEW H, NEW K, Hashed(H, K), NEW k \in K
  PROVE  /\ DOMAIN H = K
         /\ H[k].cells[1] \in Cells /\ H[k].cells[2] \in Cells /\ H[k].cells[3] \in Cells
         /\ H[k].cells[1] # H[k].cells[2] /\ H[k].cells[1] # H[k].cells[3] /\ H[k].cells[2] # H[k].cells[3]
         /\ H[k].block \in 0 .. Blocks - 1
<1>1. H[k].cells \in CellTriples /\ DOMAIN H = K /\ H[k].block \in 0 .. Blocks - 1 BY DEF Hashed
<1> QED BY <1>1, TripleApart

LEMMA UsesOne ==
  ASSUME NEW H, NEW K, Hashed(H, K), NEW k \in K
  PROVE  \A i, j \in 1 .. 3 : H[k].cells[i] = H[k].cells[j] => i = j
<1> TAKE i, j \in 1 .. 3
<1>1. (i = 1 \/ i = 2 \/ i = 3) /\ (j = 1 \/ j = 2 \/ j = 3) OBVIOUS
<1> QED BY <1>1, HashedIs

LEMMA OddAdd ==
  ASSUME NEW S, IsFiniteSet(S), NEW s, s \notin S
  PROVE  /\ Cardinality(S \cup {s}) = Cardinality(S) + 1 /\ Cardinality(S) \in Nat
         /\ Odd(S \cup {s}) <=> ~Odd(S)
         /\ Bit(S \cup {s}) = 1 - Bit(S)
<1>1. Cardinality(S) \in Nat /\ Cardinality(S \cup {s}) = Cardinality(S) + 1 BY FS_CardinalityType, FS_AddElement
<1>2. \A n \in Nat : (n + 1) % 2 = 1 <=> ~(n % 2 = 1) OBVIOUS
<1>3. Odd(S \cup {s}) <=> ~Odd(S) BY <1>1, <1>2 DEF Odd
<1> QED BY <1>1, <1>3 DEF Bit

LEMMA BitIn == ASSUME NEW S PROVE Bit(S) \in {0, 1}
BY DEF Bit

LEMMA PosFlips ==
  ASSUME NEW x \in {0, 1}, NEW y \in {0, 1}
  PROVE  /\ XorPos(x + 2 * y, 1 - 1) = x + 2 * y
         /\ XorPos(x + 2 * y, 2 - 1) = (1 - x) + 2 * y
         /\ XorPos(x + 2 * y, 3 - 1) = x + 2 * (1 - y)
<1>1. CASE x = 0 /\ y = 0 BY <1>1 DEF XorPos
<1>2. CASE x = 0 /\ y = 1 BY <1>2 DEF XorPos
<1>3. CASE x = 1 /\ y = 0 BY <1>3 DEF XorPos
<1>4. CASE x = 1 /\ y = 1 BY <1>4 DEF XorPos
<1> QED BY <1>1, <1>2, <1>3, <1>4

LEMMA CountMore ==
  ASSUME NEW H, NEW own, NEW live, IsFiniteSet(live), NEW s, s \notin live, NEW c, Uses(H, own[s], c)
  PROVE  CountOf(H, own, live \cup {s}, c) = CountOf(H, own, live, c) + 1 /\ CountOf(H, own, live, c) \in Nat
<1>1. UsersOf(H, own, live \cup {s}, c) = UsersOf(H, own, live, c) \cup {s} BY DEF UsersOf
<1>2. UsersOf(H, own, live, c) \in SUBSET live /\ s \notin UsersOf(H, own, live, c) BY DEF UsersOf
<1>3. IsFiniteSet(UsersOf(H, own, live, c)) BY <1>2, FS_Subset
<1> QED BY <1>1, <1>2, <1>3, OddAdd DEF CountOf

LEMMA BitMore ==
  ASSUME NEW H, NEW own, NEW live, IsFiniteSet(live), NEW s, s \notin live, NEW c, NEW j
  PROVE  Bit(UsersAt(H, own, live \cup {s}, c, j))
           = IF H[own[s]].cells[j] = c THEN 1 - Bit(UsersAt(H, own, live, c, j)) ELSE Bit(UsersAt(H, own, live, c, j))
<1> DEFINE U == UsersAt(H, own, live, c, j)
<1>1. U \in SUBSET live /\ s \notin U BY DEF UsersAt
<1>2. IsFiniteSet(U) BY <1>1, FS_Subset
<1>3. CASE H[own[s]].cells[j] = c
  <2>1. UsersAt(H, own, live \cup {s}, c, j) = U \cup {s} BY <1>3 DEF UsersAt
  <2> HIDE DEF U
  <2>2. Bit(U \cup {s}) = 1 - Bit(U) BY <1>1, <1>2, OddAdd
  <2> QED BY <1>3, <2>1, <2>2 DEF U
<1>4. CASE H[own[s]].cells[j] # c
  <2>1. UsersAt(H, own, live \cup {s}, c, j) = U BY <1>4 DEF UsersAt
  <2> QED BY <1>4, <2>1
<1> QED BY <1>3, <1>4

PosFlip(p, q, j) == q = XorPos(p, j - 1) /\ p = XorPos(q, j - 1)

LEMMA PosMore ==
  ASSUME NEW H, NEW K, Hashed(H, K), NEW own, NEW live, IsFiniteSet(live), NEW s, s \notin live, own[s] \in K, NEW c,
         NEW j \in 1 .. 3, H[own[s]].cells[j] = c
  PROVE  PosFlip(PosOf(H, own, live, c), PosOf(H, own, live \cup {s}, c), j)
<1> DEFINE x == Bit(UsersAt(H, own, live, c, 2))
           y == Bit(UsersAt(H, own, live, c, 3))
           u == Bit(UsersAt(H, own, live \cup {s}, c, 2))
           v == Bit(UsersAt(H, own, live \cup {s}, c, 3))
<1>1. x \in {0, 1} /\ y \in {0, 1} /\ u \in {0, 1} /\ v \in {0, 1} BY BitIn
<1>9. \A i : Bit(UsersAt(H, own, live \cup {s}, c, i))
           = IF H[own[s]].cells[i] = c THEN 1 - Bit(UsersAt(H, own, live, c, i)) ELSE Bit(UsersAt(H, own, live, c, i))
  BY BitMore
<1>2. u = IF H[own[s]].cells[2] = c THEN 1 - x ELSE x BY <1>9, Zenon
<1>3. v = IF H[own[s]].cells[3] = c THEN 1 - y ELSE y BY <1>9, Zenon
<1>4. PosOf(H, own, live, c) = x + 2 * y /\ PosOf(H, own, live \cup {s}, c) = u + 2 * v BY DEF PosOf
<1>5. /\ H[own[s]].cells[1] # H[own[s]].cells[2] /\ H[own[s]].cells[1] # H[own[s]].cells[3]
      /\ H[own[s]].cells[2] # H[own[s]].cells[3]
  BY HashedIs
<1> HIDE DEF x, y, u, v
<1>6. CASE j = 1
  <2>1. u = x /\ v = y BY <1>2, <1>3, <1>5, <1>6
  <2> QED BY <1>1, <1>4, <1>6, <2>1, PosFlips DEF PosFlip
<1>7. CASE j = 2
  <2>1. u = 1 - x /\ v = y BY <1>2, <1>3, <1>5, <1>7
  <2>2. x = 1 - u BY <1>1, <2>1
  <2> QED BY <1>1, <1>4, <1>7, <2>1, <2>2, PosFlips DEF PosFlip
<1>8. CASE j = 3
  <2>1. u = x /\ v = 1 - y BY <1>2, <1>3, <1>5, <1>8
  <2>2. y = 1 - v BY <1>1, <2>1
  <2> QED BY <1>1, <1>4, <1>8, <2>1, <2>2, PosFlips DEF PosFlip
<1> QED BY <1>6, <1>7, <1>8

LEMMA HashMore ==
  ASSUME NEW H, NEW own, NEW live, IsFiniteSet(live), NEW s, s \notin live, own[s] \in DOMAIN H, NEW c, Uses(H, own[s], c)
  PROVE  /\ HashOf(H, own, live \cup {s}, c) = Xor(HashOf(H, own, live, c), {own[s]})
         /\ HashOf(H, own, live, c) = Xor(HashOf(H, own, live \cup {s}, c), {own[s]})
<1>1. ASSUME NEW k \in DOMAIN H
      PROVE  Odd(UsersBy(H, own, live \cup {s}, c, k)) <=> (Odd(UsersBy(H, own, live, c, k)) <=> k # own[s])
  <2> DEFINE U == UsersBy(H, own, live, c, k)
  <2>1. U \in SUBSET live /\ s \notin U BY DEF UsersBy
  <2>2. IsFiniteSet(U) BY <2>1, FS_Subset
  <2>3. CASE k = own[s]
    <3>1. UsersBy(H, own, live \cup {s}, c, k) = U \cup {s} BY <2>3 DEF UsersBy
    <3> HIDE DEF U
    <3>2. Odd(U \cup {s}) <=> ~Odd(U) BY <2>1, <2>2, OddAdd
    <3> QED BY <2>3, <3>1, <3>2 DEF U
  <2>4. CASE k # own[s]
    <3>1. UsersBy(H, own, live \cup {s}, c, k) = U BY <2>4 DEF UsersBy
    <3> QED BY <2>4, <3>1
  <2> QED BY <2>3, <2>4
<1> QED BY <1>1 DEF HashOf, Xor

(* What a hash that is added to a cell changes, and a hash that goes       *)
Toggled(e, d, k, j) == [count |-> e.count + d, pos |-> XorPos(e.pos, j - 1), hash |-> Xor(e.hash, {k})]

LEMMA CellMore ==
  ASSUME NEW H, NEW K, Hashed(H, K), NEW own, NEW live, IsFiniteSet(live), NEW s, s \notin live, own[s] \in K, NEW c,
         NEW j \in 1 .. 3, H[own[s]].cells[j] = c, NEW e
  PROVE  /\ CellIs(e, H, own, live, c) => CellIs(Toggled(e, 1, own[s], j), H, own, live \cup {s}, c)
         /\ CellIs(e, H, own, live \cup {s}, c) => CellIs(Toggled(e, -1, own[s], j), H, own, live, c)
<1>1. Uses(H, own[s], c) BY DEF Uses
<1>2. own[s] \in DOMAIN H BY DEF Hashed
<1>3. CountOf(H, own, live \cup {s}, c) = CountOf(H, own, live, c) + 1 /\ CountOf(H, own, live, c) \in Nat BY <1>1, CountMore
<1>4. PosFlip(PosOf(H, own, live, c), PosOf(H, own, live \cup {s}, c), j) BY PosMore
<1>5. /\ HashOf(H, own, live \cup {s}, c) = Xor(HashOf(H, own, live, c), {own[s]})
      /\ HashOf(H, own, live, c) = Xor(HashOf(H, own, live \cup {s}, c), {own[s]})
  BY <1>1, <1>2, HashMore
<1>6. CountOf(H, own, live, c) = CountOf(H, own, live \cup {s}, c) + (-1) BY <1>3
<1> QED BY <1>3, <1>4, <1>5, <1>6 DEF CellIs, Toggled, PosFlip

LEMMA CellSame ==
  ASSUME NEW H, NEW own, NEW live, NEW s, NEW c, ~Uses(H, own[s], c), NEW e
  PROVE  CellIs(e, H, own, live \cup {s}, c) <=> CellIs(e, H, own, live, c)
<1>1. UsersOf(H, own, live \cup {s}, c) = UsersOf(H, own, live, c) BY DEF UsersOf
<1>2. \A k : UsersBy(H, own, live \cup {s}, c, k) = UsersBy(H, own, live, c, k) BY DEF UsersBy
<1>3. \A j \in 1 .. 3 : UsersAt(H, own, live \cup {s}, c, j) = UsersAt(H, own, live, c, j) BY DEF UsersAt, Uses
<1>4. CountOf(H, own, live \cup {s}, c) = CountOf(H, own, live, c) BY <1>1 DEF CountOf
<1>7. \A k : Odd(UsersBy(H, own, live \cup {s}, c, k)) <=> Odd(UsersBy(H, own, live, c, k)) BY <1>2, Zenon
<1>5. HashOf(H, own, live \cup {s}, c) = HashOf(H, own, live, c) BY <1>7 DEF HashOf
<1>6. PosOf(H, own, live \cup {s}, c) = PosOf(H, own, live, c) BY <1>3 DEF PosOf
<1> QED BY <1>4, <1>5, <1>6 DEF CellIs

OwnedIn(own, live, K) == \A s \in live : own[s] \in K

IsSingle(e, H, own, live, c) ==
  \E s \in live, j \in 1 .. 3 :
    /\ UsersOf(H, own, live, c) = {s} /\ H[own[s]].cells[j] = c
    /\ e.hash = {own[s]} /\ e.pos = j - 1

LEMMA CellSingle ==
  ASSUME NEW H, NEW K, Hashed(H, K), NEW own, NEW live, IsFiniteSet(live), OwnedIn(own, live, K), NEW c, NEW e,
         CellIs(e, H, own, live, c), e.count = 1
  PROVE  IsSingle(e, H, own, live, c)
<1>1. IsFiniteSet(UsersOf(H, own, live, c))
  <2>1. UsersOf(H, own, live, c) \in SUBSET live BY DEF UsersOf
  <2> QED BY <2>1, FS_Subset
<1>2. PICK s : UsersOf(H, own, live, c) = {s} BY <1>1, FS_Singleton DEF CellIs, CountOf
<1>3. s \in live /\ Uses(H, own[s], c) BY <1>2 DEF UsersOf
<1>4. PICK j \in 1 .. 3 : H[own[s]].cells[j] = c BY <1>3 DEF Uses
<1>5. own[s] \in K /\ DOMAIN H = K BY <1>3 DEF Hashed, OwnedIn
<1>6. Odd({s}) /\ ~Odd({}) /\ Bit({s}) = 1 /\ Bit({}) = 0
  <2>1. Cardinality({s}) = 1 /\ Cardinality({}) = 0 BY FS_Singleton, FS_EmptySet
  <2>2. 1 % 2 = 1 /\ 0 % 2 = 0 OBVIOUS
  <2>3. Odd({s}) /\ ~Odd({}) BY <2>1, <2>2 DEF Odd
  <2> QED BY <2>3 DEF Bit
<1>7. e.hash = {own[s]}
  <2>1. UsersBy(H, own, live, c, own[s]) = {s}
    <3>1. \A x \in live : Uses(H, own[x], c) => x = s BY <1>2 DEF UsersOf
    <3> QED BY <1>3, <3>1 DEF UsersBy
  <2>2. \A k \in K : k # own[s] => UsersBy(H, own, live, c, k) = {}
    <3>1. \A x \in live : Uses(H, own[x], c) => x = s BY <1>2 DEF UsersOf
    <3> QED BY <3>1 DEF UsersBy
  <2>3. \A k \in K : Odd(UsersBy(H, own, live, c, k)) <=> k = own[s]
    <3> TAKE k \in K
    <3>1. CASE k = own[s] BY <1>6, <2>1, <3>1, Zenon
    <3>2. CASE k # own[s] BY <1>6, <2>2, <3>2, Zenon
    <3> QED BY <3>1, <3>2
  <2>4. HashOf(H, own, live, c) = {own[s]} BY <1>5, <2>3 DEF HashOf
  <2> QED BY <2>4 DEF CellIs
<1>8. \A i \in 1 .. 3 : Bit(UsersAt(H, own, live, c, i)) = IF i = j THEN 1 ELSE 0
  <2> TAKE i \in 1 .. 3
  <2>1. \A x \in live : H[own[x]].cells[i] = c => x = s BY <1>2 DEF UsersOf, Uses
  <2>2. CASE i = j
    <3>1. UsersAt(H, own, live, c, i) = {s} BY <1>3, <1>4, <2>1, <2>2 DEF UsersAt
    <3> QED BY <1>6, <2>2, <3>1, Zenon
  <2>3. CASE i # j
    <3>1. H[own[s]].cells[i] # c BY <1>4, <1>5, <2>3, UsesOne
    <3>2. UsersAt(H, own, live, c, i) = {} BY <2>1, <3>1 DEF UsersAt
    <3> QED BY <1>6, <2>3, <3>2, Zenon
  <2> QED BY <2>2, <2>3
<1>9. e.pos = j - 1
  <2>1. e.pos = Bit(UsersAt(H, own, live, c, 2)) + 2 * Bit(UsersAt(H, own, live, c, 3)) BY DEF CellIs, PosOf
  <2>2. Bit(UsersAt(H, own, live, c, 2)) = (IF 2 = j THEN 1 ELSE 0) /\ Bit(UsersAt(H, own, live, c, 3)) = (IF 3 = j THEN 1 ELSE 0)
    <3>1. 2 \in 1 .. 3 /\ 3 \in 1 .. 3 OBVIOUS
    <3> QED BY <1>8, <3>1, Zenon
  <2>3. e.pos = (IF 2 = j THEN 1 ELSE 0) + 2 * (IF 3 = j THEN 1 ELSE 0) BY <2>1, <2>2, Zenon
  <2>4. j = 1 \/ j = 2 \/ j = 3 OBVIOUS
  <2> QED BY <2>3, <2>4
<1> QED BY <1>2, <1>3, <1>4, <1>7, <1>9 DEF IsSingle

(* The table counts the hashes of the slots in live, in all cells but      *)
(* those that were taken by a hash that was peeled off.                    *)
Tally(table, H, own, live, taken) ==
  DOMAIN table = Cells /\ \A c \in Cells \ taken : CellIs(table[c], H, own, live, c)

LEMMA ToggleIs ==
  ASSUME NEW K, Hashed(fuse.hash, K), NEW k \in K, NEW table, NEW d, NEW c \in DOMAIN table
  PROVE  /\ DOMAIN Toggle(table, k, d) = DOMAIN table
         /\ ~Uses(fuse.hash, k, c) => Toggle(table, k, d)[c] = table[c]
         /\ \A j \in 1 .. 3 : fuse.hash[k].cells[j] = c => Toggle(table, k, d)[c] = Toggled(table[c], d, k, j)
<1> DEFINE H == fuse.hash
<1>1. DOMAIN Toggle(table, k, d) = DOMAIN table BY DEF Toggle
<1>2. Toggle(table, k, d)[c] = IF Uses(H, k, c) THEN Toggled(table[c], d, k, CHOOSE j \in 1 .. 3 : H[k].cells[j] = c) ELSE table[c]
  BY DEF Toggle, Uses, Toggled
<1> HIDE DEF H
<1>3. ASSUME NEW j \in 1 .. 3, H[k].cells[j] = c
      PROVE  Toggle(table, k, d)[c] = Toggled(table[c], d, k, j)
  <2> DEFINE i == CHOOSE i \in 1 .. 3 : H[k].cells[i] = c
  <2>1. Uses(H, k, c) BY <1>3 DEF Uses
  <2>2. i \in 1 .. 3 /\ H[k].cells[i] = c BY <1>3
  <2>3. i = j
    <3> HIDE DEF i
    <3>1. Hashed(H, K) BY DEF H
    <3> QED BY <1>3, <2>2, <3>1, UsesOne
  <2> HIDE DEF i
  <2>4. Toggle(table, k, d)[c] = Toggled(table[c], d, k, i) BY <1>2, <2>1, Zenon DEF i
  <2> QED BY <2>3, <2>4
<1> QED BY <1>1, <1>2, <1>3 DEF H

LEMMA TallyAdd ==
  ASSUME NEW K, Hashed(fuse.hash, K), NEW own, NEW live, IsFiniteSet(live), NEW s, s \notin live, own[s] \in K, NEW taken,
         NEW table, Tally(table, fuse.hash, own, live, taken)
  PROVE  Tally(Toggle(table, own[s], 1), fuse.hash, own, live \cup {s}, taken)
<1> DEFINE H == fuse.hash
           T == Toggle(table, own[s], 1)
<1>0. DOMAIN table = Cells BY DEF Tally
<1>1. DOMAIN T = Cells BY <1>0 DEF Toggle
<1>2. ASSUME NEW c \in Cells \ taken
      PROVE  CellIs(T[c], H, own, live \cup {s}, c)
  <2>1. CellIs(table[c], H, own, live, c) BY DEF Tally
  <2>2. CASE ~Uses(H, own[s], c)
    <3>1. T[c] = table[c] BY <1>0, <2>2, ToggleIs
    <3> HIDE DEF H, T
    <3> QED BY <2>1, <2>2, <3>1, CellSame
  <2>3. CASE Uses(H, own[s], c)
    <3>1. PICK j \in 1 .. 3 : H[own[s]].cells[j] = c BY <2>3 DEF Uses
    <3>2. T[c] = Toggled(table[c], 1, own[s], j) BY <1>0, <3>1, ToggleIs
    <3>3. Hashed(H, K) OBVIOUS
    <3> HIDE DEF H, T
    <3>4. CellIs(Toggled(table[c], 1, own[s], j), H, own, live \cup {s}, c) BY <2>1, <3>1, <3>3, CellMore, Zenon
    <3> QED BY <3>2, <3>4
  <2> QED BY <2>2, <2>3
<1> QED BY <1>1, <1>2 DEF Tally

LEMMA TallyDrop ==
  ASSUME NEW K, Hashed(fuse.hash, K), NEW own, NEW live, IsFiniteSet(live), NEW s, s \notin live, own[s] \in K, NEW taken,
         NEW table, Tally(table, fuse.hash, own, live \cup {s}, taken), NEW cell \in Cells
  PROVE  Tally([Toggle(table, own[s], -1) EXCEPT ![cell] = table[cell]], fuse.hash, own, live, taken \cup {cell})
<1> DEFINE H == fuse.hash
           T == Toggle(table, own[s], -1)
           U == [T EXCEPT ![cell] = table[cell]]
<1>0. DOMAIN table = Cells BY DEF Tally
<1>1. DOMAIN T = Cells BY <1>0, ToggleIs
<1>2. ASSUME NEW c \in Cells \ (taken \cup {cell})
      PROVE  CellIs(U[c], H, own, live, c)
  <2>0. U[c] = T[c] BY <1>1
  <2>1. CellIs(table[c], H, own, live \cup {s}, c) BY DEF Tally
  <2>2. CASE ~Uses(H, own[s], c)
    <3>1. T[c] = table[c] BY <1>0, <2>2, ToggleIs
    <3> HIDE DEF H, T, U
    <3> QED BY <2>0, <2>1, <2>2, <3>1, CellSame
  <2>3. CASE Uses(H, own[s], c)
    <3>1. PICK j \in 1 .. 3 : H[own[s]].cells[j] = c BY <2>3 DEF Uses
    <3>2. T[c] = Toggled(table[c], -1, own[s], j) BY <1>0, <3>1, ToggleIs
    <3>3. Hashed(H, K) OBVIOUS
    <3> HIDE DEF H, T, U
    <3> QED BY <2>0, <2>1, <3>1, <3>2, <3>3, CellMore
  <2> QED BY <2>2, <2>3
<1>3. DOMAIN U = Cells BY <1>1
<1> QED BY <1>2, <1>3 DEF Tally

(* What CountKey takes for a duplicate is one.                             *)
MeetsCopy(table, k, j) ==
  LET e == Toggle(table, k, 1)[fuse.hash[k].cells[j]] IN e.hash = {} /\ e.count = 2

LEMMA AgainIs ==
  ASSUME NEW K, Hashed(fuse.hash, K), NEW own, NEW live, IsFiniteSet(live), OwnedIn(own, live, K), NEW k \in K,
         NEW table, Tally(table, fuse.hash, own, live, {}), NEW j \in 1 .. 3, MeetsCopy(table, k, j)
  PROVE  \E s \in live : own[s] = k
<1> DEFINE H == fuse.hash
           c == H[k].cells[j]
           e == table[c]
<1>1. c \in Cells
  <2>1. j = 1 \/ j = 2 \/ j = 3 OBVIOUS
  <2> QED BY <2>1, HashedIs
<1>2. DOMAIN table = Cells BY DEF Tally
<1>3. Toggle(table, k, 1)[c] = Toggled(e, 1, k, j) BY <1>1, <1>2, ToggleIs
<1>4. CellIs(e, H, own, live, c) BY <1>1 DEF Tally
<1>5. Xor(e.hash, {k}) = {} /\ e.count + 1 = 2
  <2>1. Toggled(e, 1, k, j).hash = {} /\ Toggled(e, 1, k, j).count = 2 BY <1>3 DEF MeetsCopy
  <2> HIDE DEF e
  <2>2. Toggled(e, 1, k, j).hash = Xor(e.hash, {k}) /\ Toggled(e, 1, k, j).count = e.count + 1 BY DEF Toggled
  <2> QED BY <2>1, <2>2
<1>6. e.count \in Nat
  <2>1. UsersOf(H, own, live, c) \in SUBSET live BY DEF UsersOf
  <2>2. IsFiniteSet(UsersOf(H, own, live, c)) BY <2>1, FS_Subset
  <2>3. Cardinality(UsersOf(H, own, live, c)) \in Nat BY <2>2, FS_CardinalityType
  <2> QED BY <1>4, <2>3 DEF CellIs, CountOf
<1>7. e.count = 1 BY <1>5, <1>6
<1>8. e.hash = {k} BY <1>5 DEF Xor
<1>9. Hashed(H, K) OBVIOUS
<1> HIDE DEF H, c, e
<1>10. PICK s \in live, i \in 1 .. 3 : e.hash = {own[s]} BY <1>4, <1>7, <1>9, CellSingle DEF IsSingle
<1> QED BY <1>8, <1>10

-----------------------------------------------------------------------------
(* The inductive invariant, phase by phase                                 *)
IsRecord(f) ==
  f = [keys |-> f.keys, iter |-> f.iter, phase |-> f.phase, i |-> f.i, hash |-> f.hash, start |-> f.start,
       order |-> f.order, table |-> f.table, duplicates |-> f.duplicates, alone |-> f.alone, stack |-> f.stack,
       prints |-> f.prints]
OwnOf(keys, order) == [s \in 0 .. Len(keys) - 1 |-> CHOOSE k \in Range(keys) : order[s] = {k}]
Unbegun(f) == f.table = EmptyCells /\ f.duplicates = 0 /\ f.alone = << >> /\ f.stack = << >>

(* live: the slots among the first n whose hashes are in the table; the    *)
(* others are duplicates of these.                                         *)
Seen(f, own, live, n) ==
  /\ live \subseteq 0 .. n - 1 /\ Tally(f.table, f.hash, own, live, {})
  /\ f.duplicates \in Nat /\ Cardinality(live) + f.duplicates = n
  /\ \A s \in 0 .. n - 1 : \E t \in live : own[t] = own[s]
InCount(f) ==
  /\ Sorted(f.keys, f.order) /\ f.alone = << >> /\ f.stack = << >> /\ f.i \in 0 .. Len(f.keys) - 1
  /\ \E live : Seen(f, OwnOf(f.keys, f.order), live, f.i)

CellOf(H, e) == H[e.key].cells[((e.found + 0) % 3) + 1]
StackCells(H, stack) == {CellOf(H, stack[n]) : n \in 1 .. Len(stack)}
(* Cells in the queue are not taken, have at most one hash and are in it   *)
(* once.                                                                   *)
InQueue(alone, table, taken) ==
  /\ alone \in Seq(Cells) /\ \A m, n \in 1 .. Len(alone) : alone[m] = alone[n] => m = n
  /\ \A n \in 1 .. Len(alone) : alone[n] \notin taken /\ table[alone[n]].count <= 1
InFill(f) ==
  /\ Sorted(f.keys, f.order) /\ f.stack = << >> /\ f.i \in 0 .. CellCount - 1
  /\ InQueue(f.alone, f.table, {}) /\ \A n \in 1 .. Len(f.alone) : f.alone[n] < f.i
  /\ \E live : Seen(f, OwnOf(f.keys, f.order), live, Len(f.keys))

(* No hash on the stack uses a cell that one below it has taken.           *)
InTurn(H, stack) == \A m, n \in 1 .. Len(stack) : m < n => ~Uses(H, stack[n].key, CellOf(H, stack[m]))
OnStack(stack, k) == \E n \in 1 .. Len(stack) : stack[n].key = k
Stacks(K) == Seq([key : K, found : 0 .. 2])
Left(f, own, live) ==
  /\ live \subseteq 0 .. Len(f.keys) - 1
  /\ Tally(f.table, f.hash, own, live, StackCells(f.hash, f.stack))
  /\ f.duplicates \in Nat /\ Cardinality(live) + Len(f.stack) + f.duplicates = Len(f.keys)
  /\ \A k \in Range(f.keys) : OnStack(f.stack, k) \/ \E t \in live : own[t] = k
  /\ \A c \in StackCells(f.hash, f.stack) : f.table[c].count = 1 /\ \A s \in live : ~Uses(f.hash, own[s], c)
InPeel(f) ==
  /\ Sorted(f.keys, f.order) /\ f.stack \in Stacks(Range(f.keys)) /\ InTurn(f.hash, f.stack)
  /\ InQueue(f.alone, f.table, StackCells(f.hash, f.stack))
  /\ \E live : Left(f, OwnOf(f.keys, f.order), live)

Contained(H, prints, k) ==
  {<<"key", k>>} = Xor(prints[H[k].cells[1]], Xor(prints[H[k].cells[2]], prints[H[k].cells[3]]))
InAssign(f) ==
  /\ f.stack \in Stacks(Range(f.keys)) /\ InTurn(f.hash, f.stack) /\ \A k \in Range(f.keys) : OnStack(f.stack, k)
  /\ f.i \in 1 .. Len(f.stack) /\ \A n \in f.i + 1 .. Len(f.stack) : Contained(f.hash, f.prints, f.stack[n].key)
Built(f) == \A k \in Range(f.keys) : Contained(f.hash, f.prints, k)

FuseInv(f) ==
  /\ IsRecord(f) /\ f.keys \in KeyLists /\ DOMAIN f.prints = Cells
  /\ f.phase # "seed" => Hashed(f.hash, Range(f.keys))
  /\ f.phase = "seed" => Unbegun(f) /\ f.i = 1 /\ PlacedUpTo(f.keys, f.start, f.order, 0)
  /\ f.phase = "place" => Unbegun(f) /\ f.i \in 1 .. Len(f.keys) /\ PlacedUpTo(f.keys, f.start, f.order, f.i - 1)
  /\ f.phase = "count" => InCount(f)
  /\ f.phase = "queue" => InFill(f)
  /\ f.phase = "peel" => InPeel(f)
  /\ f.phase = "assign" => InAssign(f)
  /\ f.phase = "built" => Built(f)

LEMMA KeysAre ==
  ASSUME NEW keys \in KeyLists
  PROVE  IsList(keys)
BY FuseAssumption DEF IsList

LEMMA OwnIs ==
  ASSUME NEW keys, NEW order, Sorted(keys, order)
  PROVE  \A s \in 0 .. Len(keys) - 1 : OwnOf(keys, order)[s] \in Range(keys) /\ order[s] = {OwnOf(keys, order)[s]}
<1> TAKE s \in 0 .. Len(keys) - 1
<1>1. OwnOf(keys, order)[s] = CHOOSE k \in Range(keys) : order[s] = {k} BY DEF OwnOf
<1>2. \E k \in Range(keys) : order[s] = {k} BY DEF Sorted
<1> QED BY <1>1, <1>2, Zenon

LEMMA BlankInv ==
  ASSUME NEW keys \in KeyLists, NEW iter
  PROVE  FuseInv(Blank(keys, iter))
<1> DEFINE f == Blank(keys, iter)
<1>1. IsRecord(f) BY DEF Blank, IsRecord
<1>2. /\ f.keys = keys /\ f.phase = "seed" /\ f.i = 1 /\ f.start = Start(keys) /\ f.prints = [c \in Cells |-> {<<"random", c>>}]
      /\ f.order = [s \in 0 .. Len(keys) |-> IF s = Len(keys) THEN {0} ELSE {}]
  BY DEF Blank
<1>3. Unbegun(f) BY DEF Blank, Unbegun
<1>4. PlacedUpTo(f.keys, f.start, f.order, 0) BY <1>2, KeysAre, PlacedNone
<1>5. DOMAIN f.prints = Cells BY <1>2
<1> HIDE DEF f
<1>6. FuseInv(f) BY <1>1, <1>2, <1>3, <1>4, <1>5 DEF FuseInv
<1> QED BY <1>6 DEF f

LEMMA SeedStep ==
  ASSUME FuseInv(fuse), Seed
  PROVE  FuseInv(fuse')
<1>1. IsRecord(fuse) /\ fuse.keys \in KeyLists /\ DOMAIN fuse.prints = Cells /\ fuse.phase = "seed" /\ Unbegun(fuse) /\ fuse.i = 1
      /\ PlacedUpTo(fuse.keys, fuse.start, fuse.order, 0)
  BY DEF FuseInv, Seed
<1> DEFINE K == Range(fuse.keys)
<1>2. PICK t \in [K -> CellTriples], b \in [K -> 0 .. Blocks - 1] :
         fuse' = [fuse EXCEPT !.phase = "place", !.hash = [k \in K |-> [cells |-> t[k], block |-> b[k]]]]
  BY DEF Seed
<1> DEFINE H == [k \in K |-> [cells |-> t[k], block |-> b[k]]]
<1>3. Hashed(H, K) BY DEF Hashed
<1> HIDE DEF H
<1>4. fuse' = [fuse EXCEPT !.phase = "place", !.hash = H] BY <1>2 DEF H
<1>5. /\ IsRecord(fuse') /\ fuse'.phase = "place" /\ fuse'.hash = H /\ fuse'.keys = fuse.keys /\ fuse'.i = fuse.i
      /\ fuse'.start = fuse.start /\ fuse'.order = fuse.order /\ fuse'.table = fuse.table
      /\ fuse'.duplicates = fuse.duplicates /\ fuse'.alone = fuse.alone /\ fuse'.stack = fuse.stack /\ fuse'.prints = fuse.prints
  BY <1>1, <1>4 DEF IsRecord
<1>6. Unbegun(fuse') BY <1>1, <1>5 DEF Unbegun
<1>7. fuse'.i \in 1 .. Len(fuse'.keys) /\ fuse'.i - 1 = 0
  <2>1. Len(fuse.keys) \in Nat \ {0} BY <1>1, KeysAre, ListIs
  <2> QED BY <1>1, <1>5, <2>1
<1>8. PlacedUpTo(fuse'.keys, fuse'.start, fuse'.order, fuse'.i - 1) BY <1>1, <1>5, <1>7
<1>9. Hashed(fuse'.hash, Range(fuse'.keys)) BY <1>3, <1>5
<1> QED BY <1>1, <1>5, <1>6, <1>7, <1>8, <1>9 DEF FuseInv

LEMMA SeenNone ==
  ASSUME NEW f, NEW own, f.table = EmptyCells, f.duplicates = 0
  PROVE  Seen(f, own, {}, 0)
<1>1. Cardinality({}) = 0 BY FS_EmptySet
<1>2. ~Odd({}) /\ Bit({}) = 0
  <2>1. 0 % 2 = 0 OBVIOUS
  <2>2. ~Odd({}) BY <1>1, <2>1 DEF Odd
  <2> QED BY <2>2 DEF Bit
<1>3. ASSUME NEW c \in Cells
      PROVE  CellIs(f.table[c], f.hash, own, {}, c)
  <2>1. f.table[c] = [count |-> 0, pos |-> 0, hash |-> {}] BY DEF EmptyCells
  <2>2. CountOf(f.hash, own, {}, c) = 0
    <3>1. UsersOf(f.hash, own, {}, c) = {} BY DEF UsersOf
    <3> QED BY <1>1, <3>1 DEF CountOf
  <2>3. PosOf(f.hash, own, {}, c) = 0
    <3>1. \A j : UsersAt(f.hash, own, {}, c, j) = {} BY DEF UsersAt
    <3>2. PosOf(f.hash, own, {}, c) = 0 + 2 * 0 BY <1>2, <3>1 DEF PosOf
    <3> QED BY <3>2
  <2>4. HashOf(f.hash, own, {}, c) = {}
    <3>1. \A k : UsersBy(f.hash, own, {}, c, k) = {} BY DEF UsersBy
    <3>2. \A k : ~Odd(UsersBy(f.hash, own, {}, c, k)) BY <1>2, <3>1
    <3> QED BY <3>2 DEF HashOf
  <2> QED BY <2>1, <2>2, <2>3, <2>4 DEF CellIs
<1>4. DOMAIN f.table = Cells BY DEF EmptyCells
<1>5. 0 .. 0 - 1 = {} OBVIOUS
<1> QED BY <1>1, <1>3, <1>4, <1>5 DEF Seen, Tally

LEMMA PlaceStep ==
  ASSUME FuseInv(fuse), PlaceKey
  PROVE  FuseInv(fuse')
<1> DEFINE n == fuse.i
           k == fuse.keys[fuse.i]
           b == FreeBlock(fuse.hash[k].block)
           N == Len(fuse.keys)
           st == [fuse.start EXCEPT ![b] = @ + 1]
           od == [fuse.order EXCEPT ![fuse.start[b]] = {k}]
           i2 == IF n = N THEN 0 ELSE n + 1
           ph == IF n = N THEN "count" ELSE "place"
<1>1. IsRecord(fuse) /\ fuse.keys \in KeyLists /\ DOMAIN fuse.prints = Cells /\ fuse.phase = "place" /\ Unbegun(fuse)
      /\ n \in 1 .. N /\ PlacedUpTo(fuse.keys, fuse.start, fuse.order, n - 1) /\ Hashed(fuse.hash, Range(fuse.keys))
  BY DEF FuseInv, PlaceKey
<1>2. IsList(fuse.keys) /\ N \in Nat \ {0} BY <1>1, KeysAre, ListIs
<1>3. k \in Range(fuse.keys) BY <1>1, <1>2, ListIs
<1>4. fuse.hash[k].block \in 0 .. Blocks - 1 BY <1>1, <1>3, HashedIs
<1>5. b \in 0 .. Blocks - 1 /\ fuse.order[fuse.start[b]] = {}
  <2>1. n - 1 < Len(fuse.keys) BY <1>1, <1>2
  <2> QED BY <1>1, <1>2, <1>4, <2>1, FreeBlockIs
<1>6. PlacedUpTo(fuse.keys, st, od, n)
  <2> DEFINE x == fuse.keys
             y == fuse.start
             z == fuse.order
             m == n - 1
  <2>1. m < Len(x) /\ m + 1 = n BY <1>1, <1>2
  <2>2. IsList(x) /\ PlacedUpTo(x, y, z, m) /\ z[y[b]] = {} BY <1>1, <1>2, <1>5
  <2> HIDE DEF x, y, z, m, b
  <2>3. PlacedUpTo(x, [y EXCEPT ![b] = @ + 1], [z EXCEPT ![y[b]] = {x[m + 1]}], m + 1) BY <1>5, <2>1, <2>2, PlaceKeeps
  <2> QED BY <2>1, <2>3 DEF x, y, z
<1>7. fuse' = [fuse EXCEPT !.order = od, !.start = st, !.i = i2, !.phase = ph]
  <2>1. fuse' = [fuse EXCEPT !.order[fuse.start[b]] = {k}, !.start[b] = @ + 1,
                    !.i = IF @ = Size THEN 0 ELSE @ + 1, !.phase = IF fuse.i = Size THEN "count" ELSE @]
    BY DEF PlaceKey
  <2> HIDE DEF k, b
  <2> QED BY <1>1, <2>1 DEF IsRecord, Size
<1> HIDE DEF st, od, i2, ph
<1>8. /\ IsRecord(fuse') /\ fuse'.phase = ph /\ fuse'.hash = fuse.hash /\ fuse'.keys = fuse.keys /\ fuse'.i = i2
      /\ fuse'.start = st /\ fuse'.order = od /\ fuse'.table = fuse.table
      /\ fuse'.duplicates = fuse.duplicates /\ fuse'.alone = fuse.alone /\ fuse'.stack = fuse.stack /\ fuse'.prints = fuse.prints
  BY <1>1, <1>7 DEF IsRecord
<1>9. Unbegun(fuse') BY <1>1, <1>8 DEF Unbegun
<1>10. CASE n = N
  <2>1. i2 = 0 /\ ph = "count" BY <1>10 DEF i2, ph
  <2>2. Sorted(fuse.keys, od) BY <1>2, <1>6, <1>10, AllPlaced
  <2>3. Seen(fuse', OwnOf(fuse'.keys, fuse'.order), {}, 0) BY <1>9, SeenNone DEF Unbegun
  <2>4. 0 \in 0 .. N - 1 BY <1>2
  <2>5. InCount(fuse') BY <1>8, <1>9, <2>1, <2>2, <2>3, <2>4 DEF InCount, Unbegun
  <2> QED BY <1>1, <1>8, <2>1, <2>5 DEF FuseInv
<1>11. CASE n # N
  <2>1. i2 = n + 1 /\ ph = "place" BY <1>11 DEF i2, ph
  <2>2. i2 \in 1 .. N /\ i2 - 1 = n BY <1>1, <1>2, <1>11, <2>1
  <2>3. PlacedUpTo(fuse'.keys, fuse'.start, fuse'.order, fuse'.i - 1) BY <1>6, <1>8, <2>2
  <2> QED BY <1>1, <1>8, <1>9, <2>1, <2>2, <2>3 DEF FuseInv
<1> QED BY <1>10, <1>11

LEMMA CountSeen ==
  ASSUME NEW f, NEW own, NEW live, NEW n \in Nat, Seen(f, own, live, n)
  PROVE  IsFiniteSet(live) /\ Cardinality(live) \in Nat /\ n \notin live
<1>1. live \in SUBSET (0 .. n - 1) BY DEF Seen
<1>2. IsFiniteSet(0 .. n - 1) BY FS_Interval
<1>3. IsFiniteSet(live) BY <1>1, <1>2, FS_Subset
<1> QED BY <1>1, <1>3, FS_CardinalityType

LEMMA CountStep ==
  ASSUME FuseInv(fuse), CountKey
  PROVE  FuseInv(fuse')
<1> DEFINE n == fuse.i
           N == Len(fuse.keys)
           K == Range(fuse.keys)
           own == OwnOf(fuse.keys, fuse.order)
           k == CHOOSE x \in Range(fuse.keys) : fuse.order[fuse.i] = {x}
           added == Toggle(fuse.table, k, 1)
           again == \E j \in 1 .. 3 : added[fuse.hash[k].cells[j]].hash = {} /\ added[fuse.hash[k].cells[j]].count = 2
           tb == IF again THEN fuse.table ELSE added
           dp == IF again THEN fuse.duplicates + 1 ELSE fuse.duplicates
           i2 == IF n = N - 1 THEN 0 ELSE n + 1
           ph == IF n = N - 1 THEN "queue" ELSE "count"
<1>1. IsRecord(fuse) /\ fuse.keys \in KeyLists /\ DOMAIN fuse.prints = Cells /\ fuse.phase = "count" /\ InCount(fuse)
      /\ Hashed(fuse.hash, K)
  BY DEF FuseInv, CountKey
<1>2. IsList(fuse.keys) /\ N \in Nat \ {0} BY <1>1, KeysAre, ListIs
<1>3. Sorted(fuse.keys, fuse.order) /\ fuse.alone = << >> /\ fuse.stack = << >> /\ n \in 0 .. N - 1 BY <1>1 DEF InCount
<1>4. PICK live : Seen(fuse, own, live, n) BY <1>1 DEF InCount
<1>5. \A s \in 0 .. N - 1 : own[s] \in K BY <1>3, OwnIs
<1>6. k = own[n] BY <1>3 DEF OwnOf
<1>7. n \in Nat BY <1>2, <1>3
<1>8. IsFiniteSet(live) /\ Cardinality(live) \in Nat /\ n \notin live /\ live \subseteq 0 .. n - 1
  <2> HIDE DEF n, own
  <2>1. live \subseteq 0 .. n - 1 BY <1>4 DEF Seen
  <2> QED BY <1>4, <1>7, <2>1, CountSeen
<1>9. \A s \in live : s \in 0 .. N - 1 /\ own[s] \in K BY <1>2, <1>3, <1>5, <1>8
<1>10. fuse' = [fuse EXCEPT !.table = tb, !.duplicates = dp, !.i = i2, !.phase = ph]
  <2>1. fuse' = [fuse EXCEPT !.table = IF again THEN fuse.table ELSE added,
                    !.duplicates = IF again THEN @ + 1 ELSE @,
                    !.i = IF @ = Size - 1 THEN 0 ELSE @ + 1, !.phase = IF fuse.i = Size - 1 THEN "queue" ELSE @]
    BY DEF CountKey
  <2> HIDE DEF k, added, again
  <2> QED BY <1>1, <2>1 DEF IsRecord, Size
<1>11. Tally(fuse.table, fuse.hash, own, live, {}) BY <1>4 DEF Seen
<1> HIDE DEF own, k, added, again, tb, dp, i2, ph
<1>12. /\ IsRecord(fuse') /\ fuse'.phase = ph /\ fuse'.hash = fuse.hash /\ fuse'.keys = fuse.keys /\ fuse'.i = i2
      /\ fuse'.start = fuse.start /\ fuse'.order = fuse.order /\ fuse'.table = tb
      /\ fuse'.duplicates = dp /\ fuse'.alone = fuse.alone /\ fuse'.stack = fuse.stack /\ fuse'.prints = fuse.prints
  BY <1>1, <1>10 DEF IsRecord
<1>13. \E l2 : Seen(fuse', own, l2, n + 1)
  <2>1. CASE again
    <3>1. tb = fuse.table /\ dp = fuse.duplicates + 1 BY <2>1 DEF tb, dp
    <3>2. \E t \in live : own[t] = k
      <4>1. PICK j \in 1 .. 3 : MeetsCopy(fuse.table, k, j) BY <2>1 DEF again, added, MeetsCopy
      <4>2. k \in K BY <1>3, <1>5, <1>6
      <4> HIDE DEF K
      <4>3. OwnedIn(own, live, K) BY <1>9 DEF OwnedIn
      <4>4. Hashed(fuse.hash, K) BY <1>1
      <4> DEFINE tab == fuse.table
      <4>5. Tally(tab, fuse.hash, own, live, {}) /\ MeetsCopy(tab, k, j) BY <1>11, <4>1
      <4>6. IsFiniteSet(live) BY <1>8
      <4> HIDE DEF tab
      <4> QED BY ONLY <4>2, <4>3, <4>4, <4>5, <4>6, AgainIs, j \in 1 .. 3
    <3>3. live \subseteq 0 .. (n + 1) - 1 BY <1>7, <1>8
    <3>4. dp \in Nat /\ Cardinality(live) + dp = n + 1 BY <1>4, <1>7, <1>8, <3>1 DEF Seen
    <3>5. \A s \in 0 .. (n + 1) - 1 : \E t \in live : own[t] = own[s]
      <4> TAKE s \in 0 .. (n + 1) - 1
      <4>1. s = n \/ s \in 0 .. n - 1 BY <1>7
      <4> QED BY <1>4, <1>6, <3>2, <4>1 DEF Seen
    <3>6. Tally(fuse'.table, fuse'.hash, own, live, {}) BY <1>11, <1>12, <3>1
    <3>7. Seen(fuse', own, live, n + 1) BY <1>12, <3>3, <3>4, <3>5, <3>6 DEF Seen
    <3> QED BY <3>7
  <2>2. CASE ~again
    <3> DEFINE l2 == live \cup {n}
    <3>1. tb = added /\ dp = fuse.duplicates BY <2>2 DEF tb, dp
    <3>2. Tally(Toggle(fuse.table, own[n], 1), fuse.hash, own, l2, {})
      <4>1. own[n] \in K BY <1>3, <1>5
      <4> QED BY <1>1, <1>8, <1>11, <4>1, TallyAdd
    <3>3. l2 \subseteq 0 .. (n + 1) - 1
      <4> HIDE DEF n
      <4>1. n \in 0 .. (n + 1) - 1 /\ \A s \in 0 .. n - 1 : s \in 0 .. (n + 1) - 1 BY <1>7
      <4> QED BY <1>8, <4>1
    <3>4. Cardinality(l2) = Cardinality(live) + 1 BY <1>8, FS_AddElement
    <3>5. dp \in Nat /\ Cardinality(l2) + dp = n + 1
      <4> HIDE DEF l2
      <4> QED BY <1>4, <1>7, <1>8, <3>1, <3>4 DEF Seen
    <3>6. \A s \in 0 .. (n + 1) - 1 : \E t \in l2 : own[t] = own[s]
      <4> TAKE s \in 0 .. (n + 1) - 1
      <4>1. s = n \/ s \in 0 .. n - 1 BY <1>7
      <4>2. CASE s = n BY <4>2
      <4>3. CASE s \in 0 .. n - 1 BY <1>4, <4>3 DEF Seen
      <4> QED BY <4>1, <4>2, <4>3
    <3>7. Tally(fuse'.table, fuse'.hash, own, l2, {}) BY <1>6, <1>12, <3>1, <3>2 DEF added
    <3> HIDE DEF l2
    <3>8. Seen(fuse', own, l2, n + 1) BY <1>12, <3>3, <3>5, <3>6, <3>7 DEF Seen
    <3> QED BY <3>8
  <2> QED BY <2>1, <2>2
<1>14. own = OwnOf(fuse'.keys, fuse'.order) BY <1>12 DEF own
<1>15. CASE n = N - 1
  <2>1. i2 = 0 /\ ph = "queue" /\ n + 1 = N BY <1>2, <1>15 DEF i2, ph
  <2>2. 0 \in 0 .. CellCount - 1 BY CellTotal
  <2>3. fuse'.alone = << >> /\ << >> \in Seq(Cells) /\ Len(<< >>) = 0 /\ 1 .. 0 = {} BY <1>3, <1>12
  <2>4. InQueue(fuse'.alone, fuse'.table, {}) /\ \A m \in 1 .. Len(fuse'.alone) : fuse'.alone[m] < fuse'.i
    BY <2>3 DEF InQueue
  <2>5. InFill(fuse') BY <1>3, <1>12, <1>13, <1>14, <2>1, <2>2, <2>4 DEF InFill
  <2> QED BY <1>1, <1>12, <2>1, <2>5 DEF FuseInv
<1>16. CASE n # N - 1
  <2>1. i2 = n + 1 /\ ph = "count" BY <1>16 DEF i2, ph
  <2>2. n + 1 \in 0 .. N - 1 BY <1>2, <1>3, <1>16
  <2>3. InCount(fuse') BY <1>3, <1>12, <1>13, <1>14, <2>1, <2>2 DEF InCount
  <2> QED BY <1>1, <1>12, <2>1, <2>3 DEF FuseInv
<1> QED BY <1>15, <1>16

LEMMA QueueAppend ==
  ASSUME NEW alone, NEW table, NEW taken, InQueue(alone, table, taken), NEW c \in Cells,
         \A n \in 1 .. Len(alone) : alone[n] # c, c \notin taken, table[c].count <= 1
  PROVE  InQueue(Append(alone, c), table, taken)
<1> DEFINE q == Append(alone, c)
<1>1. alone \in Seq(Cells) BY DEF InQueue
<1>2. q \in Seq(Cells) /\ Len(q) = Len(alone) + 1 /\ q[Len(alone) + 1] = c /\ \A n \in 1 .. Len(alone) : q[n] = alone[n]
      /\ Len(alone) \in Nat
  BY <1>1
<1> HIDE DEF q
<1>3. \A n \in 1 .. Len(q) : n \in 1 .. Len(alone) \/ n = Len(alone) + 1 BY <1>2
<1>4. \A m, n \in 1 .. Len(q) : q[m] = q[n] => m = n
  <2> TAKE m, n \in 1 .. Len(q)
  <2>1. CASE m \in 1 .. Len(alone) /\ n \in 1 .. Len(alone) BY <1>2, <2>1 DEF InQueue
  <2>2. CASE m = Len(alone) + 1 \/ n = Len(alone) + 1 BY <1>2, <1>3, <2>2
  <2> QED BY <1>3, <2>1, <2>2
<1>5. \A n \in 1 .. Len(q) : q[n] \notin taken /\ table[q[n]].count <= 1 BY <1>2, <1>3 DEF InQueue
<1>6. InQueue(q, table, taken) BY <1>2, <1>4, <1>5 DEF InQueue
<1> QED BY <1>6 DEF q

LEMMA EnqueueStep ==
  ASSUME FuseInv(fuse), Enqueue
  PROVE  FuseInv(fuse')
<1> DEFINE n == fuse.i
           N == Len(fuse.keys)
           K == Range(fuse.keys)
           own == OwnOf(fuse.keys, fuse.order)
           al == IF fuse.table[n].count = 1 THEN Append(fuse.alone, n) ELSE fuse.alone
           i2 == n + 1
           ph == IF n = CellCount - 1 THEN "peel" ELSE "queue"
<1>1. IsRecord(fuse) /\ fuse.keys \in KeyLists /\ DOMAIN fuse.prints = Cells /\ fuse.phase = "queue" /\ InFill(fuse)
      /\ Hashed(fuse.hash, K)
  BY DEF FuseInv, Enqueue
<1>2. IsList(fuse.keys) /\ N \in Nat \ {0} BY <1>1, KeysAre, ListIs
<1>3. /\ Sorted(fuse.keys, fuse.order) /\ fuse.stack = << >> /\ n \in 0 .. CellCount - 1
      /\ InQueue(fuse.alone, fuse.table, {}) /\ \A m \in 1 .. Len(fuse.alone) : fuse.alone[m] < n
  BY <1>1 DEF InFill
<1>4. PICK live : Seen(fuse, own, live, N) BY <1>1 DEF InFill
<1>5. n \in Cells /\ n \in Nat BY <1>3, CellTotal DEF Cells
<1>6. fuse' = [fuse EXCEPT !.alone = al, !.i = i2, !.phase = ph]
  <2>1. fuse' = [fuse EXCEPT !.alone = IF fuse.table[fuse.i].count = 1 THEN Append(@, fuse.i) ELSE @,
                !.i = @ + 1, !.phase = IF fuse.i = CellCount - 1 THEN "peel" ELSE @]
    BY DEF Enqueue
  <2> QED BY <1>1, <2>1 DEF IsRecord
<1>7. InQueue(al, fuse.table, {}) /\ \A m \in 1 .. Len(al) : al[m] < n + 1
  <2> DEFINE q == fuse.alone
             tab == fuse.table
  <2>0. q \in Seq(Cells) /\ \A m \in 1 .. Len(q) : q[m] \in Nat BY <1>3, CellTotal DEF InQueue, Cells
  <2>1. CASE tab[n].count = 1
    <3>1. al = Append(q, n) BY <2>1
    <3>2. \A m \in 1 .. Len(q) : q[m] # n BY <1>3, <1>5
    <3>3. InQueue(q, tab, {}) /\ tab[n].count <= 1 /\ n \notin {} BY <1>3, <2>1
    <3> HIDE DEF q, tab, n
    <3>4. InQueue(Append(q, n), tab, {}) BY <1>5, <3>2, <3>3, QueueAppend
    <3>5. \A m \in 1 .. Len(Append(q, n)) : Append(q, n)[m] < n + 1
      <4> DEFINE z == Append(q, n)
      <4>1. Len(z) = Len(q) + 1 /\ z[Len(q) + 1] = n /\ (\A m \in 1 .. Len(q) : z[m] = q[m]) /\ Len(q) \in Nat BY <2>0
      <4> HIDE DEF z
      <4>2. ASSUME NEW m \in 1 .. Len(z) PROVE z[m] < n + 1
        <5>1. m = Len(q) + 1 \/ m \in 1 .. Len(q) BY <4>1
        <5>2. CASE m = Len(q) + 1 BY <1>5, <4>1, <5>2
        <5>3. CASE m \in 1 .. Len(q)
          <6>1. z[m] = q[m] /\ q[m] < n /\ q[m] \in Nat BY <1>3, <2>0, <4>1, <5>3 DEF q, n
          <6> QED BY <1>5, <6>1
        <5> QED BY <5>1, <5>2, <5>3
      <4> QED BY <4>2 DEF z
    <3> QED BY <3>1, <3>4, <3>5 DEF tab
  <2>2. CASE tab[n].count # 1
    <3>1. al = q BY <2>2
    <3> HIDE DEF al
    <3>2. \A m \in 1 .. Len(q) : q[m] < n + 1 BY <1>3, <1>5, <2>0
    <3> QED BY <1>3, <3>1, <3>2
  <2> QED BY <2>1, <2>2
<1> HIDE DEF al, i2, ph
<1>8. /\ IsRecord(fuse') /\ fuse'.phase = ph /\ fuse'.hash = fuse.hash /\ fuse'.keys = fuse.keys /\ fuse'.i = i2
      /\ fuse'.start = fuse.start /\ fuse'.order = fuse.order /\ fuse'.table = fuse.table
      /\ fuse'.duplicates = fuse.duplicates /\ fuse'.alone = al /\ fuse'.stack = fuse.stack /\ fuse'.prints = fuse.prints
  BY <1>1, <1>6 DEF IsRecord
<1>9. CASE n = CellCount - 1
  <2>1. ph = "peel" BY <1>9 DEF ph
  <2>2. fuse'.stack = << >> /\ Len(<< >>) = 0 /\ 1 .. 0 = {} /\ << >> \in Stacks(K) BY <1>3, <1>8 DEF Stacks
  <2>3. StackCells(fuse'.hash, fuse'.stack) = {} BY <2>2 DEF StackCells
  <2>4. InTurn(fuse'.hash, fuse'.stack) BY <2>2 DEF InTurn
  <2>5. ASSUME NEW k \in K PROVE \E t \in live : own[t] = k
    <3>1. PICK s \in 0 .. N - 1 : fuse.order[s] = {k}
      <4> DEFINE x == fuse.keys
                 z == fuse.order
      <4>1. IsList(x) /\ Sorted(x, z) /\ k \in Range(x) BY <1>2, <1>3
      <4> HIDE DEF x, z
      <4>2. \E s \in 0 .. Len(x) - 1 : z[s] = {k} BY <4>1, SlotOfKey
      <4> QED BY <4>2 DEF x, z
    <3>2. fuse.order[s] = {own[s]} BY <1>3, OwnIs
    <3>3. own[s] = k BY <3>1, <3>2
    <3> HIDE DEF own
    <3> QED BY <1>4, <3>3 DEF Seen
  <2>6. Left(fuse', own, live)
    <3>1. /\ live \subseteq 0 .. N - 1 /\ Tally(fuse.table, fuse.hash, own, live, {})
          /\ fuse.duplicates \in Nat /\ Cardinality(live) + fuse.duplicates = N
      BY <1>4 DEF Seen
    <3>2. IsFiniteSet(live) /\ Cardinality(live) \in Nat
      <4> HIDE DEF own, N
      <4> QED BY <1>2, <1>4, CountSeen
    <3>3. Cardinality(live) + 0 + fuse.duplicates = N BY <3>1, <3>2
    <3>4. Cardinality(live) + Len(fuse'.stack) + fuse'.duplicates = Len(fuse'.keys) BY <1>8, <2>2, <3>3
    <3> HIDE DEF own
    <3>5. Tally(fuse'.table, fuse'.hash, own, live, StackCells(fuse'.hash, fuse'.stack)) BY <1>8, <2>3, <3>1
    <3>6. \A k \in Range(fuse'.keys) : OnStack(fuse'.stack, k) \/ \E t \in live : own[t] = k BY <1>8, <2>5
    <3> QED BY <1>8, <2>3, <3>1, <3>4, <3>5, <3>6 DEF Left
  <2>7. InPeel(fuse') BY <1>3, <1>7, <1>8, <2>2, <2>3, <2>4, <2>6 DEF InPeel
  <2> QED BY <1>1, <1>8, <2>1, <2>7 DEF FuseInv
<1>10. CASE n # CellCount - 1
  <2>1. ph = "queue" BY <1>10 DEF ph
  <2>2. i2 \in 0 .. CellCount - 1 /\ i2 = n + 1 BY <1>3, <1>10, CellTotal DEF i2
  <2>3. Seen(fuse', own, live, N) BY <1>4, <1>8 DEF Seen
  <2>4. InFill(fuse') BY <1>3, <1>7, <1>8, <2>2, <2>3 DEF InFill
  <2> QED BY <1>1, <1>8, <2>1, <2>4 DEF FuseInv
<1> QED BY <1>9, <1>10

LEMMA QueueFront ==
  ASSUME NEW alone, NEW table, NEW taken, InQueue(alone, table, taken), alone # << >>
  PROVE  /\ Len(alone) \in Nat \ {0} /\ Last(alone) = alone[Len(alone)] /\ Last(alone) \in Cells /\ Last(alone) \notin taken
         /\ InQueue(Front(alone), table, taken)
         /\ \A n \in 1 .. Len(Front(alone)) : Front(alone)[n] # Last(alone)
<1>1. alone \in Seq(Cells) BY DEF InQueue
<1>2. Len(alone) \in Nat \ {0} BY <1>1
<1> DEFINE L == Len(alone)
           q == Front(alone)
<1>3. q \in Seq(Cells) /\ Len(q) = L - 1 /\ \A n \in 1 .. L - 1 : q[n] = alone[n]
  <2>1. q = SubSeq(alone, 1, L - 1) BY DEF Front
  <2>2. L \in Nat /\ L - 1 \in Int BY <1>2
  <2>3. \A i \in 1 .. L - 1 : i \in 1 .. L BY <2>2
  <2>4. \A i \in 1 .. L - 1 : alone[i] \in Cells BY <1>1, <2>3
  <2> HIDE DEF q, L
  <2>5. /\ q \in Seq(Cells) /\ Len(q) = (IF 1 <= L - 1 THEN (L - 1) - 1 + 1 ELSE 0)
        /\ \A i \in 1 .. (L - 1) - 1 + 1 : q[i] = alone[1 + i - 1]
    BY <2>1, <2>2, <2>4, SubSeqProperties
  <2>6. \A i \in 1 .. L - 1 : i \in 1 .. (L - 1) - 1 + 1 /\ 1 + i - 1 = i BY <2>2
  <2>7. (IF 1 <= L - 1 THEN (L - 1) - 1 + 1 ELSE 0) = L - 1 BY <1>2, <2>2 DEF L
  <2> QED BY <2>5, <2>6, <2>7
<1>4. Last(alone) = alone[L] /\ L \in 1 .. L /\ alone[L] \in Cells BY <1>1, <1>2 DEF Last
<1> HIDE DEF q
<1>5. \A n \in 1 .. Len(q) : n \in 1 .. L /\ n # L /\ q[n] = alone[n] BY <1>2, <1>3
<1>6. InQueue(q, table, taken) BY <1>3, <1>5 DEF InQueue
<1>7. \A n \in 1 .. Len(q) : q[n] # Last(alone) BY <1>4, <1>5 DEF InQueue
<1>8. alone[L] \notin taken BY <1>4 DEF InQueue
<1> QED BY <1>2, <1>4, <1>6, <1>7, <1>8 DEF q

LEMMA Others ==
  ASSUME NEW f \in 0 .. 2
  PROVE  /\ ((f + 0) % 3) + 1 = f + 1 /\ f + 1 \in 1 .. 3
         /\ ((f + 1) % 3) + 1 \in 1 .. 3 /\ ((f + 2) % 3) + 1 \in 1 .. 3
         /\ ((f + 1) % 3) + 1 # f + 1 /\ ((f + 2) % 3) + 1 # f + 1 /\ ((f + 1) % 3) + 1 # ((f + 2) % 3) + 1
<1>1. CASE f = 0 BY <1>1
<1>2. CASE f = 1 BY <1>2
<1>3. CASE f = 2 BY <1>3
<1> QED BY <1>1, <1>2, <1>3

LEMMA QueueDrop ==
  ASSUME NEW q, NEW table, NEW new, NEW taken, InQueue(q, table, taken), NEW c, \A n \in 1 .. Len(q) : q[n] # c,
         \A a \in Cells \ (taken \cup {c}) : table[a].count <= 1 => new[a].count <= 1
  PROVE  InQueue(q, new, taken \cup {c})
<1>1. q \in Seq(Cells) BY DEF InQueue
<1>2. \A n \in 1 .. Len(q) : q[n] \in Cells BY <1>1
<1>3. \A n \in 1 .. Len(q) : q[n] \notin taken \cup {c} /\ new[q[n]].count <= 1 BY <1>2 DEF InQueue
<1> QED BY <1>1, <1>3 DEF InQueue

NewInQueue(q, table, taken, c) == (\A n \in 1 .. Len(q) : q[n] # c) /\ c \notin taken /\ table[c].count <= 1

LEMMA QueueReady ==
  ASSUME NEW q, NEW table, NEW taken, InQueue(q, table, taken), NEW c \in Cells, NEW r, r = << >> \/ r = << c >>,
         r = << c >> => NewInQueue(q, table, taken, c)
  PROVE  /\ InQueue(q \o r, table, taken)
         /\ \A n \in 1 .. Len(q \o r) : (\E m \in 1 .. Len(q) : (q \o r)[n] = q[m]) \/ (r = << c >> /\ (q \o r)[n] = c)
<1>0. q \in Seq(Cells) BY DEF InQueue
<1>1. CASE r = << >>
  <2>1. q \o r = q BY <1>0, <1>1
  <2> QED BY <2>1
<1>2. CASE r = << c >>
  <2>1. q \o r = Append(q, c) BY <1>0, <1>2
  <2>2. InQueue(Append(q, c), table, taken) BY <1>2, QueueAppend DEF NewInQueue
  <2>3. /\ Len(Append(q, c)) = Len(q) + 1 /\ Append(q, c)[Len(q) + 1] = c /\ Len(q) \in Nat
        /\ \A m \in 1 .. Len(q) : Append(q, c)[m] = q[m]
    BY <1>0
  <2>4. \A n \in 1 .. Len(q) + 1 : n \in 1 .. Len(q) \/ n = Len(q) + 1 BY <2>3
  <2>5. \A n \in 1 .. Len(Append(q, c)) : (\E m \in 1 .. Len(q) : Append(q, c)[n] = q[m]) \/ Append(q, c)[n] = c
    BY <2>3, <2>4
  <2> QED BY <1>2, <2>1, <2>2, <2>5
<1> QED BY <1>1, <1>2

Pushed(H, stack, e, q) ==
  /\ Len(q) = Len(stack) + 1 /\ Len(stack) \in Nat /\ q[Len(stack) + 1] = e
  /\ \A n \in 1 .. Len(stack) : q[n] = stack[n]
  /\ StackCells(H, q) = StackCells(H, stack) \cup {CellOf(H, e)}
  /\ \A k : OnStack(q, k) <=> (OnStack(stack, k) \/ k = e.key)

LEMMA StackMore ==
  ASSUME NEW H, NEW K, NEW stack \in Stacks(K), NEW e \in [key : K, found : 0 .. 2]
  PROVE  Append(stack, e) \in Stacks(K) /\ Pushed(H, stack, e, Append(stack, e))
<1> DEFINE q == Append(stack, e)
<1>1. /\ q \in Stacks(K) /\ Len(q) = Len(stack) + 1 /\ Len(stack) \in Nat
      /\ q[Len(stack) + 1] = e /\ \A n \in 1 .. Len(stack) : q[n] = stack[n]
  BY DEF Stacks
<1> HIDE DEF q
<1>2. \A n \in 1 .. Len(q) : n \in 1 .. Len(stack) \/ n = Len(stack) + 1 BY <1>1
<1>3. \A n \in 1 .. Len(stack) : n \in 1 .. Len(q) BY <1>1
<1>4. Len(stack) + 1 \in 1 .. Len(q) BY <1>1
<1>5. StackCells(H, q) = StackCells(H, stack) \cup {CellOf(H, e)}
  <2>1. ASSUME NEW c PROVE c \in StackCells(H, q) <=> c \in StackCells(H, stack) \cup {CellOf(H, e)}
    <3>1. ASSUME c \in StackCells(H, q) PROVE c \in StackCells(H, stack) \cup {CellOf(H, e)}
      <4>1. PICK n \in 1 .. Len(q) : c = CellOf(H, q[n]) BY <3>1 DEF StackCells
      <4> QED BY <1>1, <1>2, <4>1 DEF StackCells
    <3>2. ASSUME c \in StackCells(H, stack) PROVE c \in StackCells(H, q)
      <4>1. PICK n \in 1 .. Len(stack) : c = CellOf(H, stack[n]) BY <3>2 DEF StackCells
      <4>2. n \in 1 .. Len(q) /\ q[n] = stack[n] BY <1>1, <1>3
      <4> QED BY <4>1, <4>2 DEF StackCells
    <3>3. CellOf(H, e) \in StackCells(H, q) BY <1>1, <1>4 DEF StackCells
    <3> QED BY <3>1, <3>2, <3>3
  <2> QED BY <2>1
<1>6. \A k : OnStack(q, k) <=> (OnStack(stack, k) \/ k = e.key) BY <1>1, <1>2, <1>3, <1>4 DEF OnStack
<1>7. Pushed(H, stack, e, q) BY <1>1, <1>5, <1>6 DEF Pushed
<1> QED BY <1>1, <1>7 DEF q

(* The taken cells are cells with one hash, whose owner has left the table. *)
Taken(table, H, own, live, taken) ==
  taken \subseteq Cells /\ \A a \in taken : table[a].count = 1 /\ \A t \in live : ~Uses(H, own[t], a)

LEMMA CountIsNat ==
  ASSUME NEW table, NEW H, NEW own, NEW live, IsFiniteSet(live), NEW taken, Tally(table, H, own, live, taken), NEW a \in Cells \ taken
  PROVE  table[a].count \in Nat
<1>1. UsersOf(H, own, live, a) \in SUBSET live BY DEF UsersOf
<1>2. IsFiniteSet(UsersOf(H, own, live, a)) BY <1>1, FS_Subset
<1>3. Cardinality(UsersOf(H, own, live, a)) \in Nat BY <1>2, FS_CardinalityType
<1> QED BY <1>3 DEF Tally, CellIs, CountOf

PeeledTable(table, k, c) == [Toggle(table, k, -1) EXCEPT ![c] = table[c]]
CellsOf(H, k) == {a \in Cells : Uses(H, k, a)}
Lowers(table, new, U, set) ==
  \A a \in set : table[a].count \in Nat /\ new[a].count = (IF a \in U THEN table[a].count - 1 ELSE table[a].count)

(* What the table is like once the only hash of cell c is peeled off.      *)
LEMMA PeelTable ==
  ASSUME NEW K, Hashed(fuse.hash, K), NEW own, NEW live, IsFiniteSet(live), NEW s, s \notin live, own[s] \in K, NEW taken,
         NEW table, Tally(table, fuse.hash, own, live \cup {s}, taken), Taken(table, fuse.hash, own, live \cup {s}, taken),
         NEW c \in Cells \ taken, UsersOf(fuse.hash, own, live \cup {s}, c) = {s}, table[c].count = 1
  PROVE  /\ Tally(PeeledTable(table, own[s], c), fuse.hash, own, live, taken \cup {c})
         /\ Taken(PeeledTable(table, own[s], c), fuse.hash, own, live, taken \cup {c})
         /\ Lowers(table, PeeledTable(table, own[s], c), CellsOf(fuse.hash, own[s]), Cells \ (taken \cup {c}))
<1> DEFINE H == fuse.hash
           T == Toggle(table, own[s], -1)
           new == [T EXCEPT ![c] = table[c]]
<1>1. Tally(new, H, own, live, taken \cup {c}) BY TallyDrop
<1>2. DOMAIN table = Cells BY DEF Tally
<1>3. DOMAIN T = Cells BY <1>2, ToggleIs
<1>4. Hashed(H, K) OBVIOUS
<1>5. \A a \in Cells : a # c => new[a] = T[a] BY <1>3
<1>6. new[c] = table[c] BY <1>3
<1>7. \A a \in Cells : ~Uses(H, own[s], a) => T[a] = table[a] BY <1>2, ToggleIs
<1>8. \A t \in live : ~Uses(H, own[t], c)
  <2> TAKE t \in live
  <2>1. t # s OBVIOUS
  <2>2. t \notin UsersOf(H, own, live \cup {s}, c) BY <2>1
  <2> QED BY <2>2 DEF UsersOf
<1>10. IsFiniteSet(live \cup {s}) BY FS_AddElement
<1>11. \A a \in Cells \ taken : table[a].count \in Nat BY <1>10, CountIsNat
<1>9. \A a \in Cells \ taken : Uses(H, own[s], a) => T[a].count = table[a].count - 1
  <2> SUFFICES ASSUME NEW a \in Cells \ taken, Uses(H, own[s], a) PROVE T[a].count = table[a].count - 1 OBVIOUS
  <2>1. PICK j \in 1 .. 3 : H[own[s]].cells[j] = a BY DEF Uses
  <2>2. T[a] = Toggled(table[a], -1, own[s], j) BY <1>2, <2>1, ToggleIs
  <2> DEFINE e == table[a]
  <2>4. T[a] = Toggled(e, -1, own[s], j) /\ e.count \in Nat BY <1>11, <2>2
  <2> HIDE DEF e, T
  <2>3. Toggled(e, -1, own[s], j).count = e.count - 1
    <3>1. Toggled(e, -1, own[s], j).count = e.count + (-1) BY DEF Toggled
    <3> QED BY <2>4, <3>1
  <2> QED BY <2>3, <2>4 DEF e
<1> HIDE DEF H, T, new
<1>12. \A a \in taken : a \in Cells /\ a # c /\ table[a].count = 1 /\ (\A t \in live \cup {s} : ~Uses(H, own[t], a)) BY DEF Taken, H
<1>13. \A a \in taken : new[a] = table[a] BY <1>5, <1>7, <1>12
<1>14. Taken(new, H, own, live, taken \cup {c}) BY <1>6, <1>8, <1>12, <1>13 DEF Taken
<1>15. ASSUME NEW a \in Cells \ (taken \cup {c})
       PROVE  table[a].count \in Nat /\ new[a].count = (IF Uses(H, own[s], a) THEN table[a].count - 1 ELSE table[a].count)
  BY <1>5, <1>7, <1>9, <1>11
<1>16. Lowers(table, new, CellsOf(H, own[s]), Cells \ (taken \cup {c})) BY <1>15 DEF Lowers, CellsOf
<1>17. new = PeeledTable(table, own[s], c) BY DEF PeeledTable, T, new
<1> QED BY <1>1, <1>14, <1>16, <1>17 DEF H

ReadyCell(table, o) == IF table[o].count = 2 THEN << o >> ELSE << >>

(* The other cells of the peeled hash are queued when they have one hash   *)
(* left: they had two and so were not in the queue.                        *)
LEMMA PeelQueue ==
  ASSUME NEW q, NEW table, NEW new, NEW taken, NEW c, InQueue(q, table, taken), \A n \in 1 .. Len(q) : q[n] # c,
         NEW U, Lowers(table, new, U, Cells \ (taken \cup {c})),
         NEW o1 \in Cells \ (taken \cup {c}), NEW o2 \in Cells \ (taken \cup {c}), o1 \in U, o2 \in U, o1 # o2
  PROVE  InQueue(q \o ReadyCell(table, o1) \o ReadyCell(table, o2), new, taken \cup {c})
<1> DEFINE t2 == taken \cup {c}
           r1 == ReadyCell(table, o1)
           r2 == ReadyCell(table, o2)
           q1 == q \o r1
<1>0. q \in Seq(Cells) BY DEF InQueue
<1>1. \A a \in Cells \ t2 : table[a].count <= 1 => new[a].count <= 1 BY DEF Lowers
<1>2. InQueue(q, new, t2) BY <1>1, QueueDrop
<1>3. (r1 = << >> \/ r1 = << o1 >>) /\ (r2 = << >> \/ r2 = << o2 >>) BY DEF ReadyCell
<1>4. /\ r1 = << o1 >> => table[o1].count = 2
      /\ r2 = << o2 >> => table[o2].count = 2
  <2>1. << o1 >> # << >> /\ << o2 >> # << >> OBVIOUS
  <2> QED BY <2>1 DEF ReadyCell
<1>5. ASSUME NEW o \in Cells \ t2, o \in U, table[o].count = 2
      PROVE  NewInQueue(q, new, t2, o)
  <2>1. \A n \in 1 .. Len(q) : table[q[n]].count <= 1 BY DEF InQueue
  <2>2. new[o].count = 2 - 1 BY <1>5 DEF Lowers
  <2>3. \A n \in 1 .. Len(q) : q[n] # o BY <1>5, <2>1
  <2> QED BY <2>2, <2>3 DEF NewInQueue
<1>6. r1 = << o1 >> => NewInQueue(q, new, t2, o1) BY <1>4, <1>5
<1> HIDE DEF t2, r1, r2
<1>7. /\ InQueue(q \o r1, new, t2)
      /\ \A n \in 1 .. Len(q \o r1) : (\E m \in 1 .. Len(q) : (q \o r1)[n] = q[m]) \/ (r1 = << o1 >> /\ (q \o r1)[n] = o1)
  BY <1>2, <1>3, <1>6, QueueReady
<1>8. ASSUME r2 = << o2 >> PROVE NewInQueue(q1, new, t2, o2)
  <2>1. NewInQueue(q, new, t2, o2) BY <1>4, <1>5, <1>8 DEF t2
  <2> QED BY <1>7, <2>1 DEF NewInQueue
<1>10. InQueue(q1, new, t2) BY <1>7
<1> HIDE DEF q1
<1>9. InQueue(q1 \o r2, new, t2) BY <1>3, <1>8, <1>10, QueueReady
<1> QED BY <1>9 DEF q1, r1, r2, t2

(* The slot whose hash is the last one in a cell, and what the entry of    *)
(* this hash on the stack takes.                                           *)
IsLastOf(s, own, live, c) ==
  LET k == CHOOSE x \in Range(fuse.keys) : fuse.table[c].hash = {x}
      found == fuse.table[c].pos
      cells == fuse.hash[k].cells
  IN  /\ k = own[s] /\ found \in 0 .. 2 /\ UsersOf(fuse.hash, own, live, c) = {s}
      /\ cells[((found + 0) % 3) + 1] = c
      /\ cells[((found + 1) % 3) + 1] \in Cells \ {c} /\ cells[((found + 2) % 3) + 1] \in Cells \ {c}
      /\ cells[((found + 1) % 3) + 1] # cells[((found + 2) % 3) + 1]

LEMMA PeelOne ==
  ASSUME FuseInv(fuse), fuse.phase = "peel", NEW own, NEW live, Left(fuse, own, live), OwnedIn(own, live, Range(fuse.keys)),
         NEW c \in Cells, c \notin StackCells(fuse.hash, fuse.stack), fuse.table[c].count = 1
  PROVE  \E s \in live : IsLastOf(s, own, live, c)
<1> DEFINE K == Range(fuse.keys)
           H == fuse.hash
           e == fuse.table[c]
           N == Len(fuse.keys)
<1>1. fuse.keys \in KeyLists /\ Hashed(H, K) BY DEF FuseInv
<1>2. N \in Nat \ {0} BY <1>1, KeysAre, ListIs
<1>3. live \in SUBSET (0 .. N - 1) /\ CellIs(e, H, own, live, c) BY DEF Left, Tally
<1>4. IsFiniteSet(live)
  <2> HIDE DEF N
  <2>0. 0 \in Int /\ N - 1 \in Int BY <1>2
  <2>1. IsFiniteSet(0 .. N - 1) BY ONLY <2>0, FS_Interval
  <2> QED BY <1>3, <2>1, FS_Subset
<1>5. e.count = 1 OBVIOUS
<1>9. OwnedIn(own, live, K) OBVIOUS
<1> HIDE DEF H, e, K
<1>6. PICK s \in live, j \in 1 .. 3 :
        /\ UsersOf(H, own, live, c) = {s} /\ H[own[s]].cells[j] = c
        /\ e.hash = {own[s]} /\ e.pos = j - 1
  <2>1. Hashed(H, K) /\ CellIs(e, H, own, live, c) BY <1>1, <1>3
  <2>2. IsSingle(e, H, own, live, c) BY <2>1, <1>4, <1>5, <1>9, CellSingle
  <2> QED BY <2>2 DEF IsSingle
<1> DEFINE k == CHOOSE x \in K : e.hash = {x}
           f == e.pos
<1>7. k = own[s]
  <2>1. own[s] \in K BY <1>9 DEF OwnedIn
  <2>2. \A x \in K : e.hash = {x} <=> x = own[s] BY <1>6
  <2> QED BY <2>1, <2>2
<1>8. f \in 0 .. 2 /\ f = j - 1 BY <1>6
<1> HIDE DEF k, f
<1>10. k \in K BY <1>7, <1>9 DEF OwnedIn
<1>11. \A i \in 1 .. 3 : H[k].cells[i] \in Cells
  <2>1. \A i \in 1 .. 3 : i = 1 \/ i = 2 \/ i = 3 OBVIOUS
  <2>2. H[k].cells[1] \in Cells /\ H[k].cells[2] \in Cells /\ H[k].cells[3] \in Cells BY <1>1, <1>10, HashedIs
  <2> QED BY <2>1, <2>2
<1>12. \A i, m \in 1 .. 3 : H[k].cells[i] = H[k].cells[m] => i = m BY <1>1, <1>10, UsesOne
<1> DEFINE a0 == ((f + 0) % 3) + 1
           a1 == ((f + 1) % 3) + 1
           a2 == ((f + 2) % 3) + 1
<1>13. a0 = f + 1 /\ a0 \in 1 .. 3 /\ a1 \in 1 .. 3 /\ a2 \in 1 .. 3 /\ a1 # a0 /\ a2 # a0 /\ a1 # a2 BY <1>8, Others
<1> HIDE DEF a0, a1, a2
<1>14. a0 = j BY <1>8, <1>13
<1>15. H[k].cells[a0] = c BY <1>6, <1>7, <1>14
<1>16. /\ H[k].cells[a1] \in Cells \ {c} /\ H[k].cells[a2] \in Cells \ {c}
       /\ H[k].cells[a1] # H[k].cells[a2]
  BY <1>11, <1>12, <1>13, <1>15
<1> QED BY <1>6, <1>7, <1>8, <1>15, <1>16 DEF k, f, a0, a1, a2, K, H, e, IsLastOf

LEMMA StackIn ==
  ASSUME NEW K, NEW H, Hashed(H, K), NEW stack \in Stacks(K)
  PROVE  StackCells(H, stack) \subseteq Cells
<1> SUFFICES ASSUME NEW n \in 1 .. Len(stack) PROVE CellOf(H, stack[n]) \in Cells BY DEF StackCells
<1>0. stack \in Seq([key : K, found : 0 .. 2]) BY DEF Stacks
<1> DEFINE R == [key : K, found : 0 .. 2]
<1>5. stack[n] \in R
  <2>1. stack \in Seq(R) BY <1>0
  <2> HIDE DEF R
  <2> QED BY <2>1
<1>1. stack[n].key \in K /\ stack[n].found \in 0 .. 2 BY <1>5
<1> DEFINE e == stack[n]
<1>2. ((e.found + 0) % 3) + 1 = e.found + 1 BY <1>1, Others
<1>3. e.found + 1 = 1 \/ e.found + 1 = 2 \/ e.found + 1 = 3 BY <1>1
<1>4. H[e.key].cells[1] \in Cells /\ H[e.key].cells[2] \in Cells /\ H[e.key].cells[3] \in Cells BY <1>1, HashedIs
<1> QED BY <1>2, <1>3, <1>4 DEF CellOf

LEMMA TurnMore ==
  ASSUME NEW H, NEW K, NEW stack \in Stacks(K), NEW e \in [key : K, found : 0 .. 2], InTurn(H, stack),
         \A a \in StackCells(H, stack) : ~Uses(H, e.key, a)
  PROVE  InTurn(H, Append(stack, e))
<1> DEFINE q == Append(stack, e)
<1>1. /\ Len(q) = Len(stack) + 1 /\ Len(stack) \in Nat
      /\ q[Len(stack) + 1] = e /\ \A n \in 1 .. Len(stack) : q[n] = stack[n]
  BY StackMore DEF Pushed
<1> HIDE DEF q
<1> SUFFICES ASSUME NEW m \in 1 .. Len(q), NEW n \in 1 .. Len(q), m < n
             PROVE  ~Uses(H, q[n].key, CellOf(H, q[m]))
    BY DEF InTurn, q
<1>2. m \in 1 .. Len(stack) /\ (n \in 1 .. Len(stack) \/ n = Len(stack) + 1) BY <1>1
<1>3. q[m] = stack[m] BY <1>1, <1>2
<1>4. CASE n \in 1 .. Len(stack) BY <1>1, <1>2, <1>3, <1>4 DEF InTurn
<1>5. CASE n = Len(stack) + 1 BY <1>1, <1>2, <1>3, <1>5 DEF StackCells
<1> QED BY <1>2, <1>4, <1>5

LEMMA PeelStep ==
  ASSUME FuseInv(fuse), Peel
  PROVE  FuseInv(fuse')
<1> DEFINE N == Len(fuse.keys)
           K == Range(fuse.keys)
           own == OwnOf(fuse.keys, fuse.order)
           S == StackCells(fuse.hash, fuse.stack)
           c == Last(fuse.alone)
           q == Front(fuse.alone)
           k == CHOOSE x \in Range(fuse.keys) : fuse.table[c].hash = {x}
           found == fuse.table[c].pos
           cells == fuse.hash[k].cells
           o1 == cells[((found + 1) % 3) + 1]
           o2 == cells[((found + 2) % 3) + 1]
           e == [key |-> k, found |-> found]
           new == PeeledTable(fuse.table, k, c)
           al == q \o ReadyCell(fuse.table, o1) \o ReadyCell(fuse.table, o2)
           st == Append(fuse.stack, e)
<1>1. IsRecord(fuse) /\ fuse.keys \in KeyLists /\ DOMAIN fuse.prints = Cells /\ fuse.phase = "peel" /\ InPeel(fuse)
      /\ Hashed(fuse.hash, K) /\ fuse.alone # << >>
  BY DEF FuseInv, Peel
<1>2. IsList(fuse.keys) /\ N \in Nat \ {0} BY <1>1, KeysAre, ListIs
<1>3. Sorted(fuse.keys, fuse.order) /\ fuse.stack \in Stacks(K) /\ InTurn(fuse.hash, fuse.stack) /\ InQueue(fuse.alone, fuse.table, S)
  BY <1>1 DEF InPeel
<1>4. PICK live0 : Left(fuse, own, live0) BY <1>1 DEF InPeel
<1>5. live0 \subseteq 0 .. N - 1 BY <1>4 DEF Left
<1>6. \A s \in 0 .. N - 1 : own[s] \in K BY <1>3, OwnIs
<1>7. OwnedIn(own, live0, K) BY <1>5, <1>6 DEF OwnedIn
<1>8. IsFiniteSet(live0)
  <2> HIDE DEF N
  <2>0. 0 \in Int /\ N - 1 \in Int BY <1>2
  <2>1. IsFiniteSet(0 .. N - 1) BY ONLY <2>0, FS_Interval
  <2> QED BY <1>5, <2>1, FS_Subset
<1>9. c \in Cells /\ c \notin S /\ InQueue(q, fuse.table, S) /\ \A n \in 1 .. Len(q) : q[n] # c
  <2> DEFINE z == fuse.alone
             tab == fuse.table
  <2>1. InQueue(z, tab, S) /\ z # << >> BY <1>1, <1>3
  <2> HIDE DEF z, tab, S
  <2>2. Last(z) \in Cells /\ Last(z) \notin S /\ InQueue(Front(z), tab, S) /\ \A n \in 1 .. Len(Front(z)) : Front(z)[n] # Last(z)
    BY <2>1, QueueFront
  <2> QED BY <2>2 DEF z, tab
<1>10. CASE fuse.table[c].count # 1
  <2>1. fuse' = [fuse EXCEPT !.alone = q] BY <1>1, <1>10 DEF Peel, IsRecord
  <2> HIDE DEF q, own, S
  <2>2. /\ IsRecord(fuse') /\ fuse'.phase = "peel" /\ fuse'.hash = fuse.hash /\ fuse'.keys = fuse.keys
        /\ fuse'.start = fuse.start /\ fuse'.order = fuse.order /\ fuse'.table = fuse.table
        /\ fuse'.duplicates = fuse.duplicates /\ fuse'.alone = q /\ fuse'.stack = fuse.stack /\ fuse'.prints = fuse.prints
    BY <1>1, <2>1 DEF IsRecord
  <2>3. Left(fuse', own, live0) BY <1>4, <2>2 DEF Left
  <2>4. InQueue(fuse'.alone, fuse'.table, StackCells(fuse'.hash, fuse'.stack)) BY <1>9, <2>2 DEF S
  <2>5. own = OwnOf(fuse'.keys, fuse'.order) BY <2>2 DEF own
  <2>6. InPeel(fuse') BY <1>3, <2>2, <2>3, <2>4, <2>5 DEF InPeel
  <2> QED BY <1>1, <2>2, <2>6 DEF FuseInv
<1>11. CASE fuse.table[c].count = 1
  <2>1. PICK s \in live0 :
          /\ k = own[s] /\ found \in 0 .. 2 /\ UsersOf(fuse.hash, own, live0, c) = {s}
          /\ cells[((found + 0) % 3) + 1] = c
          /\ o1 \in Cells \ {c} /\ o2 \in Cells \ {c} /\ o1 # o2
    <3> DEFINE a == c
    <3>1. a \in Cells /\ a \notin S /\ fuse.table[a].count = 1 BY <1>9, <1>11
    <3> HIDE DEF a, own
    <3>2. \E s \in live0 : IsLastOf(s, own, live0, a) BY <1>1, <1>4, <1>7, <3>1, PeelOne
    <3> QED BY <3>2 DEF a, IsLastOf
  <2> DEFINE live == live0 \ {s}
  <2>2. k \in K BY <1>7, <2>1 DEF OwnedIn
  <2>3. fuse' = [fuse EXCEPT !.alone = al, !.stack = st, !.table = new]
    <3>1. fuse' = [fuse EXCEPT !.alone = q \o ReadyCell(fuse.table, o1) \o ReadyCell(fuse.table, o2), !.stack = Append(fuse.stack, e),
                     !.table = new]
      <4> DEFINE other == [d \in 1 .. 2 |-> fuse.hash[k].cells[((found + d) % 3) + 1]]
      <4>1. fuse' = [fuse EXCEPT !.alone = Front(@) \o ReadyCell(fuse.table, other[1]) \o ReadyCell(fuse.table, other[2]), !.stack = Append(@, e),
                     !.table = new]
        BY <1>11 DEF Peel, ReadyCell, PeeledTable
      <4>2. other[1] = o1 /\ other[2] = o2 OBVIOUS
      <4> HIDE DEF other, o1, o2, e, new
      <4> QED BY <1>1, <4>1, <4>2 DEF IsRecord
    <3> QED BY <3>1
  <2>4. live0 = live \cup {s} /\ s \notin live /\ s \in 0 .. N - 1 /\ live \subseteq 0 .. N - 1 BY <1>5, <2>1
  <2>5. IsFiniteSet(live) /\ Cardinality(live) = Cardinality(live0) - 1 /\ Cardinality(live0) \in Nat
    BY <1>8, <2>1, FS_RemoveElement, FS_CardinalityType
  <2>6. S \subseteq Cells BY <1>1, <1>3, StackIn
  <2>7. Tally(fuse.table, fuse.hash, own, live0, S) /\ Taken(fuse.table, fuse.hash, own, live0, S)
    <3> HIDE DEF own
    <3> QED BY <1>4, <2>6 DEF Left, Taken
  <2> HIDE DEF live
  <2>8. /\ Tally(new, fuse.hash, own, live, S \cup {c}) /\ Taken(new, fuse.hash, own, live, S \cup {c})
        /\ Lowers(fuse.table, new, CellsOf(fuse.hash, k), Cells \ (S \cup {c}))
    <3> DEFINE tab == fuse.table
               z == c
    <3>1. PeeledTable(tab, own[s], z) = new BY <2>1
    <3>2. Tally(tab, fuse.hash, own, live \cup {s}, S) /\ Taken(tab, fuse.hash, own, live \cup {s}, S) BY <2>4, <2>7
    <3>3. UsersOf(fuse.hash, own, live \cup {s}, z) = {s} /\ tab[z].count = 1 /\ z \in Cells \ S BY <1>9, <1>11, <2>1, <2>4
    <3>4. own[s] \in K BY <2>1, <2>2
    <3>5. IsFiniteSet(live) /\ s \notin live BY <2>4, <2>5
    <3>7. Hashed(fuse.hash, K) BY <1>1
    <3> HIDE DEF own, S, new, z, tab, K
    <3>8. /\ Tally(PeeledTable(tab, own[s], z), fuse.hash, own, live, S \cup {z})
          /\ Taken(PeeledTable(tab, own[s], z), fuse.hash, own, live, S \cup {z})
          /\ Lowers(tab, PeeledTable(tab, own[s], z), CellsOf(fuse.hash, own[s]), Cells \ (S \cup {z}))
      BY ONLY <3>2, <3>3, <3>4, <3>5, <3>7, PeelTable
    <3> QED BY <2>1, <3>1, <3>8 DEF z, tab
  <2>9. InQueue(al, new, S \cup {c})
    <3> DEFINE tab == fuse.table
               z == c
               U == CellsOf(fuse.hash, k)
    <3>1. InQueue(q, tab, S) /\ (\A n \in 1 .. Len(q) : q[n] # z) /\ Lowers(tab, new, U, Cells \ (S \cup {z})) BY <1>9, <2>8
    <3>2. Uses(fuse.hash, k, o1) /\ Uses(fuse.hash, k, o2)
      <4>1. ((found + 1) % 3) + 1 \in 1 .. 3 /\ ((found + 2) % 3) + 1 \in 1 .. 3 BY <2>1, Others
      <4> QED BY <4>1 DEF Uses
    <3>3. o1 \in U /\ o2 \in U BY <2>1, <3>2 DEF CellsOf
    <3>4. o1 \notin S /\ o2 \notin S
      <4>1. \A a \in S : ~Uses(fuse.hash, own[s], a) BY <2>1, <2>7 DEF Taken
      <4> HIDE DEF S, o1, o2, k, own
      <4> QED BY <2>1, <3>2, <4>1
    <3>5. o1 \in Cells \ (S \cup {z}) /\ o2 \in Cells \ (S \cup {z}) /\ o1 # o2 BY <2>1, <3>4
    <3> HIDE DEF q, S, new, z, tab, o1, o2, U
    <3>6. InQueue(q \o ReadyCell(tab, o1) \o ReadyCell(tab, o2), new, S \cup {z})
      BY ONLY <3>1, <3>3, <3>5, PeelQueue
    <3> QED BY <3>6 DEF tab, z
  <2>10. e \in [key : K, found : 0 .. 2] /\ e.key = k /\ CellOf(fuse.hash, e) = c
    <3>1. e.key = k /\ e.found = found OBVIOUS
    <3> HIDE DEF k, found, c
    <3> QED BY <2>1, <2>2, <3>1 DEF CellOf
  <2>11. /\ st \in Stacks(K) /\ Len(st) = Len(fuse.stack) + 1 /\ Len(fuse.stack) \in Nat
         /\ StackCells(fuse.hash, st) = S \cup {c} /\ InTurn(fuse.hash, st)
         /\ \A x : OnStack(st, x) <=> OnStack(fuse.stack, x) \/ x = k
    <3> DEFINE stk == fuse.stack
    <3>1. stk \in Stacks(K) /\ InTurn(fuse.hash, stk) BY <1>3
    <3>2. \A a \in StackCells(fuse.hash, stk) : ~Uses(fuse.hash, e.key, a)
      <4>1. \A a \in S : ~Uses(fuse.hash, own[s], a) BY <2>7 DEF Taken
      <4> HIDE DEF k, own, e
      <4> QED BY <2>1, <2>10, <4>1
    <3> HIDE DEF stk, k, c, e, K
    <3>3. InTurn(fuse.hash, Append(stk, e)) BY <2>10, <3>1, <3>2, TurnMore
    <3>5. e \in [key : K, found : 0 .. 2] BY <2>10
    <3>4. Append(stk, e) \in Stacks(K) /\ Pushed(fuse.hash, stk, e, Append(stk, e)) BY <3>1, <3>5, StackMore
    <3>6. st = Append(stk, e) BY DEF stk
    <3> HIDE DEF st
    <3> QED BY <2>10, <3>3, <3>4, <3>6 DEF stk, Pushed, S
  <2> HIDE DEF al, st, new, own, k, c, S, q, found, o1, o2, e
  <2>12. /\ IsRecord(fuse') /\ fuse'.phase = "peel" /\ fuse'.hash = fuse.hash /\ fuse'.keys = fuse.keys
         /\ fuse'.start = fuse.start /\ fuse'.order = fuse.order /\ fuse'.table = new
         /\ fuse'.duplicates = fuse.duplicates /\ fuse'.alone = al /\ fuse'.stack = st /\ fuse'.prints = fuse.prints
    BY <1>1, <2>3 DEF IsRecord
  <2>13. own = OwnOf(fuse'.keys, fuse'.order) BY <2>12 DEF own
  <2>14. \A x \in K : OnStack(st, x) \/ \E t \in live : own[t] = x
    <3> TAKE x \in K
    <3>1. OnStack(fuse.stack, x) \/ \E t \in live0 : own[t] = x BY <1>4 DEF Left
    <3> QED BY <2>1, <2>4, <2>11, <3>1
  <2>15. fuse.duplicates \in Nat /\ Cardinality(live) + Len(st) + fuse.duplicates = N
    <3>1. fuse.duplicates \in Nat /\ Cardinality(live0) + Len(fuse.stack) + fuse.duplicates = N BY <1>4 DEF Left
    <3> QED BY <2>5, <2>11, <3>1
  <2>16. \A a \in S \cup {c} : new[a].count = 1 /\ \A t \in live : ~Uses(fuse.hash, own[t], a) BY <2>8 DEF Taken
  <2>17. Left(fuse', own, live) BY <2>4, <2>8, <2>11, <2>12, <2>14, <2>15, <2>16 DEF Left
  <2>18. InPeel(fuse') BY <1>3, <2>9, <2>11, <2>12, <2>13, <2>17 DEF InPeel
  <2> QED BY <1>1, <2>12, <2>18 DEF FuseInv
<1> QED BY <1>10, <1>11

LEMMA PeelEndsStep ==
  ASSUME FuseInv(fuse), PeelEnds
  PROVE  FuseInv(fuse')
<1> DEFINE N == Len(fuse.keys)
           K == Range(fuse.keys)
           own == OwnOf(fuse.keys, fuse.order)
<1>1. IsRecord(fuse) /\ fuse.keys \in KeyLists /\ DOMAIN fuse.prints = Cells /\ fuse.phase = "peel" /\ InPeel(fuse)
      /\ Hashed(fuse.hash, K)
  BY DEF FuseInv, PeelEnds
<1>2. IsList(fuse.keys) /\ N \in Nat \ {0} BY <1>1, KeysAre, ListIs
<1>3. fuse.stack \in Stacks(K) /\ InTurn(fuse.hash, fuse.stack) BY <1>1 DEF InPeel
<1>4. CASE Len(fuse.stack) + fuse.duplicates = N
  <2>1. fuse' = [fuse EXCEPT !.phase = "assign", !.i = Len(fuse.stack)] BY <1>4 DEF PeelEnds, Size
  <2>2. PICK live : Left(fuse, own, live) BY <1>1 DEF InPeel
  <2>3. IsFiniteSet(live)
    <3> HIDE DEF N
    <3>0. 0 \in Int /\ N - 1 \in Int BY <1>2
    <3>1. IsFiniteSet(0 .. N - 1) BY ONLY <3>0, FS_Interval
    <3>2. live \subseteq 0 .. N - 1 BY <2>2 DEF Left, N
    <3> QED BY <3>1, <3>2, FS_Subset
  <2>4. Cardinality(live) \in Nat BY <2>3, FS_CardinalityType
  <2>5. Len(fuse.stack) \in Nat BY <1>3 DEF Stacks
  <2>6. Cardinality(live) = 0 BY <1>2, <1>4, <2>2, <2>4, <2>5 DEF Left
  <2>7. live = {} BY <2>3, <2>6, FS_EmptySet
  <2>8. \A k \in K : OnStack(fuse.stack, k) BY <2>2, <2>7 DEF Left
  <2>9. fuse.keys[1] \in K BY <1>2 DEF IsList, Range
  <2>10. Len(fuse.stack) >= 1
    <3>1. PICK n \in 1 .. Len(fuse.stack) : fuse.stack[n].key = fuse.keys[1] BY <2>8, <2>9 DEF OnStack
    <3> QED BY <2>5, <3>1
  <2>11. /\ IsRecord(fuse') /\ fuse'.phase = "assign" /\ fuse'.hash = fuse.hash /\ fuse'.keys = fuse.keys
         /\ fuse'.stack = fuse.stack /\ fuse'.prints = fuse.prints /\ fuse'.i = Len(fuse.stack)
    BY <1>1, <2>1 DEF IsRecord
  <2>12. fuse'.i \in 1 .. Len(fuse'.stack) /\ fuse'.i + 1 .. Len(fuse'.stack) = {} BY <2>5, <2>10, <2>11
  <2>13. InAssign(fuse') BY <1>3, <2>8, <2>11, <2>12 DEF InAssign
  <2> QED BY <1>1, <2>11, <2>13 DEF FuseInv
<1>5. CASE Len(fuse.stack) + fuse.duplicates # N /\ fuse.iter = MaxIter
  <2>1. fuse' = [fuse EXCEPT !.phase = "failed"] BY <1>5 DEF PeelEnds, Size
  <2>2. /\ IsRecord(fuse') /\ fuse'.phase = "failed" /\ fuse'.hash = fuse.hash /\ fuse'.keys = fuse.keys
        /\ fuse'.prints = fuse.prints
    BY <1>1, <2>1 DEF IsRecord
  <2> QED BY <1>1, <2>2 DEF FuseInv
<1>6. CASE Len(fuse.stack) + fuse.duplicates # N /\ fuse.iter # MaxIter
  <2>1. fuse' = Blank(fuse.keys, fuse.iter + 1) BY <1>6 DEF PeelEnds, Size
  <2> QED BY <1>1, <2>1, BlankInv
<1> QED BY <1>4, <1>5, <1>6

(* The fingerprint of a hash is what the cells of the hash XOR to, when    *)
(* the cell it took was written last.                                      *)
LEMMA XorBack ==
  ASSUME NEW f, NEW a, NEW b
  PROVE  /\ f = Xor(Xor(f, Xor(a, b)), Xor(a, b))
         /\ f = Xor(a, Xor(Xor(f, Xor(b, a)), b)) /\ f = Xor(a, Xor(b, Xor(f, Xor(a, b))))
BY DEF Xor

LEMMA AssignStep ==
  ASSUME FuseInv(fuse), Assign
  PROVE  FuseInv(fuse')
<1> DEFINE K == Range(fuse.keys)
           H == fuse.hash
           L == Len(fuse.stack)
           n == fuse.i
           e == fuse.stack[n]
           a0 == H[e.key].cells[((e.found + 0) % 3) + 1]
           a1 == H[e.key].cells[((e.found + 1) % 3) + 1]
           a2 == H[e.key].cells[((e.found + 2) % 3) + 1]
           p == fuse.prints
           p2 == [p EXCEPT ![a0] = Xor({<< "key", e.key >>}, Xor(p[a1], p[a2]))]
           ph == IF n = 1 THEN "built" ELSE "assign"
<1>1. IsRecord(fuse) /\ fuse.keys \in KeyLists /\ DOMAIN p = Cells /\ fuse.phase = "assign" /\ InAssign(fuse)
      /\ Hashed(H, K)
  BY DEF FuseInv, Assign
<1>2. fuse.stack \in Stacks(K) /\ InTurn(H, fuse.stack) /\ n \in 1 .. L BY <1>1 DEF InAssign
<1>3. L \in Nat BY <1>2 DEF Stacks
<1>4. e.key \in K /\ e.found \in 0 .. 2
  <2> DEFINE R == [key : K, found : 0 .. 2]
             z == fuse.stack
  <2>1. z \in Seq(R) /\ n \in 1 .. Len(z) BY <1>2 DEF Stacks
  <2> HIDE DEF R, z, n
  <2>2. z[n] \in R BY <2>1
  <2> QED BY <2>2 DEF R, z
<1>5. fuse' = [fuse EXCEPT !.prints = p2, !.i = n - 1, !.phase = ph] BY <1>1 DEF Assign, IsRecord
<1>6. H[e.key].cells[1] \in Cells /\ H[e.key].cells[2] \in Cells /\ H[e.key].cells[3] \in Cells
      /\ H[e.key].cells[1] # H[e.key].cells[2] /\ H[e.key].cells[1] # H[e.key].cells[3] /\ H[e.key].cells[2] # H[e.key].cells[3]
  BY <1>1, <1>4, HashedIs
<1>7. Contained(H, p2, e.key)
  <2> DEFINE x == e.key
             f == {<< "key", x >>}
             c1 == H[x].cells[1]
             c2 == H[x].cells[2]
             c3 == H[x].cells[3]
  <2>0. ((0 + 0) % 3) + 1 = 1 /\ ((0 + 1) % 3) + 1 = 2 /\ ((0 + 2) % 3) + 1 = 3
        /\ ((1 + 0) % 3) + 1 = 2 /\ ((1 + 1) % 3) + 1 = 3 /\ ((1 + 2) % 3) + 1 = 1
        /\ ((2 + 0) % 3) + 1 = 3 /\ ((2 + 1) % 3) + 1 = 1 /\ ((2 + 2) % 3) + 1 = 2
    OBVIOUS
  <2>1. c1 \in Cells /\ c2 \in Cells /\ c3 \in Cells /\ c1 # c2 /\ c1 # c3 /\ c2 # c3 BY <1>6
  <2>2. e.found = 0 \/ e.found = 1 \/ e.found = 2 BY <1>4
  <2>3. CASE e.found = 0
    <3>1. a0 = c1 /\ a1 = c2 /\ a2 = c3 BY <2>0, <2>3
    <3>2. p2[a0] = Xor(f, Xor(p[a1], p[a2])) /\ \A c \in Cells : c # a0 => p2[c] = p[c] BY <1>1, <2>1, <3>1
    <3> HIDE DEF a0, a1, a2, p, p2, c1, c2, c3, f
    <3>3. p2[c1] = Xor(f, Xor(p[c2], p[c3])) /\ p2[c2] = p[c2] /\ p2[c3] = p[c3] BY <2>1, <3>1, <3>2
    <3>4. f = Xor(p2[c1], Xor(p2[c2], p2[c3])) BY <3>3, XorBack
    <3> QED BY <3>4 DEF Contained, f, c1, c2, c3
  <2>4. CASE e.found = 1
    <3>1. a0 = c2 /\ a1 = c3 /\ a2 = c1 BY <2>0, <2>4
    <3>2. p2[a0] = Xor(f, Xor(p[a1], p[a2])) /\ \A c \in Cells : c # a0 => p2[c] = p[c] BY <1>1, <2>1, <3>1
    <3> HIDE DEF a0, a1, a2, p, p2, c1, c2, c3, f
    <3>3. p2[c2] = Xor(f, Xor(p[c3], p[c1])) /\ p2[c1] = p[c1] /\ p2[c3] = p[c3] BY <2>1, <3>1, <3>2
    <3>4. f = Xor(p2[c1], Xor(p2[c2], p2[c3])) BY <3>3, XorBack
    <3> QED BY <3>4 DEF Contained, f, c1, c2, c3
  <2>5. CASE e.found = 2
    <3>1. a0 = c3 /\ a1 = c1 /\ a2 = c2 BY <2>0, <2>5
    <3>2. p2[a0] = Xor(f, Xor(p[a1], p[a2])) /\ \A c \in Cells : c # a0 => p2[c] = p[c] BY <1>1, <2>1, <3>1
    <3> HIDE DEF a0, a1, a2, p, p2, c1, c2, c3, f
    <3>3. p2[c3] = Xor(f, Xor(p[c1], p[c2])) /\ p2[c1] = p[c1] /\ p2[c2] = p[c2] BY <2>1, <3>1, <3>2
    <3>4. f = Xor(p2[c1], Xor(p2[c2], p2[c3])) BY <3>3, XorBack
    <3> QED BY <3>4 DEF Contained, f, c1, c2, c3
  <2> QED BY <2>2, <2>3, <2>4, <2>5
<1>8. ASSUME NEW m \in n + 1 .. L
      PROVE  Contained(H, p2, fuse.stack[m].key)
  <2> DEFINE x == fuse.stack[m].key
  <2>1. m \in 1 .. L /\ n < m BY <1>2, <1>3
  <2>2. ~Uses(H, x, a0) BY <1>2, <2>1 DEF InTurn, CellOf
  <2>3. x \in K
    <3> DEFINE R == [key : K, found : 0 .. 2]
               z == fuse.stack
    <3>1. z \in Seq(R) /\ m \in 1 .. Len(z) BY <1>2, <2>1 DEF Stacks
    <3> HIDE DEF R, z
    <3>2. z[m] \in R BY <3>1
    <3> QED BY <3>2 DEF R, z
  <2>4. H[x].cells[1] \in Cells /\ H[x].cells[2] \in Cells /\ H[x].cells[3] \in Cells
    <3> HIDE DEF x, K
    <3> QED BY <1>1, <2>3, HashedIs
  <2>5. H[x].cells[1] # a0 /\ H[x].cells[2] # a0 /\ H[x].cells[3] # a0
    <3> HIDE DEF x, a0, H
    <3> QED BY <2>2 DEF Uses
  <2>6. \A c \in Cells : c # a0 => p2[c] = p[c] BY <1>1
  <2>7. Contained(H, p, x) BY <1>1 DEF InAssign
  <2> HIDE DEF x, a0, p, p2, H
  <2>8. Contained(H, p2, x) BY <2>4, <2>5, <2>6, <2>7 DEF Contained
  <2> QED BY <2>8 DEF x
<1>9. DOMAIN p2 = Cells BY <1>1
<1> HIDE DEF p2, ph
<1>10. /\ IsRecord(fuse') /\ fuse'.phase = ph /\ fuse'.hash = fuse.hash /\ fuse'.keys = fuse.keys
       /\ fuse'.stack = fuse.stack /\ fuse'.prints = p2 /\ fuse'.i = n - 1
  BY <1>1, <1>5 DEF IsRecord
<1>11. \A m \in (n - 1) + 1 .. L : Contained(H, p2, fuse.stack[m].key)
  <2> TAKE m \in (n - 1) + 1 .. L
  <2>1. m = n \/ m \in n + 1 .. L BY <1>2, <1>3
  <2> QED BY <1>7, <1>8, <2>1
<1>12. \A k \in K : OnStack(fuse.stack, k) BY <1>1 DEF InAssign
<1>13. CASE n = 1
  <2>1. \A m \in 1 .. L : Contained(H, p2, fuse.stack[m].key) BY <1>11, <1>13
  <2>2. \A k \in K : Contained(H, p2, k) BY <1>12, <2>1 DEF OnStack
  <2>3. Built(fuse') BY <1>10, <2>2 DEF Built
  <2>4. fuse'.phase = "built" BY <1>10, <1>13 DEF ph
  <2> QED BY <1>1, <1>9, <1>10, <2>3, <2>4 DEF FuseInv
<1>14. CASE n # 1
  <2>1. n - 1 \in 1 .. L BY <1>2, <1>3, <1>14
  <2>2. InAssign(fuse') BY <1>2, <1>10, <1>11, <1>12, <2>1 DEF InAssign
  <2>4. fuse'.phase = "assign" BY <1>10, <1>14 DEF ph
  <2> QED BY <1>1, <1>9, <1>10, <2>2, <2>4 DEF FuseInv
<1> QED BY <1>13, <1>14

(* A queue without repetition is no longer than the set its cells are in.  *)
LEMMA QueueLength ==
  ASSUME NEW alone, NEW table, NEW taken, InQueue(alone, table, taken)
  PROVE  Len(alone) <= Cardinality({c \in Cells : table[c].count <= 1})
<1> DEFINE T == {c \in Cells : table[c].count <= 1}
           L == Len(alone)
           f == [n \in 1 .. L |-> alone[n]]
<1>1. alone \in Seq(Cells) /\ L \in Nat BY DEF InQueue
<1>2. \A n \in 1 .. L : alone[n] \in T
  <2>1. \A n \in 1 .. L : alone[n] \in Cells BY <1>1
  <2> QED BY <2>1 DEF InQueue
<1>3. IsFiniteSet(T)
  <2> DEFINE m == CellCount - 1
  <2>1. m \in Int BY CellTotal
  <2> HIDE DEF m
  <2>2. IsFiniteSet(0 .. m) BY <2>1, FS_Interval
  <2>3. T \subseteq 0 .. m BY DEF Cells, m
  <2> HIDE DEF T
  <2> QED BY <2>2, <2>3, FS_Subset
<1>4. f \in [1 .. L -> T] BY <1>2
<1>5. \A a, b \in 1 .. L : f[a] = f[b] => a = b BY DEF InQueue
<1> HIDE DEF f, T, L
<1>6. f \in Injection(1 .. L, T) BY <1>4, <1>5 DEF Injection, IsInjective
<1>7. Cardinality(1 .. L) <= Cardinality(T) BY <1>3, <1>6, FS_Injection
<1>8. Cardinality(1 .. L) = L
  <2>1. Cardinality(1 .. L) = IF 1 > L THEN 0 ELSE L - 1 + 1 BY <1>1, FS_Interval DEF L
  <2> QED BY <1>1, <2>1 DEF L
<1> QED BY <1>7, <1>8 DEF T, L

LEMMA FuseInvHolds ==
  ASSUME FuseInv(fuse)
  PROVE  FilterHolds
<1>1. fuse.keys \in KeyLists BY DEF FuseInv
<1>2. IsList(fuse.keys) /\ Len(fuse.keys) \in Nat \ {0} BY <1>1, KeysAre, ListIs
<1>3. NoFalseNegatives
  <2> SUFFICES ASSUME fuse.phase = "built", NEW k \in Range(fuse.keys) PROVE contains(k) BY DEF NoFalseNegatives
  <2>1. Contained(fuse.hash, fuse.prints, k) BY DEF FuseInv, Built
  <2> QED BY <2>1 DEF Contained, contains
<1>4. ASSUME fuse.phase = "place" PROVE FreeBlock(fuse.hash[fuse.keys[fuse.i]].block) # -1
  <2> DEFINE n == fuse.i
             k == fuse.keys[n]
             b == FreeBlock(fuse.hash[k].block)
  <2>1. n \in 1 .. Len(fuse.keys) /\ PlacedUpTo(fuse.keys, fuse.start, fuse.order, n - 1) /\ Hashed(fuse.hash, Range(fuse.keys))
    BY <1>4 DEF FuseInv
  <2>2. k \in Range(fuse.keys) BY <1>2, <2>1, ListIs
  <2>3. fuse.hash[k].block \in 0 .. Blocks - 1 BY <2>1, <2>2, HashedIs
  <2>4. b \in 0 .. Blocks - 1
    <3>1. n - 1 < Len(fuse.keys) BY <1>2, <2>1
    <3> QED BY <1>2, <2>1, <2>3, <3>1, FreeBlockIs
  <2> HIDE DEF b
  <2>5. b # -1 BY <2>4
  <2> QED BY <2>5 DEF b
<1>5. ASSUME fuse.phase = "count", NEW k \in Range(fuse.keys)
      PROVE  Cardinality({s \in 0 .. Size - 1 : fuse.order[s] = {k}}) = Cardinality({i \in 1 .. Size : fuse.keys[i] = k})
  <2>1. Sorted(fuse.keys, fuse.order) BY <1>5 DEF FuseInv, InCount
  <2> QED BY <1>5, <2>1 DEF Sorted, SlotsOf, Listed, Size
<1>6. EveryHashPlaced BY <1>4, <1>5 DEF EveryHashPlaced
<1>7. QueueFits
  <2> SUFFICES ASSUME fuse.phase = "peel" PROVE Len(fuse.alone) <= Cardinality({c \in Cells : fuse.table[c].count <= 1})
    BY DEF QueueFits
  <2>1. InQueue(fuse.alone, fuse.table, StackCells(fuse.hash, fuse.stack)) BY DEF FuseInv, InPeel
  <2> QED BY <2>1, QueueLength
<1> QED BY <1>3, <1>6, <1>7 DEF FilterHolds

LEMMA FuseNextStep ==
  ASSUME FuseInv(fuse), [FuseNext]_fuse
  PROVE  FuseInv(fuse')
<1>1. CASE Seed BY <1>1, SeedStep
<1>2. CASE PlaceKey BY <1>2, PlaceStep
<1>3. CASE CountKey BY <1>3, CountStep
<1>4. CASE Enqueue BY <1>4, EnqueueStep
<1>5. CASE Peel BY <1>5, PeelStep
<1>6. CASE PeelEnds BY <1>6, PeelEndsStep
<1>7. CASE Assign BY <1>7, AssignStep
<1>8. CASE UNCHANGED fuse
  <2>1. fuse' = fuse BY <1>8
  <2> QED BY <2>1
<1> QED BY <1>1, <1>2, <1>3, <1>4, <1>5, <1>6, <1>7, <1>8 DEF FuseNext

FuseHolds == FuseInv(fuse)

(* A binary fuse filter that was built contains every key it was built     *)
(* from; the sort by blocks places every hash, and finds a free block for  *)
(* each; and no cell is queued twice while hashes are peeled off, for any  *)
(* keys, with repetitions, any number of segments, blocks and attempts.    *)
THEOREM FilterHoldsAlways == FuseSpec => []FilterHolds
<1>1. FuseInit => FuseHolds
  <2> SUFFICES ASSUME FuseInit PROVE FuseInv(fuse) BY DEF FuseHolds
  <2>1. PICK list \in KeyLists : fuse = Blank(list, 1) BY DEF FuseInit, NewFuses
  <2> QED BY <2>1, BlankInv
<1>2. FuseHolds /\ [FuseNext]_fuse => FuseHolds' BY FuseNextStep DEF FuseHolds
<1>3. FuseHolds => FilterHolds BY FuseInvHolds DEF FuseHolds
<1> QED BY <1>1, <1>2, <1>3, PTL DEF FuseSpec

-----------------------------------------------------------------------------
(* ClaimTokens: numbers and lists written to bytes and read back          *)

(* Two digits of a base give a number back.                                *)
LEMMA DigitPair ==
  ASSUME NEW B \in Nat \ {0}, NEW n \in 0 .. B * B - 1
  PROVE  /\ n % B \in 0 .. B - 1 /\ n \div B \in 0 .. B - 1 /\ (n % B) + B * (n \div B) = n
         /\ (n \div B) % B = n \div B
<1> DEFINE q == n \div B
           r == n % B
           sq == B * B
<1>1. sq \in Nat BY Z3
<1>2. n \in Nat /\ n < sq BY <1>1
<1>3. q \in Int /\ r \in 0 .. B - 1 /\ n = B * q + r BY <1>2, Z3
<1> HIDE DEF q, r
<1>4. q >= 0
  <2>1. SUFFICES ASSUME q <= -1 PROVE FALSE BY <1>3
  <2>2. B * q <= -B BY <1>3, <2>1, Z3
  <2> QED BY <1>2, <1>3, <2>2
<1>5. q < B
  <2>1. SUFFICES ASSUME q >= B PROVE FALSE BY <1>3
  <2>2. B * q >= B * B BY <1>3, <2>1, Z3
  <2> QED BY <1>2, <1>3, <2>2
<1>6. q \in 0 .. B - 1 /\ q % B = q BY <1>3, <1>4, <1>5
<1>7. r + B * q = n
  <2>1. B * q \in Int BY <1>3, Z3
  <2> DEFINE m == B * q
  <2>2. m \in Int /\ n = m + r /\ r \in Int BY <1>3, <2>1
  <2> HIDE DEF m
  <2>3. r + m = n BY ONLY <2>2
  <2> QED BY <2>3 DEF m
<1> QED BY <1>3, <1>6, <1>7 DEF q, r

u32 == u16 * u16
LEMMA Widths16 == u16 \in Nat \ {0} /\ u32 \in Nat \ {0}
<1>1. u16 \in Nat \ {0} BY TokenAssumption, Z3 DEF u16
<1> HIDE DEF u16
<1> QED BY <1>1, Z3 DEF u32

LEMMA Bytes2Is ==
  ASSUME NEW n \in 0 .. u16 - 1
  PROVE  Bytes2(n) \in Seq(Nat) /\ Len(Bytes2(n)) = 2 /\ Bytes2(n)[1] + Byte * Bytes2(n)[2] = n
<1>1. /\ n % Byte \in 0 .. Byte - 1 /\ n \div Byte \in 0 .. Byte - 1 /\ (n % Byte) + Byte * (n \div Byte) = n
      /\ (n \div Byte) % Byte = n \div Byte
  BY TokenAssumption, DigitPair DEF u16
<1> DEFINE x == n % Byte
           y == (n \div Byte) % Byte
<1>2. x \in Nat /\ y \in Nat /\ x + Byte * y = n BY <1>1, TokenAssumption
<1>3. Bytes2(n) = <<x, y>> BY DEF Bytes2
<1> HIDE DEF x, y
<1> QED BY <1>2, <1>3

(* w is written in b after the first at bytes.                             *)
Holds(b, at, w) == \A i \in 1 .. Len(w) : b[at + i] = w[i]

LEMMA Cat ==
  ASSUME NEW s \in Seq(Nat), NEW t \in Seq(Nat)
  PROVE  s \o t \in Seq(Nat) /\ Len(s \o t) = Len(s) + Len(t) /\ Holds(s \o t, 0, s) /\ Holds(s \o t, Len(s), t)
<1>1. Len(s) \in Nat /\ Len(t) \in Nat OBVIOUS
<1>2. \A i \in 1 .. Len(s) : (s \o t)[0 + i] = s[i] OBVIOUS
<1>3. \A i \in 1 .. Len(t) : (s \o t)[Len(s) + i] = t[i] OBVIOUS
<1> QED BY <1>1, <1>2, <1>3 DEF Holds

LEMMA HoldsLeft ==
  ASSUME NEW s \in Seq(Nat), NEW t \in Seq(Nat), NEW w \in Seq(Nat), NEW k \in Nat, Holds(s, k, w), k + Len(w) <= Len(s)
  PROVE  Holds(s \o t, k, w)
<1> SUFFICES ASSUME NEW i \in 1 .. Len(w) PROVE (s \o t)[k + i] = w[i] BY DEF Holds
<1>1. s[k + i] = w[i] BY DEF Holds
<1>2. k + i \in 1 .. Len(s) OBVIOUS
<1>3. (s \o t)[k + i] = s[k + i] BY <1>2
<1> QED BY <1>1, <1>3

LEMMA HoldsRight ==
  ASSUME NEW s \in Seq(Nat), NEW t \in Seq(Nat), NEW w \in Seq(Nat), NEW k \in Nat, Holds(t, k, w), k + Len(w) <= Len(t)
  PROVE  Holds(s \o t, Len(s) + k, w)
<1> SUFFICES ASSUME NEW i \in 1 .. Len(w) PROVE (s \o t)[(Len(s) + k) + i] = w[i] BY DEF Holds
<1>1. t[k + i] = w[i] BY DEF Holds
<1>2. k + i \in 1 .. Len(t) /\ (Len(s) + k) + i = Len(s) + (k + i) OBVIOUS
<1>3. (s \o t)[Len(s) + (k + i)] = t[k + i] BY <1>2
<1> QED BY <1>1, <1>2, <1>3

LEMMA Num2Back ==
  ASSUME NEW b, NEW at \in Nat, NEW n \in 0 .. u16 - 1, Holds(b, at, Bytes2(n))
  PROVE  Num2(b, at) = n
<1> DEFINE w == Bytes2(n)
<1>1. Len(w) = 2 /\ w[1] + Byte * w[2] = n BY Bytes2Is
<1>2. b[at + 1] = w[1] /\ b[at + 2] = w[2] BY <1>1 DEF Holds
<1> HIDE DEF w
<1> QED BY <1>1, <1>2 DEF Num2

LEMMA Bytes4Is ==
  ASSUME NEW n \in 0 .. u32 - 1
  PROVE  /\ Bytes4(n) \in Seq(Nat) /\ Len(Bytes4(n)) = 4
         /\ n % u16 \in 0 .. u16 - 1 /\ n \div u16 \in 0 .. u16 - 1
         /\ Holds(Bytes4(n), 0, Bytes2(n % u16)) /\ Holds(Bytes4(n), 2, Bytes2(n \div u16))
<1>1. n % u16 \in 0 .. u16 - 1 /\ n \div u16 \in 0 .. u16 - 1 BY Widths16, DigitPair DEF u32
<1> DEFINE s == Bytes2(n % u16)
           t == Bytes2(n \div u16)
<1>2. s \in Seq(Nat) /\ Len(s) = 2 /\ t \in Seq(Nat) /\ Len(t) = 2 BY <1>1, Bytes2Is
<1>3. Bytes4(n) = s \o t BY DEF Bytes4
<1> HIDE DEF s, t
<1>4. Bytes4(n) \in Seq(Nat) /\ Len(Bytes4(n)) = 4 /\ Holds(Bytes4(n), 0, s) /\ Holds(Bytes4(n), 2, t)
  <2>1. s \o t \in Seq(Nat) /\ Len(s \o t) = Len(s) + Len(t) /\ Holds(s \o t, 0, s) /\ Holds(s \o t, Len(s), t)
    BY ONLY <1>2, Cat
  <2> QED BY <1>2, <1>3, <2>1
<1> QED BY <1>1, <1>4 DEF s, t

LEMMA HoldsIn ==
  ASSUME NEW b, NEW at \in Nat, NEW w, NEW k \in Nat, NEW x, Holds(b, at, w), Holds(w, k, x),
         Len(w) \in Nat, Len(x) \in Nat, k + Len(x) <= Len(w)
  PROVE  Holds(b, at + k, x)
<1> SUFFICES ASSUME NEW i \in 1 .. Len(x) PROVE b[(at + k) + i] = x[i] BY DEF Holds
<1>1. w[k + i] = x[i] BY DEF Holds
<1>2. k + i \in 1 .. Len(w) /\ (at + k) + i = at + (k + i) OBVIOUS
<1>3. b[at + (k + i)] = w[k + i] BY <1>2 DEF Holds
<1> QED BY <1>1, <1>2, <1>3

LEMMA Num4Back ==
  ASSUME NEW b, NEW at \in Nat, NEW n \in 0 .. u32 - 1, Holds(b, at, Bytes4(n))
  PROVE  Num4(b, at) = n
<1> DEFINE w == Bytes4(n)
           x == Bytes2(n % u16)
           y == Bytes2(n \div u16)
<1>1. /\ Len(w) = 4 /\ n % u16 \in 0 .. u16 - 1 /\ n \div u16 \in 0 .. u16 - 1 /\ Holds(w, 0, x) /\ Holds(w, 2, y)
  BY Bytes4Is
<1>2. Len(x) = 2 /\ Len(y) = 2 BY <1>1, Bytes2Is
<1>3. Holds(b, at, w) OBVIOUS
<1> HIDE DEF w, x, y
<1>4. Holds(b, at + 0, x) /\ Holds(b, at + 2, y)
  <2>1. 0 \in Nat /\ 2 \in Nat /\ Len(w) \in Nat /\ Len(x) \in Nat /\ Len(y) \in Nat /\ 0 + Len(x) <= Len(w) /\ 2 + Len(y) <= Len(w)
    BY <1>1, <1>2
  <2>2. Holds(b, at + 0, x) BY ONLY <1>1, <1>3, <2>1, at \in Nat, HoldsIn
  <2>3. Holds(b, at + 2, y) BY ONLY <1>1, <1>3, <2>1, at \in Nat, HoldsIn
  <2> QED BY <2>2, <2>3
<1>5. Holds(b, at, x) /\ at + 2 \in Nat BY <1>4
<1>6. Num2(b, at) = n % u16 /\ Num2(b, at + 2) = n \div u16 BY <1>1, <1>4, <1>5, Num2Back DEF x, y
<1>7. (n % u16) + u16 * (n \div u16) = n BY Widths16, DigitPair DEF u32
<1> QED BY <1>6, <1>7 DEF Num4

LEMMA WordsIs ==
  ASSUME NEW ns \in Seq(0 .. u16 - 1)
  PROVE  /\ Words(ns) \in Seq(Nat) /\ Len(Words(ns)) = 2 * Len(ns)
         /\ \A i \in 1 .. Len(ns) : Holds(Words(ns), 2 * (i - 1), Bytes2(ns[i]))
<1> DEFINE n == Len(ns)
           W == Words(ns)
<1>1. n \in Nat /\ 2 * n \in Nat /\ \A i \in 1 .. n : ns[i] \in 0 .. u16 - 1 BY Widths16
<1>2. ASSUME NEW i \in 1 .. 2 * n PROVE (i + 1) \div 2 \in 1 .. n /\ 2 - (i % 2) \in {1, 2} BY <1>1
<1>3. ASSUME NEW i \in 1 .. 2 * n PROVE Bytes2(ns[(i + 1) \div 2])[2 - (i % 2)] \in Nat
  <2> DEFINE j == (i + 1) \div 2
             w == Bytes2(ns[j])
             k == 2 - (i % 2)
  <2>1. j \in 1 .. n /\ k \in {1, 2} BY <1>2
  <2>2. w \in Seq(Nat) /\ Len(w) = 2 BY <1>1, <2>1, Bytes2Is
  <2> HIDE DEF w, k
  <2> QED BY <2>1, <2>2 DEF w, k
<1>4. W = [i \in 1 .. 2 * n |-> Bytes2(ns[(i + 1) \div 2])[2 - (i % 2)]] BY DEF Words
<1> HIDE DEF n, W
<1>5. W \in [1 .. 2 * n -> Nat] BY <1>3, <1>4
<1>6. W \in Seq(Nat) /\ Len(W) = 2 * n BY <1>1, <1>5
<1>7. ASSUME NEW i \in 1 .. n PROVE Holds(W, 2 * (i - 1), Bytes2(ns[i]))
  <2> DEFINE w == Bytes2(ns[i])
  <2>1. Len(w) = 2 BY <1>1, Bytes2Is
  <2>2. /\ 2 * (i - 1) + 1 \in 1 .. 2 * n /\ ((2 * (i - 1) + 1) + 1) \div 2 = i /\ 2 - ((2 * (i - 1) + 1) % 2) = 1
        /\ 2 * (i - 1) + 2 \in 1 .. 2 * n /\ ((2 * (i - 1) + 2) + 1) \div 2 = i /\ 2 - ((2 * (i - 1) + 2) % 2) = 2
    BY <1>1
  <2>3. W[2 * (i - 1) + 1] = w[1] /\ W[2 * (i - 1) + 2] = w[2] BY <1>4, <2>2
  <2> HIDE DEF w
  <2>4. Holds(W, 2 * (i - 1), w) BY <2>1, <2>3 DEF Holds
  <2> QED BY <2>4 DEF w
<1> QED BY <1>6, <1>7 DEF n, W

LEMMA WordsBack ==
  ASSUME NEW b, NEW at \in Nat, NEW ns \in Seq(0 .. u16 - 1), Holds(b, at, Words(ns))
  PROVE  ReadWords(b, at, Len(ns)) = ns
<1> DEFINE n == Len(ns)
           W == Words(ns)
<1>1. n \in Nat /\ \A i \in 1 .. n : ns[i] \in 0 .. u16 - 1 BY Widths16
<1>2. Len(W) = 2 * n /\ \A i \in 1 .. n : Holds(W, 2 * (i - 1), Bytes2(ns[i])) BY WordsIs
<1>3. Holds(b, at, W) OBVIOUS
<1> HIDE DEF W
<1>4. ASSUME NEW i \in 1 .. n PROVE Num2(b, at + 2 * (i - 1)) = ns[i]
  <2> DEFINE w == Bytes2(ns[i])
             k == 2 * (i - 1)
  <2>1. Len(w) = 2 BY <1>1, Bytes2Is
  <2>2. k \in Nat /\ k + 2 <= 2 * n /\ at + k \in Nat BY <1>1
  <2>3. Holds(W, k, w) BY <1>2
  <2> HIDE DEF k, w
  <2>4. Holds(b, at + k, w)
    <3>1. k \in Nat /\ Len(W) \in Nat /\ Len(w) \in Nat /\ k + Len(w) <= Len(W) BY <1>1, <1>2, <2>1, <2>2
    <3> QED BY ONLY <1>3, <2>3, <3>1, at \in Nat, HoldsIn
  <2>5. Num2(b, at + k) = ns[i] BY <1>1, <2>2, <2>4, Num2Back DEF w
  <2> QED BY <2>5 DEF k
<1>5. ns = [i \in 1 .. n |-> ns[i]] OBVIOUS
<1> QED BY <1>4, <1>5 DEF ReadWords
(* What a payload holds when it is signed                                  *)
Payloads ==
  [v : {1, 2}, exp : 0 .. u32 - 1, nbf : 0 .. u32 - 1, asset : Seq(Nat), filter : Seq(0 .. u16 - 1),
   window : 0 .. u16 - 1, kbps : 0 .. u16 - 1, conc : 0 .. u16 - 1, widths : Seq(0 .. u16 - 1)]
IsPayload(p) ==
  /\ p \in Payloads /\ Len(p.widths) < Byte
  /\ p.v = 1 => p.filter = <<>> /\ Len(p.asset) < Byte
  /\ p.v = 2 => p.asset = <<>> /\ Len(p.filter) < u16

(* The limits of p are written in b after the first at bytes.              *)
Limits(b, at, p) ==
  /\ Holds(b, at, Bytes2(p.window)) /\ Holds(b, at + 2, Bytes2(p.kbps)) /\ Holds(b, at + 4, Bytes2(p.conc))
  /\ b[at + 7] = Len(p.widths) /\ Holds(b, at + 7, Words(p.widths))

LEMMA LimitsLaid ==
  ASSUME NEW p, IsPayload(p)
  PROVE  LET l == LimitBytes(p) IN l \in Seq(Nat) /\ Len(l) = 7 + 2 * Len(p.widths) /\ Limits(l, 0, p)
<1> DEFINE w == Bytes2(p.window)
           k == Bytes2(p.kbps)
           c == Bytes2(p.conc)
           n == Len(p.widths)
           x == << n >>
           ws == Words(p.widths)
           l == LimitBytes(p)
<1>1. /\ p.window \in 0 .. u16 - 1 /\ p.kbps \in 0 .. u16 - 1 /\ p.conc \in 0 .. u16 - 1
      /\ p.widths \in Seq(0 .. u16 - 1) /\ n \in Nat /\ n < Byte
  BY DEF IsPayload, Payloads
<1>2. w \in Seq(Nat) /\ Len(w) = 2 /\ k \in Seq(Nat) /\ Len(k) = 2 /\ c \in Seq(Nat) /\ Len(c) = 2
  BY <1>1, Bytes2Is
<1>3. ws \in Seq(Nat) /\ Len(ws) = 2 * n BY <1>1, WordsIs
<1>4. n % Byte = n
  <2>1. n \in Nat /\ Byte \in Nat \ {0} /\ n < Byte BY <1>1, TokenAssumption
  <2> HIDE DEF n
  <2> QED BY ONLY <2>1
<1>5. l = (((w \o k) \o c) \o x) \o ws BY <1>4 DEF LimitBytes
<1>6. x \in Seq(Nat) /\ Len(x) = 1 /\ x[1] = n BY <1>1
<1> HIDE DEF w, k, c, x, ws, l
<1> DEFINE a == w \o k
           d == a \o c
           e == d \o x
<1>7. l = e \o ws BY <1>5
<1>8. a \in Seq(Nat) /\ Len(a) = 4 /\ Holds(a, 0, w) /\ Holds(a, 2, k)
  <2>1. w \o k \in Seq(Nat) /\ Len(w \o k) = Len(w) + Len(k) /\ Holds(w \o k, 0, w) /\ Holds(w \o k, Len(w), k)
    BY ONLY <1>2, Cat
  <2> QED BY <1>2, <2>1
<1> HIDE DEF a
<1>9. d \in Seq(Nat) /\ Len(d) = 6 /\ Holds(d, 0, w) /\ Holds(d, 2, k) /\ Holds(d, 4, c)
  <2>1. a \o c \in Seq(Nat) /\ Len(a \o c) = Len(a) + Len(c) /\ Holds(a \o c, Len(a), c)
    BY ONLY <1>2, <1>8, Cat
  <2>2. 0 \in Nat /\ 2 \in Nat /\ 0 + Len(w) <= Len(a) /\ 2 + Len(k) <= Len(a) BY <1>2, <1>8
  <2>3. Holds(a \o c, 0, w) /\ Holds(a \o c, 2, k) BY ONLY <1>2, <1>8, <2>2, HoldsLeft
  <2> QED BY <1>2, <1>8, <2>1, <2>3
<1> HIDE DEF d
<1>10. e \in Seq(Nat) /\ Len(e) = 7 /\ Holds(e, 0, w) /\ Holds(e, 2, k) /\ Holds(e, 4, c) /\ Holds(e, 6, x)
  <2>1. d \o x \in Seq(Nat) /\ Len(d \o x) = Len(d) + Len(x) /\ Holds(d \o x, Len(d), x)
    BY ONLY <1>6, <1>9, Cat
  <2>2. 0 \in Nat /\ 2 \in Nat /\ 4 \in Nat /\ 0 + Len(w) <= Len(d) /\ 2 + Len(k) <= Len(d) /\ 4 + Len(c) <= Len(d)
    BY <1>2, <1>9
  <2>3. Holds(d \o x, 0, w) /\ Holds(d \o x, 2, k) /\ Holds(d \o x, 4, c) BY ONLY <1>2, <1>6, <1>9, <2>2, HoldsLeft
  <2> QED BY <1>6, <1>9, <2>1, <2>3
<1> HIDE DEF e
<1>11. /\ l \in Seq(Nat) /\ Len(l) = 7 + 2 * n
       /\ Holds(l, 0, w) /\ Holds(l, 2, k) /\ Holds(l, 4, c) /\ Holds(l, 6, x) /\ Holds(l, 7, ws)
  <2>1. e \o ws \in Seq(Nat) /\ Len(e \o ws) = Len(e) + Len(ws) /\ Holds(e \o ws, Len(e), ws)
    BY ONLY <1>3, <1>10, Cat
  <2>2. /\ 0 \in Nat /\ 2 \in Nat /\ 4 \in Nat /\ 6 \in Nat
        /\ 0 + Len(w) <= Len(e) /\ 2 + Len(k) <= Len(e) /\ 4 + Len(c) <= Len(e) /\ 6 + Len(x) <= Len(e)
    BY <1>2, <1>6, <1>10
  <2>3. Holds(e \o ws, 0, w) /\ Holds(e \o ws, 2, k) /\ Holds(e \o ws, 4, c) /\ Holds(e \o ws, 6, x)
    BY ONLY <1>2, <1>3, <1>6, <1>10, <2>2, HoldsLeft
  <2> QED BY <1>3, <1>7, <1>10, <2>1, <2>3
<1>12. l[7] = n
  <2>1. l[6 + 1] = x[1] BY <1>6, <1>11 DEF Holds
  <2> QED BY <1>6, <2>1
<1>13. Limits(l, 0, p) BY <1>11, <1>12 DEF Limits, w, k, c, ws
<1> QED BY <1>11, <1>13 DEF l

LEMMA LimitsRight ==
  ASSUME NEW s \in Seq(Nat), NEW l \in Seq(Nat), NEW p, IsPayload(p), Limits(l, 0, p), Len(l) = 7 + 2 * Len(p.widths)
  PROVE  Limits(s \o l, Len(s), p)
<1> DEFINE w == Bytes2(p.window)
           k == Bytes2(p.kbps)
           c == Bytes2(p.conc)
           n == Len(p.widths)
           ws == Words(p.widths)
<1>1. /\ p.window \in 0 .. u16 - 1 /\ p.kbps \in 0 .. u16 - 1 /\ p.conc \in 0 .. u16 - 1
      /\ p.widths \in Seq(0 .. u16 - 1) /\ n \in Nat
  BY DEF IsPayload, Payloads
<1>2. w \in Seq(Nat) /\ Len(w) = 2 /\ k \in Seq(Nat) /\ Len(k) = 2 /\ c \in Seq(Nat) /\ Len(c) = 2
  BY <1>1, Bytes2Is
<1>3. ws \in Seq(Nat) /\ Len(ws) = 2 * n BY <1>1, WordsIs
<1>4. Holds(l, 0, w) /\ Holds(l, 2, k) /\ Holds(l, 4, c) /\ l[7] = n /\ Holds(l, 7, ws)
  BY DEF Limits
<1>5. Len(l) = 7 + 2 * n OBVIOUS
<1> HIDE DEF w, k, c, ws, n
<1>6. /\ 0 \in Nat /\ 2 \in Nat /\ 4 \in Nat /\ 7 \in Nat
      /\ 0 + Len(w) <= Len(l) /\ 2 + Len(k) <= Len(l) /\ 4 + Len(c) <= Len(l) /\ 7 + Len(ws) <= Len(l)
  <2>1. n \in Nat BY <1>1
  <2> QED BY ONLY <2>1, <1>2, <1>3, <1>5
<1>7. s \in Seq(Nat) /\ l \in Seq(Nat) OBVIOUS
<1>8. /\ Holds(s \o l, Len(s) + 0, w) /\ Holds(s \o l, Len(s) + 2, k) /\ Holds(s \o l, Len(s) + 4, c)
      /\ Holds(s \o l, Len(s) + 7, ws)
  BY ONLY <1>2, <1>3, <1>4, <1>6, <1>7, HoldsRight
<1>9. (s \o l)[Len(s) + 7] = l[7]
  <2>1. 7 \in 1 .. Len(l) BY <1>1, <1>5
  <2> QED BY <2>1
<1>10. Len(s) + 0 = Len(s) OBVIOUS
<1> QED BY <1>4, <1>8, <1>9, <1>10 DEF Limits, w, k, c, ws, n
Middle(p) == IF p.v = 1 THEN << Len(p.asset) % Byte >> \o p.asset ELSE FilterBytes(p.filter)

LEMMA AssetLaid ==
  ASSUME NEW p, IsPayload(p), p.v = 1
  PROVE  /\ Middle(p) \in Seq(Nat) /\ Len(Middle(p)) = 1 + Len(p.asset)
         /\ Middle(p)[1] = Len(p.asset) /\ Holds(Middle(p), 1, p.asset)
<1> DEFINE a == p.asset
           n == Len(a)
           x == << n >>
<1>1. a \in Seq(Nat) /\ n \in Nat /\ n < Byte BY DEF IsPayload, Payloads
<1>2. n % Byte = n
  <2>1. n \in Nat /\ Byte \in Nat \ {0} /\ n < Byte BY <1>1, TokenAssumption
  <2> HIDE DEF n
  <2> QED BY ONLY <2>1
<1>3. Middle(p) = x \o a BY <1>2 DEF Middle
<1>4. x \in Seq(Nat) /\ Len(x) = 1 /\ x[1] = n BY <1>1
<1>5. 1 \in 1 .. Len(x) BY <1>4
<1> HIDE DEF x, a
<1>6. x \o a \in Seq(Nat) /\ Len(x \o a) = Len(x) + Len(a) /\ Holds(x \o a, Len(x), a) BY ONLY <1>1, <1>4, Cat
<1>7. (x \o a)[1] = x[1] BY <1>1, <1>4, <1>5
<1> QED BY <1>1, <1>3, <1>4, <1>6, <1>7 DEF a

LEMMA FilterLaid ==
  ASSUME NEW p, IsPayload(p), p.v = 2
  PROVE  /\ Middle(p) \in Seq(Nat) /\ Len(Middle(p)) = (2 + DescriptorLen) + 2 * Len(p.filter)
         /\ Holds(Middle(p), 0, Bytes2(Len(p.filter))) /\ Holds(Middle(p), 2 + DescriptorLen, Words(p.filter))
<1> DEFINE f == p.filter
           n == Len(f)
           x == Bytes2(n)
           d == [i \in 1 .. DescriptorLen |-> 0]
           ws == Words(f)
           a == x \o d
<1>1. f \in Seq(0 .. u16 - 1) /\ n \in Nat /\ n < u16 /\ DescriptorLen \in Nat BY TokenAssumption DEF IsPayload, Payloads
<1>2. n % u16 = n
  <2>1. n \in Nat /\ u16 \in Nat \ {0} /\ n < u16 BY <1>1, Widths16
  <2> HIDE DEF n
  <2> QED BY ONLY <2>1
<1>3. Middle(p) = (x \o d) \o ws
  <2>1. Middle(p) = FilterBytes(f) BY DEF Middle
  <2>2. FilterBytes(f) = (Bytes2(n % u16) \o d) \o ws BY Zenon DEF FilterBytes
  <2> HIDE DEF d, ws, f, n
  <2>3. Bytes2(n % u16) = Bytes2(n) BY <1>2
  <2> QED BY <2>1, <2>2, <2>3
<1>4. x \in Seq(Nat) /\ Len(x) = 2
  <2>1. n \in 0 .. u16 - 1 BY <1>1, Widths16
  <2> QED BY <2>1, Bytes2Is
<1>5. d \in Seq(Nat) /\ Len(d) = DescriptorLen BY <1>1
<1>6. ws \in Seq(Nat) /\ Len(ws) = 2 * n BY <1>1, WordsIs
<1> HIDE DEF x, d, ws
<1>7. a \in Seq(Nat) /\ Len(a) = Len(x) + Len(d) /\ Holds(a, 0, x) BY <1>4, <1>5, Cat
<1> HIDE DEF a
<1>8. a \o ws \in Seq(Nat) /\ Len(a \o ws) = Len(a) + Len(ws) /\ Holds(a \o ws, Len(a), ws) BY ONLY <1>6, <1>7, Cat
<1>9. Holds(a \o ws, 0, x)
  <2>1. 0 \in Nat /\ 0 + Len(x) <= Len(a) BY <1>4, <1>5, <1>7
  <2> QED BY ONLY <1>4, <1>6, <1>7, <2>1, HoldsLeft
<1>10. Middle(p) = a \o ws BY <1>3 DEF a
<1>11. Len(a) = 2 + DescriptorLen BY <1>4, <1>5, <1>7
<1> QED BY <1>6, <1>8, <1>9, <1>10, <1>11 DEF x, ws

LEMMA MiddleIs ==
  ASSUME NEW p, IsPayload(p)
  PROVE  Middle(p) \in Seq(Nat) /\ Len(Middle(p)) \in Nat
<1>1. p.v \in {1, 2} BY DEF IsPayload, Payloads
<1>2. Middle(p) \in Seq(Nat) BY <1>1, AssetLaid, FilterLaid
<1> QED BY <1>2

(* The bytes of a payload                                                  *)
Laid(b, p) ==
  /\ b \in Seq(Nat) /\ Len(b) = 8 + Len(Middle(p)) + 7 + 2 * Len(p.widths)
  /\ Holds(b, 0, Bytes4(p.exp)) /\ Holds(b, 4, Bytes4(p.nbf)) /\ Holds(b, 8, Middle(p))
  /\ Limits(b, 8 + Len(Middle(p)), p)

LEMMA SerializedLaid ==
  ASSUME NEW p, IsPayload(p)
  PROVE  Laid(Serialized(p), p)
<1> DEFINE e == Bytes4(p.exp)
           n == Bytes4(p.nbf)
           m == Middle(p)
           l == LimitBytes(p)
           h == e \o n
           a == h \o m
           k == Len(p.widths)
<1>1. p.exp \in 0 .. u32 - 1 /\ p.nbf \in 0 .. u32 - 1 /\ k \in Nat BY DEF IsPayload, Payloads
<1>2. e \in Seq(Nat) /\ Len(e) = 4 /\ n \in Seq(Nat) /\ Len(n) = 4 BY <1>1, Bytes4Is
<1>3. m \in Seq(Nat) /\ Len(m) \in Nat BY MiddleIs
<1>4. l \in Seq(Nat) /\ Len(l) = 7 + 2 * k /\ Limits(l, 0, p) BY LimitsLaid
<1>5. Serialized(p) = ((e \o n) \o m) \o l BY DEF Serialized, Middle
<1> HIDE DEF e, n, m, l
<1>6. h \in Seq(Nat) /\ Len(h) = 8 /\ Holds(h, 0, e) /\ Holds(h, 4, n)
  <2>1. e \o n \in Seq(Nat) /\ Len(e \o n) = Len(e) + Len(n) /\ Holds(e \o n, 0, e) /\ Holds(e \o n, Len(e), n)
    BY ONLY <1>2, Cat
  <2> QED BY <1>2, <2>1
<1>7. Serialized(p) = (h \o m) \o l BY <1>5
<1> HIDE DEF h
<1>8. a \in Seq(Nat) /\ Len(a) = 8 + Len(m) /\ Holds(a, 0, e) /\ Holds(a, 4, n) /\ Holds(a, 8, m)
  <2>1. h \o m \in Seq(Nat) /\ Len(h \o m) = Len(h) + Len(m) /\ Holds(h \o m, Len(h), m) BY ONLY <1>3, <1>6, Cat
  <2>2. 0 \in Nat /\ 4 \in Nat /\ 0 + Len(e) <= Len(h) /\ 4 + Len(n) <= Len(h) BY <1>2, <1>6
  <2>3. Holds(h \o m, 0, e) /\ Holds(h \o m, 4, n) BY ONLY <1>2, <1>3, <1>6, <2>2, HoldsLeft
  <2> QED BY <1>6, <2>1, <2>3
<1>9. Serialized(p) = a \o l BY <1>7
<1> HIDE DEF a
<1>10. a \o l \in Seq(Nat) /\ Len(a \o l) = Len(a) + Len(l) BY ONLY <1>4, <1>8, Cat
<1>11. Holds(a \o l, 0, e) /\ Holds(a \o l, 4, n) /\ Holds(a \o l, 8, m)
  <2>1. 0 \in Nat /\ 4 \in Nat /\ 8 \in Nat /\ 0 + Len(e) <= Len(a) /\ 4 + Len(n) <= Len(a) /\ 8 + Len(m) <= Len(a)
    BY <1>2, <1>3, <1>8
  <2> QED BY ONLY <1>2, <1>3, <1>4, <1>8, <2>1, HoldsLeft
<1>12. Limits(a \o l, Len(a), p)
  <2>1. Len(l) = 7 + 2 * Len(p.widths) BY <1>4
  <2> QED BY <1>4, <1>8, <2>1, LimitsRight
<1>13. Len(a) = 8 + Len(m) /\ Len(a \o l) = 8 + Len(m) + 7 + 2 * k
  <2>1. k \in Nat BY <1>1
  <2> HIDE DEF k
  <2> QED BY ONLY <2>1, <1>3, <1>4, <1>8, <1>10
<1> QED BY <1>9, <1>10, <1>11, <1>12, <1>13 DEF Laid, e, n, m

(* What stands before the limits, as a reader finds it                     *)
End(b, v) == IF v = 1 THEN AssetEnd(b) ELSE FilterEnd(b)
Least(v) == IF v = 1 THEN 13 ELSE 10

LEMMA EndFound ==
  ASSUME NEW p, IsPayload(p), NEW b, Laid(b, p), NEW q, NEW m \in Nat, m >= Least(p.v), \A i \in 1 .. m : q[i] = b[i]
  PROVE  End(q, p.v) = 8 + Len(Middle(p))
<1>1. p.v \in {1, 2} BY DEF IsPayload, Payloads
<1>2. Holds(b, 8, Middle(p)) BY DEF Laid
<1>3. CASE p.v = 1
  <2>1. /\ Len(Middle(p)) = 1 + Len(p.asset) /\ Middle(p)[1] = Len(p.asset) BY <1>3, AssetLaid
  <2>2. Len(p.asset) \in Nat BY DEF IsPayload, Payloads
  <2>3. 1 \in 1 .. Len(Middle(p)) BY <2>1, <2>2
  <2>4. b[8 + 1] = Len(p.asset) BY <1>2, <2>1, <2>3 DEF Holds
  <2>5. q[9] = b[9] BY <1>3 DEF Least
  <2>6. q[9] = Len(p.asset) BY <2>4, <2>5
  <2> QED BY <1>3, <2>1, <2>2, <2>6 DEF End, AssetEnd
<1>4. CASE p.v = 2
  <2> DEFINE n == Len(p.filter)
             M == Middle(p)
  <2>1. Len(M) = (2 + DescriptorLen) + 2 * n /\ Holds(M, 0, Bytes2(n)) BY <1>4, FilterLaid
  <2>2. n \in 0 .. u16 - 1 /\ DescriptorLen \in Nat BY <1>4, Widths16, TokenAssumption DEF IsPayload, Payloads
  <2>3. Len(Bytes2(n)) = 2 BY <2>2, Bytes2Is
  <2>4. Holds(b, 8, M) /\ n \in Nat BY <1>2, <2>2
  <2> HIDE DEF n, M
  <2>5. Holds(b, 8 + 0, Bytes2(n))
    <3>1. 8 \in Nat /\ 0 \in Nat /\ Len(M) \in Nat /\ Len(Bytes2(n)) \in Nat /\ 0 + Len(Bytes2(n)) <= Len(M)
      BY <2>1, <2>2, <2>3, <2>4
    <3> QED BY ONLY <2>1, <2>4, <3>1, HoldsIn
  <2>6. Holds(b, 8, Bytes2(n)) BY <2>5
  <2>7. q[8 + 1] = b[8 + 1] /\ q[8 + 2] = b[8 + 2] BY <1>4 DEF Least
  <2>8. Holds(q, 8, Bytes2(n)) BY <2>3, <2>6, <2>7 DEF Holds
  <2>9. Num2(q, 8) = n BY <2>2, <2>8, Num2Back
  <2>10. FilterEnd(q) = 8 + Len(M) BY <2>1, <2>2, <2>4, <2>9 DEF FilterEnd
  <2> QED BY <1>4, <2>10 DEF End, M
<1> QED BY <1>1, <1>3, <1>4

(* A payload that lacks bytes at its end is not read.                      *)
LEMMA CutUnreadable ==
  ASSUME NEW p, IsPayload(p), NEW b, Laid(b, p), NEW q, Len(q) \in Nat, Len(q) < Len(b),
         \A i \in 1 .. Len(q) : q[i] = b[i]
  PROVE  Read(q, p.v) = Unreadable
<1> DEFINE m == Len(q)
           at == End(q, p.v)
           n == Len(p.widths)
           k == q[at + 7]
<1>1. CASE m < Least(p.v) BY <1>1 DEF Read, Least
<1>2. CASE ~(m < Least(p.v))
  <2>1. Len(Middle(p)) \in Nat BY MiddleIs
  <2>2. Least(p.v) \in Nat /\ m \in Nat BY DEF Least
  <2>5. n \in Nat BY DEF IsPayload, Payloads
  <2>3. at = 8 + Len(Middle(p))
    <3>1. m >= Least(p.v) BY <1>2, <2>2
    <3>2. \A i \in 1 .. m : q[i] = b[i] OBVIOUS
    <3> HIDE DEF m
    <3> QED BY <2>2, <3>1, <3>2, EndFound
  <2>4. b[at + 7] = n /\ Len(b) = at + 7 + 2 * n /\ at \in Nat
    <3>1. /\ Len(b) = 8 + Len(Middle(p)) + 7 + 2 * n /\ Limits(b, 8 + Len(Middle(p)), p) BY DEF Laid
    <3>2. b[(8 + Len(Middle(p))) + 7] = n BY <3>1 DEF Limits
    <3> HIDE DEF at, n
    <3> QED BY <2>1, <2>3, <2>5, <3>1, <3>2
  <2>6. CASE m < at + 7 BY <2>6 DEF Read, End
  <2>7. CASE ~(m < at + 7)
    <3> HIDE DEF at, n
    <3>1. at + 7 \in 1 .. m BY <2>4, <2>7
    <3>2. k = n BY <2>4, <3>1
    <3>3. m < at + 7 + 2 * k BY <2>4, <2>5, <3>2
    <3> QED BY <3>3 DEF Read, at, End
  <2> QED BY <2>6, <2>7
<1> QED BY <1>1, <1>2

LEMMA AssetBack ==
  ASSUME NEW b \in Seq(Nat), NEW a \in Seq(Nat), Holds(b, 9, a), 9 + Len(a) <= Len(b)
  PROVE  SubSeq(b, 10, 9 + Len(a)) = a
<1> DEFINE n == Len(a)
           s == SubSeq(b, 10, 9 + n)
<1>1. n \in Nat /\ Len(b) \in Nat /\ 9 + n <= Len(b) OBVIOUS
<1>2. s = [i \in 1 .. n |-> b[9 + i]]
  <2>1. s = [i \in 1 .. ((9 + n) - 10) + 1 |-> b[(i + 10) - 1]]
    BY <1>1, SubSeqProperties
  <2>2. ((9 + n) - 10) + 1 = n /\ \A i \in 1 .. n : (i + 10) - 1 = 9 + i BY <1>1
  <2> QED BY <2>1, <2>2
<1>3. \A i \in 1 .. n : b[9 + i] = a[i] BY DEF Holds
<1>4. a = [i \in 1 .. n |-> a[i]] OBVIOUS
<1> HIDE DEF s, n
<1> QED BY <1>2, <1>3, <1>4 DEF s, n

(* What was signed is read back.                                           *)
LEMMA ReadBack ==
  ASSUME NEW p, IsPayload(p), NEW b, Laid(b, p)
  PROVE  Read(b, p.v) = p
<1> DEFINE v == p.v
           at == End(b, v)
           n == Len(p.widths)
<1>1. v \in {1, 2} /\ p \in Payloads /\ n \in Nat BY DEF IsPayload, Payloads
<1>2. Len(Middle(p)) \in Nat BY MiddleIs
<1>3. /\ b \in Seq(Nat) /\ Len(b) = 8 + Len(Middle(p)) + 7 + 2 * n
      /\ Holds(b, 0, Bytes4(p.exp)) /\ Holds(b, 4, Bytes4(p.nbf)) /\ Holds(b, 8, Middle(p))
      /\ Limits(b, 8 + Len(Middle(p)), p)
  BY DEF Laid
<1>4. Len(b) >= Least(v) /\ Len(b) \in Nat
  <2>1. Len(b) = 8 + Len(Middle(p)) + 7 + 2 * n /\ n \in Nat /\ Least(v) \in {10, 13} BY <1>1, <1>3 DEF Least
  <2> HIDE DEF n
  <2> QED BY ONLY <1>2, <2>1
<1>5. at = 8 + Len(Middle(p))
  <2>1. \A i \in 1 .. Len(b) : b[i] = b[i] OBVIOUS
  <2> QED BY <1>4, <2>1, EndFound
<1>6. at \in Nat /\ Len(b) = at + 7 + 2 * n /\ Limits(b, at, p) BY <1>2, <1>3, <1>5
<1> HIDE DEF at
<1>7. /\ Holds(b, at, Bytes2(p.window)) /\ Holds(b, at + 2, Bytes2(p.kbps)) /\ Holds(b, at + 4, Bytes2(p.conc))
      /\ b[at + 7] = n /\ Holds(b, at + 7, Words(p.widths))
  BY <1>6 DEF Limits
<1>8. /\ p.exp \in 0 .. u32 - 1 /\ p.nbf \in 0 .. u32 - 1 /\ p.window \in 0 .. u16 - 1 /\ p.kbps \in 0 .. u16 - 1
      /\ p.conc \in 0 .. u16 - 1 /\ p.widths \in Seq(0 .. u16 - 1)
  BY <1>1 DEF Payloads
<1>9. Num4(b, 0) = p.exp /\ Num4(b, 4) = p.nbf BY <1>3, <1>8, Num4Back
<1>10. Num2(b, at) = p.window /\ Num2(b, at + 2) = p.kbps /\ Num2(b, at + 4) = p.conc
  <2>1. at \in Nat /\ at + 2 \in Nat /\ at + 4 \in Nat BY <1>6
  <2> QED BY <1>7, <1>8, <2>1, Num2Back
<1>11. ReadWords(b, at + 7, n) = p.widths
  <2>1. at + 7 \in Nat BY <1>6
  <2> QED BY <1>7, <1>8, <2>1, WordsBack
<1> DEFINE a == IF v = 1 THEN ReadAsset(b) ELSE <<>>
           f == IF v = 1 THEN <<>> ELSE ReadFilter(b)
<1>12. a = p.asset /\ f = p.filter
  <2>1. CASE v = 1
    <3>1. Len(Middle(p)) = 1 + Len(p.asset) /\ Holds(Middle(p), 1, p.asset) /\ Middle(p) \in Seq(Nat) BY <2>1, AssetLaid
    <3>2. p.asset \in Seq(Nat) /\ p.filter = <<>> BY <2>1 DEF IsPayload, Payloads
    <3>3. Holds(b, 8 + 1, p.asset)
      <4>1. 8 \in Nat /\ 1 \in Nat /\ Len(Middle(p)) \in Nat /\ Len(p.asset) \in Nat /\ 1 + Len(p.asset) <= Len(Middle(p))
        BY <3>1, <3>2
      <4> QED BY ONLY <1>3, <3>1, <4>1, HoldsIn
    <3>4. Holds(b, 9, p.asset) BY <3>3
    <3>5. AssetEnd(b) = 9 + Len(p.asset) BY <1>5, <2>1, <3>1, <3>2 DEF at, End
    <3>6. 9 + Len(p.asset) <= Len(b)
      <4>1. Len(b) = 8 + Len(Middle(p)) + 7 + 2 * n /\ n \in Nat /\ Len(p.asset) \in Nat BY <1>1, <1>3, <3>2
      <4> DEFINE x == Len(Middle(p))
                 y == Len(p.asset)
                 z == Len(b)
      <4>2. x = 1 + y /\ z = 8 + x + 7 + 2 * n /\ n \in Nat /\ y \in Nat BY <3>1, <4>1
      <4> HIDE DEF n, x, y, z
      <4>3. 9 + y <= z BY ONLY <4>2
      <4> QED BY <4>3 DEF y, z
    <3>7. SubSeq(b, 10, 9 + Len(p.asset)) = p.asset BY ONLY <1>3, <3>2, <3>4, <3>6, AssetBack
    <3> QED BY <2>1, <3>2, <3>5, <3>7 DEF ReadAsset
  <2>2. CASE v = 2
    <3> DEFINE k == Len(p.filter)
               M == Middle(p)
    <3>1. /\ Len(M) = (2 + DescriptorLen) + 2 * k /\ M \in Seq(Nat)
          /\ Holds(M, 0, Bytes2(k)) /\ Holds(M, 2 + DescriptorLen, Words(p.filter))
      BY <2>2, FilterLaid
    <3>2. /\ p.filter \in Seq(0 .. u16 - 1) /\ k \in Nat /\ k \in 0 .. u16 - 1 /\ DescriptorLen \in Nat /\ p.asset = <<>>
      BY <2>2, Widths16, TokenAssumption DEF IsPayload, Payloads
    <3>3. Len(Words(p.filter)) = 2 * k /\ Len(Bytes2(k)) = 2 BY <3>2, WordsIs, Bytes2Is
    <3>4. Holds(b, 8, M) BY <1>3
    <3> DEFINE ws == Words(p.filter)
               y == Bytes2(k)
    <3>5. /\ Holds(M, 0, y) /\ Holds(M, 2 + DescriptorLen, ws) BY <3>1
    <3>6. /\ 8 \in Nat /\ 0 \in Nat /\ 2 + DescriptorLen \in Nat /\ Len(M) \in Nat /\ Len(y) \in Nat /\ Len(ws) \in Nat
          /\ 0 + Len(y) <= Len(M) /\ (2 + DescriptorLen) + Len(ws) <= Len(M)
      <4> HIDE DEF M, ws, y, k
      <4> QED BY <3>1, <3>2, <3>3 DEF ws, y
    <3> HIDE DEF M, ws, y, k
    <3>7. Holds(b, 8 + 0, y) /\ Holds(b, 8 + (2 + DescriptorLen), ws) BY ONLY <3>4, <3>5, <3>6, HoldsIn
    <3>8. 8 + 0 = 8 /\ 8 + (2 + DescriptorLen) = 10 + DescriptorLen /\ 10 + DescriptorLen \in Nat BY <3>2
    <3>9. Num2(b, 8) = k BY <3>2, <3>7, <3>8, Num2Back DEF y
    <3>10. ReadWords(b, 10 + DescriptorLen, k) = p.filter BY <3>2, <3>7, <3>8, WordsBack DEF ws, k
    <3> QED BY <2>2, <3>2, <3>9, <3>10 DEF ReadFilter
  <2> QED BY <1>1, <2>1, <2>2
<1>13. p = [v |-> v, exp |-> p.exp, nbf |-> p.nbf, asset |-> p.asset, filter |-> p.filter,
            window |-> p.window, kbps |-> p.kbps, conc |-> p.conc, widths |-> p.widths]
  BY <1>1 DEF Payloads
<1>14. ~(Len(b) < Least(v) \/ Len(b) < at + 7 \/ Len(b) < at + 7 + 2 * n)
  <2>1. n \in Nat /\ Least(v) \in Nat /\ Len(b) >= Least(v) /\ at \in Nat /\ Len(b) = at + 7 + 2 * n
    BY <1>1, <1>4, <1>6 DEF Least
  <2> HIDE DEF n
  <2> QED BY ONLY <2>1
<1>15. Read(b, v) =
         IF Len(b) < Least(v) \/ Len(b) < at + 7 \/ Len(b) < at + 7 + 2 * b[at + 7] THEN Unreadable
         ELSE [v |-> v, exp |-> Num4(b, 0), nbf |-> Num4(b, 4), asset |-> a, filter |-> f,
               window |-> Num2(b, at), kbps |-> Num2(b, at + 2), conc |-> Num2(b, at + 4),
               widths |-> ReadWords(b, at + 7, b[at + 7])]
  BY DEF Read, at, End, Least
<1> HIDE DEF a, f, v, n
<1>16. Read(b, v) = [v |-> v, exp |-> p.exp, nbf |-> p.nbf, asset |-> p.asset, filter |-> p.filter,
                     window |-> p.window, kbps |-> p.kbps, conc |-> p.conc, widths |-> p.widths]
  BY <1>7, <1>9, <1>10, <1>11, <1>12, <1>14, <1>15
<1> QED BY <1>13, <1>16 DEF v
-----------------------------------------------------------------------------
(* What a claim signs for a request                                        *)
PayloadOf(r, nbf) ==
  [v |-> r.v, exp |-> r.exp, nbf |-> nbf, asset |-> IF r.v = 1 THEN r.assets[1] ELSE <<>>,
   filter |-> IF r.v = 1 THEN <<>> ELSE [i \in DOMAIN r.assets |-> Hash(r.assets[i])],
   window |-> r.window, kbps |-> r.kbps, conc |-> r.conc, widths |-> r.widths]
Small(r) == Len(r.widths) < Byte /\ (r.v = 1 => Len(r.assets[1]) < Byte)
SignedAs(t, r, nbf) ==
  /\ r \in ClaimAsks /\ Small(r) /\ nbf \in 0 .. u32 - 1 /\ (r.nbf # 0 => nbf = r.nbf)
  /\ t.ask = r /\ t.v = r.v /\ t.payload = PayloadOf(r, nbf) /\ t.bytes = Serialized(PayloadOf(r, nbf))
IsSigned(t) == \E r \in ClaimAsks : \E nbf \in 0 .. u32 - 1 : SignedAs(t, r, nbf)

LEMMA AskIs ==
  ASSUME NEW r \in ClaimAsks
  PROVE  /\ r.v \in {1, 2} /\ r.assets \in Seq(Seq(Nat)) /\ r.exp \in 0 .. u32 - 1 /\ r.nbf \in 0 .. u32 - 1
         /\ r.window \in 0 .. u16 - 1 /\ r.kbps \in 0 .. u16 - 1 /\ r.conc \in 0 .. u16 - 1 /\ r.widths \in Seq(0 .. u16 - 1)
         /\ \A i \in DOMAIN r.assets : Hash(r.assets[i]) \in 0 .. u16 - 1
         /\ r.v = 1 => r.assets[1] \in Seq(Nat)
<1>1. /\ r \in [v : {1, 2}, assets : Seq(Seq(Nat)), nbf : Nat, exp : Nat, window : Nat, kbps : Nat, conc : Nat, widths : Seq(Nat)]
      /\ r.nbf < u32 /\ r.exp < u32 /\ r.window < u16 /\ r.kbps < u16 /\ r.conc < u16
      /\ \A i \in DOMAIN r.widths : r.widths[i] < u16
      /\ \A i \in DOMAIN r.assets : XxHash(r.assets[i]) \in Nat
      /\ r.v = 1 => r.assets # <<>>
  BY TokenAssumption DEF u32
<1>2. /\ r.v \in {1, 2} /\ r.assets \in Seq(Seq(Nat)) /\ r.nbf \in Nat /\ r.exp \in Nat /\ r.window \in Nat
      /\ r.kbps \in Nat /\ r.conc \in Nat /\ r.widths \in Seq(Nat)
  BY <1>1
<1>3. /\ r.exp \in 0 .. u32 - 1 /\ r.nbf \in 0 .. u32 - 1
      /\ r.window \in 0 .. u16 - 1 /\ r.kbps \in 0 .. u16 - 1 /\ r.conc \in 0 .. u16 - 1
  BY <1>1, <1>2, Widths16
<1>4. r.widths \in Seq(0 .. u16 - 1)
  <2> DEFINE w == r.widths
             n == Len(w)
  <2>1. w \in Seq(Nat) /\ n \in Nat /\ \A i \in 1 .. n : w[i] < u16 /\ w[i] \in Nat BY <1>1, <1>2
  <2>2. \A i \in 1 .. n : w[i] \in 0 .. u16 - 1 BY <2>1, Widths16
  <2>3. w = [i \in 1 .. n |-> w[i]] BY <2>1
  <2> HIDE DEF w, n
  <2>4. w \in [1 .. n -> 0 .. u16 - 1] BY <2>2, <2>3
  <2> DEFINE D == 0 .. u16 - 1
  <2>5. w \in [1 .. n -> D] /\ n \in Nat BY <2>1, <2>4
  <2> HIDE DEF D
  <2>6. w \in Seq(D) BY ONLY <2>5
  <2> QED BY <2>6 DEF w, D
<1>5. ASSUME NEW i \in DOMAIN r.assets PROVE Hash(r.assets[i]) \in 0 .. u16 - 1
  <2> DEFINE h == XxHash(r.assets[i])
  <2>1. h \in Nat /\ u16 \in Nat \ {0} BY <1>1, Widths16
  <2> HIDE DEF h
  <2>2. h % u16 \in 0 .. u16 - 1 BY <2>1
  <2> QED BY <2>2 DEF Hash, h
<1>6. r.v = 1 => r.assets[1] \in Seq(Nat)
  <2> DEFINE x == r.assets
             S == Seq(Nat)
  <2>1. x \in Seq(S) /\ (r.v = 1 => x # <<>>) BY <1>1, <1>2
  <2> HIDE DEF x, S
  <2>2. x # <<>> => 1 \in 1 .. Len(x) BY <2>1
  <2>3. x # <<>> => x[1] \in S BY <2>1, <2>2
  <2> QED BY <2>1, <2>3 DEF x, S
<1> QED BY <1>2, <1>3, <1>4, <1>5, <1>6

LEMMA PayloadIs ==
  ASSUME NEW r \in ClaimAsks, NEW nbf \in 0 .. u32 - 1, Small(r), Len(r.assets) < u16
  PROVE  IsPayload(PayloadOf(r, nbf))
<1> DEFINE p == PayloadOf(r, nbf)
           a == IF r.v = 1 THEN r.assets[1] ELSE <<>>
           f == IF r.v = 1 THEN <<>> ELSE [i \in DOMAIN r.assets |-> Hash(r.assets[i])]
<1>1. /\ r.v \in {1, 2} /\ r.assets \in Seq(Seq(Nat)) /\ r.exp \in 0 .. u32 - 1
      /\ r.window \in 0 .. u16 - 1 /\ r.kbps \in 0 .. u16 - 1 /\ r.conc \in 0 .. u16 - 1 /\ r.widths \in Seq(0 .. u16 - 1)
      /\ \A i \in DOMAIN r.assets : Hash(r.assets[i]) \in 0 .. u16 - 1
      /\ r.v = 1 => r.assets[1] \in Seq(Nat)
  BY AskIs
<1>2. a \in Seq(Nat) /\ (r.v = 2 => a = <<>>) BY <1>1
<1>3. f \in Seq(0 .. u16 - 1) /\ (r.v = 1 => f = <<>>) /\ (r.v = 2 => Len(f) = Len(r.assets))
  <2> DEFINE x == r.assets
             n == Len(x)
  <2>1. n \in Nat /\ DOMAIN x = 1 .. n BY <1>1
  <2>2. CASE r.v = 1 BY <2>2
  <2>3. CASE r.v = 2
    <3>1. f = [i \in 1 .. n |-> Hash(x[i])] BY <2>1, <2>3
    <3>2. \A i \in 1 .. n : Hash(x[i]) \in 0 .. u16 - 1 BY <1>1, <2>1
    <3> HIDE DEF f, n, x
    <3>3. f \in [1 .. n -> 0 .. u16 - 1] BY <3>1, <3>2
    <3> DEFINE D == 0 .. u16 - 1
    <3>4. f \in [1 .. n -> D] /\ n \in Nat BY <2>1, <3>3
    <3> HIDE DEF D
    <3>5. f \in Seq(D) /\ Len(f) = n BY ONLY <3>4
    <3> QED BY <2>3, <3>5 DEF n, x, D
  <2> QED BY <1>1, <2>2, <2>3
<1>4. p = [v |-> r.v, exp |-> r.exp, nbf |-> nbf, asset |-> a, filter |-> f, window |-> r.window, kbps |-> r.kbps,
           conc |-> r.conc, widths |-> r.widths]
  BY DEF PayloadOf
<1>5. r.v = 1 => a = r.assets[1] OBVIOUS
<1> HIDE DEF a, f, p
<1>6. p \in Payloads BY <1>1, <1>2, <1>3, <1>4 DEF Payloads
<1>7. p.v = r.v /\ p.asset = a /\ p.filter = f /\ p.widths = r.widths BY <1>4
<1> QED BY <1>2, <1>3, <1>5, <1>6, <1>7 DEF IsPayload, Small, p

(* A signed token is read back, and no part of it is read.                 *)
LEMMA SignedReads ==
  ASSUME NEW t, IsSigned(t), Fits(t)
  PROVE  /\ Read(t.bytes, t.v) = t.payload /\ IsPayload(t.payload)
         /\ \A n \in 1 .. Len(t.bytes) : Read(SubSeq(t.bytes, 1, n - 1), t.v) = Unreadable
<1>1. PICK r \in ClaimAsks, nbf \in 0 .. u32 - 1 : SignedAs(t, r, nbf) BY DEF IsSigned
<1> DEFINE p == PayloadOf(r, nbf)
           b == t.bytes
<1>2. t.ask = r /\ t.v = r.v /\ t.payload = p /\ b = Serialized(p) /\ Small(r) BY <1>1 DEF SignedAs
<1>3. p.v = r.v BY DEF PayloadOf
<1>4. IsPayload(p) BY <1>2, PayloadIs DEF Fits
<1> HIDE DEF p
<1>5. Laid(b, p) BY <1>2, <1>4, SerializedLaid
<1>6. Read(b, t.v) = p BY <1>2, <1>3, <1>4, <1>5, ReadBack
<1>7. ASSUME NEW n \in 1 .. Len(b) PROVE Read(SubSeq(b, 1, n - 1), t.v) = Unreadable
  <2> DEFINE q == SubSeq(b, 1, n - 1)
  <2>1. b \in Seq(Nat) BY <1>5 DEF Laid
  <2> HIDE DEF b
  <2>2. \A i \in 1 .. n - 1 : b[i] \in Nat BY <2>1
  <2>3. Len(q) = n - 1 /\ \A i \in 1 .. n - 1 : q[i] = b[i] BY <2>1, <2>2, SubSeqProperties
  <2>4. Len(q) \in Nat /\ Len(q) < Len(b) /\ \A i \in 1 .. Len(q) : q[i] = b[i] BY <2>1, <2>3
  <2> HIDE DEF q
  <2>5. Read(q, p.v) = Unreadable BY <1>4, <1>5, <2>4, CutUnreadable
  <2> QED BY <1>2, <1>3, <2>5 DEF q
<1> QED BY <1>2, <1>4, <1>6, <1>7

-----------------------------------------------------------------------------
(* The request of a token asked for this file.                             *)
AskedFor(r, ask) ==
  /\ IF r.v = 1 THEN ask.asset = r.assets[1] ELSE \E a \in Range(r.assets) : Hash(a) = Hash(ask.asset)
  /\ ask.segment # Unset /\ r.window # 0 => ask.segment * Segment <= r.window
  /\ ask.width # Unset /\ r.widths # <<>> => ask.width \in Range(r.widths)

LEMMA InWindow ==
  ASSUME NEW s \in Nat, NEW w \in Nat
  PROVE  s > w \div Segment <=> ~(s * Segment <= w)
<1> DEFINE q == w \div Segment
           m == w % Segment
<1>1. Segment \in Nat \ {0} BY TokenAssumption
<1>2. q \in Nat /\ m \in 0 .. Segment - 1 /\ w = Segment * q + m BY <1>1, Z3
<1> HIDE DEF q, m
<1>3. CASE s > q
  <2>1. s >= q + 1 BY <1>2, <1>3
  <2>2. s * Segment >= (q + 1) * Segment BY <1>1, <1>2, <2>1, Z3
  <2>3. (q + 1) * Segment = Segment * q + Segment BY <1>1, <1>2, Z3
  <2>4. Segment * q \in Nat /\ s * Segment \in Nat BY <1>1, <1>2, Z3
  <2>5. ~(s * Segment <= w) BY <1>1, <1>2, <2>2, <2>3, <2>4
  <2> QED BY <1>3, <2>5 DEF q
<1>4. CASE ~(s > q)
  <2>1. s <= q BY <1>2, <1>4
  <2>2. s * Segment <= q * Segment BY <1>1, <1>2, <2>1, Z3
  <2>3. q * Segment = Segment * q BY <1>1, <1>2, Z3
  <2>4. Segment * q \in Nat /\ s * Segment \in Nat BY <1>1, <1>2, Z3
  <2>5. s * Segment <= w BY <1>1, <1>2, <2>2, <2>3, <2>4
  <2> QED BY <1>4, <2>5 DEF q
<1> QED BY <1>3, <1>4

LEMMA CoversAsked ==
  ASSUME NEW r \in ClaimAsks, NEW nbf, NEW x
  PROVE  Covers(PayloadOf(r, nbf), x) <=> (IF r.v = 1 THEN x = r.assets[1] ELSE \E a \in Range(r.assets) : Hash(a) = Hash(x))
<1> DEFINE p == PayloadOf(r, nbf)
           f == [i \in DOMAIN r.assets |-> Hash(r.assets[i])]
<1>1. p.v = r.v /\ (r.v = 1 => p.asset = r.assets[1]) /\ (r.v # 1 => p.filter = f) BY DEF PayloadOf
<1> HIDE DEF p
<1>2. CASE r.v = 1 BY <1>1, <1>2 DEF Covers, p
<1>3. CASE r.v # 1
  <2>1. Range(f) = {Hash(r.assets[i]) : i \in DOMAIN r.assets} BY DEF Range
  <2>2. Range(r.assets) = {r.assets[i] : i \in DOMAIN r.assets} BY DEF Range
  <2>3. Hash(x) \in Range(f) <=> \E a \in Range(r.assets) : Hash(a) = Hash(x) BY <2>1, <2>2
  <2> HIDE DEF f
  <2> QED BY <1>1, <1>3, <2>3 DEF Covers, p
<1> QED BY <1>2, <1>3

(* What a payload that is read decides on a file                           *)
LEMMA VerdictOf ==
  ASSUME NEW r \in ClaimAsks, NEW nbf \in Nat, NEW ask \in FileAsks, NEW v, v = VerifyPayload(PayloadOf(r, nbf), ask),
         claim.now \in Nat
  PROVE  /\ v \in {"ok", "AssetMismatch", "TimeWindowDeny", "TokenNotYetValid", "TokenExpired"}
         /\ v = "ok" => AskedFor(r, ask) /\ nbf <= claim.now /\ claim.now < r.exp
         /\ v \in {"AssetMismatch", "TimeWindowDeny"} => ~AskedFor(r, ask)
         /\ v = "TokenExpired" => claim.now >= r.exp
<1> DEFINE p == PayloadOf(r, nbf)
           C == Covers(p, ask.asset)
           G == IF r.v = 1 THEN ask.asset = r.assets[1] ELSE \E a \in Range(r.assets) : Hash(a) = Hash(ask.asset)
           S == ask.segment # Unset /\ p.window # 0 /\ ask.segment > p.window \div Segment
           W == ask.width # Unset /\ p.widths # <<>> /\ ask.width \notin Range(p.widths)
<1>1. p.v = r.v /\ p.exp = r.exp /\ p.nbf = nbf /\ p.window = r.window /\ p.widths = r.widths BY DEF PayloadOf
<1>2. r.v \in {1, 2} /\ r.window \in Nat /\ r.exp \in Nat BY AskIs, Widths16
<1>3. p # Unreadable
  <2>1. Unreadable.v = 0 BY DEF Unreadable
  <2> QED BY <1>1, <1>2, <2>1
<1>4. C <=> G BY CoversAsked
<1>5. v = IF claim.now < nbf THEN "TokenNotYetValid" ELSE IF claim.now >= r.exp THEN "TokenExpired"
          ELSE IF ~C THEN "AssetMismatch" ELSE IF S THEN "TimeWindowDeny" ELSE IF W THEN "AssetMismatch" ELSE "ok"
  BY <1>1, <1>3 DEF VerifyPayload
<1>6. S <=> ~(ask.segment # Unset /\ r.window # 0 => ask.segment * Segment <= r.window)
  <2>1. ask.segment # Unset => ask.segment \in Nat BY TokenAssumption
  <2>2. ask.segment # Unset => (ask.segment > r.window \div Segment <=> ~(ask.segment * Segment <= r.window))
    BY <1>2, <2>1, InWindow
  <2> QED BY <1>1, <2>2
<1>7. W <=> ~(ask.width # Unset /\ r.widths # <<>> => ask.width \in Range(r.widths)) BY <1>1
<1>8. AskedFor(r, ask) <=> G /\ ~S /\ ~W BY <1>6, <1>7 DEF AskedFor
<1> HIDE DEF C, G, S, W
<1> QED BY <1>2, <1>4, <1>5, <1>8
-----------------------------------------------------------------------------
(* The claims of the program: every token was signed for a request, and    *)
(* the last verdict is right.                                              *)
IsClaims(c) == DOMAIN c = {"config", "mgr", "now", "tokens", "status", "verdict"}
Tokens(ts) == \E S : ts \in Seq(S) /\ \A t \in S : IsSigned(t)
VerdictRight == VerdictMatches /\ TimeBounds
TokenInv == IsClaims(claim) /\ claim.now \in 1 .. MaxTokenTime /\ Tokens(claim.tokens) /\ VerdictRight

LEMMA TokensAre ==
  ASSUME NEW ts, Tokens(ts)
  PROVE  \A i \in DOMAIN ts : IsSigned(ts[i]) /\ i # 0
<1>1. PICK S : ts \in Seq(S) /\ \A t \in S : IsSigned(t) BY DEF Tokens
<1>2. ASSUME NEW i \in DOMAIN ts PROVE IsSigned(ts[i]) /\ i # 0
  <2>1. i \in 1 .. Len(ts) /\ Len(ts) \in Nat BY <1>1
  <2>2. ts[i] \in S BY <1>1, <2>1
  <2> QED BY <1>1, <2>1, <2>2
<1> QED BY <1>2

LEMMA TokensAppend ==
  ASSUME NEW ts, Tokens(ts), NEW t, IsSigned(t)
  PROVE  Tokens(Append(ts, t))
<1>1. PICK S : ts \in Seq(S) /\ \A x \in S : IsSigned(x) BY DEF Tokens
<1> DEFINE T == S \cup {t}
<1>2. \A x \in T : IsSigned(x) BY <1>1
<1>3. t \in T /\ S \subseteq T OBVIOUS
<1> HIDE DEF T
<1>4. ts \in Seq(T) BY <1>1, <1>3
<1>5. Append(ts, t) \in Seq(T) BY <1>3, <1>4
<1> QED BY <1>2, <1>5 DEF Tokens

(* Before the first verdict there is none to be wrong.                     *)
LEMMA NoVerdict ==
  ASSUME claim.verdict.token = 0
  PROVE  VerdictRight
BY DEF VerdictRight, VerdictMatches, TimeBounds

LEMMA NoVerdictNext ==
  ASSUME claim'.verdict.token = 0
  PROVE  VerdictRight'
BY DEF VerdictRight, VerdictMatches, TimeBounds

(* A verification decides as the request of its token asks.                *)
LEMMA VerifyRight ==
  ASSUME TokenInv, NEW t \in DOMAIN claim.tokens, NEW ask \in FileAsks, NEW d \in {"none", "cut", "header", "body"},
         VerifyClaim(t, ask, d)
  PROVE  TokenInv'
<1> DEFINE tok == claim.tokens[t]
           keys == claim.mgr.keys
           known == tok.kid \in DOMAIN keys /\ keys[tok.kid] = tok.key
           read == VerifyPayload(Read(tok.bytes, tok.v), ask)
           result == IF HeaderFault(d) # "" THEN HeaderFault(d)
                     ELSE IF tok.kid \notin DOMAIN keys THEN "KeyNotFound"
                     ELSE IF d = "body" \/ ~known THEN "AeadFail"
                     ELSE read
           v == [token |-> t, ask |-> ask, damage |-> d, known |-> known, at |-> claim.now, result |-> result]
<1>1. claim' = [claim EXCEPT !.verdict = v] BY DEF VerifyClaim
<1>2. IsClaims(claim) /\ claim.now \in 1 .. MaxTokenTime /\ Tokens(claim.tokens) BY DEF TokenInv
<1>3. known \in BOOLEAN OBVIOUS
<1> HIDE DEF known, result
<1>4. /\ v.token = t /\ v.ask = ask /\ v.damage = d /\ v.known = known /\ v.at = claim.now /\ v.result = result
  OBVIOUS
<1> HIDE DEF v
<1>5. /\ IsClaims(claim') /\ claim'.now = claim.now /\ claim'.tokens = claim.tokens /\ claim'.verdict = v
  BY <1>1, <1>2 DEF IsClaims
<1>6. IsSigned(tok) /\ t # 0 BY <1>2, TokensAre
<1>7. claim.now \in Nat BY <1>2, TokenAssumption
<1> DEFINE r == tok.ask
           whole == known /\ d = "none"
<1>8. /\ result = "ok" \/ result = "AssetMismatch" \/ result = "TimeWindowDeny" \/ result = "TokenExpired"
           => whole /\ result = read
      /\ whole => result = read
  <2>1. HeaderFault("none") = "" /\ HeaderFault("cut") = "InvalidToken" /\ HeaderFault("header") = "InvalidHeader"
        /\ HeaderFault("body") = ""
    BY DEF HeaderFault
  <2> HIDE DEF read
  <2>2. CASE d = "cut" BY <2>1, <2>2 DEF result
  <2>3. CASE d = "header" BY <2>1, <2>3 DEF result
  <2>4. CASE d = "body" BY <2>1, <2>4 DEF result
  <2>5. CASE d = "none" BY <2>1, <2>5 DEF result, known
  <2> QED BY <2>2, <2>3, <2>4, <2>5
<1>9. ASSUME Fits(tok)
      PROVE  /\ read \in {"ok", "AssetMismatch", "TimeWindowDeny", "TokenNotYetValid", "TokenExpired"}
             /\ read = "ok" => AskedFor(r, ask) /\ r.nbf <= claim.now /\ claim.now < r.exp
             /\ read \in {"AssetMismatch", "TimeWindowDeny"} => ~AskedFor(r, ask)
             /\ read = "TokenExpired" => claim.now >= r.exp
  <2>1. PICK q \in ClaimAsks, nbf \in 0 .. u32 - 1 : SignedAs(tok, q, nbf) BY <1>6 DEF IsSigned
  <2>2. r = q /\ tok.payload = PayloadOf(q, nbf) /\ (q.nbf # 0 => nbf = q.nbf) BY <2>1 DEF SignedAs
  <2>3. Read(tok.bytes, tok.v) = PayloadOf(q, nbf) BY <1>6, <1>9, <2>2, SignedReads
  <2>4. read = VerifyPayload(PayloadOf(q, nbf), ask) BY <2>3
  <2>5. nbf \in Nat /\ q.nbf \in Nat BY AskIs, Widths16
  <2> HIDE DEF read, r
  <2>6. /\ read \in {"ok", "AssetMismatch", "TimeWindowDeny", "TokenNotYetValid", "TokenExpired"}
        /\ read = "ok" => AskedFor(q, ask) /\ nbf <= claim.now /\ claim.now < q.exp
        /\ read \in {"AssetMismatch", "TimeWindowDeny"} => ~AskedFor(q, ask)
        /\ read = "TokenExpired" => claim.now >= q.exp
    BY <1>7, <2>4, <2>5, VerdictOf
  <2>7. nbf <= claim.now => q.nbf <= claim.now BY <1>7, <2>2, <2>5
  <2> QED BY <2>2, <2>6, <2>7
<1> HIDE DEF read
<1>10. VerdictMatches'
  <2>1. claim'.tokens[v.token] = tok BY <1>4, <1>5
  <2>2. VerdictMatches' <=>
          (v.token # 0 /\ Fits(claim'.tokens[v.token]) =>
            LET file == AskedFor(claim'.tokens[v.token].ask, v.ask)
                valid == v.known /\ v.damage = "none"
            IN  /\ v.result = "ok" => valid /\ file
                /\ v.result \in {"AssetMismatch", "TimeWindowDeny"} => valid /\ ~file
                /\ valid => v.result \in {"ok", "AssetMismatch", "TimeWindowDeny", "TokenNotYetValid", "TokenExpired"})
    BY <1>5 DEF VerdictMatches, AskedFor, Fits
  <2> HIDE DEF tok
  <2>3. /\ whole <=> (v.known /\ v.damage = "none") BY <1>4
  <2>4. Fits(tok) => /\ result = "ok" => whole /\ AskedFor(tok.ask, ask)
                     /\ result \in {"AssetMismatch", "TimeWindowDeny"} => whole /\ ~AskedFor(tok.ask, ask)
                     /\ whole => result \in {"ok", "AssetMismatch", "TimeWindowDeny", "TokenNotYetValid", "TokenExpired"}
    BY <1>8, <1>9
  <2> QED BY <1>4, <2>1, <2>2, <2>3, <2>4
<1>11. TimeBounds'
  <2>1. claim'.tokens[v.token] = tok BY <1>4, <1>5
  <2>2. TimeBounds' <=>
          (v.token # 0 /\ Fits(claim'.tokens[v.token]) =>
            /\ v.result = "ok" => claim'.tokens[v.token].ask.nbf <= v.at /\ v.at < claim'.tokens[v.token].ask.exp
            /\ v.result = "TokenExpired" => v.at >= claim'.tokens[v.token].ask.exp)
    BY <1>5 DEF TimeBounds, Fits
  <2> HIDE DEF tok
  <2>3. Fits(tok) => /\ result = "ok" => tok.ask.nbf <= claim.now /\ claim.now < tok.ask.exp
                     /\ result = "TokenExpired" => claim.now >= tok.ask.exp
    BY <1>8, <1>9
  <2> QED BY <1>4, <2>1, <2>2, <2>3
<1> QED BY <1>2, <1>5, <1>10, <1>11 DEF TokenInv, VerdictRight
(* A claim that is created is signed for its request.                      *)
LEMMA CreateSigns ==
  ASSUME TokenInv, NEW r \in ClaimAsks, CreateClaim(r), claim.verdict.token = 0
  PROVE  TokenInv'
<1> DEFINE nbf == IF r.nbf = 0 THEN claim.now ELSE r.nbf
           p == PayloadOf(r, nbf)
           t == Signed(p, r)
           wrong == AsksNothing(r) \/ r.exp <= nbf
           large == Len(r.widths) > Byte - 1 \/ Len(p.asset) > Byte - 1
           s == IF wrong THEN 400 ELSE 500
<1>1. claim' = IF wrong \/ large THEN [claim EXCEPT !.status = s]
               ELSE [claim EXCEPT !.status = 200, !.tokens = Append(@, t)]
  BY DEF CreateClaim, PayloadOf
<1>2. IsClaims(claim) /\ claim.now \in 1 .. MaxTokenTime /\ Tokens(claim.tokens) BY DEF TokenInv
<1>3. nbf \in 0 .. u32 - 1 /\ (r.nbf # 0 => nbf = r.nbf)
  <2>1. MaxTokenTime \in 1 .. u32 - 1 BY TokenAssumption DEF u32
  <2>2. u32 \in Nat /\ r.nbf \in 0 .. u32 - 1 BY AskIs, Widths16
  <2>3. claim.now \in 0 .. u32 - 1 BY <1>2, <2>1, <2>2
  <2> QED BY <2>2, <2>3
<1>4. CASE wrong \/ large
  <2> HIDE DEF wrong, large, s
  <2>1. claim' = [claim EXCEPT !.status = s] BY <1>1, <1>4
  <2>2. IsClaims(claim') /\ claim'.now = claim.now /\ claim'.tokens = claim.tokens /\ claim'.verdict = claim.verdict
    BY <1>2, <2>1 DEF IsClaims
  <2>3. VerdictRight' BY <2>2, NoVerdictNext
  <2> QED BY <1>2, <2>2, <2>3 DEF TokenInv
<1>5. CASE ~(wrong \/ large)
  <2>1. Small(r)
    <3>1. Len(r.widths) \in Nat /\ Byte \in Nat \ {0} /\ (r.v = 1 => Len(r.assets[1]) \in Nat)
      BY AskIs, TokenAssumption
    <3>2. r.v = 1 => p.asset = r.assets[1] BY DEF PayloadOf
    <3>3. ~(Len(r.widths) > Byte - 1) /\ ~(Len(p.asset) > Byte - 1) BY <1>5
    <3> HIDE DEF p
    <3>4. Len(r.widths) < Byte BY <3>1, <3>3
    <3>5. r.v = 1 => Len(r.assets[1]) < Byte BY <3>1, <3>2, <3>3
    <3> QED BY <3>4, <3>5 DEF Small
  <2>2. IsSigned(t)
    <3>1. t.ask = r /\ t.v = p.v /\ t.payload = p /\ t.bytes = Serialized(p) BY DEF Signed
    <3>2. p.v = r.v BY DEF PayloadOf
    <3> HIDE DEF t, nbf
    <3>3. SignedAs(t, r, nbf) BY <1>3, <2>1, <3>1, <3>2 DEF SignedAs
    <3> QED BY <1>3, <3>3 DEF IsSigned
  <2> HIDE DEF wrong, large, t
  <2>3. claim' = [claim EXCEPT !.status = 200, !.tokens = Append(@, t)] BY <1>1, <1>5
  <2>4. /\ IsClaims(claim') /\ claim'.now = claim.now /\ claim'.tokens = Append(claim.tokens, t)
        /\ claim'.verdict = claim.verdict
    BY <1>2, <2>3 DEF IsClaims
  <2>5. Tokens(claim'.tokens) BY <1>2, <2>2, <2>4, TokensAppend
  <2>6. VerdictRight' BY <2>4, NoVerdictNext
  <2> QED BY <1>2, <2>4, <2>5, <2>6 DEF TokenInv
<1> QED BY <1>4, <1>5

LEMMA TokenStep ==
  ASSUME TokenInv, TokenNext
  PROVE  TokenInv'
<1>1. IsClaims(claim) /\ claim.now \in 1 .. MaxTokenTime /\ Tokens(claim.tokens) /\ claim.verdict.token = 0
  BY DEF TokenInv, TokenNext
<1>2. ASSUME NEW m, claim' = [claim EXCEPT !.mgr = m] PROVE TokenInv'
  <2>1. IsClaims(claim') /\ claim'.now = claim.now /\ claim'.tokens = claim.tokens /\ claim'.verdict = claim.verdict
    BY <1>1, <1>2 DEF IsClaims
  <2>2. VerdictRight' BY <1>1, <2>1, NoVerdictNext
  <2> QED BY <1>1, <2>1, <2>2 DEF TokenInv
<1>3. ASSUME NEW r \in ClaimAsks, CreateClaim(r) PROVE TokenInv' BY <1>1, <1>3, CreateSigns
<1>4. ASSUME NEW k, AddKey(k) PROVE TokenInv'
  <2> DEFINE m == claim.mgr
             n == m.made + 1
             ks == (k :> n) @@ m.keys
             x == [m EXCEPT !.keys = ks, !.made = n]
  <2>1. claim' = [claim EXCEPT !.mgr = x]
    <3>1. claim' = [claim EXCEPT !.mgr.keys = ks, !.mgr.made = n] BY <1>4, Zenon DEF AddKey
    <3> HIDE DEF ks, n
    <3> QED BY <1>1, <3>1 DEF IsClaims
  <2> HIDE DEF x
  <2> QED BY <2>1, <1>2
<1>5. ASSUME NEW k, SetCurrentKid(k) PROVE TokenInv'
  <2> DEFINE x == [claim.mgr EXCEPT !.current = k]
  <2>1. claim' = [claim EXCEPT !.mgr = x]
    <3>1. claim' = [claim EXCEPT !.mgr.current = k] BY <1>5 DEF SetCurrentKid
    <3> QED BY <1>1, <3>1 DEF IsClaims
  <2> HIDE DEF x
  <2> QED BY <2>1, <1>2
<1>6. ASSUME Restart PROVE TokenInv'
  <2> DEFINE x == Fresh(claim.config, claim.mgr.made)
  <2>1. claim' = [claim EXCEPT !.mgr = x] BY <1>6 DEF Restart
  <2> HIDE DEF x
  <2> QED BY <2>1, <1>2
<1>7. ASSUME TokenTick PROVE TokenInv'
  <2>1. claim.now < MaxTokenTime /\ claim' = [claim EXCEPT !.now = claim.now + 1] BY <1>7 DEF TokenTick
  <2>2. /\ IsClaims(claim') /\ claim'.now = claim.now + 1 /\ claim'.tokens = claim.tokens
        /\ claim'.verdict = claim.verdict
    BY <1>1, <2>1 DEF IsClaims
  <2>3. claim'.now \in 1 .. MaxTokenTime BY <1>1, <2>1, <2>2, TokenAssumption
  <2>4. VerdictRight' BY <1>1, <2>2, NoVerdictNext
  <2> QED BY <1>1, <2>2, <2>3, <2>4 DEF TokenInv
<1>8. ASSUME NEW t \in DOMAIN claim.tokens, NEW ask \in FileAsks, NEW d \in {"none", "cut", "header", "body"},
             VerifyClaim(t, ask, d)
      PROVE  TokenInv'
  BY <1>8, VerifyRight
<1> QED BY <1>3, <1>4, <1>5, <1>6, <1>7, <1>8 DEF TokenNext

LEMMA TokenStart ==
  ASSUME TokenInit
  PROVE  TokenInv
<1> DEFINE v == [token |-> 0, ask |-> [asset |-> <<>>, segment |-> Unset, width |-> Unset], damage |-> "none",
                 known |-> TRUE, at |-> 0, result |-> ""]
<1>1. PICK kids \in KeyConfigs :
        claim = [config |-> kids, mgr |-> Fresh(kids, 0), now |-> 1, tokens |-> <<>>, status |-> 0, verdict |-> v]
  BY DEF TokenInit, NewClaims
<1>2. v.token = 0 OBVIOUS
<1> HIDE DEF v
<1>3. IsClaims(claim) /\ claim.now = 1 /\ claim.tokens = <<>> /\ claim.verdict.token = 0 BY <1>1, <1>2 DEF IsClaims
<1>4. Tokens(<<>>)
  <2> DEFINE S == {}
  <2>1. \A t \in S : IsSigned(t) OBVIOUS
  <2> HIDE DEF S
  <2>2. << >> \in Seq(S) OBVIOUS
  <2> QED BY <2>1, <2>2 DEF Tokens
<1>5. VerdictRight BY <1>3, NoVerdict
<1> QED BY <1>3, <1>4, <1>5, TokenAssumption DEF TokenInv

LEMMA TokenInvGives ==
  ASSUME TokenInv
  PROVE  TokensGrant
<1>1. PayloadReadBack
  <2>1. \A i \in DOMAIN claim.tokens : IsSigned(claim.tokens[i]) BY TokensAre DEF TokenInv
  <2> QED BY <2>1, SignedReads DEF PayloadReadBack
<1> QED BY <1>1 DEF TokenInv, VerdictRight, TokensGrant

(* A token grants what its creator asked for and nothing else: what was    *)
(* signed is read back, no cut of it is, the verdict is that of the        *)
(* request, and the times are checked when the file is asked for.          *)
THEOREM TokensGrantAlways ==
  TokenInit /\ [][TokenNext]_claim => []TokensGrant
<1>1. TokenInit => TokenInv BY TokenStart
<1>2. TokenInv /\ [TokenNext]_claim => TokenInv'
  <2>1. ASSUME TokenInv, UNCHANGED claim PROVE TokenInv'
    BY <2>1 DEF TokenInv, IsClaims, VerdictRight, VerdictMatches, TimeBounds
  <2> QED BY <2>1, TokenStep
<1>3. TokenInv => TokensGrant BY TokenInvGives
<1> QED BY <1>1, <1>2, <1>3, PTL
=============================================================================
