------------------------------ MODULE TokenBucket -----------------------------
(***************************************************************************)
(* TokenBucketInner::consume (crates/claim/src/bucket.rs), the bandwidth   *)
(* limit of a claim.  The streams of all connections of a claim call it,   *)
(* from any thread, on three atomics: tokens_micro, refill_rate_micro      *)
(* (never changed) and last_refill_ms.  There is no lock: each load, store *)
(* and compare-and-swap is a step of its own.                              *)
(*                                                                         *)
(* Time is in ms since base_instant, tokens in micro-tokens; a model that  *)
(* is checked uses small numbers for both.                                 *)
(***************************************************************************)
EXTENDS Naturals

CONSTANTS
  Threads,     \* the streams that consume
  Amounts,     \* sizes of the chunks they send
  InitTokens,  \* tokens at the start
  Rate,        \* refill_rate_micro: tokens per Second, 0 for no limit
  Second,      \* 1000 ms
  Large,       \* 1_000_000 ms, above which the product is avoided
  MaxRetries,  \* the 10 of try_consume_atomic
  Settle,      \* until then compare_exchange_weak may fail spuriously, and steps
               \* and sleeps may take longer than they should
  MaxTime,     \* bound on the clock
  LastCall     \* bound on the time a call may begin

ASSUME BucketAssumption ==
  /\ Amounts \subseteq Nat \ {0}
  /\ InitTokens \in Nat /\ Rate \in Nat
  /\ Second \in Nat \ {0} /\ Large \in Nat
  /\ MaxRetries \in Nat /\ Settle \in Nat /\ MaxTime \in Nat /\ LastCall \in Nat

VARIABLES
  now,       \* the clock
  tokens,    \* tokens_micro
  last,      \* last_refill_ms
  pc,        \* per thread, its next step
  amount,    \* amount_micro
  at,        \* now_ms, read before the call
  new,       \* new_tokens_micro, from the last_refill_ms that was read
  seen,      \* current_tokens
  retries,   \* failed compare-and-swaps of this call
  until,     \* wait_ms, and then the end of the sleep
  consumed,  \* history: tokens granted
  credited   \* history: tokens added by refills

shared  == <<now, tokens, last>>
locals  == <<pc, amount, at, new, seen, retries, until>>
history == <<consumed, credited>>
bucketVars == <<shared, locals, history>>

Steps == {"idle", "clock", "load", "read", "swap", "short", "granted", "wait", "asleep",
          "gone"}

BucketTypeOK ==
  /\ now \in 0 .. MaxTime /\ tokens \in Nat /\ last \in 0 .. MaxTime
  /\ pc \in [Threads -> Steps]
  /\ amount \in [Threads -> Nat] /\ at \in [Threads -> 0 .. MaxTime]
  /\ new \in [Threads -> Nat] /\ seen \in [Threads -> Nat]
  /\ retries \in [Threads -> 0 .. MaxRetries + 1]
  /\ until \in [Threads -> Nat]
  /\ consumed \in Nat /\ credited \in Nat

saturating_sub(a, b) == IF a >= b THEN a - b ELSE 0

calculate_new_tokens(elapsed) ==
  IF elapsed > Large THEN (elapsed \div Second) * Rate
                     ELSE (elapsed * Rate) \div Second

AtLeastOne(n) == IF n > 1 THEN n ELSE 1

wait_ms(t) == AtLeastOne(((amount[t] - (seen[t] + new[t])) * Second) \div Rate)

Goto(t, l) == pc' = [pc EXCEPT ![t] = l]

\* consume(a): without a rate it returns at once.
Consume(t, a) ==
  /\ pc[t] = "idle"
  /\ Rate # 0
  /\ now <= LastCall
  /\ amount' = [amount EXCEPT ![t] = a]
  /\ Goto(t, "clock")
  /\ UNCHANGED <<shared, history, at, new, seen, retries, until>>

ReadClock(t) ==
  /\ pc[t] = "clock"
  /\ at' = [at EXCEPT ![t] = now]
  /\ Goto(t, "load")
  /\ UNCHANGED <<shared, history, amount, new, seen, retries, until>>

\* The refill due since last_refill_ms is worked out once per call.
LoadLast(t) ==
  /\ pc[t] = "load"
  /\ new' = [new EXCEPT ![t] = calculate_new_tokens(saturating_sub(at[t], last))]
  /\ retries' = [retries EXCEPT ![t] = 0]
  /\ Goto(t, "read")
  /\ UNCHANGED <<shared, history, amount, at, seen, until>>

ReadTokens(t) ==
  /\ pc[t] = "read"
  /\ retries[t] <= MaxRetries
  /\ seen' = [seen EXCEPT ![t] = tokens]
  /\ Goto(t, IF tokens + new[t] < amount[t] THEN "short" ELSE "swap")
  /\ UNCHANGED <<shared, history, amount, at, new, retries, until>>

\* Too many retries: sleep 1 ms.
GiveUp(t) ==
  /\ pc[t] = "read"
  /\ retries[t] > MaxRetries
  /\ until' = [until EXCEPT ![t] = now + 1]
  /\ Goto(t, "asleep")
  /\ UNCHANGED <<shared, history, amount, at, new, seen, retries>>

\* A mutant: a plain store where the code compares and swaps.
SwapBlindly(t) ==
  /\ pc[t] = "swap"
  /\ tokens' = (seen[t] + new[t]) - amount[t]
  /\ consumed' = consumed + amount[t]
  /\ credited' = credited + new[t]
  /\ Goto(t, "granted")
  /\ UNCHANGED <<now, last, amount, at, new, seen, retries, until>>

\* The compare-and-swap that takes the tokens.
Swap(t) ==
  /\ pc[t] = "swap"
  /\ \/ /\ tokens = seen[t]
        /\ tokens' = (seen[t] + new[t]) - amount[t]
        /\ consumed' = consumed + amount[t]
        /\ credited' = credited + new[t]
        /\ Goto(t, "granted")
        /\ UNCHANGED retries
     \/ /\ tokens # seen[t] \/ now < Settle
        /\ retries' = [retries EXCEPT ![t] = retries[t] + 1]
        /\ Goto(t, "read")
        /\ UNCHANGED <<tokens, history>>
  /\ UNCHANGED <<now, last, amount, at, new, seen, until>>

\* A mutant: a refill that is not enough is not kept.
ShortKeepsNothing(t) ==
  /\ pc[t] = "short"
  /\ until' = [until EXCEPT ![t] = wait_ms(t)]
  /\ Goto(t, "wait")
  /\ UNCHANGED <<shared, history, amount, at, new, seen, retries>>

\* Not enough tokens: the refill is kept if nobody came in between.
Short(t) ==
  /\ pc[t] = "short"
  /\ \/ /\ tokens = seen[t]
        /\ tokens' = seen[t] + new[t]
        /\ credited' = credited + new[t]
     \/ /\ tokens # seen[t] \/ now < Settle
        /\ UNCHANGED <<tokens, credited>>
  /\ until' = [until EXCEPT ![t] = wait_ms(t)]
  /\ Goto(t, "wait")
  /\ UNCHANGED <<now, last, consumed, amount, at, new, seen, retries>>

\* A mutant: the timestamp is not moved when tokens are granted.
StampForgets(t) ==
  /\ pc[t] = "granted"
  /\ Goto(t, "idle")
  /\ UNCHANGED <<shared, history, amount, at, new, seen, retries, until>>

\* The refill's timestamp is stored after the tokens, by whoever comes last.
StampGranted(t) ==
  /\ pc[t] = "granted"
  /\ last' = at[t]
  /\ Goto(t, "idle")
  /\ UNCHANGED <<now, tokens, history, amount, at, new, seen, retries, until>>

StampShort(t) ==
  /\ pc[t] = "wait"
  /\ last' = at[t]
  /\ until' = [until EXCEPT ![t] = now + until[t]]
  /\ Goto(t, "asleep")
  /\ UNCHANGED <<now, tokens, history, amount, at, new, seen, retries>>

Wake(t) ==
  /\ pc[t] = "asleep"
  /\ now >= until[t]
  /\ Goto(t, "clock")
  /\ UNCHANGED <<shared, history, amount, at, new, seen, retries, until>>

\* The client goes away: the stream is dropped in its sleep.
Cancel(t) ==
  /\ pc[t] = "asleep"
  /\ Goto(t, "gone")
  /\ UNCHANGED <<shared, history, amount, at, new, seen, retries, until>>

Tick ==
  /\ now < MaxTime
  /\ now >= Settle =>
       \A t \in Threads :
         pc[t] \in {"idle", "gone"} \/ (pc[t] = "asleep" /\ now < until[t])
  /\ now' = now + 1
  /\ UNCHANGED <<tokens, last, locals, history>>

BucketInit ==
  /\ now = 0 /\ tokens = InitTokens /\ last = 0
  /\ pc = [t \in Threads |-> "idle"]
  /\ amount = [t \in Threads |-> 0]
  /\ at = [t \in Threads |-> 0]
  /\ new = [t \in Threads |-> 0]
  /\ seen = [t \in Threads |-> 0]
  /\ retries = [t \in Threads |-> 0]
  /\ until = [t \in Threads |-> 0]
  /\ consumed = 0 /\ credited = 0

\* The steps of a call that has begun.
Call(t) ==
  \/ ReadClock(t) \/ LoadLast(t) \/ ReadTokens(t) \/ GiveUp(t) \/ Swap(t) \/ Short(t)
  \/ StampGranted(t) \/ StampShort(t) \/ Wake(t)

BucketNext ==
  \/ \E t \in Threads : Call(t) \/ Cancel(t) \/ \E a \in Amounts : Consume(t, a)
  \/ Tick

BucketSpec == BucketInit /\ [][BucketNext]_bucketVars

\* Threads go on and time passes.
FairBucketSpec == BucketSpec /\ WF_bucketVars(Tick) /\ \A t \in Threads : WF_bucketVars(Call(t))

-------------------------------------------------------------------------------
\* No update of the tokens is lost or applied twice, however the threads
\* interleave: what is there is what there was, plus the refills, minus what
\* was granted; and as it is a natural number, the subtraction of the code
\* never wraps.
Accounted == tokens + consumed = InitTokens + credited

\* Why: a thread swaps only what it has seen to be enough.
CallInv ==
  \A t \in Threads :
    /\ Rate = 0 => pc[t] = "idle"
    /\ pc[t] # "idle" => amount[t] # 0
    /\ pc[t] = "swap" => retries[t] <= MaxRetries /\ amount[t] <= seen[t] + new[t]
    /\ pc[t] = "short" => seen[t] + new[t] < amount[t]

SharedInv == BucketTypeOK /\ CallInv /\ Accounted

\* The claim's aggregate limit: up to now no more than the initial tokens and
\* the rate times the time have been granted.
WithinRate == Second * consumed <= Second * InitTokens + Rate * now

\* No other stream than t has ever called consume.
Alone(t) == \A s \in Threads \ {t} : amount[s] = 0

\* A claim that is used by one stream stays within its limit, although refills
\* are rounded, swaps fail and the clock moves between any two steps of a call.
AloneWithinRate == (\E t \in Threads : Alone(t)) => WithinRate

\* Why a single stream stays within the rate: the refill it is about to add was
\* computed from the last_refill_ms that is still there, and the tokens run
\* ahead of that timestamp only until it is stored.
Stamped(t) == pc[t] \notin {"granted", "wait"}

CreditInv ==
  \A t \in Threads : Alone(t) =>
    /\ last <= now /\ at[t] <= now
    /\ pc[t] \notin {"idle", "clock", "asleep", "gone"} => last <= at[t]
    /\ pc[t] \in {"read", "swap", "short"} => Second * new[t] + Rate * last <= Rate * at[t]
    /\ pc[t] \in {"swap", "short"} => tokens = seen[t]
    /\ Second * (tokens + consumed)
         <= Second * InitTokens + Rate * (IF Stamped(t) THEN last ELSE at[t])

\* A stream that waits for tokens gets them: every call of consume returns,
\* however large the chunk is compared to the tokens there are.
ConsumeReturns == \A t \in Threads : pc[t] = "clock" ~> pc[t] \in {"idle", "gone"}
===============================================================================
