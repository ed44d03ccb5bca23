-------------------------- MODULE TokenBucketProofs --------------------------
(* What the buckets promise, for every capacity, rate and number of hosts. *)
EXTENDS TokenBucket, TLAPS

(* What a bucket would hold if it were refilled now: RateBound becomes     *)
(* inductive when these tokens are added to those handed out.              *)
Credit(b) == granted[b] * Unit + Refilled(b) <= Full + (now - since) * Rate

BucketInv ==
  /\ BucketTypeOK
  /\ \A b \in Buckets : Credit(b)

(* The constants are numbers, and a bucket holds something. *)
LEMMA FullFact == Full \in Nat /\ Unit \in Nat /\ Rate \in Nat /\ Full > 0
  BY BucketAssumption DEF Full

(* A bucket holds between nothing and its capacity once it is refilled. *)
LEMMA RefilledRange ==
  ASSUME BucketTypeOK, NEW b \in Buckets
  PROVE  /\ Refilled(b) \in 0..Full
         /\ level[b] \in 0..Full
         /\ last[b] \in 0..now
         /\ granted[b] \in Nat
<1>1. level[b] \in 0..Full /\ last[b] \in 0..now /\ granted[b] \in Nat /\ now \in Nat
  BY DEF BucketTypeOK
<1>2. now - last[b] \in Nat
  BY <1>1
<1>3. (now - last[b]) * Rate \in Nat
  BY <1>2, FullFact
<1> QED
  BY <1>1, <1>3, FullFact DEF Refilled, Least

(* The buckets start in the invariant. *)
LEMMA BucketInitInv == BucketInit => BucketInv
<1> SUFFICES ASSUME BucketInit PROVE BucketInv
  OBVIOUS
<1>1. BucketTypeOK
  BY FullFact DEF BucketInit, BucketTypeOK
<1>2. ASSUME NEW b \in Buckets PROVE Credit(b)
  <2>1. granted[b] = 0 /\ now = 0 /\ since = 0
    BY DEF BucketInit
  <2>2. Refilled(b) \in 0..Full
    BY <1>1, RefilledRange
  <2>3. (now - since) * Rate = 0 /\ granted[b] * Unit = 0
    BY <2>1, FullFact
  <2> QED
    BY <2>2, <2>3, FullFact DEF Credit
<1> QED
  BY <1>1, <1>2 DEF BucketInv

(* Handing out a token takes from the bucket what it adds to the count. *)
LEMMA TakeKeeps ==
  ASSUME BucketInv, NEW c \in Buckets, TakeToken(c)
  PROVE  BucketInv'
<1> USE DEF BucketInv
<1>1. Refilled(c) \in 0..Full /\ Refilled(c) - Unit \in 0..Full
  BY RefilledRange, FullFact DEF TakeToken, HasToken
<1>2. BucketTypeOK'
  BY <1>1 DEF BucketTypeOK, TakeToken
<1>3. ASSUME NEW b \in Buckets PROVE Credit(b)'
  <2>1. CASE b = c
    <3>1. level'[b] = Refilled(b) - Unit /\ last'[b] = now /\ granted'[b] = granted[b] + 1
      BY <2>1 DEF TakeToken, BucketTypeOK
    <3>2. now' = now /\ since' = since
      BY DEF TakeToken
    <3>3. (now' - last'[b]) * Rate = 0
      BY <3>1, <3>2, FullFact DEF BucketTypeOK
    <3>4. Refilled(b)' = Refilled(b) - Unit
      BY <3>1, <3>2, <3>3, <1>1, <2>1, FullFact DEF Refilled, Least
    <3>5. granted'[b] * Unit = granted[b] * Unit + Unit
      BY <3>1, FullFact, RefilledRange
    <3>6. granted[b] * Unit \in Nat
      BY FullFact, RefilledRange
    <3>7. (now - since) * Rate \in Nat
      BY FullFact DEF BucketTypeOK
    <3>8. Credit(b)
      OBVIOUS
    <3> QED
      BY <1>1, <2>1, <3>2, <3>4, <3>5, <3>6, <3>7, <3>8, FullFact DEF Credit
  <2>2. CASE b # c
    <3>1. level'[b] = level[b] /\ last'[b] = last[b] /\ granted'[b] = granted[b]
      BY <2>2 DEF TakeToken, BucketTypeOK
    <3> QED
      BY <3>1 DEF TakeToken, Credit, Refilled
  <2> QED
    BY <2>1, <2>2
<1> QED
  BY <1>2, <1>3

(* Looking at a bucket in vain refills it, which it counted already. *)
LEMMA MissKeeps ==
  ASSUME BucketInv, NEW c \in Buckets, MissToken(c)
  PROVE  BucketInv'
<1> USE DEF BucketInv
<1>1. Refilled(c) \in 0..Full
  BY RefilledRange
<1>2. BucketTypeOK'
  BY <1>1 DEF BucketTypeOK, MissToken
<1>3. ASSUME NEW b \in Buckets PROVE Credit(b)'
  <2>1. CASE b = c
    <3>1. level'[b] = Refilled(b) /\ last'[b] = now /\ granted'[b] = granted[b]
      BY <2>1 DEF MissToken, BucketTypeOK
    <3>2. now' = now /\ since' = since
      BY DEF MissToken
    <3>3. (now' - last'[b]) * Rate = 0
      BY <3>1, <3>2, FullFact DEF BucketTypeOK
    <3>4. Refilled(b)' = Refilled(b)
      BY <3>1, <3>2, <3>3, <1>1, <2>1, FullFact DEF Refilled, Least
    <3> QED
      BY <3>1, <3>2, <3>4 DEF Credit
  <2>2. CASE b # c
    <3>1. level'[b] = level[b] /\ last'[b] = last[b]
      BY <2>2 DEF MissToken, BucketTypeOK
    <3> QED
      BY <3>1 DEF MissToken, Credit, Refilled
  <2> QED
    BY <2>1, <2>2
<1> QED
  BY <1>2, <1>3

(* A tick adds at most Rate parts to a bucket, and Rate to the bound. *)
LEMMA TickKeeps ==
  ASSUME BucketInv, Tick
  PROVE  BucketInv'
<1> USE DEF BucketInv
<1>1. BucketTypeOK'
  BY DEF BucketTypeOK, Tick
<1>2. ASSUME NEW b \in Buckets PROVE Credit(b)'
  <2>1. now' = now + 1 /\ level'[b] = level[b] /\ last'[b] = last[b] /\ since' = since
        /\ granted'[b] = granted[b]
    BY DEF Tick
  <2>2. now \in Nat /\ since \in 0..now /\ last[b] \in 0..now /\ level[b] \in 0..Full
    BY DEF BucketTypeOK
  <2> DEFINE x == now - last[b]
             y == now - since
  <2>3. x \in Nat /\ y \in Nat
    BY <2>2
  <2>4. (x + 1) * Rate = x * Rate + Rate /\ (y + 1) * Rate = y * Rate + Rate
    BY <2>3, FullFact
  <2>5. x * Rate \in Nat /\ y * Rate \in Nat
    BY <2>3, FullFact
  <2>6. now' - last'[b] = x + 1 /\ now' - since' = y + 1
    BY <2>1, <2>2
  <2>7. Refilled(b)' <= Refilled(b) + Rate
    BY <2>1, <2>2, <2>4, <2>5, <2>6, FullFact DEF Refilled, Least
  <2>8. Refilled(b)' \in 0..Full
    <3>1. level'[b] + (now' - last'[b]) * Rate \in Nat
      BY <2>1, <2>2, <2>4, <2>5, <2>6, FullFact
    <3> QED
      BY <3>1, FullFact DEF Refilled, Least
  <2>9. granted[b] * Unit \in Nat
    BY FullFact, RefilledRange
  <2>10. Credit(b) /\ Refilled(b) \in 0..Full
    BY RefilledRange
  <2> QED
    BY <2>1, <2>4, <2>5, <2>6, <2>7, <2>8, <2>9, <2>10, FullFact DEF Credit
<1> QED
  BY <1>1, <1>2

(* A window that has just been opened has at most a full bucket ahead. *)
LEMMA WatchKeeps ==
  ASSUME BucketInv, Watch
  PROVE  BucketInv'
<1> USE DEF BucketInv
<1>1. BucketTypeOK'
  BY DEF BucketTypeOK, Watch
<1>2. ASSUME NEW b \in Buckets PROVE Credit(b)'
  <2>1. granted'[b] = 0 /\ now' = now /\ since' = now /\ Refilled(b)' = Refilled(b)
    BY DEF Watch, Refilled
  <2>2. Refilled(b) \in 0..Full
    BY RefilledRange
  <2>3. (now' - since') * Rate = 0 /\ granted'[b] * Unit = 0
    BY <2>1, FullFact DEF BucketTypeOK
  <2> QED
    BY <2>1, <2>2, <2>3, FullFact DEF Credit
<1> QED
  BY <1>1, <1>2

(* Every step keeps the invariant. *)
LEMMA BucketStep == BucketInv /\ [BucketNext]_bucketVars => BucketInv'
<1> SUFFICES ASSUME BucketInv, [BucketNext]_bucketVars PROVE BucketInv'
  OBVIOUS
<1>1. CASE \E b \in Buckets : TakeToken(b) \/ MissToken(b)
  BY <1>1, TakeKeeps, MissKeeps
<1>2. CASE Tick
  BY <1>2, TickKeeps
<1>3. CASE Watch
  BY <1>3, WatchKeeps
<1>4. CASE UNCHANGED bucketVars
  BY <1>4 DEF bucketVars, BucketInv, BucketTypeOK, Credit, Refilled
<1> QED
  BY <1>1, <1>2, <1>3, <1>4 DEF BucketNext

(* A bucket grants no more than it holds and what time has refilled. *)
LEMMA InvGivesRateBound == BucketInv => RateBound
<1> SUFFICES ASSUME BucketInv, NEW b \in Buckets
             PROVE  granted[b] * Unit <= Full + (now - since) * Rate
  BY DEF RateBound
<1>1. Credit(b) /\ Refilled(b) \in 0..Full /\ granted[b] * Unit \in Nat
  BY RefilledRange, FullFact DEF BucketInv
<1>2. (now - since) * Rate \in Nat
  BY FullFact DEF BucketInv, BucketTypeOK
<1> QED
  BY <1>1, <1>2, FullFact DEF Credit

(* Type correctness of the buckets: no bucket is ever below zero or above  *)
(* its capacity, and none was refilled in the future.                      *)
THEOREM BucketTypeCorrect == BucketSpec => []BucketTypeOK
<1>1. BucketInv => BucketTypeOK
  BY DEF BucketInv
<1> QED
  BY BucketInitInv, BucketStep, <1>1, PTL DEF BucketSpec

(* In every window of time, and for any number of waiting tasks, a bucket  *)
(* of the client hands out at most its capacity and what the rate adds.    *)
THEOREM RateLimited == BucketSpec => []RateBound
  BY BucketInitInv, BucketStep, InvGivesRateBound, PTL DEF BucketSpec

=============================================================================
