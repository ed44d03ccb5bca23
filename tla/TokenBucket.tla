----------------------------- MODULE TokenBucket -----------------------------
(***************************************************************************)
(* The token buckets of the HTTP client: one per host, and one for all     *)
(* requests.  A bucket is refilled lazily, when somebody acquires from it. *)
(*                                                                         *)
(* Time is counted in ticks and tokens in parts: Unit parts are one token, *)
(* and Rate parts come in per tick, so that the code's real numbers become *)
(* integers.  A bucket that is created on first use is full, as one that   *)
(* was never used is, so all of them exist from the start.                 *)
(***************************************************************************)
EXTENDS Integers

CONSTANTS
  Hosts,      \* hosts requests go to
  Global,     \* the bucket shared by all hosts
  Capacity,   \* tokens a bucket holds
  Unit,       \* parts of a token
  Rate,       \* parts refilled per tick
  MaxTime     \* bound on the clock

ASSUME BucketAssumption ==
  /\ Global \notin Hosts
  /\ Capacity \in Nat \ {0}
  /\ Unit \in Nat \ {0}
  /\ Rate \in Nat \ {0}
  /\ MaxTime \in Nat

VARIABLES
  now,      \* time.monotonic()
  level,    \* _tokens of each bucket
  last,     \* _last of each bucket
  since,    \* history: when the window of observation was opened
  granted   \* history: tokens handed out in that window

bucketVars == <<now, level, last, since, granted>>

Buckets == Hosts \cup {Global}
Full    == Capacity * Unit

Least(a, b) == IF a <= b THEN a ELSE b

(* Faulty forms of the operator below. *)
RefilledOver(b) == level[b] + (now - last[b]) * Rate

(* What the bucket holds once it is refilled. *)
Refilled(b) == Least(Full, level[b] + (now - last[b]) * Rate)

HasToken(b) == Refilled(b) >= Unit

(* Ticks until the missing part has come in, rounded up. *)
Delay(b) == (Unit - Refilled(b) + Rate - 1) \div Rate

BucketInit ==
  /\ now = 0
  /\ level = [b \in Buckets |-> Full]
  /\ last = [b \in Buckets |-> 0]
  /\ since = 0
  /\ granted = [b \in Buckets |-> 0]

(* One turn of the loop of acquire: the lock is never waited for, because  *)
(* nothing suspends while it is held.                                      *)
TakeToken(b) ==
  /\ HasToken(b)
  /\ level' = [level EXCEPT ![b] = Refilled(b) - Unit]
  /\ last' = [last EXCEPT ![b] = now]
  /\ granted' = [granted EXCEPT ![b] = @ + 1]
  /\ UNCHANGED <<now, since>>

MissToken(b) ==
  /\ ~HasToken(b)
  /\ level' = [level EXCEPT ![b] = Refilled(b)]
  /\ last' = [last EXCEPT ![b] = now]
  /\ UNCHANGED <<now, since, granted>>

Tick ==
  /\ now < MaxTime
  /\ now' = now + 1
  /\ UNCHANGED <<level, last, since, granted>>

(* The window over which requests are counted may be opened at any time. *)
Watch ==
  /\ since' = now
  /\ granted' = [b \in Buckets |-> 0]
  /\ UNCHANGED <<now, level, last>>

BucketNext ==
  \/ \E b \in Buckets : TakeToken(b) \/ MissToken(b)
  \/ Tick \/ Watch

BucketSpec == BucketInit /\ [][BucketNext]_bucketVars

BucketTypeOK ==
  /\ now \in Nat
  /\ level \in [Buckets -> 0..Full]
  /\ last \in [Buckets -> 0..now]
  /\ since \in 0..now
  /\ granted \in [Buckets -> Nat]

(* In every window of time a bucket hands out at most one bucketful and    *)
(* what the rate adds meanwhile, however many tasks wait for it.           *)
RateBound ==
  \A b \in Buckets : granted[b] * Unit <= Full + (now - since) * Rate

=============================================================================
