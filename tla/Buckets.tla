------------------------------- MODULE Buckets -------------------------------
(***************************************************************************)
(* What the three bucket tables have in common: the attempts of the gate   *)
(* (GateAttempts), the scans of a client (ClientLimiter) and the scans of  *)
(* a host (TargetLimiter). Each is a map from keys to buckets, a clock,    *)
(* and a timer that is armed while the map holds anything.                 *)
(*                                                                         *)
(* Tokens are counted in the ticks it takes to earn them, so that one call *)
(* costs Refill and a fraction of a token is a whole number.               *)
(***************************************************************************)
EXTENDS Integers, FiniteSets

CONSTANTS
  Keys, Callers,
  Burst,       \* Burst[k]: the calls k may make back to back
  Refill,      \* ticks to earn one call
  MaxKeys,     \* bound of the map
  SweepEvery,  \* ticks between sweeps, and the timer's period
  MaxDelay,    \* ticks that may pass between reading the clock and the lock
  MaxTime,     \* bound: the clock stops here
  Watched      \* the keys whose spending the history counts

ASSUME BucketsAssumption ==
  /\ IsFiniteSet(Keys)
  /\ Burst \in [Keys -> Nat \ {0}]
  /\ Refill \in Nat \ {0}
  /\ MaxKeys \in Nat \ {0}
  /\ SweepEvery \in Nat \ {0}
  /\ MaxDelay \in Nat
  /\ MaxTime \in Nat
  /\ Watched \subseteq Keys

VARIABLES
  now,
  buckets,     \* key -> [tokens, seen]
  lastSweep, lastForced,
  timer,       \* when the timer will run, or Unarmed
  called,      \* what each caller has read on its way to the lock, or NotCalling
  answer,      \* history: the last call's answer
  mark, spent  \* history: as in RateContract

bucketVars == <<now, buckets, lastSweep, lastForced, timer, called, answer, mark, spent>>

Unarmed == -1
NotCalling == [key |-> "none"]
NoAnswer == [ok |-> "none"]
Tracked == DOMAIN buckets
Allowance(k) == Burst[k] * Refill
Least(a, b) == IF a < b THEN a ELSE b

BucketsTypeOK ==
  /\ now \in Nat
  /\ Tracked \subseteq Keys
  /\ \A k \in Tracked : /\ buckets[k].tokens \in 0 .. Allowance(k)
                        /\ buckets[k].seen \in 0 .. now
  /\ lastSweep \in 0 .. now
  /\ lastForced \in -1 .. now
  /\ timer \in {Unarmed} \cup Nat
  /\ called \in [Callers -> {NotCalling} \cup [key : Keys, at : 0 .. now]]
  /\ spent \in [Watched -> Nat]

BucketsInit ==
  /\ now = 0
  /\ buckets = [k \in {} |-> 0]
  /\ lastSweep = 0
  /\ lastForced = -1
  /\ timer = Unarmed
  /\ called = [c \in Callers |-> NotCalling]
  /\ answer = NoAnswer
  /\ mark = 0
  /\ spent = [k \in Watched |-> 0]

\* The bucket of k as it stands at time t, before the call is charged; a clock
\* read before the bucket was last touched refills nothing.
\* (Fault: the refill is not capped at the allowance.)
ToppedOver(b, k, t) == b.tokens + (IF t > b.seen THEN t - b.seen ELSE 0)
Topped(b, k, t) ==
  Least(Allowance(k), b.tokens + (IF t > b.seen THEN t - b.seen ELSE 0))

\* Without the keys of F. A key dropped before its allowance is whole gets a new
\* account.
Without(F) == [k \in Tracked \ F |-> buckets[k]]
IsWhole(k) == buckets[k].tokens + (now - buckets[k].seen) >= Allowance(k)
AccountsWithout(F) ==
  [k \in Watched |-> IF k \in F \cap Tracked /\ ~IsWhole(k) THEN 0 ELSE spent[k]]

\* Charge k in the table m, or refuse it. A call that is refused leaves what it
\* topped up behind.
Charge(m, acc, k, tokens, t) ==
  LET ok == tokens >= Refill
      b == [tokens |-> IF ok THEN tokens - Refill ELSE tokens, seen |-> t]
  IN  /\ buckets' = [x \in DOMAIN m \cup {k} |-> IF x = k THEN b ELSE m[x]]
      /\ spent' = [x \in Watched |-> acc[x] + (IF ok /\ x = k THEN Refill ELSE 0)]
      /\ answer' = [key |-> k, ok |-> ok]

\* The clock. Timers run when they are due, and a caller does not wait longer
\* than MaxDelay for the lock.
Tick ==
  /\ now < MaxTime
  /\ timer # Unarmed => now < timer
  /\ \A c \in Callers : called[c] # NotCalling => now - called[c].at < MaxDelay
  /\ now' = now + 1
  /\ answer' = NoAnswer
  /\ UNCHANGED <<buckets, lastSweep, lastForced, timer, called, mark, spent>>

\* The window of WithinAllowance starts once, at any time.
Mark ==
  /\ mark = 0
  /\ now > 0
  /\ mark' = now
  /\ spent' = [k \in Watched |-> 0]
  /\ answer' = NoAnswer
  /\ UNCHANGED <<now, buckets, lastSweep, lastForced, timer, called>>

-----------------------------------------------------------------------------

\* The whole map of buckets as the contract sees it.
FullAt(k) ==
  IF k \in Tracked THEN buckets[k].seen + Allowance(k) - buckets[k].tokens ELSE 0

Contract == INSTANCE RateContract
  WITH Cost <- Refill, Cap <- [k \in Keys |-> Allowance(k)],
       clock <- now, full <- [k \in Keys |-> FullAt(k)]

\* Every table of buckets is as good as one that never forgets: it admits and
\* refuses exactly what the contract does, although it sweeps keys away on
\* requests and on a timer, and forgets a key early only to stay within MaxKeys.
KeepsContract == Contract!ContractSpec

\* "One scan per refill interval for ever, whatever the bucket holds"
\* (targetlimit.go): the contract's bound on the table itself, with MaxDelay ticks
\* allowed for the calls on their way to the lock when the window starts, whose
\* readings are that old.
WithinAllowanceAndDelay ==
  \A k \in Watched : spent[k] <= Allowance(k) + (now - mark) + MaxDelay
=============================================================================
