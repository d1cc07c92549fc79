---------------------------- MODULE TargetLimiter ----------------------------
(***************************************************************************)
(* The limiter of internal/httpapi/targetlimit.go: how often one host is   *)
(* scanned, whoever asks. A key is a bucket of hosts (bucketFor), each     *)
(* with an allowance of its own (burstFor). As in ClientLimiter, the clock *)
(* is read before the lock is taken.                                       *)
(***************************************************************************)
EXTENDS Buckets

\* What a sweep at time t forgets: buckets that are whole again.
\* (Fault: whole but for one call.)
NearlyRefilled(m, t) ==
  {k \in DOMAIN m : m[k].tokens + (t - m[k].seen) + Refill >= Allowance(k)}
Refilled(m, t) == {k \in DOMAIN m : m[k].tokens + (t - m[k].seen) >= Allowance(k)}

SweepDue(t) == t - lastSweep >= SweepEvery
Swept(t) == IF SweepDue(t) THEN Refilled(buckets, t) ELSE {}

ReadClock(c, k) ==
  /\ called[c] = NotCalling
  /\ called' = [called EXCEPT ![c] = [key |-> k, at |-> now]]
  /\ answer' = NoAnswer
  /\ UNCHANGED <<now, buckets, lastSweep, lastForced, timer, mark, spent>>

\* The rest of allow, under the lock. The table has room for every bucket that
\* can exist; a full one would turn away a host it has not seen.
Allow(c) ==
  LET k == called[c].key
      t == called[c].at
      left == Without(Swept(t))
      fresh == [tokens |-> Allowance(k), seen |-> t]
  IN  /\ called[c] # NotCalling
      /\ IF k \notin DOMAIN left /\ Cardinality(DOMAIN left) >= MaxKeys
           THEN /\ buckets' = left
                /\ spent' = AccountsWithout(Swept(t))
                /\ answer' = [key |-> k, ok |-> FALSE]
                /\ UNCHANGED timer
           ELSE /\ Charge(left, AccountsWithout(Swept(t)), k,
                          Topped(IF k \in DOMAIN left THEN buckets[k] ELSE fresh, k, t), t)
                /\ timer' = IF k \notin DOMAIN left /\ timer = Unarmed
                              THEN now + SweepEvery ELSE timer
      /\ lastSweep' = IF SweepDue(t) THEN t ELSE lastSweep
      /\ called' = [called EXCEPT ![c] = NotCalling]
      /\ UNCHANGED <<now, lastForced, mark>>

IdleTick ==
  LET gone == Refilled(buckets, now)
  IN  /\ timer # Unarmed
      /\ now >= timer
      /\ buckets' = Without(gone)
      /\ spent' = AccountsWithout(gone)
      /\ lastSweep' = now
      /\ timer' = IF Tracked \subseteq gone THEN Unarmed ELSE now + SweepEvery
      /\ answer' = NoAnswer
      /\ UNCHANGED <<now, lastForced, called, mark>>

TargetNext ==
  \/ Tick \/ Mark \/ IdleTick
  \/ \E c \in Callers : Allow(c) \/ \E k \in Keys : ReadClock(c, k)

\* "Dropping it then keeps what this process knows to about half a minute"
\* (sweepLocked): a host is held for what its allowance lacked after the last
\* call, and one sweep interval.
TargetRetention ==
  \A k \in Tracked :
    now - buckets[k].seen <= Allowance(k) - buckets[k].tokens + SweepEvery
=============================================================================
