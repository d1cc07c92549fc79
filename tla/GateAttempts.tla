---------------------------- MODULE GateAttempts ----------------------------
(***************************************************************************)
(* The sign-in attempts of internal/access/gate.go: allow, sweep and       *)
(* sweepLocked. The clock is read under the lock, so a call is one step.   *)
(* SweepEvery is attemptInterval, the timer's period.                      *)
(***************************************************************************)
EXTENDS Buckets

\* attemptsForgotten: by then the allowance has come back.
Forgotten(k) == Allowance(k)

Idle(m) == {k \in DOMAIN m : now - m[k].seen >= Forgotten(k)}

\* sweepLocked arms the timer for what is left.
Arm(held) == timer' = IF held # {} /\ timer = Unarmed THEN now + SweepEvery ELSE timer

Allow(k) ==
  LET full == k \notin Tracked /\ Cardinality(Tracked) >= MaxKeys
      gone == IF full THEN Tracked ELSE Idle(buckets) \ {k}
      left == Without(gone)
      b    == IF k \in Tracked THEN buckets[k]
                               ELSE [tokens |-> Allowance(k), seen |-> now]
  IN  /\ Charge(left, AccountsWithout(gone), k, Topped(b, k, now), now)
      /\ Arm(DOMAIN left \cup {k})
      /\ UNCHANGED <<now, lastSweep, lastForced, called, mark>>

\* The timer: forget, and go on while anything is left.
Sweep ==
  /\ timer # Unarmed
  /\ now >= timer
  /\ buckets' = Without(Idle(buckets))
  /\ spent' = AccountsWithout(Idle(buckets))
  /\ timer' = IF Tracked \subseteq Idle(buckets) THEN Unarmed ELSE now + SweepEvery
  /\ answer' = NoAnswer
  /\ UNCHANGED <<now, lastSweep, lastForced, called, mark>>

AttemptsNext == Tick \/ Mark \/ Sweep \/ \E k \in Keys : Allow(k)

\* "Dropped within six minutes of its last attempt" (privacy page): the time an
\* allowance takes to come back, and one period of the timer.
AttemptsRetention ==
  \A k \in Tracked : now - buckets[k].seen <= Forgotten(k) + SweepEvery
=============================================================================
