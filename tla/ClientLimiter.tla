---------------------------- MODULE ClientLimiter ----------------------------
(***************************************************************************)
(* The limiter of internal/httpapi/limit.go: scans, reads and proofs per   *)
(* client. allow reads the clock before it takes the lock, so a call is    *)
(* two steps, and other callers and the timer run between them.            *)
(***************************************************************************)
EXTENDS Buckets

CONSTANT ForcedEvery  \* ticks between forced sweeps

NeverForced == -1

\* The retention is one figure for all clients: they have the same burst.
idlePeriod(k) == 2 * Allowance(k)

\* What a sweep at time t forgets.
Stale(m, t) == {k \in DOMAIN m : t - m[k].seen > idlePeriod(k)}

\* sweepLocked, on a call: at most once every SweepEvery.
SweepDue(t) == t - lastSweep >= SweepEvery
Swept(t) == IF SweepDue(t) THEN Stale(buckets, t) ELSE {}

ReadClock(c, k) ==
  /\ called[c] = NotCalling
  /\ called' = [called EXCEPT ![c] = [key |-> k, at |-> now]]
  /\ answer' = NoAnswer
  /\ UNCHANGED <<now, buckets, lastSweep, lastForced, timer, mark, spent>>

\* makeRoomLocked: the keys it drops beyond those of Swept, and whether it
\* forced a sweep. A forced sweep first, at most once every ForcedEvery, then
\* one entry, whichever the map's iteration yields.
Forced(t) == lastForced = NeverForced \/ t - lastForced >= ForcedEvery
MakesRoom(k, t, room) ==
  LET left == Tracked \ Swept(t)
      full == k \notin left /\ Cardinality(left) >= MaxKeys
      more == IF Forced(t) THEN Stale(buckets, t) ELSE {}
  IN  IF ~full THEN room = {}
      ELSE \/ Cardinality(left \ more) < MaxKeys /\ room = more
           \/ Cardinality(left \ more) >= MaxKeys /\ \E x \in left \ more : room = more \cup {x}

\* The rest of allow, under the lock, with the clock c read before it.
Allow(c) ==
  LET k == called[c].key
      t == called[c].at
  IN  /\ called[c] # NotCalling
      /\ \E room \in SUBSET Tracked :
           LET gone == Swept(t) \cup room
               left == Without(gone)
               fresh == [tokens |-> Allowance(k), seen |-> t]
               full == k \notin Tracked \ Swept(t) /\ Cardinality(Tracked \ Swept(t)) >= MaxKeys
           IN  /\ MakesRoom(k, t, room)
               /\ Charge(left, AccountsWithout(gone), k,
                         Topped(IF k \in DOMAIN left THEN buckets[k] ELSE fresh, k, t), t)
               /\ lastSweep' = IF SweepDue(t) \/ (full /\ Forced(t)) THEN t ELSE lastSweep
               /\ lastForced' = IF full /\ Forced(t) THEN t ELSE lastForced
      /\ timer' = IF k \notin Tracked \ Swept(t) /\ timer = Unarmed
                    THEN now + SweepEvery ELSE timer
      /\ called' = [called EXCEPT ![c] = NotCalling]
      /\ UNCHANGED <<now, mark>>

\* idleTick: a sweep with the clock of now, and the timer again while anything
\* is left.
\* (Fault: the timer is armed again by the next new client only.)
IdleTickOnce ==
  LET gone == Stale(buckets, now)
  IN  /\ timer # Unarmed
      /\ now >= timer
      /\ buckets' = Without(gone)
      /\ spent' = AccountsWithout(gone)
      /\ lastSweep' = now
      /\ timer' = Unarmed
      /\ answer' = NoAnswer
      /\ UNCHANGED <<now, lastForced, called, mark>>
IdleTick ==
  LET gone == Stale(buckets, now)
  IN  /\ timer # Unarmed
      /\ now >= timer
      /\ buckets' = Without(gone)
      /\ spent' = AccountsWithout(gone)
      /\ lastSweep' = now
      /\ timer' = IF Tracked \subseteq gone THEN Unarmed ELSE now + SweepEvery
      /\ answer' = NoAnswer
      /\ UNCHANGED <<now, lastForced, called, mark>>

ClientNext ==
  \/ Tick \/ Mark \/ IdleTick
  \/ \E c \in Callers : Allow(c) \/ \E k \in Keys : ReadClock(c, k)

\* RetentionPeriod: "the worst case is that plus one sweep interval".
ClientRetention ==
  \A k \in Tracked : now - buckets[k].seen <= idlePeriod(k) + SweepEvery
=============================================================================
