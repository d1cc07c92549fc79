----------------------------- MODULE BucketsProofs -----------------------------
(***************************************************************************)
(* Proofs about the three bucket tables, for any keys, allowances, periods *)
(* and bounds: what they hold, for how long, and that each of them keeps   *)
(* the contract of module RateContract, so that its bound is one on them.  *)
(*                                                                         *)
(* Neither the retention nor the contract is inductive: the invariant adds *)
(* that the timer is armed and near while anything is held (Timely), that  *)
(* no caller is on its way for long (OnTheWay), and that no bucket held is *)
(* whole (Owing): the table holds just what the contract remembers.        *)
(***************************************************************************)
EXTENDS MCBuckets, FiniteSetTheorems, TLAPS

\* A call at time t for k on a table that has forgotten the keys of F: what the three
\* tables have in common.
Holding(F, k, t) == IF k \in Tracked \ F THEN buckets[k] ELSE [tokens |-> Allowance(k), seen |-> t]
Calls(F, k, t) == Charge(Without(F), AccountsWithout(F), k, Topped(Holding(F, k, t), k, t), t)
Forgets(F) == buckets' = Without(F) /\ spent' = AccountsWithout(F) /\ answer' = NoAnswer

Retention(k) ==
  IF part = "attempts" THEN Allowance(k)
  ELSE IF part = "clients" THEN 2 * Allowance(k) ELSE Allowance(k) - buckets[k].tokens

\* Callers are held up between clock and lock for a tick at most, or not at all; those of
\* the gate read the clock under the lock.
WithinATick == MaxDelay <= 1 \/ Parts \subseteq {"attempts"}
NoDelay == MaxDelay = 0 \/ Parts \subseteq {"attempts"}

\* The timer is armed while anything is held, and is due within one period; no bucket is
\* then older than its retention and that period.
Timely ==
  /\ timer = Unarmed => Tracked = {}
  /\ timer # Unarmed => now <= timer /\ timer <= now + SweepEvery
  /\ WithinATick => \A k \in Tracked : timer - buckets[k].seen <= Retention(k) + SweepEvery

OnTheWay == \A c \in Callers : called[c] # NotCalling => part # "attempts" /\ now - called[c].at <= MaxDelay
Owing == \A k \in Tracked : buckets[k].tokens < Allowance(k)
Bounded == part # "targets" => Cardinality(Tracked) <= MaxKeys

BucketsInv == BucketsTypeOK /\ Timely /\ OnTheWay /\ Owing /\ Bounded /\ part \in Parts

\* Whether k has its whole allowance at time t.
WholeAt(k, t) == buckets[k].tokens + (t - buckets[k].seen) >= Allowance(k)

\* A call is answered: F makes room only in a full table, and the timer is armed.
Answered(F, k, t) ==
  /\ Calls(F, k, t)
  /\ (\A x \in F : WholeAt(x, t)) \/ Cardinality(Tracked) >= MaxKeys
  /\ part # "targets" => Cardinality((Tracked \ F) \cup {k}) <= MaxKeys
  /\ timer' = IF timer = Unarmed THEN now + SweepEvery ELSE timer
  /\ now - t <= MaxDelay /\ (part = "attempts" => t = now)
  /\ lastSweep' \in {lastSweep, t} /\ lastForced' \in {lastForced, t}
  /\ called' \in {called} \cup {[called EXCEPT ![c] = NotCalling] : c \in Callers}
  /\ UNCHANGED <<now, mark, part>>

\* The timer has run and the keys of F are forgotten, all of them whole again.
Swept(F) ==
  /\ Forgets(F)
  /\ \A x \in F : WholeAt(x, now)
  /\ \A x \in Tracked \ F : now - buckets[x].seen <= Retention(x)
  /\ timer # Unarmed /\ now >= timer
  /\ timer' = IF Tracked \subseteq F THEN Unarmed ELSE now + SweepEvery
  /\ lastSweep' \in {lastSweep, now}
  /\ UNCHANGED <<now, lastForced, called, mark, part>>

-----------------------------------------------------------------------------

\* An allowance is worth a call at least.
LEMMA AllowanceIsSome == \A k \in Keys : Allowance(k) \in Nat /\ Allowance(k) >= Refill /\ Refill \in Nat \ {0}
<1> TAKE k \in Keys
<1> DEFINE b == Burst[k]
<1>1. b \in Nat \ {0} /\ Refill \in Nat \ {0}
  BY BucketsAssumption DEF BucketsAssumption
<1>2. b * Refill \in Nat /\ b * Refill >= Refill
  <2> HIDE DEF b
  <2> QED
    BY <1>1
<1> QED
  BY <1>1, <1>2 DEF Allowance

\* What a call leaves of the table.
LEMMA CallShape ==
  ASSUME BucketsTypeOK, Owing, NEW F \in SUBSET Keys, NEW k \in Keys, NEW t \in 0 .. now, Calls(F, k, t)
  PROVE  /\ Tracked' = (Tracked \ F) \cup {k}
         /\ \A x \in Tracked \ F : x # k => buckets'[x] = buckets[x]
         /\ buckets'[k].seen = t
         /\ buckets'[k].tokens \in 0 .. Allowance(k)
         /\ buckets'[k].tokens < Allowance(k)
         /\ spent' \in [Watched -> Nat]
<1> DEFINE b == Holding(F, k, t)
           tokens == Topped(b, k, t)
           rest == IF tokens >= Refill THEN tokens - Refill ELSE tokens
<1>1. Allowance(k) \in Nat /\ Allowance(k) >= Refill /\ Refill \in Nat \ {0} /\ now \in Nat
  BY AllowanceIsSome DEF BucketsTypeOK
<1>2. b.tokens \in 0 .. Allowance(k) /\ b.seen \in 0 .. now
  BY <1>1 DEF Holding, BucketsTypeOK
<1>3. tokens \in 0 .. Allowance(k)
  <2> HIDE DEF b
  <2> QED
    BY <1>1, <1>2 DEF Topped, Least
<1>4. rest \in 0 .. Allowance(k) /\ rest < Allowance(k)
  <2> HIDE DEF tokens
  <2> QED
    BY <1>1, <1>3
<1>5. buckets' = [x \in (Tracked \ F) \cup {k} |-> IF x = k THEN [tokens |-> rest, seen |-> t] ELSE Without(F)[x]]
  BY DEF Calls, Charge, Without
<1>6. \A x \in Tracked \ F : Without(F)[x] = buckets[x]
  BY DEF Without
<1>7. spent' \in [Watched -> Nat]
  <2>1. AccountsWithout(F) \in [Watched -> Nat]
    BY DEF AccountsWithout, BucketsTypeOK
  <2>2. spent' = [x \in Watched |-> AccountsWithout(F)[x] + (IF tokens >= Refill /\ x = k THEN Refill ELSE 0)]
    BY DEF Calls, Charge
  <2> HIDE DEF tokens
  <2> QED
    BY <1>1, <2>1, <2>2
<1> HIDE DEF rest
<1> QED
  BY <1>4, <1>5, <1>6, <1>7 DEF Tracked

\* What a sweep leaves of the table.
LEMMA SweepShape ==
  ASSUME BucketsTypeOK, NEW F \in SUBSET Keys, Forgets(F)
  PROVE  /\ Tracked' = Tracked \ F
         /\ \A x \in Tracked \ F : buckets'[x] = buckets[x]
         /\ spent' \in [Watched -> Nat]
<1>1. buckets' = [x \in Tracked \ F |-> buckets[x]] /\ spent' = AccountsWithout(F)
  BY DEF Forgets, Without
<1>2. AccountsWithout(F) \in [Watched -> Nat]
  BY DEF AccountsWithout, BucketsTypeOK
<1> QED
  BY <1>1, <1>2 DEF Tracked

-----------------------------------------------------------------------------

\* The operators of an instance are those of Buckets, under another name.
LEMMA SameCount ==
  \A S : /\ Attempts!Cardinality(S) = Cardinality(S)
         /\ Clients!Cardinality(S) = Cardinality(S)
         /\ Targets!Cardinality(S) = Cardinality(S)
         /\ Contract!Cardinality(S) = Cardinality(S)
<1>1. \A S : Attempts!Cardinality(S) = Cardinality(S)
  BY Zenon DEF Attempts!Cardinality, Cardinality, Attempts!IsFiniteSet, IsFiniteSet
<1>2. \A S : Clients!Cardinality(S) = Cardinality(S)
  BY Zenon DEF Clients!Cardinality, Cardinality, Clients!IsFiniteSet, IsFiniteSet
<1>3. \A S : Targets!Cardinality(S) = Cardinality(S)
  BY Zenon DEF Targets!Cardinality, Cardinality, Targets!IsFiniteSet, IsFiniteSet
<1>4. \A S : Contract!Cardinality(S) = Cardinality(S)
  BY Zenon DEF Contract!Cardinality, Cardinality, Contract!IsFiniteSet, IsFiniteSet
<1> QED
  BY <1>1, <1>2, <1>3, <1>4

LEMMA SameAttempts ==
  /\ \A F : Attempts!Without(F) = Without(F) /\ Attempts!AccountsWithout(F) = AccountsWithout(F)
  /\ \A m, acc, k, tokens, t : Attempts!Charge(m, acc, k, tokens, t) <=> Charge(m, acc, k, tokens, t)
  /\ \A b, k, t : Attempts!Topped(b, k, t) = Topped(b, k, t)
  /\ \A k : Attempts!Allowance(k) = Allowance(k)
  /\ Attempts!Tracked = Tracked /\ Attempts!Unarmed = Unarmed /\ Attempts!NotCalling = NotCalling /\ Attempts!NoAnswer = NoAnswer
<1>1. Attempts!Tracked = Tracked /\ Attempts!Unarmed = Unarmed /\ Attempts!NotCalling = NotCalling /\ Attempts!NoAnswer = NoAnswer
  BY DEF Attempts!Tracked, Tracked, Attempts!Unarmed, Unarmed, Attempts!NotCalling, NotCalling, Attempts!NoAnswer, NoAnswer
<1>2. \A k : Attempts!Allowance(k) = Allowance(k) /\ (Attempts!IsWhole(k) <=> IsWhole(k))
  BY Zenon DEF Attempts!Allowance, Allowance, Attempts!IsWhole, IsWhole
<1>3. \A F : Attempts!Without(F) = Without(F) /\ Attempts!AccountsWithout(F) = AccountsWithout(F)
  BY <1>1, <1>2, Zenon DEF Attempts!Without, Without, Attempts!AccountsWithout, AccountsWithout
<1>4. \A b, k, t : Attempts!Topped(b, k, t) = Topped(b, k, t)
  BY <1>2, Zenon DEF Attempts!Topped, Topped, Attempts!Least, Least
<1>5. \A m, acc, k, tokens, t : Attempts!Charge(m, acc, k, tokens, t) <=> Charge(m, acc, k, tokens, t)
  BY Zenon DEF Attempts!Charge, Charge
<1> QED
  BY <1>1, <1>2, <1>3, <1>4, <1>5, Zenon

LEMMA SameClients ==
  /\ \A F : Clients!Without(F) = Without(F) /\ Clients!AccountsWithout(F) = AccountsWithout(F)
  /\ \A m, acc, k, tokens, t : Clients!Charge(m, acc, k, tokens, t) <=> Charge(m, acc, k, tokens, t)
  /\ \A b, k, t : Clients!Topped(b, k, t) = Topped(b, k, t)
  /\ \A k : Clients!Allowance(k) = Allowance(k)
  /\ Clients!Tracked = Tracked /\ Clients!Unarmed = Unarmed /\ Clients!NotCalling = NotCalling /\ Clients!NoAnswer = NoAnswer
<1>1. Clients!Tracked = Tracked /\ Clients!Unarmed = Unarmed /\ Clients!NotCalling = NotCalling /\ Clients!NoAnswer = NoAnswer
  BY DEF Clients!Tracked, Tracked, Clients!Unarmed, Unarmed, Clients!NotCalling, NotCalling, Clients!NoAnswer, NoAnswer
<1>2. \A k : Clients!Allowance(k) = Allowance(k) /\ (Clients!IsWhole(k) <=> IsWhole(k))
  BY Zenon DEF Clients!Allowance, Allowance, Clients!IsWhole, IsWhole
<1>3. \A F : Clients!Without(F) = Without(F) /\ Clients!AccountsWithout(F) = AccountsWithout(F)
  BY <1>1, <1>2, Zenon DEF Clients!Without, Without, Clients!AccountsWithout, AccountsWithout
<1>4. \A b, k, t : Clients!Topped(b, k, t) = Topped(b, k, t)
  BY <1>2, Zenon DEF Clients!Topped, Topped, Clients!Least, Least
<1>5. \A m, acc, k, tokens, t : Clients!Charge(m, acc, k, tokens, t) <=> Charge(m, acc, k, tokens, t)
  BY Zenon DEF Clients!Charge, Charge
<1> QED
  BY <1>1, <1>2, <1>3, <1>4, <1>5, Zenon

LEMMA SameTargets ==
  /\ \A F : Targets!Without(F) = Without(F) /\ Targets!AccountsWithout(F) = AccountsWithout(F)
  /\ \A m, acc, k, tokens, t : Targets!Charge(m, acc, k, tokens, t) <=> Charge(m, acc, k, tokens, t)
  /\ \A b, k, t : Targets!Topped(b, k, t) = Topped(b, k, t)
  /\ \A k : Targets!Allowance(k) = Allowance(k)
  /\ Targets!Tracked = Tracked /\ Targets!Unarmed = Unarmed /\ Targets!NotCalling = NotCalling /\ Targets!NoAnswer = NoAnswer
<1>1. Targets!Tracked = Tracked /\ Targets!Unarmed = Unarmed /\ Targets!NotCalling = NotCalling /\ Targets!NoAnswer = NoAnswer
  BY DEF Targets!Tracked, Tracked, Targets!Unarmed, Unarmed, Targets!NotCalling, NotCalling, Targets!NoAnswer, NoAnswer
<1>2. \A k : Targets!Allowance(k) = Allowance(k) /\ (Targets!IsWhole(k) <=> IsWhole(k))
  BY Zenon DEF Targets!Allowance, Allowance, Targets!IsWhole, IsWhole
<1>3. \A F : Targets!Without(F) = Without(F) /\ Targets!AccountsWithout(F) = AccountsWithout(F)
  BY <1>1, <1>2, Zenon DEF Targets!Without, Without, Targets!AccountsWithout, AccountsWithout
<1>4. \A b, k, t : Targets!Topped(b, k, t) = Topped(b, k, t)
  BY <1>2, Zenon DEF Targets!Topped, Topped, Targets!Least, Least
<1>5. \A m, acc, k, tokens, t : Targets!Charge(m, acc, k, tokens, t) <=> Charge(m, acc, k, tokens, t)
  BY Zenon DEF Targets!Charge, Charge
<1> QED
  BY <1>1, <1>2, <1>3, <1>4, <1>5, Zenon

\* What is held can be counted.
LEMMA CountIsSome ==
  ASSUME BucketsTypeOK, NEW S \in SUBSET Tracked
  PROVE  IsFiniteSet(S) /\ Cardinality(S) \in Nat /\ MaxKeys \in Nat \ {0}
<1>1. IsFiniteSet(S)
  BY BucketsAssumption, FS_Subset DEF BucketsTypeOK, BucketsAssumption
<1> QED
  BY <1>1, FS_CardinalityType, BucketsAssumption DEF BucketsAssumption

\* A sign-in attempt, of the table of the gate (allow).
LEMMA AttemptsCall ==
  ASSUME BucketsInv, part = "attempts", UNCHANGED part, NEW k \in Keys, Attempts!Allow(k)
  PROVE  \E F \in SUBSET Tracked : Answered(F, k, now)
<1> DEFINE full == k \notin Tracked /\ Cardinality(Tracked) >= MaxKeys
           idle == {x \in Tracked : now - buckets[x].seen >= Allowance(x)}
           gone == IF full THEN Tracked ELSE idle \ {k}
<1>1. Calls(gone, k, now)
  <2>1. Holding(gone, k, now) = IF k \in Tracked THEN buckets[k] ELSE [tokens |-> Allowance(k), seen |-> now]
    BY Zenon DEF Holding
  <2> QED
    BY <2>1, SameCount, SameAttempts, Zenon DEF Attempts!Allow, Calls, Attempts!Idle, Attempts!Forgotten, Tracked
<1>2. timer' = IF timer = Unarmed THEN now + SweepEvery ELSE timer
  BY DEF Attempts!Allow, Attempts!Arm, Attempts!Unarmed, Unarmed
<1>3. UNCHANGED <<now, lastSweep, lastForced, called, mark, part>>
  BY DEF Attempts!Allow
<1>4. (\A x \in gone : WholeAt(x, now)) \/ Cardinality(Tracked) >= MaxKeys
  <2>1. CASE full
    BY <2>1
  <2>2. CASE ~full
    <3>1. \A x \in gone : x \in Tracked /\ now - buckets[x].seen >= Allowance(x)
      BY <2>2
    <3> HIDE DEF full, idle, gone
    <3> QED
      BY <3>1, AllowanceIsSome DEF WholeAt, BucketsInv, BucketsTypeOK
  <2> QED
    BY <2>1, <2>2
<1>5. Cardinality((Tracked \ gone) \cup {k}) <= MaxKeys
  <2>1. CASE full
    <3>1. (Tracked \ gone) \cup {k} = {k}
      BY <2>1
    <3>2. Cardinality({k}) <= MaxKeys
      BY FS_Singleton, BucketsAssumption DEF BucketsAssumption
    <3> QED
      BY <3>1, <3>2
  <2>2. CASE ~full
    <3>1. IsFiniteSet(Tracked \ gone) /\ Cardinality(Tracked \ gone) \in Nat /\ Cardinality(Tracked) \in Nat /\ MaxKeys \in Nat
          /\ IsFiniteSet(Tracked)
      BY CountIsSome DEF BucketsInv
    <3>2. Cardinality(Tracked \ gone) <= Cardinality(Tracked)
      BY <3>1, FS_Subset
    <3>3. Cardinality(Tracked) <= MaxKeys
      BY DEF BucketsInv, Bounded
    <3>4. CASE k \in Tracked
      <4>1. (Tracked \ gone) \cup {k} = Tracked \ gone
        BY <2>2, <3>4
      <4>2. Cardinality((Tracked \ gone) \cup {k}) = Cardinality(Tracked \ gone)
        BY <4>1
      <4> HIDE DEF gone
      <4> QED
        BY <3>1, <3>2, <3>3, <4>2
    <3>5. CASE k \notin Tracked
      <4>1. Cardinality((Tracked \ gone) \cup {k}) = Cardinality(Tracked \ gone) + 1
        BY <3>1, <3>5, FS_AddElement
      <4>2. ~(Cardinality(Tracked) >= MaxKeys)
        BY <2>2, <3>5
      <4> HIDE DEF gone
      <4> QED
        BY <3>1, <3>2, <4>1, <4>2
    <3> QED
      BY <3>4, <3>5
  <2> QED
    BY <2>1, <2>2
<1>6. MaxDelay \in Nat /\ now \in Nat /\ gone \in SUBSET Tracked
  BY BucketsAssumption DEF BucketsAssumption, BucketsInv, BucketsTypeOK
<1>7. now - now <= MaxDelay
  BY <1>6
<1> HIDE DEF gone, full, idle
<1> QED
  BY <1>1, <1>2, <1>3, <1>4, <1>5, <1>6, <1>7, Zenon DEF Answered

\* The sweep of the table of the gate (sweep).
LEMMA AttemptsSweep ==
  ASSUME BucketsInv, part = "attempts", UNCHANGED part, Attempts!Sweep
  PROVE  \E F \in SUBSET Tracked : Swept(F)
<1> DEFINE idle == {x \in Tracked : now - buckets[x].seen >= Allowance(x)}
<1>1. Attempts!Idle(buckets) = idle
  BY SameAttempts, Zenon DEF Attempts!Idle, Attempts!Forgotten, Tracked
<1>2. /\ Forgets(idle) /\ timer # Unarmed /\ now >= timer
      /\ timer' = IF Tracked \subseteq idle THEN Unarmed ELSE now + SweepEvery
      /\ UNCHANGED <<now, lastSweep, lastForced, called, mark>>
  <2> HIDE DEF idle
  <2> QED
    BY <1>1, SameAttempts, Zenon DEF Attempts!Sweep, Forgets
<1>3. \A x \in idle : WholeAt(x, now)
  BY AllowanceIsSome DEF WholeAt, BucketsInv, BucketsTypeOK
<1>4. \A x \in Tracked \ idle : now - buckets[x].seen <= Retention(x)
  BY AllowanceIsSome DEF Retention, BucketsInv, BucketsTypeOK
<1>5. idle \in SUBSET Tracked
  OBVIOUS
<1> HIDE DEF idle
<1> QED
  BY <1>2, <1>3, <1>4, <1>5, Zenon DEF Swept

\* What a caller has read on its way to the lock.
LEMMA ReadingShape ==
  ASSUME BucketsInv, NEW c \in Callers, called[c] # NotCalling
  PROVE  /\ called[c].key \in Keys /\ called[c].at \in 0 .. now /\ now - called[c].at <= MaxDelay /\ now \in Nat
         /\ part # "attempts"
BY DEF BucketsInv, BucketsTypeOK, OnTheWay

\* A call of a client (allow, makeRoomLocked): the full table makes room by at most one
\* key that is not whole.
LEMMA ClientsCall ==
  ASSUME BucketsInv, part = "clients", UNCHANGED part, NEW c \in Callers, Clients!Allow(c)
  PROVE  \E F \in SUBSET Tracked : Answered(F, called[c].key, called[c].at)
<1> DEFINE k == called[c].key
           t == called[c].at
           swept == IF t - lastSweep >= SweepEvery THEN Clients!Stale(buckets, t) ELSE {}
           left == Tracked \ swept
           full == k \notin left /\ Cardinality(left) >= MaxKeys
           more == IF Clients!Forced(t) THEN Clients!Stale(buckets, t) ELSE {}
<1>1. called[c] # NotCalling
  BY SameClients, Zenon DEF Clients!Allow
<1>2. Clients!Swept(t) = swept
  BY Zenon DEF Clients!Swept, Clients!SweepDue
<1>3. PICK room \in SUBSET Tracked :
        /\ Clients!MakesRoom(k, t, room)
        /\ Clients!Charge(Clients!Without(swept \cup room), Clients!AccountsWithout(swept \cup room), k,
             Clients!Topped(IF k \in DOMAIN Clients!Without(swept \cup room) THEN buckets[k]
                            ELSE [tokens |-> Clients!Allowance(k), seen |-> t], k, t), t)
        /\ lastSweep' \in {lastSweep, t} /\ lastForced' \in {lastForced, t}
  <2> HIDE DEF swept
  <2> QED
    BY <1>2, SameClients, Zenon DEF Clients!Allow
<1> DEFINE gone == swept \cup room
<1>4. /\ timer' = IF k \notin left /\ timer = Unarmed THEN now + SweepEvery ELSE timer
      /\ called' = [called EXCEPT ![c] = NotCalling]
      /\ UNCHANGED <<now, mark>>
  <2> HIDE DEF swept
  <2> QED
    BY <1>2, SameClients, Zenon DEF Clients!Allow
<1>5. Calls(gone, k, t)
  <2>1. Holding(gone, k, t) = IF k \in DOMAIN Without(gone) THEN buckets[k] ELSE [tokens |-> Allowance(k), seen |-> t]
    BY Zenon DEF Holding, Without
  <2> HIDE DEF swept, k, t
  <2> QED
    BY <1>3, <2>1, SameClients, Zenon DEF Calls
<1>6. /\ IF ~full THEN room = {}
         ELSE \/ Cardinality(left \ more) < MaxKeys /\ room = more
              \/ Cardinality(left \ more) >= MaxKeys /\ \E x \in left \ more : room = more \cup {x}
  <2> HIDE DEF swept
  <2> QED
    BY <1>2, <1>3, SameClients, SameCount, Zenon DEF Clients!MakesRoom
<1>7. Clients!Stale(buckets, t) = {x \in Tracked : t - buckets[x].seen > 2 * Allowance(x)}
  BY SameClients, Zenon DEF Clients!Stale, Clients!idlePeriod, Tracked
<1>8. \A x \in Clients!Stale(buckets, t) : x \in Tracked /\ WholeAt(x, t)
  BY <1>1, <1>7, AllowanceIsSome, ReadingShape DEF WholeAt, BucketsInv, BucketsTypeOK
<1>9. swept \in SUBSET Clients!Stale(buckets, t) /\ more \in SUBSET Clients!Stale(buckets, t)
      /\ left \ more \in SUBSET Tracked /\ swept \in SUBSET Tracked /\ more \in SUBSET Tracked
  BY <1>8
<1>10. /\ IsFiniteSet(Tracked) /\ Cardinality(Tracked) \in Nat /\ MaxKeys \in Nat \ {0} /\ Cardinality(Tracked) <= MaxKeys
       /\ IsFiniteSet(left) /\ Cardinality(left) \in Nat /\ Cardinality(left) <= Cardinality(Tracked)
       /\ IsFiniteSet(left \ more) /\ Cardinality(left \ more) \in Nat /\ Cardinality(left \ more) <= Cardinality(Tracked)
  <2>1. left \in SUBSET Tracked /\ left \ more \in SUBSET Tracked
    OBVIOUS
  <2> HIDE DEF left, more
  <2> QED
    BY <2>1, CountIsSome, FS_Subset DEF BucketsInv, Bounded
<1> HIDE DEF swept, more, k, t
<1> DEFINE Fits == ((\A x \in gone : WholeAt(x, t)) \/ Cardinality(Tracked) >= MaxKeys) /\ Cardinality((Tracked \ gone) \cup {k}) <= MaxKeys
<1>11. ASSUME ~full PROVE Fits
  <2>1. gone = swept /\ (k \in left \/ Cardinality(left) < MaxKeys) /\ Tracked \ gone = left
    BY <1>6, <1>10, <1>11
  <2>2. \A x \in gone : WholeAt(x, t)
    BY <1>8, <1>9, <2>1
  <2>3. Cardinality(left \cup {k}) <= MaxKeys
    <3>1. CASE k \in left
      <4>1. left \cup {k} = left
        BY <3>1
      <4> QED
        BY <1>10, <4>1
    <3>2. CASE k \notin left
      <4>1. Cardinality(left \cup {k}) = Cardinality(left) + 1
        BY <1>10, <3>2, FS_AddElement
      <4> HIDE DEF left
      <4> QED
        BY <1>10, <2>1, <3>2, <4>1
    <3> QED
      BY <3>1, <3>2
  <2>4. Cardinality((Tracked \ gone) \cup {k}) <= MaxKeys
    BY <2>1, <2>3
  <2> HIDE DEF gone
  <2> QED
    BY <2>2, <2>4
<1>12. ASSUME full PROVE Fits
  <2>1. CASE Cardinality(left \ more) < MaxKeys /\ room = more
    <3>1. \A x \in gone : WholeAt(x, t)
      BY <1>8, <1>9, <2>1
    <3>2. Tracked \ gone = left \ more /\ k \notin left \ more
      BY <1>12, <2>1
    <3>3. Cardinality((left \ more) \cup {k}) = Cardinality(left \ more) + 1
      BY <1>10, <3>2, FS_AddElement
    <3>4. Cardinality((Tracked \ gone) \cup {k}) = Cardinality(left \ more) + 1
      BY <3>2, <3>3
    <3> HIDE DEF gone, left
    <3> QED
      BY <1>10, <2>1, <3>1, <3>4
  <2>2. ASSUME Cardinality(left \ more) >= MaxKeys, NEW x \in left \ more, room = more \cup {x}
        PROVE  Fits
    <3>1. Cardinality(Tracked) >= MaxKeys
      <4> HIDE DEF left
      <4> QED
        BY <1>10, <2>2
    <3>2. Tracked \ gone = (left \ more) \ {x} /\ k \notin (left \ more) \ {x}
      BY <1>12, <2>2
    <3>3. /\ IsFiniteSet((left \ more) \ {x})
          /\ Cardinality((left \ more) \ {x}) = Cardinality(left \ more) - 1
      BY <1>10, <2>2, FS_RemoveElement
    <3>4. Cardinality(((left \ more) \ {x}) \cup {k}) = Cardinality((left \ more) \ {x}) + 1
      BY <3>2, <3>3, FS_AddElement
    <3>5. Cardinality((Tracked \ gone) \cup {k}) = Cardinality(((left \ more) \ {x}) \cup {k})
      BY <3>2
    <3> HIDE DEF gone, left
    <3> QED
      BY <1>10, <3>1, <3>3, <3>4, <3>5
  <2> QED
    BY <1>6, <1>12, <2>1, <2>2
<1>13. (\A x \in gone : WholeAt(x, t)) \/ Cardinality(Tracked) >= MaxKeys
  BY <1>11, <1>12
<1>14. Cardinality((Tracked \ gone) \cup {k}) <= MaxKeys
  BY <1>11, <1>12
<1>15. timer' = IF timer = Unarmed THEN now + SweepEvery ELSE timer
  <2>1. timer = Unarmed => Tracked = {}
    BY DEF BucketsInv, Timely
  <2> QED
    BY <1>4, <2>1
<1>16. gone \in SUBSET Tracked /\ now - t <= MaxDelay
  BY <1>1, <1>9, ReadingShape DEF t
<1>17. called' \in {called} \cup {[called EXCEPT ![x] = NotCalling] : x \in Callers}
  BY <1>4
<1> HIDE DEF gone
<1> QED
  <2>1. Answered(gone, k, t)
    BY <1>3, <1>4, <1>5, <1>13, <1>14, <1>15, <1>16, <1>17 DEF Answered
  <2> QED
    BY <1>16, <2>1 DEF k, t

\* The sweep of the table of clients (idleTick).
LEMMA ClientsSweep ==
  ASSUME BucketsInv, part = "clients", UNCHANGED part, Clients!IdleTick
  PROVE  \E F \in SUBSET Tracked : Swept(F)
<1> DEFINE gone == {x \in Tracked : now - buckets[x].seen > 2 * Allowance(x)}
<1>1. Clients!Stale(buckets, now) = gone
  BY SameClients, Zenon DEF Clients!Stale, Clients!idlePeriod, Tracked
<1>2. /\ Forgets(gone) /\ timer # Unarmed /\ now >= timer
      /\ timer' = IF Tracked \subseteq gone THEN Unarmed ELSE now + SweepEvery
      /\ lastSweep' = now /\ UNCHANGED <<now, lastForced, called, mark>>
  <2> HIDE DEF gone
  <2> QED
    BY <1>1, SameClients, Zenon DEF Clients!IdleTick, Forgets
<1>3. \A x \in gone : WholeAt(x, now)
  BY AllowanceIsSome DEF WholeAt, BucketsInv, BucketsTypeOK
<1>4. \A x \in Tracked \ gone : now - buckets[x].seen <= Retention(x)
  BY AllowanceIsSome DEF Retention, BucketsInv, BucketsTypeOK
<1>5. gone \in SUBSET Tracked
  OBVIOUS
<1> HIDE DEF gone
<1> QED
  BY <1>2, <1>3, <1>4, <1>5, Zenon DEF Swept

\* A call for a host (allow); the table has room for every one of them.
LEMMA TargetsCall ==
  ASSUME BucketsInv, part = "targets", UNCHANGED part, NEW c \in Callers, Targets!Allow(c)
  PROVE  \E F \in SUBSET Tracked : Answered(F, called[c].key, called[c].at)
<1> DEFINE k == called[c].key
           t == called[c].at
           gone == IF t - lastSweep >= SweepEvery THEN Targets!Refilled(buckets, t) ELSE {}
<1>1. called[c] # NotCalling
  BY SameTargets, Zenon DEF Targets!Allow
<1>2. Targets!Swept(t) = gone
  BY Zenon DEF Targets!Swept, Targets!SweepDue
<1>3. Targets!Refilled(buckets, t) = {x \in Tracked : WholeAt(x, t)}
  BY SameTargets, Zenon DEF Targets!Refilled, WholeAt, Tracked
<1>4. gone \in SUBSET Tracked /\ \A x \in gone : WholeAt(x, t)
  BY <1>3
<1>5. k \in Keys /\ now - t <= MaxDelay
  BY <1>1, ReadingShape
<1>6. DOMAIN Without(gone) = Tracked \ gone
  BY Zenon DEF Without
\* There is room for every host.
<1>7. ~(k \notin Tracked \ gone /\ Cardinality(Tracked \ gone) >= Cardinality(Keys))
  <2> SUFFICES ASSUME k \notin Tracked \ gone PROVE ~(Cardinality(Tracked \ gone) >= Cardinality(Keys))
    OBVIOUS
  <2>1. /\ IsFiniteSet(Tracked \ gone) /\ Cardinality(Tracked \ gone) \in Nat
        /\ IsFiniteSet(Keys) /\ Cardinality(Keys) \in Nat
    BY CountIsSome, FS_CardinalityType, BucketsAssumption DEF BucketsInv, BucketsAssumption
  <2>2. Cardinality((Tracked \ gone) \cup {k}) = Cardinality(Tracked \ gone) + 1
    BY <2>1, FS_AddElement
  <2>3. (Tracked \ gone) \cup {k} \in SUBSET Keys
    BY <1>5 DEF BucketsInv, BucketsTypeOK
  <2>4. Cardinality((Tracked \ gone) \cup {k}) <= Cardinality(Keys)
    BY <2>1, <2>3, FS_Subset
  <2> HIDE DEF gone, k
  <2> QED
    BY <2>1, <2>2, <2>4
<1> HIDE DEF gone, k, t
<1>8. /\ Charge(Without(gone), AccountsWithout(gone), k,
                Topped(IF k \in DOMAIN Without(gone) THEN buckets[k] ELSE [tokens |-> Allowance(k), seen |-> t], k, t), t)
      /\ timer' = IF k \notin DOMAIN Without(gone) /\ timer = Unarmed THEN now + SweepEvery ELSE timer
      /\ lastSweep' \in {lastSweep, t} /\ called' = [called EXCEPT ![c] = NotCalling]
      /\ UNCHANGED <<now, lastForced, mark>>
  BY <1>2, <1>6, <1>7, SameTargets, SameCount, Zenon DEF Targets!Allow, k, t
<1>9. Calls(gone, k, t)
  <2>1. Holding(gone, k, t) = IF k \in DOMAIN Without(gone) THEN buckets[k] ELSE [tokens |-> Allowance(k), seen |-> t]
    BY Zenon DEF Holding, Without
  <2> QED
    BY <1>8, <2>1, Zenon DEF Calls
<1>10. timer' = IF timer = Unarmed THEN now + SweepEvery ELSE timer
  <2>1. timer = Unarmed => Tracked = {}
    BY DEF BucketsInv, Timely
  <2> QED
    BY <1>6, <1>8, <2>1
<1>11. called' \in {called} \cup {[called EXCEPT ![x] = NotCalling] : x \in Callers}
  BY <1>8
<1>12. Answered(gone, k, t)
  BY <1>4, <1>5, <1>8, <1>9, <1>10, <1>11 DEF Answered
<1> QED
  BY <1>4, <1>12 DEF k, t

\* The sweep of the table of hosts (idleTick).
LEMMA TargetsSweep ==
  ASSUME BucketsInv, part = "targets", UNCHANGED part, Targets!IdleTick
  PROVE  \E F \in SUBSET Tracked : Swept(F)
<1> DEFINE gone == {x \in Tracked : WholeAt(x, now)}
<1>1. Targets!Refilled(buckets, now) = gone
  BY SameTargets, Zenon DEF Targets!Refilled, WholeAt, Tracked
<1>2. /\ Forgets(gone) /\ timer # Unarmed /\ now >= timer
      /\ timer' = IF Tracked \subseteq gone THEN Unarmed ELSE now + SweepEvery
      /\ lastSweep' = now /\ UNCHANGED <<now, lastForced, called, mark>>
  <2> HIDE DEF gone
  <2> QED
    BY <1>1, SameTargets, Zenon DEF Targets!IdleTick, Forgets
<1>3. \A x \in Tracked \ gone : now - buckets[x].seen <= Retention(x)
  BY AllowanceIsSome DEF Retention, WholeAt, BucketsInv, BucketsTypeOK
<1>4. gone \in SUBSET Tracked /\ \A x \in gone : WholeAt(x, now)
  OBVIOUS
<1> HIDE DEF gone
<1> QED
  BY <1>2, <1>3, <1>4, Zenon DEF Swept

\* A table begins empty, its timer not armed.
LEMMA InitiallyInv == Init => BucketsInv
<1> SUFFICES ASSUME Init PROVE BucketsInv
  OBVIOUS
<1>1. /\ now = 0 /\ buckets = [k \in {} |-> 0] /\ lastSweep = 0 /\ lastForced = -1 /\ timer = Unarmed
      /\ called = [c \in Callers |-> NotCalling] /\ mark = 0 /\ spent = [k \in Watched |-> 0] /\ part \in Parts
  BY DEF Init, BucketsInit
<1>2. Tracked = {}
  BY <1>1 DEF Tracked
<1>3. BucketsTypeOK
  BY <1>1, <1>2 DEF BucketsTypeOK, Unarmed
<1>4. Timely /\ OnTheWay /\ Owing
  BY <1>1, <1>2 DEF Timely, OnTheWay, Owing
<1>5. Bounded
  BY <1>2, FS_EmptySet, BucketsAssumption DEF Bounded, BucketsAssumption
<1> QED
  BY <1>1, <1>3, <1>4, <1>5 DEF BucketsInv

\* An answer arms the timer and leaves a bucket that is neither whole nor old.
LEMMA AnsweredKeeps ==
  ASSUME BucketsInv, NEW F \in SUBSET Tracked, NEW k \in Keys, NEW t \in 0 .. now, Answered(F, k, t)
  PROVE  BucketsInv'
<1>1. /\ BucketsTypeOK /\ Timely /\ OnTheWay /\ Owing /\ Bounded /\ part \in Parts /\ F \in SUBSET Keys
      /\ now \in Nat /\ SweepEvery \in Nat \ {0} /\ Unarmed = -1 /\ MaxDelay \in Nat
  BY BucketsAssumption DEF BucketsInv, BucketsAssumption, BucketsTypeOK, Unarmed
<1>2. /\ Tracked' = (Tracked \ F) \cup {k}
      /\ \A x \in Tracked \ F : x # k => buckets'[x] = buckets[x]
      /\ buckets'[k].seen = t
      /\ buckets'[k].tokens \in 0 .. Allowance(k)
      /\ buckets'[k].tokens < Allowance(k)
      /\ spent' \in [Watched -> Nat]
  BY <1>1, CallShape DEF Answered
<1>3. /\ timer' = (IF timer = Unarmed THEN now + SweepEvery ELSE timer)
      /\ now - t <= MaxDelay /\ (part = "attempts" => t = now)
      /\ lastSweep' \in {lastSweep, t} /\ lastForced' \in {lastForced, t}
      /\ called' \in {called} \cup {[called EXCEPT ![c] = NotCalling] : c \in Callers}
      /\ now' = now /\ part' = part
      /\ (part # "targets" => Cardinality(Tracked') <= MaxKeys)
  BY <1>2 DEF Answered
<1>4. BucketsTypeOK'
  <2>1. called' \in [Callers -> {NotCalling} \cup [key : Keys, at : 0 .. now]]
    BY <1>1, <1>3 DEF BucketsTypeOK
  <2>2. Tracked' \subseteq Keys /\ lastSweep' \in 0 .. now /\ lastForced' \in -1 .. now
        /\ timer' \in {Unarmed} \cup Nat
    BY <1>1, <1>2, <1>3 DEF BucketsTypeOK
  <2>3. \A x \in Tracked' : buckets'[x].tokens \in 0 .. Allowance(x) /\ buckets'[x].seen \in 0 .. now
    BY <1>1, <1>2 DEF BucketsTypeOK
  <2>4. \A x : Allowance(x)' = Allowance(x)
    BY DEF Allowance
  <2> QED
    BY <1>1, <1>2, <1>3, <2>1, <2>2, <2>3, <2>4 DEF BucketsTypeOK, NotCalling, Unarmed
<1>5. OnTheWay'
  BY <1>1, <1>3 DEF OnTheWay, BucketsTypeOK
<1>6. Owing'
  BY <1>1, <1>2 DEF Owing, Allowance
<1>7. Bounded'
  BY <1>3 DEF Bounded
<1>8. Timely'
  <2>1. timer' \in Nat /\ now <= timer' /\ timer' <= now + SweepEvery /\ timer' # Unarmed
    BY <1>1, <1>3 DEF BucketsTypeOK, Timely
  <2>2. ASSUME WithinATick, NEW x \in Tracked' PROVE timer' - buckets'[x].seen <= Retention(x)' + SweepEvery
    <3>1. CASE x = k
      <4>1. now - t <= 1 /\ (part = "attempts" => now - t = 0)
        BY <1>1, <1>3, <2>2 DEF WithinATick
      <4>2. Retention(x)' \in Nat /\ Retention(x)' >= 1
        BY <1>2, <1>3, <3>1, AllowanceIsSome DEF Retention, Allowance
      <4> QED
        BY <1>1, <1>2, <2>1, <3>1, <4>1, <4>2
    <3>2. CASE x # k
      <4>1. x \in Tracked \ F /\ buckets'[x] = buckets[x] /\ timer # Unarmed /\ timer' = timer
        BY <1>1, <1>2, <1>3, <3>2 DEF Timely
      <4>2. Retention(x)' = Retention(x)
        BY <1>3, <4>1 DEF Retention, Allowance
      <4> QED
        BY <1>1, <2>2, <4>1, <4>2 DEF Timely
    <3> QED
      BY <3>1, <3>2
  <2> QED
    BY <1>3, <2>1, <2>2 DEF Timely, WithinATick, Unarmed
<1> QED
  BY <1>1, <1>3, <1>4, <1>5, <1>6, <1>7, <1>8 DEF BucketsInv

\* A sweep leaves what is younger than its retention, and the timer if anything is left.
LEMMA SweptKeeps ==
  ASSUME BucketsInv, NEW F \in SUBSET Tracked, Swept(F)
  PROVE  BucketsInv'
<1>1. /\ BucketsTypeOK /\ Timely /\ OnTheWay /\ Owing /\ Bounded /\ part \in Parts /\ F \in SUBSET Keys
      /\ now \in Nat /\ SweepEvery \in Nat \ {0} /\ Unarmed = -1 /\ MaxDelay \in Nat
  BY BucketsAssumption DEF BucketsInv, BucketsAssumption, BucketsTypeOK, Unarmed
<1>2. /\ Tracked' = Tracked \ F
      /\ \A x \in Tracked \ F : buckets'[x] = buckets[x]
      /\ spent' \in [Watched -> Nat]
  BY <1>1, SweepShape DEF Swept
<1>3. /\ \A x \in Tracked \ F : now - buckets[x].seen <= Retention(x)
      /\ timer # Unarmed /\ now >= timer
      /\ timer' = IF Tracked \subseteq F THEN Unarmed ELSE now + SweepEvery
      /\ lastSweep' \in {lastSweep, now}
      /\ now' = now /\ lastForced' = lastForced /\ called' = called /\ part' = part
  BY DEF Swept
<1>4. \A x : Allowance(x)' = Allowance(x)
  BY DEF Allowance
<1>5. BucketsTypeOK'
  BY <1>1, <1>2, <1>3, <1>4 DEF BucketsTypeOK, NotCalling, Unarmed
<1>6. OnTheWay' /\ Owing'
  BY <1>1, <1>2, <1>3, <1>4 DEF OnTheWay, Owing
<1>7. Bounded'
  <2>1. IsFiniteSet(Tracked) /\ Cardinality(Tracked) \in Nat /\ IsFiniteSet(Tracked \ F) /\ Cardinality(Tracked \ F) \in Nat
        /\ Cardinality(Tracked \ F) <= Cardinality(Tracked) /\ MaxKeys \in Nat
    BY <1>1, CountIsSome, FS_Subset
  <2> QED
    BY <1>1, <1>2, <1>3, <2>1 DEF Bounded
<1>8. Timely'
  <2>1. ASSUME NEW x \in Tracked' PROVE timer' = now + SweepEvery /\ timer' - buckets'[x].seen <= Retention(x)' + SweepEvery
    <3>1. x \in Tracked \ F /\ buckets'[x] = buckets[x] /\ timer' = now + SweepEvery
      BY <1>2, <1>3
    <3>2. Retention(x)' = Retention(x) /\ Retention(x) \in Int /\ buckets[x].seen \in Int
      BY <1>1, <1>3, <1>4, <3>1, AllowanceIsSome DEF Retention, BucketsTypeOK
    <3> QED
      BY <1>1, <1>3, <3>1, <3>2
  <2>2. timer' = Unarmed => Tracked' = {}
    BY <1>1, <1>2, <1>3
  <2>3. timer' # Unarmed => now <= timer' /\ timer' <= now + SweepEvery
    BY <1>1, <1>3
  <2> QED
    BY <1>3, <2>1, <2>2, <2>3 DEF Timely, Unarmed, WithinATick
<1> QED
  BY <1>1, <1>3, <1>5, <1>6, <1>7, <1>8 DEF BucketsInv

\* What leaves the table and the timer alone: the clock, the mark, and a caller that has
\* read the clock.
LEMMA RestKeeps ==
  ASSUME BucketsInv, UNCHANGED <<buckets, lastSweep, lastForced, timer, part>>,
         \/ Tick
         \/ Mark
         \/ part # "attempts" /\ UNCHANGED <<now, spent>>
            /\ \E c \in Callers, k \in Keys : called' = [called EXCEPT ![c] = [key |-> k, at |-> now]]
  PROVE  BucketsInv'
<1>1. /\ BucketsTypeOK /\ Timely /\ OnTheWay /\ Owing /\ Bounded /\ part \in Parts
      /\ now \in Nat /\ SweepEvery \in Nat \ {0} /\ Unarmed = -1 /\ MaxDelay \in Nat
  BY BucketsAssumption DEF BucketsInv, BucketsAssumption, BucketsTypeOK, Unarmed
<1>2. \A x : Allowance(x)' = Allowance(x) /\ Retention(x)' = Retention(x)
  BY DEF Allowance, Retention
<1>3. Tracked' = Tracked /\ Owing' /\ Bounded' /\ part' \in Parts
  BY <1>1, <1>2 DEF Tracked, Owing, Bounded
<1>4. /\ now' \in Nat /\ now <= now' /\ spent' \in [Watched -> Nat]
      /\ timer # Unarmed => now' <= timer
      /\ called' \in [Callers -> {NotCalling} \cup [key : Keys, at : 0 .. now']]
  <2>1. CASE Tick
    <3>1. now' = now + 1 /\ spent' = spent /\ called' = called /\ (timer # Unarmed => now < timer)
      BY <2>1 DEF Tick
    <3>2. \A i : i \in 0 .. now => i \in 0 .. (now + 1)
      BY <1>1
    <3>3. called' \in [Callers -> {NotCalling} \cup [key : Keys, at : 0 .. now']]
      BY <1>1, <3>1, <3>2 DEF BucketsTypeOK
    <3> QED
      BY <1>1, <3>1, <3>3 DEF BucketsTypeOK, Timely, Unarmed
  <2>2. CASE Mark
    <3>1. now' = now /\ called' = called /\ spent' = [k \in Watched |-> 0]
      BY <2>2 DEF Mark
    <3> QED
      BY <1>1, <3>1 DEF BucketsTypeOK, Timely
  <2>3. ASSUME UNCHANGED <<now, spent>>, NEW c \in Callers, NEW k \in Keys,
               called' = [called EXCEPT ![c] = [key |-> k, at |-> now]]
        PROVE  /\ now' \in Nat /\ now <= now' /\ spent' \in [Watched -> Nat]
               /\ timer # Unarmed => now' <= timer
               /\ called' \in [Callers -> {NotCalling} \cup [key : Keys, at : 0 .. now']]
    BY <1>1, <2>3 DEF BucketsTypeOK, Timely
  <2> QED
    BY <2>1, <2>2, <2>3
<1>5. BucketsTypeOK'
  BY <1>1, <1>2, <1>3, <1>4 DEF BucketsTypeOK, NotCalling, Unarmed
<1>6. Timely'
  <2>1. timer = Unarmed => Tracked = {}
    BY <1>1 DEF Timely
  <2>2. timer # Unarmed => now' <= timer /\ timer <= now' + SweepEvery
    <3>1. timer \in Int
      BY <1>1 DEF BucketsTypeOK, Unarmed
    <3>2. now' \in Nat /\ now <= now' /\ (timer # Unarmed => now' <= timer)
      BY <1>4, Zenon
    <3>3. timer # Unarmed => timer <= now + SweepEvery
      BY <1>1, Zenon DEF Timely
    <3>4. now \in Nat /\ SweepEvery \in Nat
      BY <1>1
    <3>5. ASSUME timer # Unarmed PROVE timer <= now' + SweepEvery
      <4>1. timer <= now + SweepEvery /\ now <= now' /\ now' \in Nat
        BY <3>2, <3>3, <3>5
      <4> DEFINE later == now'
      <4>2. timer <= now + SweepEvery /\ now <= later /\ later \in Nat
        BY <4>1
      <4> HIDE DEF later
      <4>3. timer <= later + SweepEvery
        BY <3>1, <3>4, <4>2
      <4> QED
        BY <4>3 DEF later
    <3> QED
      BY <3>2, <3>5, Zenon
  <2>3. WithinATick => \A k \in Tracked : timer - buckets[k].seen <= Retention(k) + SweepEvery
    BY <1>1 DEF Timely
  <2> QED
    BY <1>2, <1>3, <2>1, <2>2, <2>3 DEF Timely, WithinATick, Unarmed
<1>7. OnTheWay'
  <2>1. CASE Tick
    <3>1. now' = now + 1 /\ called' = called /\ \A c \in Callers : called[c] # NotCalling => now - called[c].at < MaxDelay
      BY <2>1 DEF Tick
    <3>2. \A c \in Callers : called[c] # NotCalling => called[c].at \in Int
      BY <1>1 DEF BucketsTypeOK
    <3> QED
      BY <1>1, <3>1, <3>2 DEF OnTheWay, NotCalling
  <2>2. CASE Mark
    <3>1. now' = now /\ called' = called
      BY <2>2 DEF Mark
    <3> QED
      BY <1>1, <3>1 DEF OnTheWay, NotCalling
  <2>3. ASSUME part # "attempts", UNCHANGED <<now, spent>>, NEW c \in Callers, NEW k \in Keys,
               called' = [called EXCEPT ![c] = [key |-> k, at |-> now]]
        PROVE  OnTheWay'
    BY <1>1, <2>3 DEF OnTheWay, NotCalling, BucketsTypeOK
  <2> QED
    BY <2>1, <2>2, <2>3
<1> QED
  BY <1>3, <1>5, <1>6, <1>7 DEF BucketsInv

\* Every step of a table is a call answered, a sweep, or leaves the table alone.
LEMMA StepKinds ==
  ASSUME BucketsInv, Next
  PROVE  \/ \E F \in SUBSET Tracked, k \in Keys, t \in 0 .. now : Answered(F, k, t)
         \/ \E F \in SUBSET Tracked : Swept(F)
         \/ Tick /\ UNCHANGED part
         \/ Mark /\ UNCHANGED part
         \/ /\ part # "attempts" /\ answer' = NoAnswer
            /\ \E c \in Callers, k \in Keys : called' = [called EXCEPT ![c] = [key |-> k, at |-> now]]
            /\ UNCHANGED <<now, buckets, lastSweep, lastForced, timer, mark, spent, part>>
<1> DEFINE Reads == /\ part # "attempts" /\ answer' = NoAnswer
                    /\ \E c \in Callers, k \in Keys : called' = [called EXCEPT ![c] = [key |-> k, at |-> now]]
                    /\ UNCHANGED <<now, buckets, lastSweep, lastForced, timer, mark, spent, part>>
           Calling == \E F \in SUBSET Tracked, k \in Keys, t \in 0 .. now : Answered(F, k, t)
           Sweeps == \E F \in SUBSET Tracked : Swept(F)
           Beside == (Tick \/ Mark) /\ UNCHANGED part
<1> SUFFICES Calling \/ Sweeps \/ Beside \/ Reads
  OBVIOUS
<1>1. UNCHANGED part /\ now \in 0 .. now
  BY DEF Next, BucketsInv, BucketsTypeOK
<1>2. ASSUME part = "attempts", Attempts!AttemptsNext PROVE Calling \/ Sweeps \/ Beside
  <2>1. Attempts!Tick <=> Tick
    BY SameAttempts, Zenon DEF Attempts!Tick, Tick
  <2>2. Attempts!Mark <=> Mark
    BY SameAttempts, Zenon DEF Attempts!Mark, Mark
  <2>3. CASE \E k \in Keys : Attempts!Allow(k)
    BY <1>1, <1>2, <2>3, AttemptsCall
  <2>4. CASE Attempts!Sweep
    BY <1>1, <1>2, <2>4, AttemptsSweep
  <2> QED
    BY <1>1, <1>2, <2>1, <2>2, <2>3, <2>4, Zenon DEF Attempts!AttemptsNext
<1>3. ASSUME part = "clients", Clients!ClientNext PROVE Calling \/ Sweeps \/ Beside \/ Reads
  <2>1. Clients!Tick <=> Tick
    BY SameClients, Zenon DEF Clients!Tick, Tick
  <2>2. Clients!Mark <=> Mark
    BY SameClients, Zenon DEF Clients!Mark, Mark
  <2>3. ASSUME NEW c \in Callers, Clients!Allow(c) PROVE Calling
    <3>1. called[c] # NotCalling
      BY <2>3, SameClients, Zenon DEF Clients!Allow
    <3> QED
      BY <1>1, <1>3, <2>3, <3>1, ClientsCall, ReadingShape
  <2>4. CASE Clients!IdleTick
    BY <1>1, <1>3, <2>4, ClientsSweep
  <2>5. ASSUME NEW c \in Callers, NEW k \in Keys, Clients!ReadClock(c, k) PROVE Reads
    BY <1>1, <1>3, <2>5, SameClients DEF Clients!ReadClock
  <2> QED
    BY <1>1, <1>3, <2>1, <2>2, <2>3, <2>4, <2>5, Zenon DEF Clients!ClientNext
<1>4. ASSUME part = "targets", Targets!TargetNext PROVE Calling \/ Sweeps \/ Beside \/ Reads
  <2>1. Targets!Tick <=> Tick
    BY SameTargets, Zenon DEF Targets!Tick, Tick
  <2>2. Targets!Mark <=> Mark
    BY SameTargets, Zenon DEF Targets!Mark, Mark
  <2>3. ASSUME NEW c \in Callers, Targets!Allow(c) PROVE Calling
    <3>1. called[c] # NotCalling
      BY <2>3, SameTargets, Zenon DEF Targets!Allow
    <3> QED
      BY <1>1, <1>4, <2>3, <3>1, TargetsCall, ReadingShape
  <2>4. CASE Targets!IdleTick
    BY <1>1, <1>4, <2>4, TargetsSweep
  <2>5. ASSUME NEW c \in Callers, NEW k \in Keys, Targets!ReadClock(c, k) PROVE Reads
    BY <1>1, <1>4, <2>5, SameTargets DEF Targets!ReadClock
  <2> QED
    BY <1>1, <1>4, <2>1, <2>2, <2>3, <2>4, <2>5, Zenon DEF Targets!TargetNext
<1> HIDE DEF Calling, Sweeps, Beside, Reads
<1> QED
  BY <1>2, <1>3, <1>4 DEF Next

\* Every step keeps the invariant.
LEMMA StepKeeps == BucketsInv /\ [Next]_<<bucketVars, part>> => BucketsInv'
<1>1. ASSUME BucketsInv, Next PROVE BucketsInv'
  <2>1. CASE Tick /\ UNCHANGED part
    BY <1>1, <2>1, RestKeeps DEF Tick
  <2>2. CASE Mark /\ UNCHANGED part
    BY <1>1, <2>2, RestKeeps DEF Mark
  <2> QED
    BY <1>1, <2>1, <2>2, StepKinds, AnsweredKeeps, SweptKeeps, RestKeeps
<1>2. ASSUME BucketsInv, UNCHANGED <<bucketVars, part>> PROVE BucketsInv'
  BY <1>2 DEF bucketVars, BucketsInv, BucketsTypeOK, Timely, OnTheWay, Owing, Bounded, Tracked, Allowance, Retention,
     WithinATick, Unarmed, NotCalling
<1> QED
  BY <1>1, <1>2

\* The tables stay well formed: no bucket holds more than its allowance or was touched in
\* the future, whatever the callers were delayed (allow, sweepLocked of the three tables).
THEOREM BucketsTypeCorrect == Spec => []BucketsTypeOK
<1>1. Spec => []BucketsInv
  BY InitiallyInv, StepKeeps, PTL DEF Spec
<1>2. BucketsInv => BucketsTypeOK
  BY DEF BucketsInv
<1> QED
  BY <1>1, <1>2, PTL

\* No table outgrows its bound and no key is held longer than stated, also when nobody calls
\* again, as long as no caller is held up for more than a tick between clock and lock.
THEOREM ForgottenAsStated == ASSUME WithinATick PROVE Spec => []HeldAsStated
<1>1. Spec => []BucketsInv
  BY InitiallyInv, StepKeeps, PTL DEF Spec
<1>2. BucketsInv => HeldAsStated
  <2> SUFFICES ASSUME BucketsInv PROVE HeldAsStated
    OBVIOUS
  <2>1. \A k \in Tracked : now - buckets[k].seen <= Retention(k) + SweepEvery
    <3> TAKE k \in Tracked
    <3>1. /\ timer \in Int /\ now \in Int /\ buckets[k].seen \in Int /\ SweepEvery \in Int /\ now <= timer
          /\ timer - buckets[k].seen <= Retention(k) + SweepEvery
      BY WithinATick, BucketsAssumption DEF BucketsInv, BucketsTypeOK, Timely, BucketsAssumption, Unarmed
    <3>2. Retention(k) \in Int
      BY AllowanceIsSome DEF Retention, BucketsInv, BucketsTypeOK
    <3> QED
      BY <3>1, <3>2
  <2>2. part = "attempts" => Attempts!AttemptsRetention
    BY <2>1, SameAttempts DEF Retention, Attempts!AttemptsRetention, Attempts!Forgotten
  <2>3. part = "clients" => Clients!ClientRetention
    BY <2>1, SameClients DEF Retention, Clients!ClientRetention, Clients!idlePeriod
  <2>4. part = "targets" => Targets!TargetRetention
    BY <2>1, SameTargets DEF Retention, Targets!TargetRetention
  <2> QED
    BY <2>2, <2>3, <2>4 DEF HeldAsStated, BucketsInv, Bounded
<1> QED
  BY <1>1, <1>2, PTL

-----------------------------------------------------------------------------

\* The time at which a key held is whole again; no bucket that is held is whole.
LEMMA FullShape ==
  ASSUME BucketsInv
  PROVE  /\ \A k \in Keys : FullAt(k) \in Nat /\ (k \in Tracked <=> FullAt(k) # 0)
         /\ \A k \in Tracked : k \in Keys /\ FullAt(k) = buckets[k].seen + Allowance(k) - buckets[k].tokens
                               /\ (\A t \in Int : WholeAt(k, t) <=> FullAt(k) <= t)
         /\ Contract!Remembered = Tracked
<1>1. \A k \in Tracked : k \in Keys /\ FullAt(k) = buckets[k].seen + Allowance(k) - buckets[k].tokens /\ FullAt(k) \in Nat /\ FullAt(k) # 0
  BY AllowanceIsSome DEF FullAt, BucketsInv, BucketsTypeOK, Owing
<1>2. \A k \in Keys \ Tracked : FullAt(k) = 0
  BY DEF FullAt
<1>3. ASSUME NEW k \in Tracked, NEW t \in Int PROVE WholeAt(k, t) <=> FullAt(k) <= t
  <2>1. buckets[k].seen \in Int /\ Allowance(k) \in Int /\ buckets[k].tokens \in Int
    BY <1>1, AllowanceIsSome DEF BucketsInv, BucketsTypeOK
  <2> QED
    BY <1>1, <2>1 DEF WholeAt
<1>4. Contract!Remembered = Tracked
  BY <1>1, <1>2 DEF Contract!Remembered
<1> QED
  BY <1>1, <1>2, <1>3, <1>4

\* Forgetting the keys of F, in the table and in the contract.
LEMMA ForgettingRefines ==
  ASSUME BucketsInv, NEW F \in SUBSET Tracked,
         (\A x \in F : WholeAt(x, now)) \/ Cardinality(Tracked) >= MaxKeys
  PROVE  /\ Contract!MayForget(F)
         /\ Contract!After(F) = [x \in Keys |-> IF x \in Tracked \ F THEN FullAt(x) ELSE 0]
         /\ Contract!Account(F) = AccountsWithout(F)
<1>1. F \in SUBSET Keys /\ now \in Nat
  BY DEF BucketsInv, BucketsTypeOK
<1>2. Contract!MayForget(F)
  BY <1>1, FullShape, SameCount DEF Contract!MayForget
<1>3. Contract!After(F) = [x \in Keys |-> IF x \in Tracked \ F THEN FullAt(x) ELSE 0]
  BY <1>1, FullShape DEF Contract!After
<1>4. ASSUME NEW k \in Watched
      PROVE  (k \in F /\ [x \in Keys |-> FullAt(x)][k] > now) <=> (k \in F \cap Tracked /\ ~IsWhole(k))
  <2>1. k \in Keys
    BY BucketsAssumption DEF BucketsAssumption
  <2>2. k \in Tracked => (IsWhole(k) <=> FullAt(k) <= now) /\ FullAt(k) \in Nat
    BY <1>1, <2>1, FullShape DEF IsWhole, WholeAt
  <2>3. k \in Tracked => (FullAt(k) > now <=> ~(FullAt(k) <= now))
    BY <1>1, <2>2
  <2> QED
    BY <2>1, <2>2, <2>3
<1>5. Contract!Account(F) = AccountsWithout(F)
  BY <1>4, Zenon DEF Contract!Account, AccountsWithout
<1> QED
  BY <1>2, <1>3, <1>5

\* A sweep forgets only what is whole again.
LEMMA SweptRefines ==
  ASSUME BucketsInv, NEW F \in SUBSET Tracked, Swept(F)
  PROVE  Contract!ContractNext
<1>1. F \in SUBSET Keys
  BY DEF BucketsInv, BucketsTypeOK
<1>2. /\ Contract!MayForget(F)
      /\ Contract!After(F) = [x \in Keys |-> IF x \in Tracked \ F THEN FullAt(x) ELSE 0]
      /\ Contract!Account(F) = AccountsWithout(F)
  BY ForgettingRefines DEF Swept
<1>3. [x \in Keys |-> FullAt(x)]' = Contract!After(F)
  <2>1. Tracked' = Tracked \ F /\ \A x \in Tracked \ F : buckets'[x] = buckets[x]
    BY <1>1, SweepShape DEF Swept, BucketsInv
  <2>2. \A x \in Keys : FullAt(x)' = IF x \in Tracked \ F THEN FullAt(x) ELSE 0
    BY <2>1 DEF FullAt, Allowance
  <2> QED
    BY <1>2, <2>2
<1>4. Contract!Forget(F)
  BY <1>2, <1>3 DEF Contract!Forget, Swept, Forgets, NoAnswer, Contract!NoAnswer
<1> QED
  BY <1>1, <1>4 DEF Contract!ContractNext

\* An answer is the contract's: it admits what the contract admits and charges the same.
LEMMA AnsweredRefines ==
  ASSUME BucketsInv, NEW F \in SUBSET Tracked, NEW k \in Keys, Answered(F, k, now)
  PROVE  Contract!ContractNext
<1> DEFINE b == Holding(F, k, now)
           tokens == Topped(b, k, now)
           full == IF k \in Tracked \ F THEN FullAt(k) ELSE 0
           charged == Contract!Later(full, now) + Refill
<1>1. F \in SUBSET Keys /\ now \in Nat
  BY DEF BucketsInv, BucketsTypeOK
<1>2. Allowance(k) \in Nat /\ Allowance(k) >= Refill /\ Refill \in Nat \ {0}
  BY AllowanceIsSome
<1>3. /\ Contract!MayForget(F)
      /\ Contract!After(F) = [x \in Keys |-> IF x \in Tracked \ F THEN FullAt(x) ELSE 0]
      /\ Contract!Account(F) = AccountsWithout(F)
  BY ForgettingRefines DEF Answered
\* What is left of the allowance is what the contract says is not owed.
<1>4. tokens \in 0 .. Allowance(k) /\ Contract!Later(full, now) = now + Allowance(k) - tokens
      /\ (tokens < Refill => full = now + Allowance(k) - tokens)
  <2>1. CASE k \in Tracked \ F
    <3>1. b = buckets[k] /\ full = buckets[k].seen + Allowance(k) - buckets[k].tokens
      BY <2>1, FullShape DEF Holding
    <3>2. buckets[k].seen \in 0 .. now /\ buckets[k].tokens \in 0 .. Allowance(k)
      BY <2>1 DEF BucketsInv, BucketsTypeOK
    <3> HIDE DEF b, full
    <3> QED
      BY <1>1, <1>2, <3>1, <3>2 DEF Topped, Least, Contract!Later
  <2>2. CASE k \notin Tracked \ F
    <3>1. b = [tokens |-> Allowance(k), seen |-> now] /\ full = 0
      BY <2>2 DEF Holding
    <3>2. b.tokens = Allowance(k) /\ b.seen = now
      BY <3>1
    <3> HIDE DEF b, full
    <3> QED
      BY <1>1, <1>2, <3>1, <3>2 DEF Topped, Least, Contract!Later
  <2> QED
    BY <2>1, <2>2
<1>5. /\ Tracked' = (Tracked \ F) \cup {k}
      /\ \A x \in Tracked \ F : x # k => buckets'[x] = buckets[x]
      /\ buckets'[k] = [tokens |-> IF tokens >= Refill THEN tokens - Refill ELSE tokens, seen |-> now]
      /\ spent' = [x \in Watched |-> AccountsWithout(F)[x] + (IF tokens >= Refill /\ x = k THEN Refill ELSE 0)]
      /\ answer' = [key |-> k, ok |-> tokens >= Refill]
  <2>1. /\ Tracked' = (Tracked \ F) \cup {k}
        /\ \A x \in Tracked \ F : x # k => buckets'[x] = buckets[x]
    <3>1. now \in 0 .. now
      BY <1>1
    <3> QED
      BY <1>1, <3>1, CallShape DEF Answered, BucketsInv
  <2>2. Calls(F, k, now)
    BY DEF Answered
  <2>3. buckets' = [x \in (Tracked \ F) \cup {k} |->
                      IF x = k THEN [tokens |-> IF tokens >= Refill THEN tokens - Refill ELSE tokens, seen |-> now]
                               ELSE Without(F)[x]]
    BY <2>2 DEF Calls, Charge, Without
  <2>4. /\ spent' = [x \in Watched |-> AccountsWithout(F)[x] + (IF tokens >= Refill /\ x = k THEN Refill ELSE 0)]
        /\ answer' = [key |-> k, ok |-> tokens >= Refill]
    BY <2>2 DEF Calls, Charge
  <2> HIDE DEF tokens
  <2> QED
    BY <2>1, <2>3, <2>4
<1>6. FullAt(k)' = (IF tokens >= Refill THEN charged ELSE full)
      /\ \A x \in Keys : x # k => FullAt(x)' = IF x \in Tracked \ F THEN FullAt(x) ELSE 0
  <2>1. FullAt(k)' = now + Allowance(k) - (IF tokens >= Refill THEN tokens - Refill ELSE tokens)
    <3> HIDE DEF tokens
    <3> QED
      BY <1>5 DEF FullAt, Allowance
  <2>2. \A x \in Keys : x # k => FullAt(x)' = IF x \in Tracked \ F THEN FullAt(x) ELSE 0
    BY <1>5 DEF FullAt, Allowance
  <2> HIDE DEF tokens, full
  <2> QED
    BY <1>1, <1>2, <1>4, <2>1, <2>2
<1>7. Contract!Charged(Contract!After(F), k) = charged
  BY <1>3 DEF Contract!Charged
<1>8. now' = now /\ mark' = mark
  BY DEF Answered
<1>9. charged <= now + [x \in Keys |-> Allowance(x)][k] <=> tokens >= Refill
  <2> HIDE DEF tokens, full
  <2> QED
    BY <1>1, <1>2, <1>4
<1> HIDE DEF tokens, full, charged
<1>10. CASE tokens >= Refill
  <2>1. [x \in Keys |-> FullAt(x)]' = [Contract!After(F) EXCEPT ![k] = charged]
    BY <1>3, <1>6, <1>10
  <2>2. spent' = [x \in Watched |-> Contract!Account(F)[x] + (IF x = k THEN Refill ELSE 0)]
    BY <1>3, <1>5, <1>10
  <2>3. answer' = [key |-> k, ok |-> TRUE]
    BY <1>5, <1>10, Zenon
  <2>4. charged <= now + [x \in Keys |-> Allowance(x)][k]
    BY <1>9, <1>10
  <2>5. Contract!Admit(F, k)
    BY <1>3, <1>7, <1>8, <2>1, <2>2, <2>3, <2>4, Zenon DEF Contract!Admit
  <2> QED
    BY <1>1, <2>5 DEF Contract!ContractNext
<1>11. CASE ~(tokens >= Refill)
  <2>1. [x \in Keys |-> FullAt(x)]' = Contract!After(F)
    BY <1>3, <1>6, <1>11 DEF full
  <2>2. spent' = Contract!Account(F)
    <3>1. AccountsWithout(F) \in [Watched -> Int]
      BY DEF AccountsWithout, BucketsInv, BucketsTypeOK
    <3>2. spent' = [x \in Watched |-> AccountsWithout(F)[x] + 0]
      BY <1>5, <1>11
    <3> QED
      BY <1>3, <3>1, <3>2
  <2>3. answer' = [key |-> k, ok |-> FALSE]
    <3>1. (tokens >= Refill) = FALSE
      BY <1>11
    <3> QED
      BY <1>5, <3>1, Zenon
  <2>4. charged > now + [x \in Keys |-> Allowance(x)][k]
    <3>1. charged \in Int /\ now + [x \in Keys |-> Allowance(x)][k] \in Int
      BY <1>1, <1>2, <1>4 DEF charged
    <3>2. ~(charged <= now + [x \in Keys |-> Allowance(x)][k])
      BY <1>9, <1>11
    <3> QED
      BY <3>1, <3>2
  <2>5. Contract!Refuse(F, k)
    BY <1>3, <1>7, <1>8, <2>1, <2>2, <2>3, <2>4, Zenon DEF Contract!Refuse
  <2> QED
    BY <1>1, <2>5 DEF Contract!ContractNext
<1> QED
  BY <1>10, <1>11

\* Every step of a table is one of the contract, or none.
LEMMA StepRefines ==
  ASSUME NoDelay, BucketsInv, [Next]_<<bucketVars, part>>
  PROVE  [Contract!ContractNext]_(Contract!contractVars)
<1>1. now \in Nat
  BY DEF BucketsInv, BucketsTypeOK
<1>2. ASSUME buckets' = buckets, now' = now, answer' = answer, mark' = mark, spent' = spent
      PROVE  UNCHANGED Contract!contractVars
  BY <1>2 DEF Contract!contractVars, FullAt, Tracked, Allowance
<1>3. ASSUME UNCHANGED buckets PROVE [x \in Keys |-> FullAt(x)]' = [x \in Keys |-> FullAt(x)]
  BY <1>3 DEF FullAt, Tracked, Allowance
<1>4. ASSUME NEW F \in SUBSET Tracked, NEW k \in Keys, NEW t \in 0 .. now, Answered(F, k, t)
      PROVE  Contract!ContractNext
  <2>1. t = now
    BY <1>1, <1>4, BucketsAssumption DEF Answered, NoDelay, BucketsAssumption, BucketsInv
  <2> QED
    BY <1>4, <2>1, AnsweredRefines
<1>5. CASE Tick
  <2>1. Contract!Pass
    BY <1>3, <1>5 DEF Tick, Contract!Pass, NoAnswer, Contract!NoAnswer
  <2> QED
    BY <2>1 DEF Contract!ContractNext
<1>6. CASE Mark
  <2>1. Contract!Mark
    BY <1>3, <1>6 DEF Mark, Contract!Mark, NoAnswer, Contract!NoAnswer
  <2> QED
    BY <2>1 DEF Contract!ContractNext
\* A caller reads the clock: nothing is forgotten.
<1>7. ASSUME answer' = NoAnswer, UNCHANGED <<now, buckets, mark, spent>> PROVE Contract!ContractNext
  <2>1. /\ Contract!MayForget({})
        /\ Contract!After({}) = [x \in Keys |-> FullAt(x)]
        /\ Contract!Account({}) = spent
    <3>1. spent \in [Watched -> Nat]
      BY DEF BucketsInv, BucketsTypeOK
    <3> QED
      BY <3>1 DEF Contract!MayForget, Contract!After, Contract!Account
  <2>2. Contract!Forget({})
    BY <1>3, <1>7, <2>1 DEF Contract!Forget, NoAnswer, Contract!NoAnswer
  <2> QED
    BY <2>2 DEF Contract!ContractNext
<1>8. CASE UNCHANGED <<bucketVars, part>>
  BY <1>2, <1>8 DEF bucketVars
<1>9. CASE Next
  BY <1>4, <1>5, <1>6, <1>7, <1>9, StepKinds, SweptRefines
<1> QED
  BY <1>8, <1>9

\* Every table answers as one that never forgets, although it forgets (allow, sweepLocked,
\* makeRoomLocked), unless a clock read before the lock is old when it is written.
THEOREM TablesKeepContract == ASSUME NoDelay PROVE Spec => KeepsContract
<1>1. Init => Contract!ContractInit
  BY DEF Init, BucketsInit, Contract!ContractInit, FullAt, Tracked, NoAnswer, Contract!NoAnswer
<1>2. Spec => []BucketsInv
  BY InitiallyInv, StepKeeps, PTL DEF Spec
<1>3. BucketsInv /\ [Next]_<<bucketVars, part>> => [Contract!ContractNext]_(Contract!contractVars)
  BY StepRefines
<1> QED
  BY <1>1, <1>2, <1>3, PTL DEF Spec, KeepsContract, Contract!ContractSpec

\* The contract again, with what module RateProofs proves about it.
Rate == INSTANCE RateProofs
  WITH Cost <- Refill, Cap <- [k \in Keys |-> Allowance(k)],
       clock <- now, full <- [k \in Keys |-> FullAt(k)]

\* "One scan per refill interval for ever, whatever the bucket holds" (targetlimit.go): in any
\* window a key is admitted for no more than its allowance and the time the window has lasted.
\* The run hosts_stale_clock shows that it is not so when a caller is late.
THEOREM AllowanceIsKept == ASSUME NoDelay PROVE Spec => []WithinAllowanceAndDelay
<1>1. Rate!ContractAssumption
  BY BucketsAssumption, AllowanceIsSome DEF BucketsAssumption, Rate!ContractAssumption
<1>2. Rate!ContractSpec => []Rate!WithinAllowance /\ []Rate!ContractTypeOK
  BY <1>1, Rate!WithinAllowanceHolds, Rate!ContractTypeCorrect
<1>3. Contract!ContractInit => Rate!ContractInit
  BY DEF Contract!ContractInit, Rate!ContractInit, Contract!NoAnswer, Rate!NoAnswer
<1>4. [Contract!ContractNext]_(Contract!contractVars) => [Rate!ContractNext]_(Rate!contractVars)
  <2>1. \A S : Rate!Cardinality(S) = Cardinality(S)
    BY Zenon DEF Rate!Cardinality, Cardinality, Rate!IsFiniteSet, IsFiniteSet
  <2>2. Contract!contractVars = Rate!contractVars /\ Contract!NoAnswer = Rate!NoAnswer
        /\ Contract!Remembered = Rate!Remembered
    BY Zenon DEF Contract!contractVars, Rate!contractVars, Contract!NoAnswer, Rate!NoAnswer, Contract!Remembered, Rate!Remembered
  <2>3. \A F : /\ Contract!MayForget(F) <=> Rate!MayForget(F)
               /\ Contract!After(F) = Rate!After(F)
               /\ Contract!Account(F) = Rate!Account(F)
    BY <2>1, <2>2, SameCount, Zenon DEF Contract!MayForget, Rate!MayForget, Contract!After, Rate!After, Contract!Account, Rate!Account
  <2>4. \A f, k : Contract!Charged(f, k) = Rate!Charged(f, k)
    BY Zenon DEF Contract!Charged, Rate!Charged, Contract!Later, Rate!Later
  <2>5. (Contract!Pass <=> Rate!Pass) /\ (Contract!Mark <=> Rate!Mark)
    BY <2>2, Zenon DEF Contract!Pass, Rate!Pass, Contract!Mark, Rate!Mark
  <2>6. \A F : Contract!Forget(F) <=> Rate!Forget(F)
    BY <2>2, <2>3, Zenon DEF Contract!Forget, Rate!Forget
  <2>7. \A F, k : (Contract!Admit(F, k) <=> Rate!Admit(F, k)) /\ (Contract!Refuse(F, k) <=> Rate!Refuse(F, k))
    BY <2>3, <2>4, Zenon DEF Contract!Admit, Rate!Admit, Contract!Refuse, Rate!Refuse
  <2>8. Contract!ContractNext => Rate!ContractNext
    BY <2>5, <2>6, <2>7, Zenon DEF Contract!ContractNext, Rate!ContractNext
  <2>9. UNCHANGED Contract!contractVars => UNCHANGED Rate!contractVars
    BY Zenon DEF Contract!contractVars, Rate!contractVars
  <2> QED
    BY <2>8, <2>9
<1>5. Spec => []Rate!WithinAllowance /\ []Rate!ContractTypeOK
  <2>1. Spec => Contract!ContractSpec
    BY TablesKeepContract DEF KeepsContract
  <2> QED
    BY <1>2, <1>3, <1>4, <2>1, PTL DEF Contract!ContractSpec, Rate!ContractSpec
<1>6. BucketsInv /\ Rate!WithinAllowance /\ Rate!ContractTypeOK => WithinAllowanceAndDelay
  <2> SUFFICES ASSUME BucketsInv, Rate!WithinAllowance, Rate!ContractTypeOK, NEW k \in Watched
               PROVE  spent[k] <= Allowance(k) + (now - mark) + MaxDelay
    BY DEF WithinAllowanceAndDelay
  <2>1. k \in Keys /\ MaxDelay \in Nat
    BY BucketsAssumption DEF BucketsAssumption
  <2>2. spent[k] <= Allowance(k) + (now - mark)
    BY <2>1 DEF Rate!WithinAllowance
  <2>3. spent[k] \in Int /\ Allowance(k) \in Int /\ now \in Int /\ mark \in Int
    BY <2>1, AllowanceIsSome DEF BucketsInv, BucketsTypeOK, Rate!ContractTypeOK
  <2> QED
    BY <2>1, <2>2, <2>3
<1>7. Spec => []BucketsInv
  BY InitiallyInv, StepKeeps, PTL DEF Spec
<1> QED
  BY <1>5, <1>6, <1>7, PTL
=============================================================================
