------------------------------ MODULE MCBuckets ------------------------------
(***************************************************************************)
(* The three bucket tables for TLC. They share no state in the program, so *)
(* a behaviour here is a behaviour of one of them, chosen at the start.    *)
(* Only the limiters of httpapi read the clock outside the lock, and only  *)
(* the table of hosts is as large as the number of its keys.               *)
(***************************************************************************)
EXTENDS Buckets, TLC

CONSTANTS Parts, ForcedEvery, k1, k2, k3

VARIABLE part

Attempts == INSTANCE GateAttempts
Clients == INSTANCE ClientLimiter
Targets == INSTANCE TargetLimiter WITH MaxKeys <- Cardinality(Keys)

\* Allowances differ by host; so that one bound serves the three tables they
\* differ by key in all of them.
MCBurst == [k \in Keys |-> IF k = k1 THEN 1 ELSE 2]

Symmetry == Permutations(Callers) \cup Permutations(Keys \ {k1})

Init == BucketsInit /\ part \in Parts

Next ==
  /\ \/ part = "attempts" /\ Attempts!AttemptsNext
     \/ part = "clients" /\ Clients!ClientNext
     \/ part = "targets" /\ Targets!TargetNext
  /\ UNCHANGED part

Spec == Init /\ [][Next]_<<bucketVars, part>>

\* A table never holds more keys than it is allowed, and no key is held longer after
\* its last call than the code and the privacy page say, whether or not another call
\* arrives.
HeldAsStated ==
  /\ part # "targets" => Cardinality(Tracked) <= MaxKeys
  /\ part = "attempts" => Attempts!AttemptsRetention
  /\ part = "clients" => Clients!ClientRetention
  /\ part = "targets" => Targets!TargetRetention
=============================================================================
