---------------------------- MODULE ServiceProofs ----------------------------
(***************************************************************************)
(* Proofs about Service, for any number of connections, any requests and   *)
(* any caps and allowances.                                                *)
(*                                                                         *)
(* The argument: a step of a handler moves one connection from one place   *)
(* to another (Moves). The slots change by what the two places hold, so    *)
(* they stay the number of connections that are where a slot is held; the  *)
(* figures change by what was answered, or by the scan that stands between *)
(* its record and its reply; and a place past a guard is reached only by   *)
(* a request the guard let through (Cleared).                              *)
(***************************************************************************)
EXTENDS Service, FiniteSetTheorems, TLAPS

\* The connections whose handler is at one of these places.
At(P) == {c \in Conns : pc[c] \in P}
Counts(p, P) == IF p \in P THEN 1 ELSE 0

PastScreen == {"spend", "examine", "acquire"} \cup HoldingScan \cup HoldingProof
PastExamine == {"acquire"} \cup HoldingScan \cup HoldingProof

\* What a request at a place is known to be free of.
Cleared(q, p) ==
  /\ p \in PastScreen => q.check # Read /\ q.wrong \cap InOrder(Screened) = {}
  /\ p = "screen" => q.check # Read
  /\ p \in PastExamine => q.wrong \cap InOrder(Examined) = {}
  /\ p \in HoldingScan => q.check \in ScanChecks

HistoryTypeOK ==
  /\ req \in [Conns -> Requests \cup {NoRequest}]
  /\ answered \in [Codes \cup {Ok} -> Nat]
  /\ IsFiniteSet(open)

\* A scan is kept after it was recorded.
KeptOnce == kept + Cardinality(At({"keep"})) <= recorded

ServiceInv ==
  /\ TypeOK
  /\ HistoryTypeOK
  /\ EverySlotIsHeld
  /\ FiguresAreTheAnswers
  /\ KeptOnce
  /\ \A c \in Conns : Cleared(req[c], pc[c])
  /\ ContactIsPermitted

\* What a step of the handler of c does that takes it to p.
Moves(c, p) ==
  /\ p \in Places /\ pc[c] # "idle"
  /\ pc' = [pc EXCEPT ![c] = p]
  /\ UNCHANGED <<scoped, open, slots, stale>>
  /\ req' = IF p = "idle" THEN [req EXCEPT ![c] = NoRequest] ELSE req
  /\ over' \in [Conns -> BOOLEAN]
  /\ sem' = sem - Counts(pc[c], HoldingScan) + Counts(p, HoldingScan)
  /\ proofSem' = proofSem - Counts(pc[c], HoldingProof) + Counts(p, HoldingProof)

\* It takes a slot only where one is free, and an allowance only what is left.
WithinTheCaps ==
  /\ sem' <= MaxConcurrent /\ proofSem' <= MaxConcurrentProofs
  /\ reads' \in 0 .. ReadBurst /\ rate' \in 0 .. Burst
  /\ proofs' \in 0 .. ProofBurst /\ targets' \in 0 .. TargetBurst

\* What it does to the figures: nothing; a refusal, counted and answered; or the
\* record, the keeping and the reply of a scan.
Figures(from, p) ==
  \/ /\ UNCHANGED <<refused, recorded, kept, answered>>
     /\ {from, p} \cap {"keep", "reply"} = {}
  \/ \E code \in Codes :
       /\ refused' = [refused EXCEPT ![code] = @ + 1]
       /\ answered' = [answered EXCEPT ![code] = @ + 1]
       /\ UNCHANGED <<recorded, kept>>
       /\ {from, p} \cap {"keep", "reply"} = {}
  \/ /\ from = "record" /\ p = "keep"
     /\ recorded' = recorded + 1
     /\ UNCHANGED <<refused, kept, answered>>
  \/ /\ from = "keep" /\ p = "reply"
     /\ kept' \in {kept, kept + 1}
     /\ UNCHANGED <<refused, recorded, answered>>
  \/ /\ from = "reply" /\ p = "idle"
     /\ answered' = [answered EXCEPT ![Ok] = @ + 1]
     /\ UNCHANGED <<refused, recorded, kept>>

\* Whom it connects to.
Contacts(c) ==
  \/ contacted' = contacted
  \/ pc[c] = "run" /\ Shown(c) /\ contacted' = contacted \cup {req[c]}

HandlerStep(c, p) ==
  /\ Moves(c, p)
  /\ p # "idle" => Cleared(req[c], p)
  /\ WithinTheCaps
  /\ Figures(pc[c], p)
  /\ Contacts(c)

-----------------------------------------------------------------------------
(* Counting the connections at some places. *)

\* Moving one connection changes how many are at the places P by what the place
\* it leaves and the place it comes to count.
LEMMA MovingOne ==
  ASSUME NEW S, NEW f \in [S -> Places], NEW c \in S, NEW p, NEW P,
         IsFiniteSet({x \in S : f[x] \in P})
  PROVE  /\ IsFiniteSet({x \in S : [f EXCEPT ![c] = p][x] \in P})
         /\ Cardinality({x \in S : [f EXCEPT ![c] = p][x] \in P})
              = Cardinality({x \in S : f[x] \in P}) - Counts(f[c], P) + Counts(p, P)
<1> DEFINE g == [f EXCEPT ![c] = p]
           before == {x \in S : f[x] \in P}
           after == {x \in S : g[x] \in P}
           others == before \ {c}
<1> SUFFICES /\ IsFiniteSet(after)
             /\ Cardinality(after) = Cardinality(before) - Counts(f[c], P) + Counts(p, P)
  OBVIOUS
<1>1. /\ IsFiniteSet(others)
      /\ Cardinality(others) = IF c \in before THEN Cardinality(before) - 1 ELSE Cardinality(before)
  BY FS_RemoveElement
<1>2. Cardinality(others) = Cardinality(before) - Counts(f[c], P)
  <2>1. Cardinality(before) \in Nat
    BY FS_CardinalityType
  <2>2. c \in before <=> f[c] \in P
    OBVIOUS
  <2> QED
    BY <1>1, <2>1, <2>2 DEF Counts
<1>3. CASE p \in P
  <2>1. after = others \cup {c}
    BY <1>3
  <2>2. /\ IsFiniteSet(others \cup {c})
        /\ Cardinality(others \cup {c}) = Cardinality(others) + 1
    <3>1. c \notin others
      OBVIOUS
    <3> HIDE DEF others
    <3> QED
      BY <1>1, <3>1, FS_AddElement
  <2>3. Counts(p, P) = 1
    BY <1>3 DEF Counts
  <2> HIDE DEF before, after, others
  <2> QED
    BY <1>2, <2>1, <2>2, <2>3
<1>4. CASE p \notin P
  <2>1. after = others
    BY <1>4
  <2>2. Counts(p, P) = 0
    BY <1>4 DEF Counts
  <2>3. Cardinality(before) \in Nat /\ Counts(f[c], P) \in Nat
    BY FS_CardinalityType DEF Counts
  <2> HIDE DEF before, after, others
  <2> QED
    BY <1>1, <1>2, <2>1, <2>2, <2>3
<1> QED
  BY <1>3, <1>4

\* Only open connections have a handler that is anywhere: those at any places
\* but idle are finitely many.
LEMMA HandlersAreFinite ==
  ASSUME ServiceInv, NEW P, "idle" \notin P
  PROVE  IsFiniteSet(At(P)) /\ Cardinality(At(P)) \in Nat
<1>1. At(P) \subseteq open
  BY DEF At, ServiceInv, TypeOK
<1>2. IsFiniteSet(open)
  BY DEF ServiceInv, HistoryTypeOK
<1>3. IsFiniteSet(At(P))
  BY <1>1, <1>2, FS_Subset
<1> QED
  BY <1>3, FS_CardinalityType

-----------------------------------------------------------------------------
(* The guards' answers. *)

\* The first fault of the screened list is one of that list.
LEMMA FirstScreened ==
  ASSUME NEW c \in Conns, Has(c, Screened)
  PROVE  First(c, Screened) \in Codes
<1>1. /\ DOMAIN Screened = 1 .. 2
      /\ \A i \in 1 .. 2 : Screened[i] \in InOrder(Screened)
  BY DEF Screened, InOrder
<1>2. \E i \in 1 .. 2 : Screened[i] \in req[c].wrong
                        /\ \A j \in 1 .. i - 1 : Screened[j] \notin req[c].wrong
  <2>1. CASE Screened[1] \in req[c].wrong
    BY <2>1
  <2>2. CASE Screened[1] \notin req[c].wrong
    BY <2>2, <1>1 DEF Has
  <2> QED
    BY <2>1, <2>2
<1>3. First(c, Screened) \in InOrder(Screened)
  BY <1>1, <1>2 DEF First
<1> QED
  BY <1>3 DEF Codes

\* The first fault of the examined list is one of that list.
LEMMA FirstExamined ==
  ASSUME NEW c \in Conns, Has(c, Examined)
  PROVE  First(c, Examined) \in Codes
<1>1. /\ DOMAIN Examined = 1 .. 8
      /\ \A i \in 1 .. 8 : Examined[i] \in InOrder(Examined)
  BY DEF Examined, InOrder
<1> DEFINE faulty(i) == Examined[i] \in req[c].wrong
           first(i) == faulty(i) /\ \A j \in 1 .. i - 1 : ~faulty(j)
<1>2. \E i \in 1 .. 8 : first(i)
  <2>1. \E i \in 1 .. 8 : faulty(i)
    BY <1>1 DEF Has
  <2> HIDE DEF faulty
  <2>2. SUFFICES ASSUME \A i \in 1 .. 8 : ~first(i) PROVE FALSE
    OBVIOUS
  <2>3. ~faulty(1)
    BY <2>2
  <2>4. ~faulty(2)
    BY <2>2, <2>3
  <2>5. ~faulty(3)
    BY <2>2, <2>3, <2>4
  <2>6. ~faulty(4)
    BY <2>2, <2>3, <2>4, <2>5
  <2>7. ~faulty(5)
    BY <2>2, <2>3, <2>4, <2>5, <2>6
  <2>8. ~faulty(6)
    BY <2>2, <2>3, <2>4, <2>5, <2>6, <2>7
  <2>9. ~faulty(7)
    BY <2>2, <2>3, <2>4, <2>5, <2>6, <2>7, <2>8
  <2>10. ~faulty(8)
    BY <2>2, <2>3, <2>4, <2>5, <2>6, <2>7, <2>8, <2>9
  <2> QED
    BY <2>1, <2>3, <2>4, <2>5, <2>6, <2>7, <2>8, <2>9, <2>10
<1>3. First(c, Examined) \in InOrder(Examined)
  BY <1>1, <1>2 DEF First
<1> QED
  BY <1>3 DEF Codes

\* A request without a fault of a list is free of that list.
LEMMA WithoutFault ==
  ASSUME NEW c, NEW s, ~Has(c, s)
  PROVE  req[c].wrong \cap InOrder(s) = {}
BY DEF Has, InOrder

-----------------------------------------------------------------------------
(* One lemma for each way a handler goes on. *)

\* However a handler ends, it gives back what it holds (Done, Release).
LEMMA DoneMoves ==
  ASSUME ServiceInv, NEW c \in Conns, Done(c), pc[c] # "idle"
  PROVE  Moves(c, "idle") /\ sem' <= MaxConcurrent /\ proofSem' <= MaxConcurrentProofs
<1>1. /\ sem \in 0 .. MaxConcurrent /\ proofSem \in 0 .. MaxConcurrentProofs
      /\ over \in [Conns -> BOOLEAN] /\ MaxConcurrent \in Nat /\ MaxConcurrentProofs \in Nat
  BY ServiceAssumption DEF ServiceInv, TypeOK
<1>2. Counts("idle", HoldingScan) = 0 /\ Counts("idle", HoldingProof) = 0
  BY DEF Counts, HoldingScan, HoldingProof
<1>3. /\ sem' = sem - Counts(pc[c], HoldingScan)
      /\ proofSem' = proofSem - Counts(pc[c], HoldingProof)
      /\ Counts(pc[c], HoldingScan) \in 0 .. 1 /\ Counts(pc[c], HoldingProof) \in 0 .. 1
  BY DEF Done, Release, Counts
<1>4. /\ "idle" \in Places
      /\ pc' = [pc EXCEPT ![c] = "idle"]
      /\ UNCHANGED <<scoped, open, slots, stale>>
      /\ req' = [req EXCEPT ![c] = NoRequest]
      /\ over' \in [Conns -> BOOLEAN]
  BY <1>1 DEF Done, connVars, Places
<1>5. /\ sem' = sem - Counts(pc[c], HoldingScan) + Counts("idle", HoldingScan)
      /\ proofSem' = proofSem - Counts(pc[c], HoldingProof) + Counts("idle", HoldingProof)
      /\ sem' <= MaxConcurrent /\ proofSem' <= MaxConcurrentProofs
  BY <1>1, <1>2, <1>3
<1> QED
  BY <1>4, <1>5 DEF Moves

\* Going on to a place that holds what the last one held changes no slot.
LEMMA GotoMoves ==
  ASSUME ServiceInv, NEW c \in Conns, NEW p \in Places \ {"idle"}, Goto(c, p),
         UNCHANGED <<sem, proofSem>>, pc[c] # "idle",
         pc[c] \in HoldingScan <=> p \in HoldingScan,
         pc[c] \in HoldingProof <=> p \in HoldingProof
  PROVE  Moves(c, p) /\ sem' <= MaxConcurrent /\ proofSem' <= MaxConcurrentProofs
<1>1. /\ sem \in 0 .. MaxConcurrent /\ proofSem \in 0 .. MaxConcurrentProofs
      /\ over \in [Conns -> BOOLEAN] /\ MaxConcurrent \in Nat /\ MaxConcurrentProofs \in Nat
  BY ServiceAssumption DEF ServiceInv, TypeOK
<1>2. /\ Counts(pc[c], HoldingScan) = Counts(p, HoldingScan)
      /\ Counts(pc[c], HoldingProof) = Counts(p, HoldingProof)
      /\ Counts(p, HoldingScan) \in 0 .. 1 /\ Counts(p, HoldingProof) \in 0 .. 1
  BY DEF Counts
<1>3. /\ sem' = sem - Counts(pc[c], HoldingScan) + Counts(p, HoldingScan)
      /\ proofSem' = proofSem - Counts(pc[c], HoldingProof) + Counts(p, HoldingProof)
      /\ sem' <= MaxConcurrent /\ proofSem' <= MaxConcurrentProofs
  BY <1>1, <1>2
<1>4. /\ pc' = [pc EXCEPT ![c] = p]
      /\ UNCHANGED <<scoped, open, slots, stale>>
      /\ req' = req /\ over' = over
  BY DEF Goto, connVars
<1> QED
  BY <1>1, <1>3, <1>4 DEF Moves

\* A refusal answers and counts with one code, and ends (refuse).
LEMMA RefusalIsAStep ==
  ASSUME ServiceInv, NEW c \in Conns, NEW code \in Codes, Refuse(c, code),
         pc[c] \notin {"idle", "keep", "reply"},
         reads' \in 0 .. ReadBurst, rate' \in 0 .. Burst,
         proofs' \in 0 .. ProofBurst, targets' \in 0 .. TargetBurst
  PROVE  \E p \in Places : HandlerStep(c, p)
<1>1. /\ Moves(c, "idle") /\ sem' <= MaxConcurrent /\ proofSem' <= MaxConcurrentProofs
  BY DoneMoves DEF Refuse
<1>2. Figures(pc[c], "idle")
  BY DEF Refuse, Figures
<1>3. Contacts(c)
  BY DEF Refuse, Contacts
<1> QED
  BY <1>1, <1>2, <1>3 DEF HandlerStep, WithinTheCaps, Places

\* An end without an answer that is counted.
LEMMA SilentEndIsAStep ==
  ASSUME ServiceInv, NEW c \in Conns, Done(c), UNCHANGED <<counters, history>>,
         pc[c] \notin {"idle", "keep", "reply"},
         reads' \in 0 .. ReadBurst, rate' \in 0 .. Burst,
         proofs' \in 0 .. ProofBurst, targets' \in 0 .. TargetBurst
  PROVE  \E p \in Places : HandlerStep(c, p)
<1>1. /\ Moves(c, "idle") /\ sem' <= MaxConcurrent /\ proofSem' <= MaxConcurrentProofs
  BY DoneMoves
<1>2. Figures(pc[c], "idle")
  BY DEF counters, history, Figures
<1>3. Contacts(c)
  BY DEF history, Contacts
<1> QED
  BY <1>1, <1>2, <1>3 DEF HandlerStep, WithinTheCaps, Places

\* On to the next guard, which the request may reach.
LEMMA ContinueIsAStep ==
  ASSUME ServiceInv, NEW c \in Conns, NEW p \in Places \ {"idle", "keep", "reply"},
         Continue(c, p), Cleared(req[c], p),
         pc[c] \notin {"idle", "keep", "reply"},
         pc[c] \in HoldingScan <=> p \in HoldingScan,
         pc[c] \in HoldingProof <=> p \in HoldingProof,
         reads' \in 0 .. ReadBurst, rate' \in 0 .. Burst,
         proofs' \in 0 .. ProofBurst, targets' \in 0 .. TargetBurst
  PROVE  \E q \in Places : HandlerStep(c, q)
<1>1. /\ Goto(c, p) /\ UNCHANGED <<sem, proofSem, counters, history>>
  BY DEF Continue
<1>2. /\ Moves(c, p) /\ sem' <= MaxConcurrent /\ proofSem' <= MaxConcurrentProofs
  BY <1>1, GotoMoves
<1>3. Figures(pc[c], p)
  BY <1>1 DEF counters, history, Figures
<1>4. Contacts(c)
  BY <1>1 DEF history, Contacts
<1> QED
  BY <1>2, <1>3, <1>4 DEF HandlerStep, WithinTheCaps

-----------------------------------------------------------------------------
(* Every step of a handler is such a step. *)

\* The allowances and the request of a handler, as the invariant has them.
LEMMA AtAHandler ==
  ASSUME ServiceInv, NEW c \in Conns, pc[c] # "idle"
  PROVE  /\ req[c] \in Requests /\ c \in open
         /\ req[c].check \in ScanChecks \cup {Verify, Read}
         /\ Cleared(req[c], pc[c])
         /\ reads \in 0 .. ReadBurst /\ rate \in 0 .. Burst
         /\ proofs \in 0 .. ProofBurst /\ targets \in 0 .. TargetBurst
         /\ {ReadBurst, Burst, ProofBurst, TargetBurst} \subseteq Nat
BY ServiceAssumption DEF ServiceInv, TypeOK

\* readLimited, then admit: the guards before a scan or a proof is begun.
LEMMA AdmitIsAStep ==
  ASSUME ServiceInv, NEW c \in Conns,
         AllowRead(c) \/ Screen(c) \/ Spend(c) \/ Examine(c)
  PROVE  \E p \in Places : HandlerStep(c, p)
<1> USE DEF Places, HoldingScan, HoldingProof
<1>0. {"rate_limited"} \subseteq Codes
  BY DEF Codes
<1>1. CASE AllowRead(c)
  <2>1. pc[c] = "reads"
    BY <1>1 DEF AllowRead
  <2>2. /\ reads' \in 0 .. ReadBurst /\ rate' \in 0 .. Burst
        /\ proofs' \in 0 .. ProofBurst /\ targets' \in 0 .. TargetBurst
    BY <1>1, <2>1, AtAHandler DEF AllowRead
  <2>3. CASE Refuse(c, "rate_limited")
    BY <1>0, <2>1, <2>2, <2>3, RefusalIsAStep
  <2>4. CASE Done(c) /\ UNCHANGED <<counters, history>>
    BY <2>1, <2>2, <2>4, SilentEndIsAStep
  <2>5. CASE req[c].check # Read /\ Continue(c, "screen")
    <3>1. Cleared(req[c], "screen")
      BY <2>5 DEF Cleared, PastScreen, PastExamine
    <3> QED
      BY <2>1, <2>2, <2>5, <3>1, ContinueIsAStep
  <2> QED
    BY <1>1, <2>3, <2>4, <2>5 DEF AllowRead
<1>2. CASE Screen(c)
  <2>1. pc[c] = "screen" /\ UNCHANGED allowances
    BY <1>2 DEF Screen
  <2>2. /\ reads' \in 0 .. ReadBurst /\ rate' \in 0 .. Burst
        /\ proofs' \in 0 .. ProofBurst /\ targets' \in 0 .. TargetBurst
        /\ Cleared(req[c], "screen")
    BY <2>1, AtAHandler DEF allowances
  <2>3. CASE Has(c, Screened)
    <3>1. Refuse(c, First(c, Screened)) /\ First(c, Screened) \in Codes
      BY <1>2, <2>3, FirstScreened DEF Screen
    <3> QED
      BY <2>1, <2>2, <3>1, RefusalIsAStep
  <2>4. CASE ~Has(c, Screened)
    <3>1. Continue(c, "spend")
      BY <1>2, <2>4 DEF Screen
    <3>2. Cleared(req[c], "spend")
      BY <2>2, <2>4, WithoutFault DEF Cleared, PastScreen, PastExamine
    <3> QED
      BY <2>1, <2>2, <3>1, <3>2, ContinueIsAStep
  <2> QED
    BY <2>3, <2>4
<1>3. CASE Spend(c)
  <2>1. pc[c] = "spend"
    BY <1>3 DEF Spend
  <2>2. /\ reads' \in 0 .. ReadBurst /\ rate' \in 0 .. Burst
        /\ proofs' \in 0 .. ProofBurst /\ targets' \in 0 .. TargetBurst
    BY <1>3, <2>1, AtAHandler DEF Spend
  <2>3. Cleared(req[c], "spend")
    BY <2>1, AtAHandler
  <2>4. CASE Refuse(c, "rate_limited")
    BY <1>0, <2>1, <2>2, <2>4, RefusalIsAStep
  <2>5. CASE Continue(c, "examine")
    <3>1. Cleared(req[c], "examine")
      BY <2>3 DEF Cleared, PastScreen, PastExamine
    <3> QED
      BY <2>1, <2>2, <2>5, <3>1, ContinueIsAStep
  <2> QED
    BY <1>3, <2>4, <2>5 DEF Spend
<1>4. CASE Examine(c)
  <2>1. pc[c] = "examine" /\ UNCHANGED allowances
    BY <1>4 DEF Examine
  <2>2. /\ reads' \in 0 .. ReadBurst /\ rate' \in 0 .. Burst
        /\ proofs' \in 0 .. ProofBurst /\ targets' \in 0 .. TargetBurst
        /\ Cleared(req[c], "examine")
    BY <2>1, AtAHandler DEF allowances
  <2>3. CASE Has(c, Examined)
    <3>1. Refuse(c, First(c, Examined)) /\ First(c, Examined) \in Codes
      BY <1>4, <2>3, FirstExamined DEF Examine
    <3> QED
      BY <2>1, <2>2, <3>1, RefusalIsAStep
  <2>4. CASE ~Has(c, Examined)
    <3>1. Continue(c, "acquire")
      BY <1>4, <2>4 DEF Examine
    <3>2. Cleared(req[c], "acquire")
      BY <2>2, <2>4, WithoutFault DEF Cleared, PastScreen, PastExamine
    <3> QED
      BY <2>1, <2>2, <3>1, <3>2, ContinueIsAStep
  <2> QED
    BY <2>3, <2>4
<1> QED
  BY <1>1, <1>2, <1>3, <1>4

\* runCheck: a slot, the target's budget, the scan, and its answer.
LEMMA RunCheckIsAStep ==
  ASSUME ServiceInv, NEW c \in Conns,
         \/ Acquire(c) \/ AskTarget(c) \/ Run(c) \/ Judge(c)
         \/ Record(c) \/ Keep(c) \/ Reply(c) \/ Panic(c)
  PROVE  \E p \in Places : HandlerStep(c, p)
<1> USE DEF Places, HoldingScan, HoldingProof
<1>0. {"too_busy", "target_busy", "timeout", "not_verified", "scan_failed",
       "blocked_destination"} \subseteq Codes
  BY DEF Codes
<1>1. CASE Acquire(c)
  <2>1. pc[c] = "acquire" /\ req[c].check # Verify /\ UNCHANGED allowances
    BY <1>1 DEF Acquire
  <2>2. /\ reads' \in 0 .. ReadBurst /\ rate' \in 0 .. Burst
        /\ proofs' \in 0 .. ProofBurst /\ targets' \in 0 .. TargetBurst
        /\ Cleared(req[c], "acquire") /\ req[c].check \in ScanChecks \cup {Verify, Read}
    BY <2>1, AtAHandler DEF allowances
  <2>3. CASE Refuse(c, "too_busy")
    BY <1>0, <2>1, <2>2, <2>3, RefusalIsAStep
  <2>4. CASE /\ sem < MaxConcurrent /\ sem' = sem + 1
             /\ Goto(c, "target") /\ UNCHANGED <<proofSem, counters, history>>
    <3>1. /\ Counts("acquire", HoldingScan) = 0 /\ Counts("target", HoldingScan) = 1
          /\ Counts("acquire", HoldingProof) = 0 /\ Counts("target", HoldingProof) = 0
      BY DEF Counts
    <3>2. /\ sem \in Nat /\ proofSem \in 0 .. MaxConcurrentProofs
          /\ over \in [Conns -> BOOLEAN]
          /\ MaxConcurrent \in Nat /\ MaxConcurrentProofs \in Nat
      BY ServiceAssumption DEF ServiceInv, TypeOK
    <3>3. /\ pc' = [pc EXCEPT ![c] = "target"]
          /\ UNCHANGED <<scoped, open, slots, stale>>
          /\ req' = req /\ over' = over
      BY <2>4 DEF Goto, connVars
    <3>4. /\ sem' = sem - Counts(pc[c], HoldingScan) + Counts("target", HoldingScan)
          /\ proofSem' = proofSem - Counts(pc[c], HoldingProof) + Counts("target", HoldingProof)
          /\ sem' <= MaxConcurrent /\ proofSem' <= MaxConcurrentProofs
      BY <2>1, <2>4, <3>1, <3>2
    <3>5. Moves(c, "target")
      BY <2>1, <3>2, <3>3, <3>4 DEF Moves
    <3>6. Cleared(req[c], "target")
      BY <2>1, <2>2 DEF Cleared, PastScreen, PastExamine
    <3>7. Figures(pc[c], "target")
      BY <2>1, <2>4 DEF Figures, counters, history
    <3>8. Contacts(c)
      BY <2>4 DEF Contacts, history
    <3> QED
      BY <2>2, <3>4, <3>5, <3>6, <3>7, <3>8 DEF HandlerStep, WithinTheCaps
  <2> QED
    BY <1>1, <2>3, <2>4 DEF Acquire
<1>2. CASE AskTarget(c)
  <2>1. pc[c] = "target"
    BY <1>2 DEF AskTarget
  <2>2. /\ reads' \in 0 .. ReadBurst /\ rate' \in 0 .. Burst
        /\ proofs' \in 0 .. ProofBurst /\ targets' \in 0 .. TargetBurst
    BY <1>2, <2>1, AtAHandler DEF AskTarget
  <2>3. CASE Refuse(c, "target_busy")
    BY <1>0, <2>1, <2>2, <2>3, RefusalIsAStep
  <2>4. CASE Continue(c, "run")
    <3>1. Cleared(req[c], "target")
      BY <2>1, AtAHandler
    <3>2. Cleared(req[c], "run")
      BY <3>1 DEF Cleared, PastScreen, PastExamine
    <3> QED
      BY <2>1, <2>2, <2>4, <3>2, ContinueIsAStep
  <2> QED
    BY <1>2, <2>3, <2>4 DEF AskTarget
<1>3. CASE Run(c)
  <2>1. pc[c] = "run" /\ UNCHANGED allowances /\ Goto(c, "ran") /\ UNCHANGED <<sem, proofSem>>
    BY <1>3 DEF Run
  <2>2. /\ reads' \in 0 .. ReadBurst /\ rate' \in 0 .. Burst
        /\ proofs' \in 0 .. ProofBurst /\ targets' \in 0 .. TargetBurst
        /\ Cleared(req[c], "run")
    BY <2>1, AtAHandler DEF allowances
  <2>3. Cleared(req[c], "ran")
    BY <2>2 DEF Cleared, PastScreen, PastExamine
  <2>4. Moves(c, "ran") /\ sem' <= MaxConcurrent /\ proofSem' <= MaxConcurrentProofs
    BY <2>1, GotoMoves
  <2>5. Figures(pc[c], "ran")
    BY <1>3, <2>1 DEF Run, counters, Figures
  <2>6. Contacts(c)
    BY <1>3, <2>1 DEF Run, Contacts
  <2> QED
    BY <2>2, <2>3, <2>4, <2>5, <2>6 DEF HandlerStep, WithinTheCaps
<1>4. CASE Judge(c)
  <2>1. pc[c] = "ran" /\ UNCHANGED allowances
    BY <1>4 DEF Judge
  <2>2. /\ reads' \in 0 .. ReadBurst /\ rate' \in 0 .. Burst
        /\ proofs' \in 0 .. ProofBurst /\ targets' \in 0 .. TargetBurst
        /\ Cleared(req[c], "ran")
    BY <2>1, AtAHandler DEF allowances
  <2>3. ASSUME NEW code \in Codes, Refuse(c, code)
        PROVE  \E p \in Places : HandlerStep(c, p)
    BY <2>1, <2>2, <2>3, RefusalIsAStep
  <2>4. CASE Continue(c, "record")
    <3>1. Cleared(req[c], "record")
      BY <2>2 DEF Cleared, PastScreen, PastExamine
    <3> QED
      BY <2>1, <2>2, <2>4, <3>1, ContinueIsAStep
  <2>5. \/ \E code \in Codes : Refuse(c, code)
        \/ Continue(c, "record")
    BY <1>0, <1>4 DEF Judge
  <2> QED
    BY <2>3, <2>4, <2>5
<1>5. CASE Record(c)
  <2>1. /\ pc[c] = "record" /\ UNCHANGED allowances /\ Goto(c, "keep")
        /\ UNCHANGED <<sem, proofSem, refused, kept, history>> /\ recorded' = recorded + 1
    BY <1>5 DEF Record
  <2>2. /\ reads' \in 0 .. ReadBurst /\ rate' \in 0 .. Burst
        /\ proofs' \in 0 .. ProofBurst /\ targets' \in 0 .. TargetBurst
        /\ Cleared(req[c], "record")
    BY <2>1, AtAHandler DEF allowances
  <2>3. Cleared(req[c], "keep")
    BY <2>2 DEF Cleared, PastScreen, PastExamine
  <2>4. Moves(c, "keep") /\ sem' <= MaxConcurrent /\ proofSem' <= MaxConcurrentProofs
    BY <2>1, GotoMoves
  <2>5. Figures(pc[c], "keep") /\ Contacts(c)
    BY <2>1 DEF history, Figures, Contacts
  <2> QED
    BY <2>2, <2>3, <2>4, <2>5 DEF HandlerStep, WithinTheCaps
<1>6. CASE Keep(c)
  <2>1. /\ pc[c] = "keep" /\ UNCHANGED allowances /\ Goto(c, "reply")
        /\ UNCHANGED <<sem, proofSem, refused, recorded, history>> /\ kept' \in {kept, kept + 1}
    BY <1>6 DEF Keep
  <2>2. /\ reads' \in 0 .. ReadBurst /\ rate' \in 0 .. Burst
        /\ proofs' \in 0 .. ProofBurst /\ targets' \in 0 .. TargetBurst
        /\ Cleared(req[c], "keep")
    BY <2>1, AtAHandler DEF allowances
  <2>3. Cleared(req[c], "reply")
    BY <2>2 DEF Cleared, PastScreen, PastExamine
  <2>4. Moves(c, "reply") /\ sem' <= MaxConcurrent /\ proofSem' <= MaxConcurrentProofs
    BY <2>1, GotoMoves
  <2>5. Figures(pc[c], "reply") /\ Contacts(c)
    BY <2>1 DEF history, Figures, Contacts
  <2> QED
    BY <2>2, <2>3, <2>4, <2>5 DEF HandlerStep, WithinTheCaps
<1>7. CASE Reply(c)
  <2>1. /\ pc[c] = "reply" /\ UNCHANGED <<allowances, counters, contacted>> /\ Done(c)
        /\ answered' = [answered EXCEPT ![Ok] = @ + 1]
    BY <1>7 DEF Reply
  <2>2. /\ reads' \in 0 .. ReadBurst /\ rate' \in 0 .. Burst
        /\ proofs' \in 0 .. ProofBurst /\ targets' \in 0 .. TargetBurst
    BY <2>1, AtAHandler DEF allowances
  <2>3. Moves(c, "idle") /\ sem' <= MaxConcurrent /\ proofSem' <= MaxConcurrentProofs
    BY <2>1, DoneMoves
  <2>4. Figures(pc[c], "idle") /\ Contacts(c)
    BY <2>1 DEF counters, Figures, Contacts
  <2> QED
    BY <2>2, <2>3, <2>4 DEF HandlerStep, WithinTheCaps
<1>8. CASE Panic(c)
  <2>1. pc[c] = "run" /\ Done(c) /\ UNCHANGED <<allowances, counters, history>>
    BY <1>8 DEF Panic
  <2>2. /\ reads' \in 0 .. ReadBurst /\ rate' \in 0 .. Burst
        /\ proofs' \in 0 .. ProofBurst /\ targets' \in 0 .. TargetBurst
    BY <2>1, AtAHandler DEF allowances
  <2> QED
    BY <2>1, <2>2, SilentEndIsAStep
<1> QED
  BY <1>1, <1>2, <1>3, <1>4, <1>5, <1>6, <1>7, <1>8

\* handleVerify, after admit.
LEMMA VerifyIsAStep ==
  ASSUME ServiceInv, NEW c \in Conns,
         NotRequired(c) \/ AcquireProof(c) \/ Lookup(c)
  PROVE  \E p \in Places : HandlerStep(c, p)
<1> USE DEF Places, HoldingScan, HoldingProof
<1>0. {"too_busy", "scan_failed"} \subseteq Codes
  BY DEF Codes
<1>1. pc[c] \in {"acquire", "lookup"} /\ UNCHANGED allowances
  BY DEF NotRequired, AcquireProof, Lookup
<1>2. /\ reads' \in 0 .. ReadBurst /\ rate' \in 0 .. Burst
      /\ proofs' \in 0 .. ProofBurst /\ targets' \in 0 .. TargetBurst
      /\ Cleared(req[c], pc[c])
  BY <1>1, AtAHandler DEF allowances
<1>3. CASE Done(c) /\ UNCHANGED <<counters, history>>
  BY <1>1, <1>2, <1>3, SilentEndIsAStep
<1>4. ASSUME NEW code \in Codes, Refuse(c, code)
      PROVE  \E p \in Places : HandlerStep(c, p)
  BY <1>1, <1>2, <1>4, RefusalIsAStep
<1>5. CASE /\ pc[c] = "acquire" /\ proofSem < MaxConcurrentProofs /\ proofSem' = proofSem + 1
           /\ Goto(c, "lookup") /\ UNCHANGED <<sem, counters, history>>
  <2>1. /\ Counts("acquire", HoldingScan) = 0 /\ Counts("lookup", HoldingScan) = 0
        /\ Counts("acquire", HoldingProof) = 0 /\ Counts("lookup", HoldingProof) = 1
    BY DEF Counts
  <2>2. /\ proofSem \in Nat /\ sem \in 0 .. MaxConcurrent
        /\ over \in [Conns -> BOOLEAN]
        /\ MaxConcurrent \in Nat /\ MaxConcurrentProofs \in Nat
    BY ServiceAssumption DEF ServiceInv, TypeOK
  <2>3. /\ pc' = [pc EXCEPT ![c] = "lookup"]
        /\ UNCHANGED <<scoped, open, slots, stale>>
        /\ req' = req /\ over' = over
    BY <1>5 DEF Goto, connVars
  <2>4. /\ sem' = sem - Counts(pc[c], HoldingScan) + Counts("lookup", HoldingScan)
        /\ proofSem' = proofSem - Counts(pc[c], HoldingProof) + Counts("lookup", HoldingProof)
        /\ sem' <= MaxConcurrent /\ proofSem' <= MaxConcurrentProofs
    BY <1>5, <2>1, <2>2
  <2>5. Moves(c, "lookup")
    BY <1>5, <2>2, <2>3, <2>4 DEF Moves
  <2>6. Cleared(req[c], "lookup")
    BY <1>2, <1>5 DEF Cleared, PastScreen, PastExamine
  <2>7. Figures(pc[c], "lookup") /\ Contacts(c)
    BY <1>5 DEF Figures, Contacts, counters, history
  <2> QED
    BY <1>2, <2>4, <2>5, <2>6, <2>7 DEF HandlerStep, WithinTheCaps
<1> QED
  BY <1>0, <1>3, <1>4, <1>5 DEF NotRequired, AcquireProof, Lookup

-----------------------------------------------------------------------------
(* What a handler's step keeps. *)

\* The connections at some places, before and after a handler's step.
LEMMA AtAfterAStep ==
  ASSUME ServiceInv, NEW c \in Conns, NEW p, Moves(c, p), NEW P, "idle" \notin P
  PROVE  /\ Cardinality(At(P)) \in Nat
         /\ Cardinality(At(P)') \in Nat
         /\ Cardinality(At(P)') = Cardinality(At(P)) - Counts(pc[c], P) + Counts(p, P)
<1>1. pc \in [Conns -> Places] /\ pc' = [pc EXCEPT ![c] = p]
  BY DEF ServiceInv, TypeOK, Moves
<1>2. IsFiniteSet({x \in Conns : pc[x] \in P})
  BY HandlersAreFinite DEF At
<1>3. /\ IsFiniteSet({x \in Conns : pc'[x] \in P})
      /\ Cardinality({x \in Conns : pc'[x] \in P})
           = Cardinality({x \in Conns : pc[x] \in P}) - Counts(pc[c], P) + Counts(p, P)
  <2>1. /\ IsFiniteSet({x \in Conns : [pc EXCEPT ![c] = p][x] \in P})
        /\ Cardinality({x \in Conns : [pc EXCEPT ![c] = p][x] \in P})
             = Cardinality({x \in Conns : pc[x] \in P}) - Counts(pc[c], P) + Counts(p, P)
    BY <1>1, <1>2, MovingOne
  <2> QED
    BY <1>1, <2>1
<1>4. Cardinality({x \in Conns : pc'[x] \in P}) \in Nat
  BY <1>3, FS_CardinalityType
<1>5. Cardinality({x \in Conns : pc[x] \in P}) \in Nat
  BY <1>2, FS_CardinalityType
<1> QED
  BY <1>3, <1>4, <1>5 DEF At

\* The types, and what a place says of its request.
LEMMA HandlerKeepsTypes ==
  ASSUME ServiceInv, NEW c \in Conns, NEW p \in Places, HandlerStep(c, p)
  PROVE  TypeOK' /\ HistoryTypeOK' /\ \A x \in Conns : Cleared(req[x], pc[x])'
<1>1. /\ Moves(c, p) /\ WithinTheCaps /\ Figures(pc[c], p) /\ Contacts(c)
      /\ p # "idle" => Cleared(req[c], p)
  BY DEF HandlerStep
<1>2. /\ pc' = [pc EXCEPT ![c] = p]
      /\ UNCHANGED <<scoped, open, slots, stale>>
      /\ req' = IF p = "idle" THEN [req EXCEPT ![c] = NoRequest] ELSE req
      /\ over' \in [Conns -> BOOLEAN]
  BY <1>1 DEF Moves
<1>3. /\ pc \in [Conns -> Places] /\ req \in [Conns -> Requests \cup {NoRequest}]
      /\ \A x \in Conns : pc[x] # "idle" => req[x] \in Requests /\ x \in open
      /\ \A x \in Conns : Cleared(req[x], pc[x])
  BY DEF ServiceInv, TypeOK, HistoryTypeOK
<1>4. pc[c] # "idle"
  BY <1>1 DEF Moves
<1>5. /\ pc' \in [Conns -> Places] /\ req' \in [Conns -> Requests \cup {NoRequest}]
      /\ \A x \in Conns : pc'[x] # "idle" => req'[x] \in Requests /\ x \in open'
  BY <1>2, <1>3, <1>4
<1>6. \A x \in Conns : Cleared(req'[x], pc'[x])
  <2> SUFFICES ASSUME NEW x \in Conns PROVE Cleared(req'[x], pc'[x])
    OBVIOUS
  <2>1. CASE x # c
    <3>1. pc'[x] = pc[x] /\ req'[x] = req[x]
      BY <1>2, <1>3, <2>1
    <3> QED
      BY <1>3, <3>1
  <2>2. CASE x = c /\ p # "idle"
    <3>1. pc'[x] = p /\ req'[x] = req[x]
      BY <1>2, <1>3, <2>2
    <3> QED
      BY <1>1, <2>2, <3>1
  <2>3. CASE x = c /\ p = "idle"
    <3>1. pc'[x] = "idle"
      BY <1>2, <1>3, <2>3
    <3> QED
      BY <3>1 DEF Cleared, PastScreen, PastExamine, HoldingScan, HoldingProof
  <2> QED
    BY <2>1, <2>2, <2>3
<1>7. /\ sem' \in 0 .. MaxConcurrent /\ proofSem' \in 0 .. MaxConcurrentProofs
  <2>1. /\ sem = Cardinality(At(HoldingScan)) /\ proofSem = Cardinality(At(HoldingProof))
    BY DEF ServiceInv, EverySlotIsHeld, At
  <2>2. "idle" \notin HoldingScan /\ "idle" \notin HoldingProof
    BY DEF HoldingScan, HoldingProof
  <2>3. sem' = Cardinality(At(HoldingScan)') /\ Cardinality(At(HoldingScan)') \in Nat
    BY <1>1, <2>1, <2>2, AtAfterAStep DEF Moves
  <2>4. proofSem' = Cardinality(At(HoldingProof)') /\ Cardinality(At(HoldingProof)') \in Nat
    BY <1>1, <2>1, <2>2, AtAfterAStep DEF Moves
  <2> QED
    BY <1>1, <2>3, <2>4, ServiceAssumption DEF WithinTheCaps
<1>8. /\ refused' \in [Codes -> Nat] /\ recorded' \in Nat /\ kept' \in Nat
      /\ answered' \in [Codes \cup {Ok} -> Nat]
  <2>1. /\ refused \in [Codes -> Nat] /\ recorded \in Nat /\ kept \in Nat
        /\ answered \in [Codes \cup {Ok} -> Nat]
    BY DEF ServiceInv, TypeOK, HistoryTypeOK
  <2> QED
    BY <1>1, <2>1 DEF Figures
<1>9. contacted' \subseteq Requests
  BY <1>1, <1>3, <1>4 DEF Contacts, ServiceInv, TypeOK
<1>10. /\ scoped' \in BOOLEAN /\ open' \subseteq Conns /\ stale' \subseteq Conns
       /\ slots' \in 0 .. MaxConnections /\ IsFiniteSet(open')
  BY <1>2 DEF ServiceInv, TypeOK, HistoryTypeOK
<1>11. /\ reads' \in 0 .. ReadBurst /\ rate' \in 0 .. Burst
       /\ proofs' \in 0 .. ProofBurst /\ targets' \in 0 .. TargetBurst
  BY <1>1 DEF WithinTheCaps
<1>12. TypeOK'
  BY <1>2, <1>5, <1>7, <1>8, <1>9, <1>10, <1>11 DEF TypeOK
<1>13. HistoryTypeOK'
  BY <1>5, <1>8, <1>10 DEF HistoryTypeOK
<1> QED
  BY <1>6, <1>12, <1>13

\* The slots in use stay those held, wherever the handler goes.
LEMMA HandlerKeepsSlots ==
  ASSUME ServiceInv, NEW c \in Conns, NEW p \in Places, HandlerStep(c, p)
  PROVE  EverySlotIsHeld'
<1>1. Moves(c, p)
  BY DEF HandlerStep
<1>2. /\ sem = Cardinality(At(HoldingScan)) /\ proofSem = Cardinality(At(HoldingProof))
      /\ slots = Cardinality(open)
  BY DEF ServiceInv, EverySlotIsHeld, At
<1>3. "idle" \notin HoldingScan /\ "idle" \notin HoldingProof
  BY DEF HoldingScan, HoldingProof
<1>4. sem' = Cardinality(At(HoldingScan)')
  BY <1>1, <1>2, <1>3, AtAfterAStep DEF Moves
<1>5. proofSem' = Cardinality(At(HoldingProof)')
  BY <1>1, <1>2, <1>3, AtAfterAStep DEF Moves
<1>6. slots' = Cardinality(open')
  BY <1>1, <1>2 DEF Moves
<1> QED
  BY <1>4, <1>5, <1>6 DEF EverySlotIsHeld, At

\* The figures stay the answers: a scan that is recorded is on its way to its
\* reply, and kept at most once on the way.
LEMMA HandlerKeepsFigures ==
  ASSUME ServiceInv, NEW c \in Conns, NEW p \in Places, HandlerStep(c, p)
  PROVE  FiguresAreTheAnswers' /\ KeptOnce'
<1> DEFINE R == {"keep", "reply"}
           K == {"keep"}
<1>1. Moves(c, p) /\ Figures(pc[c], p)
  BY DEF HandlerStep
<1>2. /\ Cardinality(At(R)) \in Nat
      /\ Cardinality(At(R)') = Cardinality(At(R)) - Counts(pc[c], R) + Counts(p, R)
  BY <1>1, AtAfterAStep
<1>3. /\ Cardinality(At(K)) \in Nat
      /\ Cardinality(At(K)') \in Nat
      /\ Cardinality(At(K)') = Cardinality(At(K)) - Counts(pc[c], K) + Counts(p, K)
  BY <1>1, AtAfterAStep
<1>4. /\ refused \in [Codes -> Nat] /\ recorded \in Nat /\ kept \in Nat
      /\ answered \in [Codes \cup {Ok} -> Nat]
      /\ \A code \in Codes : refused[code] = answered[code]
      /\ recorded = answered[Ok] + Cardinality(At(R))
      /\ kept + Cardinality(At(K)) <= recorded
  BY DEF ServiceInv, TypeOK, HistoryTypeOK, FiguresAreTheAnswers, KeptOnce, At
<1>5. Ok \notin Codes
  BY DEF Ok, Codes, InOrder, Screened, Examined
<1> SUFFICES /\ \A code \in Codes : refused'[code] = answered'[code]
             /\ recorded' = answered'[Ok] + Cardinality(At(R)')
             /\ kept' \in Nat /\ recorded' \in Nat
             /\ kept' + Cardinality(At(K)') <= recorded'
  BY <1>3 DEF FiguresAreTheAnswers, KeptOnce, At
<1>6. CASE {pc[c], p} \cap {"keep", "reply"} = {}
  <2>1. Counts(pc[c], R) = 0 /\ Counts(p, R) = 0 /\ Counts(pc[c], K) = 0 /\ Counts(p, K) = 0
    BY <1>6 DEF Counts
  <2>2. Cardinality(At(R)') = Cardinality(At(R)) /\ Cardinality(At(K)') = Cardinality(At(K))
    BY <1>2, <1>3, <2>1
  <2>3. recorded' = recorded /\ kept' = kept /\ answered'[Ok] = answered[Ok]
    BY <1>1, <1>4, <1>5, <1>6 DEF Figures
  <2>4. \A code \in Codes : refused'[code] = answered'[code]
    BY <1>1, <1>4, <1>6 DEF Figures
  <2> QED
    BY <1>4, <2>2, <2>3, <2>4
<1>7. CASE pc[c] = "record" /\ p = "keep"
  <2>1. Counts(pc[c], R) = 0 /\ Counts(p, R) = 1 /\ Counts(pc[c], K) = 0 /\ Counts(p, K) = 1
    BY <1>7 DEF Counts
  <2>2. recorded' = recorded + 1 /\ UNCHANGED <<refused, kept, answered>>
    BY <1>1, <1>7 DEF Figures
  <2> QED
    BY <1>2, <1>3, <1>4, <2>1, <2>2
<1>8. CASE pc[c] = "keep" /\ p = "reply"
  <2>1. Counts(pc[c], R) = 1 /\ Counts(p, R) = 1 /\ Counts(pc[c], K) = 1 /\ Counts(p, K) = 0
    BY <1>8 DEF Counts
  <2>2. kept' \in {kept, kept + 1} /\ UNCHANGED <<refused, recorded, answered>>
    BY <1>1, <1>8 DEF Figures
  <2> QED
    BY <1>2, <1>3, <1>4, <2>1, <2>2
<1>9. CASE pc[c] = "reply" /\ p = "idle"
  <2>1. Counts(pc[c], R) = 1 /\ Counts(p, R) = 0 /\ Counts(pc[c], K) = 0 /\ Counts(p, K) = 0
    BY <1>9 DEF Counts
  <2>2. answered' = [answered EXCEPT ![Ok] = @ + 1] /\ UNCHANGED <<refused, recorded, kept>>
    BY <1>1, <1>9 DEF Figures
  <2>3. answered'[Ok] = answered[Ok] + 1 /\ \A code \in Codes : answered'[code] = answered[code]
    BY <1>4, <1>5, <2>2
  <2> QED
    BY <1>2, <1>3, <1>4, <2>1, <2>2, <2>3
<1> QED
  BY <1>1, <1>6, <1>7, <1>8, <1>9 DEF Figures

\* A scan connects to a target at its place, which the request has reached past
\* every guard, and only if it is shown who runs the target.
LEMMA HandlerKeepsContacts ==
  ASSUME ServiceInv, NEW c \in Conns, NEW p \in Places, HandlerStep(c, p)
  PROVE  ContactIsPermitted'
<1>1. Contacts(c) /\ scoped' = scoped
  BY DEF HandlerStep, Moves
<1>2. CASE contacted' = contacted
  BY <1>1, <1>2 DEF ServiceInv, ContactIsPermitted
<1>3. CASE pc[c] = "run" /\ Shown(c) /\ contacted' = contacted \cup {req[c]}
  <2>1. Cleared(req[c], "run")
    BY <1>3, AtAHandler
  <2>2. /\ req[c].check \in ScanChecks
        /\ req[c].wrong \cap (InOrder(Screened) \cup InOrder(Examined)) = {}
    BY <2>1 DEF Cleared, PastScreen, PastExamine, HoldingScan
  <2>3. scoped => "unproven" \notin req[c].wrong
    BY <1>3 DEF Shown
  <2> QED
    BY <1>1, <1>3, <2>2, <2>3 DEF ServiceInv, ContactIsPermitted
<1> QED
  BY <1>1, <1>2, <1>3 DEF Contacts

-----------------------------------------------------------------------------
(* The steps that are not a handler's. *)

\* A step that changes neither where a handler is nor what is counted keeps the
\* invariant, if the allowances keep their bounds.
LEMMA QuietStep ==
  ASSUME ServiceInv,
         UNCHANGED <<connVars, pc, req, sem, proofSem, counters, history>>,
         over' \in [Conns -> BOOLEAN],
         reads' \in 0 .. ReadBurst, rate' \in 0 .. Burst,
         proofs' \in 0 .. ProofBurst, targets' \in 0 .. TargetBurst
  PROVE  ServiceInv'
<1> USE DEF connVars, counters, history
<1>1. TypeOK'
  BY DEF ServiceInv, TypeOK
<1>2. HistoryTypeOK'
  BY DEF ServiceInv, HistoryTypeOK
<1>3. EverySlotIsHeld'
  BY DEF ServiceInv, EverySlotIsHeld
<1>4. FiguresAreTheAnswers' /\ KeptOnce'
  BY DEF ServiceInv, FiguresAreTheAnswers, KeptOnce, At
<1>5. \A c \in Conns : Cleared(req[c], pc[c])'
  BY DEF ServiceInv
<1>6. ContactIsPermitted'
  BY DEF ServiceInv, ContactIsPermitted
<1> QED
  BY <1>1, <1>2, <1>3, <1>4, <1>5, <1>6 DEF ServiceInv

\* Connections come and go: each open one has one of l.slots (Accept, Close).
LEMMA ConnectionStep ==
  ASSUME ServiceInv, NEW c \in Conns, Accept(c) \/ Close(c) \/ CloseAgain(c)
  PROVE  ServiceInv'
<1>1. UNCHANGED <<scoped, pc, req, over, allowances, sem, proofSem, counters, history>>
  BY DEF Accept, Close, CloseAgain
<1>2. /\ open \subseteq Conns /\ stale \subseteq Conns /\ slots \in 0 .. MaxConnections
      /\ IsFiniteSet(open) /\ slots = Cardinality(open)
      /\ \A x \in Conns : pc[x] # "idle" => req[x] \in Requests /\ x \in open
      /\ MaxConnections \in Nat
  BY ServiceAssumption DEF ServiceInv, TypeOK, HistoryTypeOK, EverySlotIsHeld
<1>3. /\ open' \subseteq Conns /\ stale' \subseteq Conns /\ slots' \in 0 .. MaxConnections
      /\ IsFiniteSet(open') /\ slots' = Cardinality(open')
      /\ \A x \in Conns : pc[x] # "idle" => req[x] \in Requests /\ x \in open'
  <2>1. CASE Accept(c)
    <3>1. /\ c \notin open /\ open' = open \cup {c} /\ slots' = slots + 1
          /\ slots < MaxConnections /\ stale' = stale
      BY <2>1 DEF Accept
    <3>2. IsFiniteSet(open \cup {c}) /\ Cardinality(open \cup {c}) = Cardinality(open) + 1
      BY <1>2, <3>1, FS_AddElement
    <3> QED
      BY <1>2, <3>1, <3>2
  <2>2. CASE Close(c)
    <3>1. /\ c \in open /\ open' = open \ {c} /\ slots' = slots - 1
          /\ pc[c] = "idle" /\ stale' = stale \cup {c}
      BY <2>2 DEF Close
    <3>2. IsFiniteSet(open \ {c}) /\ Cardinality(open \ {c}) = Cardinality(open) - 1
      BY <1>2, <3>1, FS_RemoveElement
    <3>3. Cardinality(open \ {c}) \in Nat
      BY <3>2, FS_CardinalityType
    <3> QED
      BY <1>2, <3>1, <3>2, <3>3
  <2>3. CASE CloseAgain(c)
    BY <1>2, <2>3 DEF CloseAgain
  <2> QED
    BY <2>1, <2>2, <2>3
<1>4. TypeOK'
  BY <1>1, <1>3 DEF ServiceInv, TypeOK, allowances, counters, history
<1>5. HistoryTypeOK'
  BY <1>1, <1>3 DEF ServiceInv, HistoryTypeOK, history
<1>6. EverySlotIsHeld'
  BY <1>1, <1>3 DEF ServiceInv, EverySlotIsHeld
<1>7. FiguresAreTheAnswers' /\ KeptOnce'
  BY <1>1 DEF ServiceInv, FiguresAreTheAnswers, KeptOnce, At, counters, history
<1>8. \A x \in Conns : Cleared(req[x], pc[x])'
  BY <1>1 DEF ServiceInv
<1>9. ContactIsPermitted'
  BY <1>1 DEF ServiceInv, ContactIsPermitted, history
<1> QED
  BY <1>4, <1>5, <1>6, <1>7, <1>8, <1>9 DEF ServiceInv

\* A request arrives on an open connection whose handler is at rest.
LEMMA ReceiveStep ==
  ASSUME ServiceInv, NEW c \in Conns, NEW q \in Requests, Receive(c, q)
  PROVE  ServiceInv'
<1>1. /\ c \in open /\ pc[c] = "idle"
      /\ pc' = [pc EXCEPT ![c] = "reads"] /\ req' = [req EXCEPT ![c] = q]
      /\ UNCHANGED <<connVars, over, allowances, sem, proofSem, counters, history>>
  BY DEF Receive
<1>2. /\ pc \in [Conns -> Places] /\ req \in [Conns -> Requests \cup {NoRequest}]
      /\ \A x \in Conns : pc[x] # "idle" => req[x] \in Requests /\ x \in open
      /\ \A x \in Conns : Cleared(req[x], pc[x])
  BY DEF ServiceInv, TypeOK, HistoryTypeOK
<1>3. /\ pc' \in [Conns -> Places] /\ req' \in [Conns -> Requests \cup {NoRequest}]
      /\ \A x \in Conns : pc'[x] # "idle" => req'[x] \in Requests /\ x \in open
  BY <1>1, <1>2 DEF Places
<1>4. ASSUME NEW P, "idle" \notin P, "reads" \notin P
      PROVE  At(P)' = At(P)
  BY <1>1, <1>2, <1>4 DEF At
<1>5. TypeOK'
  BY <1>1, <1>3 DEF ServiceInv, TypeOK, connVars, allowances, counters, history
<1>6. HistoryTypeOK'
  BY <1>1, <1>3 DEF ServiceInv, HistoryTypeOK, connVars, history
<1>7. EverySlotIsHeld'
  <2>1. At(HoldingScan)' = At(HoldingScan) /\ At(HoldingProof)' = At(HoldingProof)
    BY <1>4 DEF HoldingScan, HoldingProof
  <2>2. /\ sem = Cardinality(At(HoldingScan)) /\ proofSem = Cardinality(At(HoldingProof))
        /\ slots = Cardinality(open)
    BY DEF ServiceInv, EverySlotIsHeld, At
  <2>3. /\ sem' = Cardinality(At(HoldingScan)') /\ proofSem' = Cardinality(At(HoldingProof)')
        /\ slots' = Cardinality(open')
    BY <1>1, <2>1, <2>2 DEF connVars
  <2> QED
    BY <2>3 DEF EverySlotIsHeld, At
<1>8. FiguresAreTheAnswers' /\ KeptOnce'
  <2>1. At({"keep", "reply"})' = At({"keep", "reply"}) /\ At({"keep"})' = At({"keep"})
    BY <1>4
  <2>2. /\ \A code \in Codes : refused[code] = answered[code]
        /\ recorded = answered[Ok] + Cardinality(At({"keep", "reply"}))
        /\ kept <= recorded
        /\ kept + Cardinality(At({"keep"})) <= recorded
    BY DEF ServiceInv, FiguresAreTheAnswers, KeptOnce, At
  <2>3. /\ \A code \in Codes : refused'[code] = answered'[code]
        /\ recorded' = answered'[Ok] + Cardinality(At({"keep", "reply"})')
        /\ kept' <= recorded'
        /\ kept' + Cardinality(At({"keep"})') <= recorded'
    BY <1>1, <2>1, <2>2 DEF counters, history
  <2> QED
    BY <2>3 DEF FiguresAreTheAnswers, KeptOnce, At
<1>9. \A x \in Conns : Cleared(req[x], pc[x])'
  <2> SUFFICES ASSUME NEW x \in Conns PROVE Cleared(req'[x], pc'[x])
    OBVIOUS
  <2>1. CASE x # c
    <3>1. pc'[x] = pc[x] /\ req'[x] = req[x]
      BY <1>1, <1>2, <2>1
    <3> QED
      BY <1>2, <3>1
  <2>2. CASE x = c
    <3>1. pc'[x] = "reads"
      BY <1>1, <1>2, <2>2
    <3> QED
      BY <3>1 DEF Cleared, PastScreen, PastExamine, HoldingScan, HoldingProof
  <2> QED
    BY <2>1, <2>2
<1>10. ContactIsPermitted'
  BY <1>1 DEF ServiceInv, ContactIsPermitted, connVars, history
<1> QED
  BY <1>5, <1>6, <1>7, <1>8, <1>9, <1>10 DEF ServiceInv

-----------------------------------------------------------------------------
(* The theorems. *)

\* A service that has just come up has no handler anywhere.
LEMMA InitiallyServiceInv == Init => ServiceInv
<1> SUFFICES ASSUME Init PROVE ServiceInv
  OBVIOUS
<1>1. \A P : "idle" \notin P => At(P) = {}
  BY DEF Init, At
<1>2. Cardinality({}) = 0 /\ IsFiniteSet({})
  BY FS_EmptySet
<1>3. TypeOK /\ HistoryTypeOK
  BY <1>2, ServiceAssumption DEF Init, TypeOK, HistoryTypeOK, Places
<1>4. EverySlotIsHeld
  <2>1. At(HoldingScan) = {} /\ At(HoldingProof) = {}
    BY <1>1 DEF HoldingScan, HoldingProof
  <2>2. sem = Cardinality(At(HoldingScan)) /\ proofSem = Cardinality(At(HoldingProof))
    BY <1>2, <2>1 DEF Init
  <2>3. slots = Cardinality(open)
    BY <1>2 DEF Init
  <2> QED
    BY <2>2, <2>3 DEF EverySlotIsHeld, At
<1>5. FiguresAreTheAnswers /\ KeptOnce
  <2>1. At({"keep", "reply"}) = {} /\ At({"keep"}) = {}
    BY <1>1
  <2>2. Cardinality(At({"keep", "reply"})) = 0 /\ Cardinality(At({"keep"})) = 0
    BY <1>2, <2>1
  <2> QED
    BY <2>2 DEF Init, FiguresAreTheAnswers, KeptOnce, At
<1>6. \A c \in Conns : Cleared(req[c], pc[c])
  BY DEF Init, Cleared, PastScreen, PastExamine, HoldingScan, HoldingProof
<1>7. ContactIsPermitted
  BY DEF Init, ContactIsPermitted
<1> QED
  BY <1>3, <1>4, <1>5, <1>6, <1>7 DEF ServiceInv

\* Every step of the service keeps the invariant.
LEMMA StepKeepsServiceInv == ServiceInv /\ [Next]_vars => ServiceInv'
<1> SUFFICES ASSUME ServiceInv, [Next]_vars PROVE ServiceInv'
  OBVIOUS
<1>1. /\ over \in [Conns -> BOOLEAN]
      /\ reads \in 0 .. ReadBurst /\ rate \in 0 .. Burst
      /\ proofs \in 0 .. ProofBurst /\ targets \in 0 .. TargetBurst
      /\ {ReadBurst, Burst, ProofBurst, TargetBurst} \subseteq Nat
  BY ServiceAssumption DEF ServiceInv, TypeOK
<1>2. CASE Refill
  BY <1>1, <1>2, QuietStep DEF Refill
<1>3. ASSUME NEW c \in Conns, Over(c) PROVE ServiceInv'
  BY <1>1, <1>3, QuietStep DEF Over, allowances
<1>4. ASSUME NEW c \in Conns, Accept(c) \/ Close(c) \/ CloseAgain(c) PROVE ServiceInv'
  BY <1>4, ConnectionStep
<1>5. ASSUME NEW c \in Conns, NEW q \in Requests, Receive(c, q) PROVE ServiceInv'
  BY <1>5, ReceiveStep
<1>6. ASSUME NEW c \in Conns, Handle(c) PROVE ServiceInv'
  <2>1. \E p \in Places : HandlerStep(c, p)
    BY <1>6, AdmitIsAStep, RunCheckIsAStep, VerifyIsAStep DEF Handle
  <2>2. PICK p \in Places : HandlerStep(c, p)
    BY <2>1
  <2> QED
    BY <2>2, HandlerKeepsTypes, HandlerKeepsSlots, HandlerKeepsFigures, HandlerKeepsContacts
       DEF ServiceInv
<1>7. CASE UNCHANGED vars
  BY <1>1, <1>7, QuietStep DEF vars, allowances
<1> QED
  BY <1>2, <1>3, <1>4, <1>5, <1>6, <1>7 DEF Next

\* The invariant holds throughout, whatever the connections, the requests, the
\* caps and the allowances.
THEOREM ServiceInvariant == Spec => []ServiceInv
BY InitiallyServiceInv, StepKeepsServiceInv, PTL DEF Spec

\* Every variable of the request path has its type: no count of slots or of an
\* allowance is ever below nothing or above its cap (semaphore, limitlistener).
THEOREM ServiceTypeCorrect == Spec => []TypeOK
<1>1. ServiceInv => TypeOK
  BY DEF ServiceInv
<1> QED
  BY <1>1, ServiceInvariant, PTL

\* Whatever way a handler ends, and however often a connection is closed, the
\* slots in use are exactly those held: none leaks and none is given twice.
THEOREM NoSlotLeaks == Spec => []EverySlotIsHeld
<1>1. ServiceInv => EverySlotIsHeld
  BY DEF ServiceInv
<1> QED
  BY <1>1, ServiceInvariant, PTL

\* The public figures are the answers that were sent, for every refusal code and
\* for scans, whatever races and however handlers end.
THEOREM FiguresAreTrue == Spec => []FiguresAreTheAnswers
<1>1. ServiceInv => FiguresAreTheAnswers
  BY DEF ServiceInv
<1> QED
  BY <1>1, ServiceInvariant, PTL

\* No target is ever connected to for a request that a guard of admit refuses,
\* nor, where proof is asked for, without one.
THEOREM OnlyPermittedContacts == Spec => []ContactIsPermitted
<1>1. ServiceInv => ContactIsPermitted
  BY DEF ServiceInv
<1> QED
  BY <1>1, ServiceInvariant, PTL
=============================================================================
