------------------------------- MODULE Service -------------------------------
(***************************************************************************)
(* The path of a request through internal/httpapi: from a connection the   *)
(* limiting listener accepted (limitlistener.go) through the guards of      *)
(* admit and runCheck (httpapi.go) or handleVerify (verification.go) to an *)
(* answer. Handlers run concurrently and meet at the allowances, the slots *)
(* and the counters.                                                       *)
(*                                                                         *)
(* The three tables of buckets are counts of calls left that grow again at *)
(* any time; what they promise is KeepsContract of module Buckets. A       *)
(* request is what is wrong with it: the guards decide in which order that *)
(* is noticed.                                                             *)
(***************************************************************************)
EXTENDS Integers, Sequences, FiniteSets

CONSTANTS
  Conns,         \* connections, each serving one request at a time
  Requests,      \* [check, wrong]: the check asked for, and the faults of the request
  MaxConnections, MaxConcurrent, MaxConcurrentProofs,
  ReadBurst, Burst, ProofBurst, TargetBurst,
  MaxRequests,   \* bound: how many requests are received
  NoRequest

Verify == "verify"
Read == "read"         \* a cheap endpoint behind readLimited alone
ScanChecks == {"tls", "web", "mail"}

\* What can be wrong with a request before it costs a scan, in the order in
\* which admit looks (each name is its refusal code), and after.
Screened == <<"cross_site", "unsupported_media">>
Examined == <<"payload_too_large", "bad_request", "invalid_target", "port_not_allowed",
              "port_not_accepted", "hostname_required", "excluded", "not_demonstrated">>
Discovered == {"unproven", "blocked"}
InOrder(s) == {s[i] : i \in DOMAIN s}
Faults == InOrder(Screened) \cup InOrder(Examined) \cup Discovered
Codes == InOrder(Screened) \cup InOrder(Examined) \cup
         {"rate_limited", "target_busy", "too_busy", "blocked_destination", "timeout",
          "scan_failed", "not_verified"}

ASSUME ServiceAssumption ==
  /\ Requests \subseteq [check : ScanChecks \cup {Verify, Read}, wrong : SUBSET Faults]
  /\ {MaxConnections, MaxConcurrent, MaxConcurrentProofs} \subseteq Nat \ {0}
  /\ {ReadBurst, Burst, ProofBurst, TargetBurst} \subseteq Nat \ {0}
  /\ MaxRequests \in Nat
  /\ NoRequest \notin Requests

VARIABLES
  scoped,         \* the deployment requires proof of control: settled at its start
  open, slots,    \* the open connections, and how many l.slots counts
  stale,          \* closed connections the server may close once more
  pc, req,        \* of each connection: where its handler is, and its request
  over,           \* r.Context or the deadline is done
  reads, rate, proofs, targets, \* calls left in each allowance
  sem, proofSem,  \* slots in use
  refused, recorded, \* c.data: refusals by code, scans
  kept,           \* results and reports handed to the store and the vault
  answered,       \* history: the answers sent, by code
  contacted,      \* history: the requests for which a target was connected to
  received        \* how many requests have arrived, for the bound

connVars == <<scoped, open, slots, stale>>
allowances == <<reads, rate, proofs, targets>>
counters == <<refused, recorded, kept>>
history == <<answered, contacted>>
vars == <<connVars, pc, req, over, allowances, sem, proofSem, counters, history, received>>

Ok == "ok"
HoldingScan == {"target", "run", "ran", "record", "keep", "reply"}
HoldingProof == {"lookup"}
Places == {"idle", "reads", "screen", "spend", "examine", "acquire"} \cup HoldingScan \cup HoldingProof

TypeOK ==
  /\ scoped \in BOOLEAN
  /\ open \subseteq Conns /\ stale \subseteq Conns
  /\ slots \in 0 .. MaxConnections
  /\ pc \in [Conns -> Places]
  /\ \A c \in Conns : pc[c] # "idle" => req[c] \in Requests /\ c \in open
  /\ over \in [Conns -> BOOLEAN]
  /\ reads \in 0 .. ReadBurst /\ rate \in 0 .. Burst
  /\ proofs \in 0 .. ProofBurst /\ targets \in 0 .. TargetBurst
  /\ sem \in 0 .. MaxConcurrent /\ proofSem \in 0 .. MaxConcurrentProofs
  /\ refused \in [Codes -> Nat]
  /\ recorded \in Nat /\ kept \in Nat
  /\ contacted \subseteq Requests

Init ==
  /\ scoped \in BOOLEAN
  /\ open = {}
  /\ slots = 0
  /\ stale = {}
  /\ pc = [c \in Conns |-> "idle"]
  /\ req = [c \in Conns |-> NoRequest]
  /\ over = [c \in Conns |-> FALSE]
  /\ reads = ReadBurst /\ rate = Burst /\ proofs = ProofBurst /\ targets = TargetBurst
  /\ sem = 0
  /\ proofSem = 0
  /\ refused = [code \in Codes |-> 0]
  /\ recorded = 0
  /\ kept = 0
  /\ answered = [code \in Codes \cup {Ok} |-> 0]
  /\ contacted = {}
  /\ received = 0

-----------------------------------------------------------------------------
(* Connections. *)

\* Accept: a connection over the cap is closed at once.
Accept(c) ==
  /\ c \notin open
  /\ slots < MaxConnections
  /\ open' = open \cup {c}
  /\ slots' = slots + 1
  /\ UNCHANGED <<scoped, stale, pc, req, over, allowances, sem, proofSem, counters, history, received>>

\* The server closes a connection when its handler is done; it may close it
\* again later, and the slot is released once (sync.Once).
Close(c) ==
  /\ c \in open
  /\ pc[c] = "idle"
  /\ open' = open \ {c}
  /\ stale' = stale \cup {c}
  /\ slots' = slots - 1
  /\ UNCHANGED <<scoped, pc, req, over, allowances, sem, proofSem, counters, history, received>>

CloseAgain(c) ==
  /\ c \in stale
  /\ stale' = stale \ {c}
  /\ UNCHANGED <<scoped, open, slots, pc, req, over, allowances, sem, proofSem, counters, history, received>>

Receive(c, q) ==
  /\ c \in open
  /\ pc[c] = "idle"
  /\ received < MaxRequests
  /\ received' = received + 1
  /\ pc' = [pc EXCEPT ![c] = "reads"]
  /\ req' = [req EXCEPT ![c] = q]
  /\ UNCHANGED <<connVars, over, allowances, sem, proofSem, counters, history>>

\* The client has gone, or the deadline of the request has passed: the context
\* is done. Nobody is interrupted; whoever looks at it next sees it.
Over(c) ==
  /\ pc[c] # "idle"
  /\ ~over[c]
  /\ over' = [over EXCEPT ![c] = TRUE]
  /\ UNCHANGED <<connVars, pc, req, allowances, sem, proofSem, counters, history, received>>

Refill ==
  /\ \/ reads < ReadBurst /\ reads' = reads + 1 /\ UNCHANGED <<rate, proofs, targets>>
     \/ rate < Burst /\ rate' = rate + 1 /\ UNCHANGED <<reads, proofs, targets>>
     \/ proofs < ProofBurst /\ proofs' = proofs + 1 /\ UNCHANGED <<reads, rate, targets>>
     \/ targets < TargetBurst /\ targets' = targets + 1 /\ UNCHANGED <<reads, rate, proofs>>
  /\ UNCHANGED <<connVars, pc, req, over, sem, proofSem, counters, history, received>>

-----------------------------------------------------------------------------
(* The end of a handler. *)

\* The deferred releases run however the handler ends.
\* (Fault: on a report only.)
ReleaseOnReply(c) ==
  /\ sem' = sem - (IF pc[c] = "reply" THEN 1 ELSE 0)
  /\ proofSem' = proofSem - (IF pc[c] \in HoldingProof THEN 1 ELSE 0)
Release(c) ==
  /\ sem' = sem - (IF pc[c] \in HoldingScan THEN 1 ELSE 0)
  /\ proofSem' = proofSem - (IF pc[c] \in HoldingProof THEN 1 ELSE 0)

Done(c) ==
  /\ pc' = [pc EXCEPT ![c] = "idle"]
  /\ req' = [req EXCEPT ![c] = NoRequest]
  /\ over' = [over EXCEPT ![c] = FALSE]
  /\ Release(c)
  /\ UNCHANGED <<connVars, received>>

\* refuse: counted, and answered.
Refuse(c, code) ==
  /\ refused' = [refused EXCEPT ![code] = @ + 1]
  /\ answered' = [answered EXCEPT ![code] = @ + 1]
  /\ Done(c)
  /\ UNCHANGED <<recorded, kept, contacted>>

\* On to the next guard; what the step changes besides is said where it is used.
Goto(c, place) ==
  /\ pc' = [pc EXCEPT ![c] = place]
  /\ UNCHANGED <<connVars, req, over, received>>
Continue(c, place) ==
  /\ Goto(c, place)
  /\ UNCHANGED <<sem, proofSem, counters, history>>

\* The first fault of the list s that the request has.
Has(c, s) == \E i \in DOMAIN s : s[i] \in req[c].wrong
First(c, s) ==
  s[CHOOSE i \in DOMAIN s : s[i] \in req[c].wrong /\ \A j \in 1 .. i - 1 : s[j] \notin req[c].wrong]

-----------------------------------------------------------------------------
(* admit *)

\* readLimited has no other guard.
AllowRead(c) ==
  /\ pc[c] = "reads"
  /\ \/ /\ reads > 0
        /\ reads' = reads - 1
        /\ IF req[c].check = Read THEN Done(c) /\ UNCHANGED <<counters, history>>
                                  ELSE Continue(c, "screen")
     \/ /\ reads = 0
        /\ Refuse(c, "rate_limited")
        /\ UNCHANGED reads
  /\ UNCHANGED <<rate, proofs, targets>>

Screen(c) ==
  /\ pc[c] = "screen"
  /\ IF Has(c, Screened) THEN Refuse(c, First(c, Screened)) ELSE Continue(c, "spend")
  /\ UNCHANGED allowances

\* A scan spends the scan allowance, a proof the proof allowance.
Spend(c) ==
  /\ pc[c] = "spend"
  /\ IF req[c].check = Verify
       THEN /\ IF proofs > 0 THEN proofs' = proofs - 1 /\ Continue(c, "examine")
                             ELSE Refuse(c, "rate_limited") /\ UNCHANGED proofs
            /\ UNCHANGED rate
       ELSE /\ IF rate > 0 THEN rate' = rate - 1 /\ Continue(c, "examine")
                           ELSE Refuse(c, "rate_limited") /\ UNCHANGED rate
            /\ UNCHANGED proofs
  /\ UNCHANGED <<reads, targets>>

\* The body, the target, and the lists.
\* (Fault: the lists are not looked at.)
ExamineTheBody(c) ==
  /\ pc[c] = "examine"
  /\ LET body == SubSeq(Examined, 1, 6)
     IN  IF Has(c, body) THEN Refuse(c, First(c, body)) ELSE Continue(c, "acquire")
  /\ UNCHANGED allowances
Examine(c) ==
  /\ pc[c] = "examine"
  /\ IF Has(c, Examined) THEN Refuse(c, First(c, Examined)) ELSE Continue(c, "acquire")
  /\ UNCHANGED allowances

-----------------------------------------------------------------------------
(* runCheck *)

\* acquire waits for a slot or for the context, and takes either if both are
\* there.
\* (Fault: the slots are not counted.)
AcquireAnyway(c) ==
  /\ pc[c] = "acquire"
  /\ req[c].check # Verify
  /\ sem' = sem + 1
  /\ Goto(c, "target")
  /\ UNCHANGED <<proofSem, counters, history, allowances>>
Acquire(c) ==
  /\ pc[c] = "acquire"
  /\ req[c].check # Verify
  /\ \/ /\ sem < MaxConcurrent
        /\ sem' = sem + 1
        /\ Goto(c, "target")
        /\ UNCHANGED <<proofSem, counters, history>>
     \/ over[c] /\ Refuse(c, "too_busy")
  /\ UNCHANGED allowances

\* (Fault: waiting for the target's budget.)
AskTargetAndWait(c) ==
  /\ pc[c] = "target"
  /\ targets > 0
  /\ targets' = targets - 1
  /\ Continue(c, "run")
  /\ UNCHANGED <<reads, rate, proofs>>
AskTarget(c) ==
  /\ pc[c] = "target"
  /\ \/ targets > 0 /\ targets' = targets - 1 /\ Continue(c, "run")
     \/ targets = 0 /\ Refuse(c, "target_busy") /\ UNCHANGED targets
  /\ UNCHANGED <<reads, rate, proofs>>

Shown(c) == scoped => "unproven" \notin req[c].wrong

\* The scan: it connects to nothing unless a proof is found, and to no address
\* that is blocked. Its answer is what is wrong with the target, or nothing.
Run(c) ==
  /\ pc[c] = "run"
  /\ contacted' = contacted \cup (IF Shown(c) /\ "blocked" \notin req[c].wrong THEN {req[c]} ELSE {})
  /\ Goto(c, "ran")
  /\ UNCHANGED <<allowances, sem, proofSem, counters, answered>>

\* The answer is read in this order: the deadline, the proof, an error, the
\* destination. Asking for the proof may itself fail.
\* (Fault: the deadline is not looked at when the scan succeeded, and a timeout
\* is answered without being counted.)
JudgeUncounted(c) ==
  /\ pc[c] = "ran"
  /\ IF over[c] THEN /\ answered' = [answered EXCEPT !["timeout"] = @ + 1]
                     /\ Done(c)
                     /\ UNCHANGED <<counters, contacted>>
     ELSE Continue(c, "record")
  /\ UNCHANGED allowances
Judge(c) ==
  /\ pc[c] = "ran"
  /\ \/ over[c] /\ Refuse(c, "timeout")
     \/ ~over[c] /\ ~Shown(c) /\ Refuse(c, "not_verified")
     \/ ~over[c] /\ scoped /\ Refuse(c, "scan_failed")
     \/ ~over[c] /\ Shown(c) /\ "blocked" \in req[c].wrong /\ Refuse(c, "blocked_destination")
     \/ ~over[c] /\ Shown(c) /\ "blocked" \notin req[c].wrong /\ Continue(c, "record")
  /\ UNCHANGED allowances

Record(c) ==
  /\ pc[c] = "record"
  /\ recorded' = recorded + 1
  /\ Goto(c, "keep")
  /\ UNCHANGED <<allowances, sem, proofSem, refused, kept, history>>

\* Store.Put and Keep; failing to is logged, and the report is sent all the same.
Keep(c) ==
  /\ pc[c] = "keep"
  /\ kept' \in {kept, kept + 1}
  /\ Goto(c, "reply")
  /\ UNCHANGED <<allowances, sem, proofSem, refused, recorded, history>>

Reply(c) ==
  /\ pc[c] = "reply"
  /\ answered' = [answered EXCEPT ![Ok] = @ + 1]
  /\ Done(c)
  /\ UNCHANGED <<allowances, counters, contacted>>

\* http.Server recovers a handler that panics: no answer, and the deferred calls
\* run. (Whether the connection outlives it depends on the protocol: Close may
\* follow.)
Panic(c) ==
  /\ pc[c] = "run"
  /\ Done(c)
  /\ UNCHANGED <<allowances, counters, history>>

-----------------------------------------------------------------------------
(* handleVerify, after admit. *)

NotRequired(c) ==
  /\ pc[c] = "acquire"
  /\ req[c].check = Verify
  /\ ~scoped
  /\ Done(c)
  /\ UNCHANGED <<allowances, counters, history>>

AcquireProof(c) ==
  /\ pc[c] = "acquire"
  /\ req[c].check = Verify
  /\ scoped
  /\ \/ /\ proofSem < MaxConcurrentProofs
        /\ proofSem' = proofSem + 1
        /\ Goto(c, "lookup")
        /\ UNCHANGED <<sem, counters, history>>
     \/ over[c] /\ Refuse(c, "too_busy")
  /\ UNCHANGED allowances

\* The records, proven or not; or the lookup failed.
Lookup(c) ==
  /\ pc[c] = "lookup"
  /\ \/ Done(c) /\ UNCHANGED <<counters, history>>
     \/ Refuse(c, "scan_failed")
  /\ UNCHANGED allowances

Handle(c) ==
  \/ AllowRead(c) \/ Screen(c) \/ Spend(c) \/ Examine(c)
  \/ Acquire(c) \/ AskTarget(c) \/ Run(c) \/ Judge(c) \/ Record(c) \/ Keep(c) \/ Reply(c)
  \/ Panic(c) \/ NotRequired(c) \/ AcquireProof(c) \/ Lookup(c)

Next ==
  \/ Refill
  \/ \E c \in Conns : \/ Accept(c) \/ Close(c) \/ CloseAgain(c) \/ Over(c) \/ Handle(c)
                      \/ \E q \in Requests : Receive(c, q)

\* Goroutines are scheduled, and every request has a deadline.
Fairness == \A c \in Conns : WF_vars(Handle(c)) /\ WF_vars(Over(c))

Spec == Init /\ [][Next]_vars /\ Fairness
-----------------------------------------------------------------------------

\* Whatever way a handler ends (an answer, a refusal at any guard, a panic), and
\* however often a connection is closed, the slots in use are those held: none
\* leaks, which would end in too_busy for everyone, and none is given twice,
\* which would let the caps drift upwards.
EverySlotIsHeld ==
  /\ sem = Cardinality({c \in Conns : pc[c] \in HoldingScan})
  /\ proofSem = Cardinality({c \in Conns : pc[c] \in HoldingProof})
  /\ slots = Cardinality(open)

\* "A refusal cannot be added without being counted" (refuse), and "counted only
\* on success" (runCheck): the figures are the answers that were sent.
FiguresAreTheAnswers ==
  /\ \A code \in Codes : refused[code] = answered[code]
  /\ recorded = answered[Ok] + Cardinality({c \in Conns : pc[c] \in {"keep", "reply"}})
  /\ kept <= recorded

\* No target is connected to for a request that some guard refuses, on any path.
ContactIsPermitted ==
  \A q \in contacted :
    /\ q.check \in ScanChecks
    /\ q.wrong \cap (InOrder(Screened) \cup InOrder(Examined)) = {}
    /\ scoped => "unproven" \notin q.wrong

\* "A slow target holds it for the whole of that" (semaphore): however the slots
\* are held and whoever queues for them, every request is answered.
RequestsEnd == \A c \in Conns : pc[c] # "idle" ~> pc[c] = "idle"
=============================================================================
