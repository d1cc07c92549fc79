----------------------------- MODULE Handshakes -----------------------------
(***************************************************************************)
(* A check of TLS: the probe (tlsprobe.go, tls13.go, legacy.go, reached.go) *)
(* and what scan.go makes of its report.                                    *)
(*                                                                         *)
(* The versions are probed at once, each by a goroutine of its own; within *)
(* an older version suites are offered and removed one handshake at a time, *)
(* and the suites of TLS 1.3 are asked for all at once. Every handshake     *)
(* resolves the name again, so it may reach any of the name's machines, and *)
(* any may go unanswered: what the report then says is the subject here.    *)
(***************************************************************************)
EXTENDS Verdicts, FiniteSets

CONSTANTS
  Machines,      \* the addresses the name resolves to, each a machine of its own
  TLS13, Older,  \* the newest version, and those whose suites a client can choose
  Suites13, Suites, \* the registry's suites for TLS 1.3; what Go can offer before it
  Go13, Default, \* what Go offers of each when it is not told which
  Questions,     \* what only a hand-written hello can ask (SSL 3.0, NULL, ...)
  Grade,         \* policy.GradeVersion and policy.GradeCipher
  NoMachine

Versions == {TLS13} \cup Older
Offerable(v) == IF v = TLS13 THEN Suites13 ELSE Suites

ASSUME HandshakesAssumption ==
  /\ Machines # {} /\ IsFiniteSet(Machines) /\ NoMachine \notin Machines
  /\ TLS13 \notin Older
  /\ IsFiniteSet(Suites13) /\ IsFiniteSet(Suites) /\ IsFiniteSet(Older)
  /\ Go13 \subseteq Suites13 /\ Default \subseteq Suites
  /\ Grade \in [Versions \cup Suites13 \cup Suites \cup Questions -> {Strong, Weak, Insecure}]

VARIABLES
  accepts,     \* of each machine, by version: the suites it accepts
  answersTo,   \* of each machine: the legacy questions it says yes to
  pc,          \* of each version: where its goroutine is
  results,     \* of each version: its row of the report
  remaining,   \* the suites of a version not asked about yet
  answers,     \* the answers to the hellos for TLS 1.3 suites
  negotiated,  \* the suite of the TLS 1.3 handshake
  reason,      \* tls13Reason is set: the answers by hand are not believed
  reached,     \* addressSet
  stage,       \* where Probe is
  asked, old,  \* legacy questions put; those accepted
  tlsVerdict, findings  \* out.Verdict; the verdicts of the findings

machineVars == <<accepts, answersTo>>
versionVars == <<pc, results, remaining, answers, negotiated, reason>>
legacyVars == <<asked, old>>
tlsVars == <<machineVars, versionVars, legacyVars, reached, stage, tlsVerdict, findings>>

NoRow == [supported |-> FALSE, refused |-> FALSE, ciphers |-> {}, complete |-> FALSE]
Rows == [supported : BOOLEAN, refused : BOOLEAN, ciphers : SUBSET (Suites13 \cup Suites), complete : BOOLEAN]
Answers == {"none", "accepted", "refused", "unread"}

TlsTypeOK ==
  /\ accepts \in [Machines -> [Versions -> SUBSET (Suites13 \cup Suites)]]
  /\ answersTo \in [Machines -> SUBSET Questions]
  /\ pc \in [Versions -> {"first", "suites", "done"}]
  /\ results \in [Versions -> Rows]
  /\ remaining \in [Versions -> SUBSET (Suites13 \cup Suites)]
  /\ answers \in [Suites13 -> Answers]
  /\ negotiated \subseteq Suites13 /\ Cardinality(negotiated) <= 1
  /\ reason \in BOOLEAN
  /\ reached \subseteq Machines
  /\ stage \in {"versions", "legacy", "rest", "scan", "report"}
  /\ asked \subseteq Questions /\ old \subseteq Questions
  /\ tlsVerdict \in Verdict
  /\ findings \subseteq {Weak, Insecure}

TlsInit ==
  /\ accepts \in [Machines -> {f \in [Versions -> SUBSET (Suites13 \cup Suites)] :
                                 \A v \in Versions : f[v] \subseteq Offerable(v)}]
  /\ answersTo \in [Machines -> SUBSET Questions]
  /\ pc = [v \in Versions |-> "first"]
  /\ results = [v \in Versions |-> NoRow]
  /\ remaining = [v \in Versions |-> Offerable(v)]
  /\ answers = [s \in Suites13 |-> "none"]
  /\ negotiated = {}
  /\ reason = FALSE
  /\ reached = {}
  /\ stage = "versions"
  /\ asked = {}
  /\ old = {}
  /\ tlsVerdict = Ungraded
  /\ findings = {}

-----------------------------------------------------------------------------
(* One handshake. *)

\* Every address connected to is recorded, whatever the handshake comes to.
\* (Fault: only those whose handshake completed.)
RecordIfAnswered(m, completed) == reached' = IF completed THEN reached \cup {m} ELSE reached
RecordReached(m, completed) == reached' = reached \cup ({m} \ {NoMachine})

\* The machine m takes one of the suites offered,
Accepted(m, v, offered, s) ==
  /\ m \in Machines
  /\ s \in accepts[m][v] \cap offered
  /\ RecordReached(m, TRUE)
\* or says that there is none,
Refused(m, v, offered) ==
  /\ m \in Machines
  /\ accepts[m][v] \cap offered = {}
  /\ RecordReached(m, FALSE)
\* or the question goes unanswered: the time is up, the connection breaks, or
\* (NoMachine) none was made.
Unanswered(m) == RecordReached(m, FALSE)

Anywhere == Machines \cup {NoMachine}

-----------------------------------------------------------------------------
(* The versions. *)

\* The first handshake of a version names no suites, and Go offers its own.
FirstOffer(v) == IF v = TLS13 THEN Go13 ELSE Default

FirstHandshake(v) ==
  /\ stage = "versions"
  /\ pc[v] = "first"
  /\ \E m \in Anywhere :
       \/ \E s \in Suites13 \cup Suites :
            /\ Accepted(m, v, FirstOffer(v), s)
            /\ results' = [results EXCEPT ![v].supported = TRUE]
            /\ negotiated' = IF v = TLS13 THEN {s} ELSE negotiated
            /\ pc' = [pc EXCEPT ![v] = "suites"]
       \/ /\ Refused(m, v, FirstOffer(v))
          /\ results' = [results EXCEPT ![v].refused = TRUE]
          /\ pc' = [pc EXCEPT ![v] = "done"]
          /\ UNCHANGED negotiated
       \/ /\ Unanswered(m)
          /\ pc' = [pc EXCEPT ![v] = "done"]
          /\ UNCHANGED <<results, negotiated>>
  /\ UNCHANGED <<machineVars, legacyVars, remaining, answers, reason, stage, tlsVerdict, findings>>

\* enumerateCiphers: what the server picks is removed from what is offered.
\* Nothing left, or a refusal, ends the list; anything else leaves it open.
EndList(v, complete) ==
  /\ results' = [results EXCEPT ![v].complete = complete]
  /\ pc' = [pc EXCEPT ![v] = "done"]
  /\ UNCHANGED remaining
Enumerate(v) ==
  /\ v \in Older
  /\ pc[v] = "suites"
  /\ \/ remaining[v] = {} /\ EndList(v, TRUE) /\ UNCHANGED reached
     \/ \E m \in Anywhere :
          \/ \E s \in Suites :
               /\ Accepted(m, v, remaining[v], s)
               /\ results' = [results EXCEPT ![v].ciphers = @ \cup {s}]
               /\ remaining' = [remaining EXCEPT ![v] = @ \ {s}]
               /\ UNCHANGED pc
          \/ remaining[v] # {} /\ Refused(m, v, remaining[v]) /\ EndList(v, TRUE)
          \/ remaining[v] # {} /\ Unanswered(m) /\ EndList(v, FALSE)
  /\ UNCHANGED <<machineVars, legacyVars, answers, negotiated, reason, stage, tlsVerdict, findings>>

\* tls13Suites: a hello by hand for every suite. A machine may answer it with
\* another version or suite, which is not read.
AskByHand(s) ==
  /\ pc[TLS13] = "suites"
  /\ s \in remaining[TLS13]
  /\ remaining' = [remaining EXCEPT ![TLS13] = @ \ {s}]
  /\ \E m \in Anywhere :
       \/ Accepted(m, TLS13, {s}, s) /\ answers' = [answers EXCEPT ![s] = "accepted"]
       \/ Refused(m, TLS13, {s}) /\ answers' = [answers EXCEPT ![s] = "refused"]
       \/ Unanswered(m) /\ answers' = [answers EXCEPT ![s] = "unread"]
  /\ UNCHANGED <<machineVars, legacyVars, pc, results, negotiated, reason, stage, tlsVerdict, findings>>

\* The answers are believed if the suite that was negotiated is among those
\* accepted; otherwise it alone is listed, and the list is called complete.
ReadAnswers ==
  /\ pc[TLS13] = "suites"
  /\ remaining[TLS13] = {}
  /\ pc' = [pc EXCEPT ![TLS13] = "done"]
  /\ LET said(answer) == {s \in Suites13 : answers[s] = answer}
         calibrated == negotiated \subseteq said("accepted")
     IN  /\ reason' = ~calibrated
         /\ results' = [results EXCEPT
              ![TLS13].ciphers = IF calibrated THEN said("accepted") ELSE negotiated,
              ![TLS13].complete = calibrated => said("unread") = {}]
  /\ UNCHANGED <<machineVars, legacyVars, remaining, answers, negotiated, reached, stage, tlsVerdict, findings>>

-----------------------------------------------------------------------------
(* The report of the probe. *)

Supported == {v \in Versions : results[v].supported}
Unfinished == \E v \in Supported : ~results[v].complete

Grades(things) == {Grade[x] : x \in things}
Graded == Supported \cup UNION {results[v].ciphers : v \in Supported}

Summarise ==
  /\ stage = "versions"
  /\ \A v \in Versions : pc[v] = "done"
  /\ LET worst == Worst(Grades(Graded))
     IN  tlsVerdict' = IF worst = Strong /\ Unfinished THEN Ungraded ELSE worst
  /\ findings' = Grades(Graded) \ {Strong}
  /\ stage' = "legacy"
  /\ UNCHANGED <<machineVars, versionVars, legacyVars, reached>>

\* legacy asks nothing where nothing answered.
AnswersAtAll == \E v \in Versions : results[v].supported \/ results[v].refused

AskLegacy(q) ==
  /\ stage = "legacy"
  /\ AnswersAtAll
  /\ q \in Questions \ asked
  /\ asked' = asked \cup {q}
  /\ \E m \in Anywhere :
       \/ m \in Machines /\ q \in answersTo[m] /\ old' = old \cup {q} /\ RecordReached(m, TRUE)
       \/ m \in Machines /\ q \notin answersTo[m] /\ UNCHANGED old /\ RecordReached(m, FALSE)
       \/ Unanswered(m) /\ UNCHANGED old
  /\ UNCHANGED <<machineVars, versionVars, stage, tlsVerdict, findings>>

\* mergeLegacy: upwards only.
MergeLegacy ==
  /\ stage = "legacy"
  /\ AnswersAtAll => asked = Questions
  /\ tlsVerdict' = Worst({tlsVerdict} \cup (Grades(old) \ {Strong}))
  /\ findings' = findings \cup (Grades(old) \ {Strong})
  /\ stage' = "rest"
  /\ UNCHANGED <<machineVars, versionVars, legacyVars, reached>>

\* The fallback signal, the hybrid group and the preference: up to four more
\* handshakes, which grade nothing and may reach any machine. (eachAddress has
\* handshakes of its own, which are not recorded with these.)
MoreIsAsked ==
  \/ Cardinality(Supported) >= 2 \/ TLS13 \in Supported
  \/ \E v \in Supported : Cardinality(results[v].ciphers) >= 2
Rest ==
  /\ stage = "rest"
  /\ \/ /\ MoreIsAsked
        /\ \E m \in Machines \ reached : RecordReached(m, TRUE)
        /\ UNCHANGED stage
     \/ stage' = "scan" /\ UNCHANGED reached
  /\ UNCHANGED <<machineVars, versionVars, legacyVars, tlsVerdict, findings>>

-----------------------------------------------------------------------------
(* scan.go *)

Settle(v) == IF v = Strong /\ Unfinished THEN Ungraded ELSE v

\* The certificate, if there is one, gets a verdict of its own.
Join ==
  /\ stage = "scan"
  /\ stage' = "report"
  /\ \E certificate \in IF Supported = {} THEN {Ungraded} ELSE {Strong, Weak} :
       tlsVerdict' = Settle(Worst({tlsVerdict, certificate}))
  /\ UNCHANGED <<machineVars, versionVars, legacyVars, reached, findings>>

TlsNext ==
  \/ \E v \in Versions : FirstHandshake(v) \/ Enumerate(v)
  \/ \E s \in Suites13 : AskByHand(s)
  \/ ReadAnswers \/ Summarise
  \/ \E q \in Questions : AskLegacy(q)
  \/ MergeLegacy \/ Rest \/ Join

TlsSpec == TlsInit /\ [][TlsNext]_tlsVars

-----------------------------------------------------------------------------

\* "Whether the picture is of one machine" (Probe): a list called complete is
\* all a machine accepts, if the handshakes reached no other. A list may end in
\* the refusal of another machine, so every machine has to be on record, the
\* ones whose handshake failed too.
CompleteIsEverything ==
  \A m \in Machines : stage = "report" /\ reached = {m} =>
    \A v \in Supported : results[v].complete /\ ~(v = TLS13 /\ reason) =>
      results[v].ciphers = accepts[m][v]

\* "An unfinished list forfeits strong" and "the withdrawal has to survive the
\* join" (invariants.md R11): strong is said only of what was seen to the end.
\* If one machine was reached, none of the versions it was found to speak has a
\* weak suite there, whichever handshakes were not answered. And "a weak or insecure
\* finding that was seen stays seen" (scan.go).
VerdictIsEarned ==
  /\ stage = "report" /\ tlsVerdict = Strong =>
       /\ Grades(Graded) = {Strong} /\ old \subseteq {q \in Questions : Grade[q] = Strong}
       /\ \A m \in Machines : reached = {m} =>
            \A v \in Supported : ~(v = TLS13 /\ reason) => Grades(accepts[m][v]) \subseteq {Strong}
  /\ stage = "report" => \A g \in findings : tlsVerdict >= g

\* A report tells the truth: of the lists it calls complete, and in its verdict.
ProbeTellsTheTruth == CompleteIsEverything /\ VerdictIsEarned

\* "This scanner sets MinVersion and CipherSuites explicitly" (invariants.md S7),
\* so that what Go offers by default costs nothing in what is detected: a
\* version that the only machine reached accepts with a suite of the candidates
\* is not reported as refused.
RefusedIsRefused ==
  \A m \in Machines : stage = "report" /\ reached = {m} =>
    \A v \in Older : results[v].refused => accepts[m][v] = {}
=============================================================================
