------------------------------- MODULE TlsScan -------------------------------
(***************************************************************************)
(* One TLS scan (scan.go): the target that was typed, what is refused before  *)
(* a connection is made, the probe, the chain it ends in and the other chains  *)
(* met on the way, the revocation findings, the CAA records and the receipts   *)
(* of transparency logs, and the one verdict made of them. How the probe and   *)
(* the revocation get their findings is Handshakes and Revocation.             *)
(***************************************************************************)
EXTENDS Certificates

CONSTANTS
  Typed,        \* targets as typed: see Split
  AllowedPorts, DefaultPort,
  AllowAnyPort, AllowIPTargets,
  ScanTimes,    \* bound: when scans are made
  Reports,      \* what a probe reports: findings, complete, chain, others
  Staplings,    \* the findings that revocation may end in
  CaaAnswers,   \* the CAA records of an answer, or "failed"
  Receipts      \* of the timestamps of a scan: embedded, handshake, and how many verified

ASSUME ScanAssumption ==
  /\ AllowAnyPort \in BOOLEAN /\ AllowIPTargets \in BOOLEAN
  /\ ScanTimes \subseteq Int
  /\ \A r \in Reports : r.complete \in BOOLEAN /\ \A c \in r.others \cup {r.chain} : c \in Seq(Certs)
  /\ LET given == (UNION {r.findings : r \in Reports}) \cup UNION Staplings
     IN  /\ \A f \in given : /\ f = [rule |-> f.rule, verdict |-> f.verdict] /\ f.verdict \in {Weak, Insecure}
                             /\ f.rule \notin {"cert", "chain"} \X RuleNames
         /\ \A f, g \in given : f.rule = g.rule => f.verdict = g.verdict

VARIABLES
  scanStage, \* what Scan does next
  aimed,     \* the target, as typed
  scannedAt,        \* when the scan is made
  report,    \* what the probe reported
  shownFindings,     \* the findings, one for a rule
  verdict,   \* out.Verdict
  coverage   \* what the report says it covers

scanVars == <<scanStage, aimed, scannedAt, report, shownFindings, verdict, coverage>>

ScanStages == {"begin", "probe", "certificate", "stapling", "issuance", "settle", "done", "refused", "failed"}

ScanTypeOK ==
  /\ scanStage \in ScanStages
  /\ aimed \in Typed /\ scannedAt \in ScanTimes
  /\ report \in Reports
  /\ \A f, g \in shownFindings : f.rule = g.rule => f = g
  /\ verdict \in Verdict

ScanInit ==
  /\ scanStage = "begin"
  /\ aimed \in Typed
  /\ scannedAt \in ScanTimes
  /\ report \in Reports
  /\ shownFindings = {}
  /\ verdict = Ungraded
  /\ coverage = {}
-----------------------------------------------------------------------------

\* SplitTargetPort, splitHostPort, checkHostSyntax, checkPortSyntax: what was typed,
\* cut at its slash, at its brackets and at its one colon. What would be dropped is
\* refused and not dropped.
Malformed(typed) ==
  \/ typed.path = "more" /\ ~typed.scheme
  \/ typed.bracket = "unclosed"
  \/ typed.bracket = "none" /\ typed.colons > 1 /\ ~typed.address
  \/ typed.host \in {"", "too long", "odd characters", "no dot", "empty label"}
  \/ typed.port \in {"not a number", "padded"}
Split(typed) ==
  [host |-> typed.host, explicit |-> typed.port # "", port |-> IF typed.port = "" THEN DefaultPort ELSE typed.port]

\* Scan, before any connection: the port, an address, the exclusion list and the
\* demonstration names, and the proof of control, over the name as it will be dialled.
ScanMayBegin(typed) ==
  /\ AllowAnyPort \/ Split(typed).port \in AllowedPorts
  /\ AllowIPTargets \/ ~typed.address
  /\ ~typed.excluded /\ ~typed.demo /\ typed.proven
Resolve ==
  /\ scanStage = "begin"
  /\ scanStage' = IF Malformed(aimed) \/ ~ScanMayBegin(aimed) THEN "refused" ELSE "probe"
  /\ UNCHANGED <<aimed, scannedAt, report, shownFindings, verdict, coverage>>

\* Findings: of the findings of a rule the first is kept; which is the first of several
\* that come in at once, as of the chains met at other versions, is left open.
Collect(have, new) ==
  LET unseen == {f \in new : \A g \in have : g.rule # f.rule}
  IN  {have \cup first : first \in {s \in SUBSET unseen : \A f \in unseen : \E g \in s : {h \in s : h.rule = f.rule} = {g}}}

\* The probe's own verdict; nothing but an address that never answered fails.
TlsVerdict(r) ==
  IF ~r.complete /\ r.findings = {} THEN Ungraded ELSE Worst({Strong} \cup {f.verdict : f \in r.findings})
Probe ==
  /\ scanStage = "probe"
  /\ \/ scanStage' = "failed" /\ UNCHANGED <<shownFindings, verdict>>
     \/ /\ shownFindings' \in Collect(shownFindings, report.findings)
        /\ verdict' = TlsVerdict(report)
        /\ scanStage' = IF report.chain = <<>> THEN "issuance" ELSE "certificate"
  /\ UNCHANGED <<aimed, scannedAt, report, coverage>>

\* The chain of the newest handshake, and every other that was met; one of those that
\* cannot be read is said to be so and weighs nothing.
\* (Fault: only the first chain is weighed.)
Readable == {c \in report.others : c # <<>>}
AnalyseFirst ==
  /\ scanStage = "certificate"
  /\ \E first \in Collect(shownFindings, ChainFindings(report.chain, aimed.host, scannedAt)) :
       shownFindings' \in Collect(first, UNION {ChainFindings(c, aimed.host, scannedAt) : c \in Readable})
  /\ verdict' = Worst({verdict, ChainVerdict(report.chain, aimed.host, scannedAt)})
  /\ scanStage' = "stapling"
  /\ UNCHANGED <<aimed, scannedAt, report, coverage>>
Analyse ==
  /\ scanStage = "certificate"
  /\ \E first \in Collect(shownFindings, ChainFindings(report.chain, aimed.host, scannedAt)) :
       shownFindings' \in Collect(first, UNION {ChainFindings(c, aimed.host, scannedAt) : c \in Readable})
  /\ verdict' = Worst({verdict} \cup {ChainVerdict(c, aimed.host, scannedAt) : c \in Readable \cup {report.chain}})
  /\ scanStage' = "stapling"
  /\ UNCHANGED <<aimed, scannedAt, report, coverage>>

\* GradeStapling; transparencyFor, checkReceipts, allReceiptsVerified; searchLogs only
\* adds to the notes.
AllReceiptsVerified(r) == r.embedded + r.handshake > 0 /\ r.verified = r.embedded + r.handshake
GradeRevocation ==
  /\ scanStage = "stapling"
  /\ \E findings \in Staplings, validated \in BOOLEAN, r \in Receipts :
       /\ shownFindings' \in Collect(shownFindings, findings)
       /\ verdict' = Worst({verdict, Strong} \cup {f.verdict : f \in findings})
       /\ coverage' = coverage \cup {"chain"} \cup (IF validated THEN {"revocation"} ELSE {})
                      \cup (IF r.embedded + r.handshake > 0 THEN {"transparency"} ELSE {})
                      \cup (IF AllReceiptsVerified(r) THEN {"transparency verified"} ELSE {})
  /\ scanStage' = "issuance"
  /\ UNCHANGED <<aimed, scannedAt, report>>

\* checkIssuance, issuanceFacts: a lookup that fails, or stops short, answers nothing.
CheckIssuance ==
  /\ scanStage = "issuance"
  /\ \E answer \in CaaAnswers :
       coverage' = IF answer # "failed" /\ answer # "incomplete" THEN coverage \cup {"issuance"} ELSE coverage
  /\ scanStage' = "settle"
  /\ UNCHANGED <<aimed, scannedAt, report, shownFindings, verdict>>

\* settle, coverageFacts. transportUnfinished: Strong is not said over a list that was
\* cut short.
SettleScan ==
  /\ scanStage = "settle"
  /\ verdict' = IF verdict = Strong /\ ~report.complete THEN Ungraded ELSE verdict
  /\ coverage' = IF report.complete THEN coverage \cup {"ciphers"} ELSE coverage
  /\ scanStage' = "done"
  /\ UNCHANGED <<aimed, scannedAt, report, shownFindings>>

ScanNext == Resolve \/ Probe \/ Analyse \/ GradeRevocation \/ CheckIssuance \/ SettleScan

ScanSpec == ScanInit /\ [][ScanNext]_scanVars
-----------------------------------------------------------------------------

\* The verdict is what the findings under it say ("R5"): the worst of every finding a
\* reader is shown, of whichever chain it was met on and although a rule is told once;
\* Strong is said when there is none and every list was read to its end; and nothing is
\* said at all of a target that was refused. And trust is not expiry (R4b): a chain
\* that is out of its dates is trusted or not as it was within them.
VerdictIsOfTheFindings ==
  /\ scanStage \in {"refused", "failed"} => verdict = Ungraded /\ shownFindings = {}
  /\ scanStage = "done" =>
       /\ verdict = IF shownFindings = {} THEN IF report.complete THEN Strong ELSE Ungraded
                    ELSE Worst({f.verdict : f \in shownFindings})
       /\ verdict = Strong => "ciphers" \in coverage
       /\ "revocation" \in coverage => "chain" \in coverage
  /\ scanStage = "certificate" => \A c \in Readable \cup {report.chain} : TrustIgnoresTheClock(c, ScanTimes)
=============================================================================
