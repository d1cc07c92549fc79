----------------------------- MODULE MailPolicy -----------------------------
(***************************************************************************)
(* What a domain's mail is graded by (policy/mail.go): the rules and the    *)
(* notes over the facts a scan found. Of a sentence only what it is about   *)
(* is kept, and whether it says what was seen or what was not settled.      *)
(***************************************************************************)
EXTENDS Verdicts, Sequences

\* MailFacts. Fields that only the wording reads are left out.
NoFacts ==
  [spf |-> [records |-> 0, all |-> "", limit |-> FALSE, void |-> FALSE, ptr |-> FALSE, unread |-> 0, reason |-> ""],
   dmarc |-> [records |-> 0, policy |-> "", percent |-> 0, reporting |-> FALSE, reason |-> ""],
   tlsReporting |-> FALSE,
   mx |-> [read |-> FALSE, reason |-> "", hosts |-> <<>>, null |-> FALSE],
   sts |-> [records |-> 0, read |-> FALSE, reason |-> "", invalid |-> "", mode |-> "", maxAge |-> 0, mx |-> {},
            truncated |-> FALSE, uncovered |-> {}],
   dane |-> [hosts |-> <<>>, asked |-> 0, unread |-> 0, partial |-> FALSE, bindings |-> {}],
   exchangers |-> [contacted |-> FALSE, reason |-> "", partial |-> FALSE, results |-> {}],
   dkim |-> [looked |-> FALSE, keys |-> {}]]

\* A finding, if the condition holds.
Finding(condition, rule, verdict) == IF condition THEN {[rule |-> rule, verdict |-> verdict]} ELSE {}
-----------------------------------------------------------------------------
\* The rules of GradeMail.

SpfFindings(spf) ==
  Finding(spf.records > 1, "mail.spf-duplicate", Insecure)
  \cup Finding(spf.limit, "mail.spf-lookup-limit", Insecure)
  \cup Finding(spf.void, "mail.spf-void-lookups", Weak)
  \cup Finding(spf.all = "+", "mail.spf-allows-everybody", Insecure)

DmarcFindings(dmarc) ==
  Finding(dmarc.records = 1 /\ dmarc.policy = "" /\ dmarc.reason = "", "mail.dmarc-no-policy", Weak)
  \cup Finding(dmarc.records > 1, "mail.dmarc-duplicate", Weak)

StsInvalid(sts) ==
  sts.invalid # "" \/ sts.mode = "" \/ (sts.mode \in {"enforce", "testing"} /\ sts.mx = {})
Enforced(sts) == sts.read /\ sts.mode = "enforce"
StsFindings(sts) ==
  Finding(sts.read /\ StsInvalid(sts), "mail.mta-sts-policy-invalid", Weak)
  \cup Finding(Enforced(sts) /\ sts.uncovered # {}, "mail.mta-sts-uncovered-exchanger", Weak)

\* Only what was measured of an exchanger the policy covers, and what this client
\* could not negotiate is not held against it.
\* (Fault: one that was not measured offers nothing.)
FailsPolicyUnmeasured(sts, x) ==
  x.host \notin sts.uncovered /\ (~x.offered \/ (x.upgraded /\ ~(x.trusted /\ x.names)))
FailsPolicy(sts, x) ==
  x.measured /\ x.host \notin sts.uncovered /\ (~x.offered \/ (x.upgraded /\ ~(x.trusted /\ x.names)))
ExchangerFindings(sts, results) ==
  Finding(Enforced(sts) /\ \E x \in results : FailsPolicy(sts, x), "mail.mta-sts-exchanger-fails-policy", Weak)

\* Only records a sender would act on.
DaneFindings(bindings) ==
  Finding(\E b \in bindings : b.validated /\ b.usable > 0 /\ b.outcome \in {"no-starttls", "mismatched"},
          "mail.dane-exchanger-fails-binding", Weak)

DkimFindings(keys) == Finding(\E k \in keys : k.weak, "mail.dkim-weak-key", Weak)

PrincipalUnread(f) == f.spf.reason # "" \/ f.spf.unread > 0 \/ f.dmarc.reason # "" \/ f.mx.reason # ""
-----------------------------------------------------------------------------
\* The notes: what was seen, and what was not settled.

Seen(condition, about) == IF condition THEN {<<"observed", about>>} ELSE {}
Unsettled(condition, about) == IF condition THEN {<<"unsettled", about>>} ELSE {}

DescribeSPF(spf) ==
  Unsettled(spf.reason # "", "spf") \cup Seen(spf.reason = "" /\ spf.records = 0, "no-spf")
  \cup Seen(spf.all \in {"-", "~", "?"} \/ (spf.all = "" /\ spf.records = 1), "spf-all")
  \cup Seen(spf.records = 1 /\ ~spf.limit, "spf-lookups")
  \cup Unsettled(spf.unread > 0, "spf-includes")
  \cup Seen(spf.ptr, "spf-ptr")

DescribeDMARC(dmarc) ==
  Unsettled(dmarc.reason # "", "dmarc")
  \cup Seen(dmarc.reason = "" /\ dmarc.records = 0, "no-dmarc")
  \cup Seen(dmarc.reason = "" /\ dmarc.records # 0 /\ dmarc.policy \in {"none", "quarantine", "reject"}, "dmarc-policy")
  \cup Seen(dmarc.records >= 1 /\ ~dmarc.reporting, "no-dmarc-reports")

\* describeSTS
DescribeSTS(f) ==
  LET sts == f.sts
      established == sts.mx # {} /\ ~sts.truncated
  IN  IF sts.records = 0 THEN Seen(TRUE, "no-sts")
      ELSE IF ~sts.read THEN Unsettled(TRUE, "sts-policy")
      ELSE   Seen(sts.mode # "", "sts-mode")
             \cup Seen(sts.maxAge > 0, "sts-cache")
             \cup Unsettled(sts.mx # {} /\ sts.truncated, "sts-coverage")
             \cup Seen(established /\ sts.uncovered = {}, "sts-covers-all")
             \cup Seen(established /\ sts.uncovered # {} /\ sts.mode = "testing", "sts-leaves-out")

\* describeDANE
DescribeDANE(bindings) ==
  LET of(outcomes, validated) == \E b \in bindings : b.outcome \in outcomes /\ b.validated \in validated
  IN  Seen(of({"matched"}, BOOLEAN), "dane-holds")
      \cup Unsettled(of({"matched"}, {FALSE}), "dane-signed")
      \cup Seen(of({"mismatched", "no-starttls"}, {FALSE}), "dane-does-not-hold")
      \cup Seen(of({"no-usable-records"}, BOOLEAN), "dane-unusable")
      \cup Unsettled(of({"undetermined", "not-checked"}, BOOLEAN), "dane")

\* describeExchangers
Unmeasured(x) == ~x.measured \/ (x.offered /\ ~x.upgraded)
DescribeExchangers(f) ==
  LET results == f.exchangers.results
      told == {x \in results : ~Unmeasured(x)}
  IN  IF ~f.exchangers.contacted THEN Unsettled(TRUE, "exchangers")
      ELSE Seen(\E x \in told : x.offered /\ x.trusted /\ x.names, "starttls")
           \cup Seen(\E x \in told : ~x.offered, "no-starttls")
           \cup Seen(\E x \in told : x.offered /\ ~(x.trusted /\ x.names), "certificate")
           \cup Unsettled(told # results,
                     IF results # {} /\ \A x \in results : Unmeasured(x) /\ x.timedOut THEN "port-25" ELSE "exchangers")
           \cup Unsettled(f.exchangers.partial, "more-exchangers")
           \cup DescribeDANE(f.dane.bindings)

DescribeDaneRecords(f) ==
  LET d == f.dane
      all == Cardinality(DOMAIN d.hosts) = Len(f.mx.hosts) /\ d.unread = 0 /\ ~d.partial
  IN  (IF d.asked = 0 /\ d.unread = 0 THEN {}
       ELSE IF all THEN Seen(TRUE, "dane-everywhere")
       ELSE IF DOMAIN d.hosts # {} THEN Seen(TRUE, "dane-somewhere")
       ELSE Seen(TRUE, "no-dane"))
      \cup Unsettled(d.unread > 0, "dane-records") \cup Unsettled(d.partial, "more-dane-records")

\* describeMailPath, and describeExchangers behind the same conditions.
DescribeMailPath(f) ==
  IF f.mx.reason # "" THEN Unsettled(TRUE, "mx")
  ELSE IF f.mx.null THEN Seen(TRUE, "null-mx")
  ELSE IF ~f.mx.read THEN {}
  ELSE IF f.mx.hosts = <<>> THEN Seen(TRUE, "no-mx")
  ELSE Seen(TRUE, "mx") \cup DescribeSTS(f) \cup DescribeDaneRecords(f) \cup DescribeExchangers(f)

\* describeDKIM
DescribeDKIM(dkim) ==
  LET unread == {k \in dkim.keys : k.reason # ""}
      found == {k \in dkim.keys \ unread : k.found}
      rest == dkim.keys \ (unread \cup found)
  IN  IF ~dkim.looked THEN Unsettled(TRUE, "dkim")
      ELSE Seen(found # {}, "dkim-keys") \cup Seen(\E k \in rest : k.named, "no-key-where-named")
           \cup Unsettled(found = {} /\ \E k \in rest : ~k.named, "dkim-keys") \cup Unsettled(unread # {}, "dkim-selectors")
           \cup Seen(\E k \in found : k.testing, "dkim-testing") \cup Seen(\E k \in found : k.revoked, "dkim-revoked")

\* describeMail; what no mail scan settles is always said.
Notes(f) ==
  DescribeSPF(f.spf) \cup DescribeDMARC(f.dmarc) \cup Seen(~f.tlsReporting, "no-tls-reports")
  \cup DescribeMailPath(f) \cup Unsettled(TRUE, "nothing-was-sent") \cup DescribeDKIM(f.dkim)

MailFindings(f) ==
  SpfFindings(f.spf) \cup DmarcFindings(f.dmarc) \cup StsFindings(f.sts)
  \cup ExchangerFindings(f.sts, f.exchangers.results) \cup DaneFindings(f.dane.bindings) \cup DkimFindings(f.dkim.keys)

\* GradeMail: only Strong is withdrawn for what was not read.
\* (Fault: nothing is.)
WorstFinding(f) == Worst({Strong} \cup {x.verdict : x \in MailFindings(f)})
GradeMail(f) ==
  IF WorstFinding(f) = Strong /\ PrincipalUnread(f) THEN Ungraded ELSE WorstFinding(f)
=============================================================================
