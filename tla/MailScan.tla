------------------------------ MODULE MailScan ------------------------------
(***************************************************************************)
(* One scan of a domain's mail (mailscan.go): what is refused before any     *)
(* question is asked, the questions in their order, the exchangers asked side *)
(* by side, and the grade. Any question may fail; beside what the scan found, *)
(* "entire" keeps what it would have found had none failed. Policies, records *)
(* and answers are those StsPolicy, Dane, Conversation, Spf and Dkim end in.  *)
(***************************************************************************)
EXTENDS MailPolicy, Dkim, StsPolicy

CONSTANTS
  Targets,       \* what may be asked about: shape, excluded, demo, proven
  SpfWalks,      \* what spf.Check may find: the whole of it, and what is found of it if a lookup inside fails
  DmarcRecords,  \* the records at _dmarc: sequences of them, the DMARC records only
  MxAnswers,     \* the hosts of an MX answer, in order
  Policies,      \* what a fetch of the policy file ends in
  TlsaOutcomes,  \* for an exchanger with records: validated, usable, and what Check says of its certificate
  Conversations, \* what a conversation with an exchanger measures
  DkimAnswers,   \* the records at a selector
  MaxExchangers, \* maxExchangers
  ReadsPolicy, ReadsExchangers, \* ReadSTSPolicy and ReadExchangers
  MaxFailures    \* bound: of how many stages a question fails

\* What a walk over a sender policy finds when a lookup inside it fails, beside what it
\* finds when none does. The walk goes on behind the failure, and what it did not read
\* is not counted; so behind the limit at which the other stopped it may go further.
Beside(partly, whole) ==
  /\ whole.unread = 0 /\ partly.unread > 0
  /\ partly.records = whole.records /\ partly.all = whole.all /\ partly.reason = whole.reason
  /\ partly.limit => whole.limit
  /\ partly.void => whole.void \/ whole.limit
  /\ partly.ptr => whole.ptr \/ whole.limit

ASSUME MailAssumption ==
  /\ \A walk \in SpfWalks : \A partly \in walk.partly : Beside(partly, walk.whole)
  /\ MaxExchangers \in Nat \ {0} /\ MaxFailures \in Nat
  /\ ReadsPolicy \in BOOLEAN /\ ReadsExchangers \in BOOLEAN
  /\ \A got \in Policies : got.fetched \in {"not-fetched", "invalid", "policy"}
  /\ \A tlsa \in TlsaOutcomes : tlsa.usable \in Nat

NullHost == <<".">>

Stages == {"begin", "spf", "dmarc", "tls-reporting", "mx", "sts-record", "sts-policy", "tlsa", "exchangers", "dkim",
           "grade", "done", "refused"}

VARIABLES
  mailStage,    \* what Scan does next
  facts,    \* MailFacts
  entire,   \* MailFacts, had no question failed
  failures, \* the stages of which a question failed
  due,      \* the exchangers or selectors not asked yet
  spokenTo \* the servers this scan spoke to

mailVars == <<mailStage, facts, entire, failures, due, spokenTo>>

MailTypeOK ==
  /\ mailStage \in Stages
  /\ DOMAIN facts = DOMAIN NoFacts /\ DOMAIN entire = DOMAIN NoFacts
  /\ Cardinality(failures) <= MaxFailures
  /\ Cardinality(spokenTo) <= MaxExchangers + 1

MailInit ==
  /\ mailStage = "begin"
  /\ facts = NoFacts
  /\ entire = NoFacts
  /\ failures = {}
  /\ due = {}
  /\ spokenTo = {}

\* Scan, before anything is asked: CheckDomain, the exclusion list, the
\* demonstration names, and the proof of control.
MayScan(target) == target.shape /\ ~target.excluded /\ ~target.demo /\ target.proven
CheckTarget ==
  /\ mailStage = "begin"
  /\ \E target \in Targets : mailStage' = IF MayScan(target) THEN "spf" ELSE "refused"
  /\ UNCHANGED <<facts, entire, failures, due, spokenTo>>

\* One more stage of which a question fails.
Fails ==
  /\ failures' = failures \cup {mailStage}
  /\ Cardinality(failures') <= MaxFailures

\* A question is answered, or it fails and the facts say what they say without it.
Ask(question, answered, unanswered, then) ==
  /\ mailStage = question
  /\ \/ facts' = answered /\ UNCHANGED failures
     \/ Fails /\ facts' = unanswered
  /\ mailStage' = then
  /\ UNCHANGED spokenTo

\* readSPF: the lookup of the domain's own record may fail, or one inside the walk,
\* which then goes on without it.
ReadSPF ==
  \E walk \in SpfWalks : \E told \in walk.partly \cup {[facts.spf EXCEPT !.reason = "unread"]} :
    /\ entire' = [entire EXCEPT !.spf = walk.whole]
    /\ Ask("spf", [facts EXCEPT !.spf = walk.whole], [facts EXCEPT !.spf = told], "dmarc")
    /\ UNCHANGED due

\* readDMARC: of two records none is read; of two tags the last counts, and a
\* percentage that is none is passed over.
Dmarc(records) ==
  LET r == Head(records)
      tags == [policy |-> "", percent |-> 100, reporting |-> FALSE]
      read == IF Len(records) # 1 THEN [tags EXCEPT !.percent = 0]
              ELSE FoldLeft(LAMBDA t, tag :
                              CASE tag.name = "p" -> [t EXCEPT !.policy = tag.value]
                                [] tag.name = "pct" -> [t EXCEPT !.percent = IF tag.value \in 0..100 THEN tag.value ELSE @]
                                [] tag.name = "rua" -> [t EXCEPT !.reporting = tag.value # ""]
                                [] OTHER -> t, tags, r)
  IN  [records |-> Len(records), reason |-> ""] @@ read
ReadDMARC ==
  \E records \in DmarcRecords :
    /\ entire' = [entire EXCEPT !.dmarc = Dmarc(records)]
    /\ Ask("dmarc", [facts EXCEPT !.dmarc = Dmarc(records)], [facts EXCEPT !.dmarc.reason = "unread"], "tls-reporting")
    /\ UNCHANGED due

\* readTLSReporting: of a failure nothing is kept.
ReadTLSReporting ==
  \E published \in BOOLEAN :
    /\ entire' = [entire EXCEPT !.tlsReporting = published]
    /\ Ask("tls-reporting", [facts EXCEPT !.tlsReporting = published], facts, "mx")
    /\ UNCHANGED due

\* readExchangers
Mx(hosts) ==
  [read |-> TRUE, reason |-> "", null |-> NullHost \in ToSet(hosts),
   hosts |-> SelectSeq(hosts, LAMBDA h : h \notin {NullHost, <<>>})]
ReadExchangers ==
  \E hosts \in MxAnswers :
    /\ entire' = [entire EXCEPT !.mx = Mx(hosts)]
    /\ Ask("mx", [facts EXCEPT !.mx = Mx(hosts)], [facts EXCEPT !.mx.reason = "unread"], "sts-record")
    /\ UNCHANGED due

\* readTransportSecurity, the record: what fails is not told from what is not there.
ReadRecord ==
  \E n \in 0..1 :
    /\ entire' = [entire EXCEPT !.sts.records = n]
    /\ Ask("sts-record", [facts EXCEPT !.sts.records = n], facts, "sts-policy")
    /\ UNCHANGED due

\* readSTSPolicy: only where one is announced and this deployment reads it; and no
\* exchanger is called uncovered by a list that was cut, or of a list not read.
Fetches(f) == f.sts.records > 0 /\ ReadsPolicy
PolicyOf(sts, hosts, got) ==
  CASE sts.records = 0 -> sts
    [] sts.records > 0 /\ ~ReadsPolicy -> [sts EXCEPT !.reason = "not-configured"]
    [] sts.records > 0 /\ ReadsPolicy /\ got.fetched = "not-fetched" -> [sts EXCEPT !.reason = "not-fetched"]
    [] sts.records > 0 /\ ReadsPolicy /\ got.fetched = "invalid" -> [sts EXCEPT !.read = TRUE, !.invalid = "invalid"]
    [] sts.records > 0 /\ ReadsPolicy /\ got.fetched = "policy" ->
         [sts EXCEPT !.read = TRUE, !.mode = got.mode, !.maxAge = got.maxAge, !.mx = got.mx, !.truncated = got.truncated,
                     !.uncovered = {h \in ToSet(hosts) : ~got.truncated /\ ~Covers(got.mx, h)}]
AddSTSPolicy(f, got) == [f EXCEPT !.sts = PolicyOf(@, f.mx.hosts, got)]
ReadSTSPolicy ==
  /\ mailStage = "sts-policy"
  /\ \E got \in IF Fetches(entire) THEN Policies ELSE {[fetched |-> "not-fetched"]} :
       /\ entire' = AddSTSPolicy(entire, got)
       /\ \/ facts' = AddSTSPolicy(facts, got) /\ UNCHANGED failures
          \/ Fetches(facts) /\ Fails /\ facts' = AddSTSPolicy(facts, [fetched |-> "not-fetched"])
  /\ spokenTo' = spokenTo \cup IF Fetches(facts) THEN {<<"https", "mta-sts">>} ELSE {}
  /\ mailStage' = "tlsa"
  /\ UNCHANGED due

\* The exchangers that are asked: the first of a list that is longer.
FirstHosts(f) == Restrict(f.mx.hosts, DOMAIN f.mx.hosts \cap 1..MaxExchangers)
Partial(f) == Len(f.mx.hosts) > MaxExchangers

\* readTransportSecurity, the rest: the TLSA records of each. published says which
\* have any; answered, at which places of the list the question did not fail. The
\* hosts that have records are kept by their place.
TlsaOf(f, published, answered) ==
  LET asked == DOMAIN FirstHosts(f) \cap answered
  IN  [f EXCEPT !.dane = [@ EXCEPT !.partial = Partial(f), !.asked = Cardinality(asked),
                                   !.unread = Cardinality(DOMAIN FirstHosts(f) \ answered),
                                   !.hosts = Restrict(f.mx.hosts, {i \in asked : f.mx.hosts[i] \in published})]]
ReadTLSA ==
  LET places == DOMAIN FirstHosts(entire)
      hosts == ToSet(FirstHosts(entire))
  IN  \E published \in SUBSET hosts, answered \in SUBSET places :
        /\ entire' = TlsaOf(entire, published, places)
        /\ Ask("tlsa", TlsaOf(facts, published, places), TlsaOf(facts, published, answered), "exchangers")
        /\ due' = hosts

\* readExchangerTLS: where mail can be delivered and this deployment may ask.
\* (Fault: a domain that says it takes no mail is asked as well.)
MayContactNull(f) == f.mx.read /\ f.mx.hosts # <<>> /\ ReadsExchangers
MayContact(f) == f.mx.read /\ ~f.mx.null /\ f.mx.hosts # <<>> /\ ReadsExchangers

\* daneBinding, with what Check says of a certificate that was obtained.
DaneBinding(host, tlsa, r) ==
  [host |-> host, validated |-> tlsa.validated, usable |-> tlsa.usable,
   outcome |-> CASE tlsa.usable = 0 -> "no-usable-records"
                 [] tlsa.usable > 0 /\ (~r.measured \/ (r.offered /\ ~r.upgraded)) -> "not-checked"
                 [] tlsa.usable > 0 /\ r.measured /\ ~r.offered -> "no-starttls"
                 [] OTHER -> tlsa.outcome]
ResultOf(host, conversation) == [host |-> host] @@ conversation
Unreached(host) ==
  [host |-> host, measured |-> FALSE, offered |-> FALSE, upgraded |-> FALSE, trusted |-> FALSE, names |-> FALSE,
   timedOut |-> TRUE]
AddResult(f, host, tlsa, r) ==
  IF ~MayContact(f) \/ host \notin ToSet(FirstHosts(f)) THEN f
  ELSE [f EXCEPT !.exchangers.contacted = TRUE, !.exchangers.partial = Partial(f), !.exchangers.results = @ \cup {r},
                 !.dane.bindings = @ \cup IF host \in ToSet(f.dane.hosts) THEN {DaneBinding(host, tlsa, r)} ELSE {}]

\* One of them answers, or does not; they are asked side by side.
ProbeExchanger ==
  /\ mailStage = "exchangers" /\ due # {}
  /\ \E host \in due, conversation \in Conversations, tlsa \in TlsaOutcomes :
       LET r == ResultOf(host, conversation)
       IN  /\ due' = due \ {host}
           /\ entire' = AddResult(entire, host, tlsa, r)
           /\ \/ facts' = AddResult(facts, host, tlsa, r) /\ UNCHANGED failures
              \/ Fails /\ facts' = AddResult(facts, host, tlsa, Unreached(host))
           /\ spokenTo' = spokenTo \cup IF MayContact(facts) /\ host \in ToSet(FirstHosts(facts))
                                          THEN {<<"smtp", host>>} ELSE {}
  /\ UNCHANGED mailStage
ExchangersDone ==
  /\ mailStage = "exchangers" /\ due = {}
  /\ due' = SelectorsAsked
  /\ LET looked == Selectors # <<>>
     IN  facts' = [facts EXCEPT !.dkim.looked = looked] /\ entire' = [entire EXCEPT !.dkim.looked = looked]
  /\ mailStage' = "dkim"
  /\ UNCHANGED <<failures, spokenTo>>

\* readDKIM
ReadDKIM ==
  /\ mailStage = "dkim"
  /\ \E selector \in due, records \in DkimAnswers :
       /\ due' = due \ {selector}
       /\ entire' = [entire EXCEPT !.dkim.keys = @ \cup {ReadKey(selector, records)}]
       /\ \/ facts' = [facts EXCEPT !.dkim.keys = @ \cup {ReadKey(selector, records)}] /\ UNCHANGED failures
          \/ Fails /\ facts' = [facts EXCEPT !.dkim.keys = @ \cup {Unread(selector)}]
  /\ UNCHANGED <<mailStage, spokenTo>>

MailGraded ==
  /\ mailStage = "dkim" /\ due = {}
  /\ mailStage' = "done"
  /\ UNCHANGED <<facts, entire, failures, due, spokenTo>>

MailNext ==
  \/ CheckTarget \/ ReadSPF \/ ReadDMARC \/ ReadTLSReporting \/ ReadExchangers \/ ReadRecord \/ ReadSTSPolicy
  \/ ReadTLSA \/ ProbeExchanger \/ ExchangersDone \/ ReadDKIM \/ MailGraded

MailSpec == MailInit /\ [][MailNext]_mailVars
-----------------------------------------------------------------------------

\* What the notes say is not there when its question failed: the code does not tell the two apart.
TakenForAbsence(about) ==
  \/ about = "no-sts" /\ "sts-record" \in failures
  \/ about = "no-tls-reports" /\ "tls-reporting" \in failures
  \/ about \in {"no-dane", "dane-somewhere"} /\ "tlsa" \in failures /\ facts.dane.unread > 0

\* The walk over the sender policy did not stop at the limit, for a lookup inside failed.
WentFurther == entire.spf.limit /\ facts.spf.unread > 0
VoidFound == [rule |-> "mail.spf-void-lookups", verdict |-> Weak]

\* A question that fails hardly ever condemns: whatever failed, in whatever order the
\* exchangers answered, nothing is found against the domain that a scan without
\* failures would not have found, with one exception. A walk over the sender policy
\* that a failed lookup kept under the limit goes further than the one that stopped
\* there (follow), and may count void lookups, or see a ptr, that the other never came
\* to; but then that other found the limit exceeded, which is graded worse. So the
\* verdict is never worse for a failure; and Strong, with the policy, the DMARC record
\* and the MX records all read, is not said of a domain that has been found weak.
\* What the notes say was seen, a scan without failures would have said too, but for
\* that walk and for the absences that the code does not tell from a failure.
FailureNeverCondemns ==
  mailStage = "done" =>
    /\ MailFindings(facts) \subseteq MailFindings(entire) \cup IF WentFurther THEN {VoidFound} ELSE {}
    /\ GradeMail(facts) = Ungraded \/ GradeMail(facts) <= GradeMail(entire) \/ GradeMail(entire) = Ungraded
    /\ GradeMail(facts) = Strong => failures \cap {"spf", "dmarc", "mx"} = {}
    /\ \A note \in Notes(facts) \ Notes(entire) :
         \/ note[1] = "unsettled" \/ TakenForAbsence(note[2])
         \/ WentFurther /\ note[2] \in {"spf-ptr", "spf-lookups"}

\* Nobody is contacted whom the domain does not name: an exchanger only if its MX
\* records were read, name it and do not say that no mail is taken, and the policy
\* host only if a policy is announced; never more exchangers than the limit, and
\* nobody for a target that is refused.
OnlyNamedAreContacted ==
  /\ mailStage \in {"begin", "refused"} => spokenTo = {}
  /\ \A host \in {c[2] : c \in {d \in spokenTo : d[1] = "smtp"}} :
       facts.mx.read /\ ~facts.mx.null /\ host \in ToSet(entire.mx.hosts)
  /\ <<"https", "mta-sts">> \in spokenTo => entire.sts.records > 0 /\ ReadsPolicy
  /\ Cardinality({c \in spokenTo : c[1] = "smtp"}) <= MaxExchangers
=============================================================================
