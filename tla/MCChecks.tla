------------------------------- MODULE MCChecks ------------------------------
(***************************************************************************)
(* What runs under a check, for TLC: the parts of MCScans, and those of a     *)
(* domain's mail, which are a name in a reply, a lookup, a conversation with  *)
(* an exchanger, a sender policy, a policy file, the DANE records of an       *)
(* exchanger, and the scan that is made of them. They share no state, so a    *)
(* behaviour here is a behaviour of one of them, chosen at the start.         *)
(***************************************************************************)
EXTENDS MCScans, Names, Lookups, Conversation, Spf, Dane, MailScan

VARIABLE undisturbed \* what a walk over the sender policy found without a failure: nothing yet, or its facts

\* A name of three labels, one at the end of all, and one that cannot be sent.
MCAskedNames == {<<"a", "b", "c">>, <<"b", "c">>, <<"">>}
\* No resolver; one named twice, with another that is only a placeholder between.
MCConfigurations == {<<>>, <<"r1", "placeholder", "r1", "r2">>}

\* Lines of an exchanger: a greeting, the two of an offer, a refusal, no line at all.
Line(code, then, word) == [code |-> code, then |-> then, word |-> word, long |-> FALSE]
MCSmtpLines ==
  {Line(220, " ", "text"), Line(250, "-", "STARTTLS"), Line(250, " ", "STARTTLS"), Line(550, " ", "5.7.25"),
   [Line(0, " ", "text") EXCEPT !.long = TRUE]}
MCServerChains == [expired : BOOLEAN, known : BOOLEAN, fit : BOOLEAN, names : BOOLEAN]

\* Policies that include one another and themselves, and redirect in a circle.
T(w, m, n) == [written |-> w, mechanism |-> m, name |-> n]
HoldingPolicies(policies) == [existed |-> TRUE, policies |-> policies]
NothingThere == [existed |-> FALSE, policies |-> <<>>]
MCOwn ==
  {<<T("", "include", "a"), T("-", "all", "")>>,
   <<T("", "include", "a"), T("", "include", "b"), T("~", "all", "")>>,
   <<T("", "redirect", "a")>>,
   <<T("", "all", ""), T("", "include", "b")>>,
   <<T("", "include", "a"), T("", "include", "c"), T("", "include", "c"), T("-", "all", "")>>,
   <<T("", "a", ""), T("", "ptr", ""), T("", "include", "a"), T("", "include", ""), T("", "redirect", "b")>>}
MCPulledIn ==
  {<<>>, <<<<T("", "include", "own"), T("", "include", "b"), T("", "a", "")>>>>,
   <<<<T("", "include", "c"), T("", "redirect", "b")>>>>, <<<<T("-", "all", ""), T("", "redirect", "c")>>>>, <<<<>>, <<>>>>}
MCSpfZones ==
  {[d \in SpfDomains |-> CASE d = "own" -> HoldingPolicies(<<own>>) [] d = "a" -> HoldingPolicies(a) [] d = "b" -> HoldingPolicies(b) [] OTHER -> c] :
     own \in MCOwn, a \in MCPulledIn, b \in MCPulledIn, c \in {HoldingPolicies(<<<<T("", "ptr", "")>>>>), NothingThere}}
  \cup {[d \in SpfDomains |-> r] : r \in {NothingThere, HoldingPolicies(<<>>), HoldingPolicies(<<<<>>, <<>>>>)}}

MCPolicyLines ==
  {[key |-> "version", value |-> v] : v \in {"STSv1", "STSv2"}} \cup {[key |-> "mode", value |-> m] : m \in {"enforce", "none", "other"}}
  \cup {[key |-> "max_age", value |-> n] : n \in {-1, 1}}
  \cup {[key |-> "mx", value |-> h] : h \in {<<"mx", "site">>, <<"*", "site">>, <<>>}}

\* Records of both usages that hold and that do not, a bare key of nobody who was
\* presented, and three no sender acts on.
Tlsa(usage, selector, matching, whole, of) ==
  [usage |-> usage, selector |-> selector, matching |-> matching, whole |-> whole, of |-> of]
MCTlsaRecords ==
  {Tlsa(3, 0, 1, TRUE, "leaf"), Tlsa(3, 1, 1, TRUE, "ca"), Tlsa(2, 0, 1, TRUE, "ca"), Tlsa(2, 0, 2, TRUE, "leaf"),
   Tlsa(2, 0, 1, TRUE, "absent"), Tlsa(2, 1, 0, TRUE, "absent"),
   Tlsa(1, 0, 1, TRUE, "leaf"), Tlsa(3, 0, 3, TRUE, "leaf"), Tlsa(2, 0, 1, FALSE, "ca")}

\* A domain of two exchangers, of none that takes mail, and of more than are asked.
MCTargets ==
  {[shape |-> TRUE, excluded |-> e, demo |-> FALSE, proven |-> p] : e \in BOOLEAN, p \in BOOLEAN}
\* A policy that lets everybody send; one with an include, whose lookup may fail; and one
\* of more lookups than the limit, of which a walk that fails sees void ones and a ptr.
OnePolicy == [NoFacts.spf EXCEPT !.records = 1, !.all = "-"]
MCSpfWalks ==
  {[whole |-> [OnePolicy EXCEPT !.all = "+"], partly |-> {}],
   [whole |-> OnePolicy, partly |-> {[OnePolicy EXCEPT !.unread = 1]}],
   [whole |-> [OnePolicy EXCEPT !.limit = TRUE], partly |-> {[OnePolicy EXCEPT !.unread = 1, !.void = TRUE, !.ptr = TRUE]}]}
Tag(n, v) == [name |-> n, value |-> v]
MCDmarcRecords ==
  {<<>>, <<<<Tag("p", "none"), Tag("pct", 101), Tag("rua", "mailto")>>>>, <<<<Tag("rua", "")>>, <<>>>>}
MX1 == <<"mx1", "site">>
MX2 == <<"mx2", "other">>
MCMxAnswers == {<<>>, <<MX1, MX2>>, <<NullHost, MX1>>, <<<<>>, MX1, MX1, MX2>>}
MCPolicies ==
  {[fetched |-> "invalid"],
   [fetched |-> "policy", mode |-> "enforce", maxAge |-> 1, mx |-> {MX1}, truncated |-> FALSE],
   [fetched |-> "policy", mode |-> "enforce", maxAge |-> 0, mx |-> {<<"*", "other">>, MX1}, truncated |-> TRUE]}
MCTlsaOutcomes == {[validated |-> TRUE, usable |-> 1, outcome |-> "mismatched"]}
MCConversations ==
  {[measured |-> TRUE, offered |-> o, upgraded |-> o, trusted |-> o, names |-> o, timedOut |-> FALSE] : o \in BOOLEAN}
MCDkimAnswers == {<<>>, <<[version |-> "", p |-> "key", rsa |-> TRUE, bits |-> 512, testing |-> FALSE]>>}
MCSelectors == <<[name |-> "a", named |-> TRUE], [name |-> "a", named |-> FALSE]>>

\* The facts as MailPolicy has them.
SpfFactsOf(t) ==
  [records |-> t.records, all |-> t.all, limit |-> LookupLimit, void |-> VoidLimit, ptr |-> t.ptr, unread |-> t.unread,
   reason |-> t.reason]
\* The same records are walked twice: first without a failure, and then with any.
WalkUndisturbed == SpfNext /\ tally'.unread = 0 /\ tally'.reason # "failed"
WalkOnceMore ==
  /\ walking = "done" /\ undisturbed = {}
  /\ undisturbed' = {SpfFactsOf(tally)}
  /\ frames' = <<>> /\ seen' = {} /\ queries' = 0 /\ tally' = NothingFound /\ walking' = "start"
  /\ UNCHANGED txt
WalkTwice ==
  \/ undisturbed = {} /\ WalkUndisturbed /\ UNCHANGED undisturbed
  \/ WalkOnceMore
  \/ undisturbed # {} /\ SpfNext /\ UNCHANGED undisturbed

IsName == part = "name"
IsLookup == part = "lookup"
IsConversation == part = "conversation"
IsSpf == part = "spf"
IsSts == part = "policy file"
IsDane == part = "dane"
IsMail == part = "mail"

MailPartsInit ==
  /\ ~IsName => raw = [i \in 0..(MessageLength - 1) |-> 0] /\ began = 0
  /\ NamesInit
  /\ ~IsLookup => /\ labels = <<"">> /\ zone = [n \in AllNames |-> "nothing"]
                  /\ signed = FALSE /\ qtype = "TXT" /\ set = [servers |-> <<>>, chosen |-> 0]
  /\ LookupsInit
  /\ ~IsConversation => configured = "" /\ hostname = "a host" /\ literal = ""
  /\ ConversationInit
  /\ ~IsSpf => txt = [d \in SpfDomains |-> NothingThere]
  /\ SpfInit /\ undisturbed = {}
  /\ StsInit
  /\ ~IsDane => tlsa = <<Tlsa(3, 0, 1, TRUE, "leaf")>> /\ presented = "unmeasured"
  /\ DaneInit
  /\ MailInit

wireVars == <<namesVars, lookupsVars, conversationVars>>
recordVars == <<spfVars, undisturbed, stsVars, daneVars>>
mailPartsVars == <<wireVars, recordVars, mailVars>>

WireNext ==
  \/ IsName /\ NamesNext /\ UNCHANGED <<lookupsVars, conversationVars>>
  \/ IsLookup /\ LookupsNext /\ UNCHANGED <<namesVars, conversationVars>>
  \/ IsConversation /\ ConversationNext /\ UNCHANGED <<namesVars, lookupsVars>>
RecordNext ==
  \/ IsSpf /\ WalkTwice /\ UNCHANGED <<stsVars, daneVars>>
  \/ IsSts /\ StsNext /\ UNCHANGED <<spfVars, undisturbed, daneVars>>
  \/ IsDane /\ DaneNext /\ UNCHANGED <<spfVars, undisturbed, stsVars>>
MailPartsNext ==
  \/ WireNext /\ UNCHANGED <<recordVars, mailVars>>
  \/ RecordNext /\ UNCHANGED <<wireVars, mailVars>>
  \/ IsMail /\ MailNext /\ UNCHANGED <<wireVars, recordVars>>

ChecksInit == Init /\ MailPartsInit
ChecksNext ==
  \/ Next /\ UNCHANGED mailPartsVars
  \/ MailPartsNext /\ UNCHANGED scansVars
ChecksSpec == ChecksInit /\ [][ChecksNext]_<<scansVars, mailPartsVars>>

ChecksTypeOK ==
  /\ ScansTypeOK
  /\ NamesTypeOK /\ LookupsTypeOK /\ ConversationTypeOK
  /\ SpfTypeOK /\ StsTypeOK /\ DaneTypeOK /\ MailTypeOK

\* A reply is read as the resolver wrote it, name by name (Names), and an answer says
\* what the zones say, whoever answers first (Lookups).
RepliesAreReadRight == RecordGoesOnAfterIt /\ AnswerIsOfTheZones

\* A walk over a sender policy in which lookups fail (follow) finds nothing of the
\* domain that the walk over the same records without failures did not: no more
\* lookups than the limit, no void ones, no ptr. The one way to find more of them is
\* that the other walk stopped at the limit, and this one never came to it.
FailedLookupsAddNothing ==
  walking = "done" /\ tally.reason = "" /\ tally.unread > 0 => \A whole \in undisturbed : Beside(SpfFactsOf(tally), whole)
=============================================================================
