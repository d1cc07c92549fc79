---------------------------- MODULE Certificates ----------------------------
(***************************************************************************)
(* What a presented chain is graded by: trust, dates and names (certinfo.go), *)
(* the rules over the leaf and its issuers (cert.go, chain.go), and what the  *)
(* root stores of four clients make of it (rootstores.go). Of a certificate's *)
(* own content only the rules it breaks are kept.                             *)
(***************************************************************************)
EXTENDS Verdicts, SequencesExt

CONSTANTS
  Certs,          \* name, subject, issuer, by (whose key signed it), from, to, server, hosts, cn, flaws
  Roots,          \* those the machine that scans trusts
  Stores,         \* for each client, those it trusts: a function to "trusted", "conditional" or a last date
  Lifetime(_),    \* MaxValidityDays, by the date of issue
  Warning,        \* expiryWarningDays
  MaxChainLength  \* maxChainLength

\* Rules that one fact of one certificate decides, and what each of them weighs; the
\* leaf's and the issuers' go by other names and weigh the same.
ContentRules ==
  LET weak == {"signature-algorithm-unrecognised", "key-algorithm-unrecognised", "critical-extension-unrecognised"}
      insecure == {"signature-md5", "signature-sha1", "rsa-key-too-small", "ec-key-too-small", "roca"}
  IN  [r \in weak \cup insecure |-> IF r \in weak THEN Weak ELSE Insecure]
LeafOnly ==
  LET weak == {"no-digital-signature", "wildcard-shape"}
      insecure == {"no-san", "leaf-is-ca", "key-usage-cert-sign", "no-server-auth"}
  IN  [r \in weak \cup insecure |-> IF r \in weak THEN Weak ELSE Insecure]
LeafRules ==
  [r \in DOMAIN ContentRules \cup DOMAIN LeafOnly |-> IF r \in DOMAIN LeafOnly THEN LeafOnly[r] ELSE ContentRules[r]]

\* Every rule that GradeLeaf and GradeIssuer find broken.
RuleNames ==
  DOMAIN LeafRules
  \cup {"expired", "not-yet-valid", "expiring-soon", "self-signed", "chain-untrusted", "chain-incomplete",
        "hostname-mismatch", "cn-not-in-san", "serial-entropy", "validity-too-long"}

ASSUME CertificateAssumption ==
  /\ Roots \subseteq Certs
  /\ \A c \in Certs : c.from \in Int /\ c.to \in Int
  /\ \A c \in Certs : c.flaws \subseteq DOMAIN LeafRules \cup {"short serial"}
  /\ Warning \in Nat /\ MaxChainLength \in Nat \ {0}

\* The set of findings {[rule, verdict]} if the condition holds.
Found(condition, whose, rule, verdict) ==
  IF condition THEN {[rule |-> <<whose, rule>>, verdict |-> verdict]} ELSE {}

\* The dates: at most one of three rules, for the leaf and for an issuer.
DateFindings(whose, c, now) ==
  CASE now > c.to -> Found(TRUE, whose, "expired", Insecure)
    [] now <= c.to /\ now < c.from -> Found(TRUE, whose, "not-yet-valid", Insecure)
    [] OTHER -> Found(c.to - now <= Warning, whose, "expiring-soon", Weak)

SelfSigned(c) == c.subject = c.issuer /\ c.by = c.name

\* Verify, of the library: a path of certificates in date from the leaf to a root.
ValidAt(c, t) == c.from <= t /\ t <= c.to
Verifies(leaf, sent, roots, t) ==
  LET above == {c \in sent \cup roots : ValidAt(c, t)}
      Path(p) ==
        /\ leaf.by = p[1].name
        /\ \A i \in 1..(Len(p) - 1) : p[i].by = p[i + 1].name
        /\ Last(p) \in roots
  IN  /\ ValidAt(leaf, t) /\ leaf.server
      /\ leaf \in roots \/ \E n \in 1..Cardinality(sent \cup {leaf}) : \E p \in [1..n -> above] : Path(p)

\* What was sent and is looked at; trustedWithinValidity; judgeStores: once out of
\* date, the question is asked as of the middle of the leaf's own time.
Described(chain) == SubSeq(chain, 1, IF Len(chain) < MaxChainLength THEN Len(chain) ELSE MaxChainLength)
Sent(chain) == ToSet(Tail(Described(chain)))
Middle(leaf) == leaf.from + (leaf.to - leaf.from) \div 2
Trusted(chain, now) ==
  \/ Verifies(Head(chain), Sent(chain), Roots, now)
  \/ Head(chain).to > Head(chain).from /\ Verifies(Head(chain), Sent(chain), Roots, Middle(Head(chain)))

\* chainComplete: by the names alone, over all that was sent.
Complete(chain) ==
  SelfSigned(Head(chain)) \/ \E c \in ToSet(Tail(chain)) : c.subject = Head(chain).issuer

\* GradeLeaf. Self-signed is one fault and not three.
LeafFindings(chain, host, now) ==
  LET leaf == Head(chain)
  IN  DateFindings("cert", leaf, now)
      \cup Found(SelfSigned(leaf), "cert", "self-signed", Insecure)
      \cup Found(~SelfSigned(leaf) /\ ~Trusted(chain, now), "cert", "chain-untrusted", Insecure)
      \cup Found(~Complete(chain), "cert", "chain-incomplete", Weak)
      \cup Found(host \notin leaf.hosts, "cert", "hostname-mismatch", Insecure)
      \cup (UNION {Found(TRUE, "cert", f, LeafRules[f]) : f \in leaf.flaws \cap DOMAIN LeafRules})
      \cup Found(leaf.cn # "" /\ leaf.cn \notin leaf.hosts, "cert", "cn-not-in-san", Weak)
      \cup Found(Trusted(chain, now) /\ "short serial" \in leaf.flaws, "cert", "serial-entropy", Weak)
      \cup Found(leaf.to - leaf.from > Lifetime(leaf.from), "cert", "validity-too-long", Weak)

\* GradeIssuer, for every certificate that was looked at but a root.
IssuerFindings(chain, now) ==
  UNION {DateFindings("chain", c, now)
         \cup UNION {Found(TRUE, "chain", f, ContentRules[f]) : f \in c.flaws \cap DOMAIN ContentRules}
         : c \in {d \in Sent(chain) : ~SelfSigned(d)}}

\* Analyse, worstAcross
ChainFindings(chain, host, now) == LeafFindings(chain, host, now) \cup IssuerFindings(chain, now)
ChainVerdict(chain, host, now) == Worst({Strong} \cup {f.verdict : f \in ChainFindings(chain, host, now)})

\* Judge, best: of every path the one the store thinks most of; a store that trusts a
\* root up to a date trusts what was issued by then.
Rank == [v \in {"trusted", "conditional", "distrusted", "not-trusted"} |->
           CASE v = "trusted" -> 3 [] v = "conditional" -> 2 [] v = "distrusted" -> 1 [] OTHER -> 0]
StoreRoots(store) == {r \in Certs : r.name \in DOMAIN Stores[store]}
StoreVerdict(store, chain, now) ==
  LET leaf == Head(chain)
      at == IF ValidAt(leaf, now) \/ leaf.to <= leaf.from THEN now ELSE Middle(leaf)
      of(root) ==
        LET status == Stores[store][root.name]
        IN  IF status.until = 0 THEN status.says ELSE IF leaf.from <= status.until THEN "trusted" ELSE "distrusted"
      reached == {of(r) : r \in {s \in StoreRoots(store) : Verifies(leaf, Sent(chain), {s}, at)}} \cup {"not-trusted"}
  IN  CHOOSE v \in reached : \A w \in reached : Rank[w] <= Rank[v]
-----------------------------------------------------------------------------

\* R4b, "Trust and expiry are separate questions, asked separately": for a leaf whose
\* issuers outlive it, neither the verdict's store nor any other is said to trust it
\* at one time and not at another.
TrustIgnoresTheClock(chain, times) ==
  LET leaf == Head(chain)
      above == Sent(chain) \cup Roots \cup UNION {StoreRoots(s) : s \in DOMAIN Stores}
      outlived == \A c \in above : c.from <= leaf.from /\ leaf.to <= c.to
  IN  outlived /\ leaf.from < leaf.to =>
        \A t, u \in times :
          /\ Trusted(chain, t) = Trusted(chain, u)
          /\ \A s \in DOMAIN Stores : StoreVerdict(s, chain, t) = StoreVerdict(s, chain, u)
=============================================================================
