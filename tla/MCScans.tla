------------------------------- MODULE MCScans -------------------------------
(***************************************************************************)
(* What runs under a check of a web server, for TLC: the TLS probe, the      *)
(* walk of the web probe, the dialler, the scan around the TLS probe and what *)
(* it learns of revocation. They share no state, so a behaviour here is a     *)
(* behaviour of one of them, chosen at the start.                             *)
(***************************************************************************)
EXTENDS Handshakes, Redirects, Dial, TlsScan, Revocation

CONSTANT Parts

VARIABLE part

\* Old suites are weak; those without encryption, and SSL 3.0, insecure.
MCGrade ==
  [x \in Versions \cup Suites13 \cup Suites \cup Questions |->
    CASE x = "rc4" -> Weak [] x \in {"null", "ssl3"} -> Insecure [] OTHER -> Strong]

\* Nothing but what they do tells the machines apart, so one is taken for the one that
\* does the most.
Does(m) == Cardinality(UNION {{v} \X accepts[m][v] : v \in Versions}) + Cardinality(answersTo[m])
Busiest == CHOOSE m \in Machines : TRUE

\* Records at a host, above it, and under RequireSigned; files beside records.
MCAbove == [h \in Hosts |-> IF h = "www" THEN <<"www", "site">> ELSE <<h>>]
Zone(site, other) ==
  [d \in Domains |-> CASE d = "site" -> site [] d = "other" -> other
                       [] d = "listed" -> "signed" [] OTHER -> "none"]
MCProofs ==
  {[zone |-> Zone("signed", "none"), files |-> {"other"}],
   [zone |-> Zone("unsigned", "signed"), files |-> {}],
   [zone |-> Zone("none", "none"), files |-> {"www"}]}

\* Two addresses of each family that may be dialled, and one that may not.
MCAddresses ==
  {[family |-> f, public |-> TRUE, n |-> n] : f \in Families, n \in {1, 2}}
  \cup {[family |-> "IPv4", public |-> FALSE, n |-> 1]}

\* A root, an issuer, an older issuer of the same name whose time ends first, and four
\* leaves: one under each, one that signed itself, and one nobody here issued.
Certificate(name, subject, issuer, by, from, to, flaws) ==
  [name |-> name, subject |-> subject, issuer |-> issuer, by |-> by, from |-> from, to |-> to, server |-> TRUE,
   hosts |-> {"www"}, cn |-> "", flaws |-> flaws]
rootCert == Certificate("root", "R", "R", "root", 0, 9, {})
caCert == Certificate("ca", "CA", "R", "root", 0, 9, {})
md5Cert == Certificate("md5", "CA", "R", "root", 0, 4, {"signature-md5"})
leafCert == Certificate("leaf", "L", "CA", "ca", 1, 5, {})
oldCert == Certificate("old", "L", "CA", "md5", 1, 5, {"short serial"})
ownCert == Certificate("own", "L", "L", "own", 1, 5, {})
lostCert == Certificate("lost", "L", "X", "x", 1, 5, {"no-san"})
MCCerts == {rootCert, caCert, md5Cert, leafCert, oldCert, ownCert, lostCert}
MCRoots == {rootCert}
MCStores ==
  [mozilla |-> [n \in {"root"} |-> [says |-> "trusted", until |-> 0]],
   chrome  |-> [n \in {"root"} |-> [says |-> "distrusted", until |-> 1]],
   apple   |-> [n \in {"other"} |-> [says |-> "conditional", until |-> 0]]]
MCLifetime(from) == IF from < 1 THEN 9 ELSE 5

\* What is typed: in order, at another port, at a port nobody allowed, an address, a
\* listed name, one without proof, and two that are no targets.
Ordinary ==
  [scheme |-> FALSE, path |-> "none", bracket |-> "none", colons |-> 0, host |-> "www", port |-> "",
   address |-> FALSE, excluded |-> FALSE, demo |-> FALSE, proven |-> TRUE]
AtPort(port) == [Ordinary EXCEPT !.colons = 1, !.port = port]
MCTyped ==
  {Ordinary, AtPort("8443"), AtPort("25"), [Ordinary EXCEPT !.address = TRUE], [Ordinary EXCEPT !.excluded = TRUE],
   [Ordinary EXCEPT !.proven = FALSE], [Ordinary EXCEPT !.host = "no dot"], [Ordinary EXCEPT !.path = "more"]}
MCReports ==
  [findings : {{}, {[rule |-> <<"tls", "cbc">>, verdict |-> Weak]}}, complete : BOOLEAN,
   chain : {<<leafCert, caCert>>, <<lostCert, caCert>>, <<ownCert>>, <<leafCert>>}, others : {{}, {<<oldCert, md5Cert>>}, {<<>>}}]
  \cup {[findings |-> {}, complete |-> FALSE, chain |-> <<>>, others |-> {}]}
MCStaplings == {{}, {[rule |-> <<"cert", "revoked">>, verdict |-> Insecure]}}
MCReceipts ==
  {[embedded |-> 0, handshake |-> 0, verified |-> 0], [embedded |-> 2, handshake |-> 1, verified |-> 2],
   [embedded |-> 1, handshake |-> 0, verified |-> 1]}

IsTls == part = "tls"
IsWeb == part = "web"
IsDial == part = "dial"
IsScan == part = "scan"
IsRevocation == part = "revocation"

Init ==
  /\ part \in Parts
  /\ ~IsTls => accepts = [m \in Machines |-> [v \in Versions |-> {}]] /\ answersTo = [m \in Machines |-> {}]
  /\ TlsInit
  /\ \A m \in Machines : Does(m) <= Does(Busiest)
  /\ ~IsWeb => mode = "open"
  /\ RedirectsInit
  /\ mode = "open" => proofs = CHOOSE p \in Proofs : p.files = {"other"}
  /\ DialInit
  /\ ~IsScan => aimed = Ordinary /\ scannedAt = CHOOSE t \in ScanTimes : TRUE
  /\ ~IsScan => report = CHOOSE r \in Reports : r.chain = <<>>
  /\ ScanInit
  /\ ~IsRevocation => revokedAt = Never /\ chained = FALSE /\ mustStaple = FALSE
  /\ RevocationInit

scansVars == <<tlsVars, redirectsVars, dialVars, scanVars, revocationVars, part>>

Next ==
  /\ \/ IsTls /\ TlsNext /\ UNCHANGED <<redirectsVars, dialVars, scanVars, revocationVars>>
     \/ IsWeb /\ RedirectsNext /\ UNCHANGED <<tlsVars, dialVars, scanVars, revocationVars>>
     \/ IsDial /\ DialNext /\ UNCHANGED <<tlsVars, redirectsVars, scanVars, revocationVars>>
     \/ IsScan /\ ScanNext /\ UNCHANGED <<tlsVars, redirectsVars, dialVars, revocationVars>>
     \/ IsRevocation /\ RevocationNext /\ UNCHANGED <<tlsVars, redirectsVars, dialVars, scanVars>>
  /\ UNCHANGED part

Spec == Init /\ [][Next]_scansVars

ScansTypeOK == TlsTypeOK /\ RedirectsTypeOK /\ DialTypeOK /\ ScanTypeOK /\ RevocationTypeOK
=============================================================================
