----------------------------- MODULE Revocation -----------------------------
(***************************************************************************)
(* What one scan learns of a certificate's revocation, and how it grades it:  *)
(* the stapled response (ocsp.go), the lists the certificate names (crl.go,   *)
(* scope.go), its responders asked directly (ocspquery.go), and the findings  *)
(* and the one sentence made of them (staple.go, lines.go). What an authority *)
(* signs is true when it signs it; everybody else may keep it, and show it    *)
(* later.                                                                     *)
(***************************************************************************)
EXTENDS Verdicts, Sequences

CONSTANTS
  Now,        \* when the scan is made
  Never,      \* a later time than any
  Skew,       \* clockSkew
  MaxPoints,  \* maxPoints, and maxResponders
  Places,     \* bound: how many lists, and how many responders, a certificate names
  Asking      \* whether the responders are asked

ASSUME RevocationAssumption ==
  /\ Now \in Nat /\ Never \in Nat /\ Never > Now + Skew + 1 /\ Skew \in Nat
  /\ MaxPoints \in Nat \ {0} /\ Places \in Nat /\ Asking \in BOOLEAN

VARIABLES
  revokedAt,  \* when the authority revoked the certificate
  chained,    \* the certificate that issued it was sent
  mustStaple, \* the certificate demands a stapled response
  look,       \* what is looked at next
  places,     \* the lists, or responders, that are left
  tried,      \* how many were asked
  staple, listed, queried \* what each said: an answer, why there is none, or that none was sent

revocationVars == <<revokedAt, chained, mustStaple, look, places, tried, staple, listed, queried>>

Looks == {"staple", "list", "query", "done"}

\* A word, and the time it was said at.
NotAsked == [said |-> "not asked", at |-> 0]
Silent(why) == [said |-> why, at |-> 0]
Says(status, at) == [said |-> status, at |-> at]
Words == {"not asked", "good", "revoked", "unknown", "no issuer", "nothing", "none named"}

RevocationTypeOK ==
  /\ revokedAt \in Nat /\ chained \in BOOLEAN /\ mustStaple \in BOOLEAN
  /\ look \in Looks /\ places \in 0..Places /\ tried \in 0..MaxPoints
  /\ \A w \in {staple, listed, queried} : w.said \in Words /\ w.at \in Nat

RevocationInit ==
  /\ revokedAt \in {1, Now, Never}
  /\ chained \in BOOLEAN
  /\ mustStaple \in BOOLEAN
  /\ look = "staple"
  /\ places = 0
  /\ tried = 0
  /\ staple = NotAsked
  /\ listed = NotAsked
  /\ queried = NotAsked
-----------------------------------------------------------------------------

\* An OCSP response: its signer, whether it is about this certificate, when it was
\* produced and its status observed, and until when it may be used (0: it does not
\* say). One the issuer, or a delegate of its own, signed says what was so.
Times == 0..(Now + Skew + 1)
Responses ==
  {r \in [signer : {"issuer", "delegate", "other"}, about : BOOLEAN, this : Times, until : {0} \cup Times,
          status : {"good", "revoked", "unknown"}] :
     r.signer # "other" /\ r.about => (r.status = "revoked" <=> revokedAt <= r.this)}

\* Check: what cannot be read, is about another certificate, lies in the future or
\* has expired, or is not signed by the issuer or a delegate of its own (verify-
\* Signature), establishes nothing.
Fresh(r) == r.this <= Now + Skew /\ (r.until = 0 \/ r.until >= Now)
CheckOCSP(r) ==
  IF r.about /\ Fresh(r) /\ r.signer \in {"issuer", "delegate"} THEN Says(r.status, r.this) ELSE Silent("nothing")

\* A stapled response, or none. Without the issuer it is not looked at.
Staple ==
  /\ look = "staple"
  /\ \/ UNCHANGED staple
     \/ ~chained /\ staple' = Silent("no issuer")
     \/ chained /\ staple' = Silent("nothing")
     \/ chained /\ \E r \in Responses : staple' = CheckOCSP(r)
  /\ look' = "list"
  /\ places' \in 0..Places
  /\ tried' = 0
  /\ UNCHANGED <<revokedAt, chained, mustStaple, listed, queried>>

\* A revocation list: its signer, its dates (until: 0 if it does not say), whether it
\* covers the certificate whole (scopeReason), and whether the certificate is on it.
Lists ==
  {l \in [signer : {"issuer", "other"}, this : Times, until : Times, whole : BOOLEAN, names : BOOLEAN] :
     l.signer = "issuer" =>
       /\ l.names => revokedAt <= l.this
       /\ l.whole /\ ~l.names => revokedAt > l.this}

InEffect(l) == l.this <= Now /\ (l.until = 0 \/ Now <= l.until)
\* checkOne
\* (Fault: a list of part of what the issuer signs is read as the whole.)
CheckListAnyScope(l) ==
  IF l.signer = "issuer" /\ InEffect(l)
  THEN Says(IF l.names THEN "revoked" ELSE "good", l.this) ELSE Silent("nothing")
CheckList(l) ==
  IF l.signer = "issuer" /\ InEffect(l) /\ l.whole
  THEN Says(IF l.names THEN "revoked" ELSE "good", l.this) ELSE Silent("nothing")

\* What is asked for an answer, of the places the certificate names: each in turn, an
\* address that may not be asked passed over, until one answers or enough were asked.
TryPlace(word, answers) ==
  /\ places > 0 /\ tried < MaxPoints
  /\ word.said \notin {"good", "revoked", "unknown"}
  /\ places' = places - 1
  /\ \/ tried' = tried /\ answers = {}
     \/ tried' = tried + 1 /\ answers # {}

Told(word) == word.said \in {"good", "revoked", "unknown"}

\* Fetcher.Check of crl.go
AskList ==
  /\ look = "list" /\ chained
  /\ \/ TryPlace(listed, {}) /\ listed' = Silent("nothing")
     \/ \E l \in Lists : TryPlace(listed, {l}) /\ listed' = CheckList(l)
  /\ UNCHANGED <<revokedAt, chained, mustStaple, look, staple, queried>>
ListsDone ==
  /\ look = "list"
  /\ ~chained \/ places = 0 \/ tried = MaxPoints \/ Told(listed)
  /\ listed' = CASE ~chained -> Silent("no issuer")
                 [] chained /\ listed = NotAsked -> Silent("none named")
                 [] OTHER -> listed
  /\ look' = IF Asking THEN "query" ELSE "done"
  /\ places' \in IF Asking THEN 0..Places ELSE {0}
  /\ tried' = 0
  /\ UNCHANGED <<revokedAt, chained, mustStaple, staple, queried>>

\* Fetcher.Check of ocspquery.go
AskResponder ==
  /\ look = "query" /\ chained
  /\ \/ TryPlace(queried, {}) /\ queried' = Silent("nothing")
     \/ \E r \in Responses : TryPlace(queried, {r}) /\ queried' = CheckOCSP(r)
  /\ UNCHANGED <<revokedAt, chained, mustStaple, look, staple, listed>>
RespondersDone ==
  /\ look = "query"
  /\ ~chained \/ places = 0 \/ tried = MaxPoints \/ Told(queried)
  /\ queried' = CASE ~chained -> Silent("no issuer")
                  [] chained /\ queried = NotAsked -> Silent("none named")
                  [] OTHER -> queried
  /\ look' = "done"
  /\ places' = 0
  /\ UNCHANGED <<revokedAt, chained, mustStaple, tried, staple, listed>>

RevocationNext == Staple \/ AskList \/ ListsDone \/ AskResponder \/ RespondersDone

RevocationSpec == RevocationInit /\ [][RevocationNext]_revocationVars
-----------------------------------------------------------------------------
\* GradeStapling. Three places say the same thing, and it is found once.

Stapled == staple.said # "not asked"
Validated == Told(staple)

Revoked == "revoked" \in {staple.said, listed.said, queried.said}
StaplingFindings ==
  (IF mustStaple /\ ~Validated THEN {[rule |-> "cert.must-staple-not-stapled", verdict |-> Insecure]} ELSE {})
  \cup (IF Revoked THEN {[rule |-> "cert.revoked", verdict |-> Insecure]} ELSE {})
  \cup (IF "unknown" \in {staple.said, queried.said} THEN {[rule |-> "cert.revocation-unknown", verdict |-> Weak]} ELSE {})
  \cup (IF staple.said = "nothing" THEN {[rule |-> "cert.staple-unverifiable", verdict |-> Weak]} ELSE {})
GradeStapling == Worst({Strong} \cup {f.verdict : f \in StaplingFindings})

\* RevocationLine, queryLine, listLine: which of them the sentence is about, and what
\* it says the status is. A staple that established nothing ends it.
RevocationLine ==
  CASE mustStaple /\ ~Validated -> <<"must staple", "">>
    [] Validated -> <<"staple", staple.said>>
    [] Stapled /\ ~mustStaple /\ ~Validated -> <<"staple", "nothing">>
    [] ~Stapled /\ ~mustStaple /\ Told(queried) -> <<"query", queried.said>>
    [] ~Stapled /\ ~mustStaple /\ ~Told(queried) /\ Told(listed) -> <<"list", listed.said>>
    [] OTHER -> <<"none", "nothing">>
-----------------------------------------------------------------------------

\* Nobody can make the report say what the authority did not: a certificate found
\* revoked had been revoked, what was read as good was signed by the authority while
\* it was not, and the three sources, asked one after another and each by its own
\* rules, weigh alike: one that says revoked is enough, whatever the others say. A
\* sentence that tells of a status that is not good tells of one that was graded.
RevocationIsTheAuthoritys ==
  look = "done" =>
    /\ [rule |-> "cert.revoked", verdict |-> Insecure] \in StaplingFindings => revokedAt <= Now + Skew
    /\ \A w \in {staple, listed, queried} :
         /\ w.said = "good" => revokedAt > w.at /\ w.at <= Now + Skew /\ chained
         /\ w.said = "revoked" => GradeStapling = Insecure
    /\ RevocationLine[1] = "must staple" \/ RevocationLine[2] = "revoked" => GradeStapling = Insecure
    /\ RevocationLine[2] = "unknown" => GradeStapling # Strong
=============================================================================
