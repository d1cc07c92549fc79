------------------------------ MODULE ScanProofs ------------------------------
(***************************************************************************)
(* Proofs about the scans of a website and of a certificate, for any hosts,*)
(* records and lists, and whatever the servers and the authority answer.   *)
(***************************************************************************)
EXTENDS MCScans, SequenceTheorems, FiniteSetTheorems, WellFoundedInduction, TLAPS

(***************************************************************************)
(* Verdicts (policy.go): the most severe of some, which every check takes. *)
(***************************************************************************)

\* The most severe of a set of verdicts is one of them, or Ungraded where there is
\* none, and none of them is more severe.
LEMMA WorstIsTheWorst ==
  ASSUME NEW V \in SUBSET Verdict
  PROVE  /\ Worst(V) \in V \cup {Ungraded}
         /\ \A v \in V : v <= Worst(V)
<1> DEFINE S == V \cup {Ungraded}
<1>1. S \subseteq {-1, 0, 1, 2} /\ -1 \in S
  BY DEF Verdict, Ungraded, Insecure
<1>2. \E x \in S : \A y \in S : x >= y
  <2> HIDE DEF S
  <2>1. CASE 2 \in S
    BY <1>1, <2>1
  <2>2. CASE 2 \notin S /\ 1 \in S
    BY <1>1, <2>2
  <2>3. CASE 2 \notin S /\ 1 \notin S /\ 0 \in S
    BY <1>1, <2>3
  <2>4. CASE 2 \notin S /\ 1 \notin S /\ 0 \notin S
    BY <1>1, <2>4
  <2> QED
    BY <2>1, <2>2, <2>3, <2>4
<1>3. Worst(V) = CHOOSE x \in S : \A y \in S : x >= y
  BY DEF Worst, Max
<1>4. Worst(V) \in S /\ \A y \in S : Worst(V) >= y
  BY <1>2, <1>3
<1> QED
  BY <1>1, <1>4 DEF Verdict, Ungraded, Insecure

\* Nothing is more severe than Insecure.
LEMMA WorstIsInsecure ==
  ASSUME NEW V \in SUBSET Verdict, Insecure \in V
  PROVE  Worst(V) = Insecure
<1>1. Worst(V) \in V \cup {Ungraded} /\ Insecure <= Worst(V)
  BY WorstIsTheWorst
<1>2. \A v \in Verdict : Insecure <= v => v = Insecure
  BY DEF Verdict, Ungraded, Insecure
<1>3. Ungraded \in Verdict
  BY DEF Verdict, Ungraded, Insecure
<1> QED
  BY <1>1, <1>2, <1>3

\* What is Weak, or worse, is not Strong.
LEMMA WorstIsNotStrong ==
  ASSUME NEW V \in SUBSET Verdict, NEW v \in V, v > Strong
  PROVE  Worst(V) # Strong
BY WorstIsTheWorst DEF Verdict, Ungraded, Insecure, Strong

-----------------------------------------------------------------------------
(***************************************************************************)
(* Revocation. What the authority signed is true when it signs it, and a   *)
(* response, or a list, is believed only within its times: so each of the  *)
(* three words is backed by a signature, whatever was shown in between.    *)
(***************************************************************************)

\* A word that tells something was signed by the authority, at a time that is not
\* to come, when it was so; the word of somebody who had the issuer to check it by.
Backed(w) ==
  /\ w.said \in Words /\ w.at \in Nat
  /\ w.said = "good" => revokedAt > w.at /\ w.at <= Now + Skew /\ chained
  /\ w.said = "revoked" => revokedAt <= w.at /\ w.at <= Now + Skew

RevocationInv ==
  /\ revokedAt \in Nat /\ chained \in BOOLEAN /\ mustStaple \in BOOLEAN
  /\ Backed(staple) /\ Backed(listed) /\ Backed(queried)
  /\ listed.said # "unknown"

\* A word that tells nothing needs no backing.
LEMMA SilenceIsBacked ==
  ASSUME NEW why \in {"no issuer", "nothing", "none named"}
  PROVE  Backed(Silent(why))
BY DEF Backed, Silent, Words

LEMMA SilenceSaysNothing ==
  ASSUME NEW why PROVE Silent(why).said = why
BY DEF Silent

\* One that tells what was so at its time is.
LEMMA SaidIsBacked ==
  ASSUME revokedAt \in Nat, chained, NEW said \in {"good", "revoked", "unknown"}, NEW when \in Nat,
         when <= Now + Skew, said = "good" => revokedAt > when, said = "revoked" => revokedAt <= when
  PROVE  Backed(Says(said, when))
<1>1. Says(said, when).said = said /\ Says(said, when).at = when
  BY DEF Says
<1> QED
  BY <1>1 DEF Backed, Words

LEMMA NotAskedIsBacked == Backed(NotAsked)
BY DEF Backed, NotAsked, Words

\* CheckOCSP tells what the response says, and only of one the authority signed.
LEMMA ResponseIsBacked ==
  ASSUME revokedAt \in Nat, chained, NEW r \in Responses
  PROVE  Backed(CheckOCSP(r))
<1>0. Now + Skew \in Nat /\ Now + Skew + 1 \in Nat
  BY RevocationAssumption
<1>1. /\ r.signer \in {"issuer", "delegate", "other"} /\ r.this \in Nat
      /\ r.status \in {"good", "revoked", "unknown"}
      /\ r.signer # "other" /\ r.about => (r.status = "revoked" <=> revokedAt <= r.this)
  BY <1>0 DEF Responses, Times
<1>2. CASE r.about /\ Fresh(r) /\ r.signer \in {"issuer", "delegate"}
  <2>1. CheckOCSP(r) = Says(r.status, r.this)
    BY <1>2 DEF CheckOCSP
  <2>2. r.this <= Now + Skew
    BY <1>2 DEF Fresh
  <2>3. r.status = "good" => revokedAt > r.this
    BY <1>1, <1>2
  <2>4. r.status = "revoked" => revokedAt <= r.this
    BY <1>1, <1>2
  <2> QED
    BY <1>1, <2>1, <2>2, <2>3, <2>4, SaidIsBacked
<1>3. CASE ~(r.about /\ Fresh(r) /\ r.signer \in {"issuer", "delegate"})
  BY <1>3, SilenceIsBacked DEF CheckOCSP
<1> QED
  BY <1>2, <1>3

\* CheckList tells whether the certificate is on a list that covers it whole, and
\* never that its status is unknown.
LEMMA ListIsBacked ==
  ASSUME revokedAt \in Nat, chained, NEW l \in Lists
  PROVE  Backed(CheckList(l)) /\ CheckList(l).said # "unknown"
<1>0. Now \in Nat /\ Now + Skew \in Nat /\ Now <= Now + Skew /\ Now + Skew + 1 \in Nat
  BY RevocationAssumption
<1>1. /\ l.this \in Nat /\ l.names \in BOOLEAN
      /\ l.signer = "issuer" =>
           /\ l.names => revokedAt <= l.this
           /\ l.whole /\ ~l.names => revokedAt > l.this
  BY <1>0 DEF Lists, Times
<1>2. CASE l.signer = "issuer" /\ InEffect(l) /\ l.whole
  <2>1. CheckList(l) = Says(IF l.names THEN "revoked" ELSE "good", l.this)
    BY <1>2 DEF CheckList
  <2>2. l.this <= Now + Skew
    BY <1>0, <1>1, <1>2 DEF InEffect
  <2> QED
    BY <1>1, <1>2, <2>1, <2>2 DEF Backed, Says, Words
<1>3. CASE ~(l.signer = "issuer" /\ InEffect(l) /\ l.whole)
  BY <1>3, SilenceIsBacked DEF CheckList, Silent
<1> QED
  BY <1>2, <1>3

LEMMA InitiallyRevocationInv == RevocationInit => RevocationInv
<1> SUFFICES ASSUME RevocationInit PROVE RevocationInv
  OBVIOUS
<1>1. revokedAt \in Nat /\ chained \in BOOLEAN /\ mustStaple \in BOOLEAN
  BY RevocationAssumption DEF RevocationInit
<1>2. staple = NotAsked /\ listed = NotAsked /\ queried = NotAsked
  BY DEF RevocationInit
<1> QED
  BY <1>1, <1>2, NotAskedIsBacked DEF RevocationInv, NotAsked

\* A step looks at one source more, and leaves the words of the others.
LEMMA RevocationStep == RevocationInv /\ [RevocationNext]_revocationVars => RevocationInv'
<1> SUFFICES ASSUME RevocationInv, [RevocationNext]_revocationVars PROVE RevocationInv'
  OBVIOUS
<1>0. /\ revokedAt \in Nat /\ chained \in BOOLEAN /\ mustStaple \in BOOLEAN
      /\ Backed(staple) /\ Backed(listed) /\ Backed(queried) /\ listed.said # "unknown"
  BY DEF RevocationInv
<1>1. UNCHANGED <<revokedAt, chained, mustStaple>>
  BY DEF RevocationNext, revocationVars, Staple, AskList, ListsDone, AskResponder, RespondersDone
<1>2. \A w : Backed(w) => Backed(w)'
  BY <1>1 DEF Backed
<1>3. CASE Staple
  <2>1. Backed(staple')
    <3>1. \/ staple' = staple \/ staple' = Silent("no issuer") \/ staple' = Silent("nothing")
          \/ chained /\ \E r \in Responses : staple' = CheckOCSP(r)
      BY <1>3 DEF Staple
    <3> QED
      BY <1>0, <3>1, SilenceIsBacked, ResponseIsBacked
  <2>2. UNCHANGED <<listed, queried>>
    BY <1>3 DEF Staple
  <2> QED
    BY <1>0, <1>1, <2>1, <2>2 DEF RevocationInv, Backed
<1>4. CASE AskList
  <2>1. Backed(listed') /\ listed'.said # "unknown"
    <3>1. chained /\ (listed' = Silent("nothing") \/ \E l \in Lists : listed' = CheckList(l))
      BY <1>4 DEF AskList
    <3> QED
      BY <1>0, <3>1, SilenceIsBacked, ListIsBacked, SilenceSaysNothing
  <2>2. UNCHANGED <<staple, queried>>
    BY <1>4 DEF AskList
  <2> QED
    BY <1>0, <1>1, <2>1, <2>2 DEF RevocationInv, Backed
<1>5. CASE ListsDone
  <2>1. listed' \in {listed, Silent("no issuer"), Silent("none named")}
    BY <1>5 DEF ListsDone
  <2>2. Backed(listed') /\ listed'.said # "unknown"
    BY <1>0, <2>1, SilenceIsBacked, SilenceSaysNothing
  <2>3. UNCHANGED <<staple, queried>>
    BY <1>5 DEF ListsDone
  <2> QED
    BY <1>0, <1>1, <2>2, <2>3 DEF RevocationInv, Backed
<1>6. CASE AskResponder
  <2>1. Backed(queried')
    <3>1. chained /\ (queried' = Silent("nothing") \/ \E r \in Responses : queried' = CheckOCSP(r))
      BY <1>6 DEF AskResponder
    <3> QED
      BY <1>0, <3>1, SilenceIsBacked, ResponseIsBacked
  <2>2. UNCHANGED <<staple, listed>>
    BY <1>6 DEF AskResponder
  <2> QED
    BY <1>0, <1>1, <2>1, <2>2 DEF RevocationInv, Backed
<1>7. CASE RespondersDone
  <2>1. queried' \in {queried, Silent("no issuer"), Silent("none named")}
    BY <1>7 DEF RespondersDone
  <2>2. Backed(queried')
    BY <1>0, <2>1, SilenceIsBacked
  <2>3. UNCHANGED <<staple, listed>>
    BY <1>7 DEF RespondersDone
  <2> QED
    BY <1>0, <1>1, <2>2, <2>3 DEF RevocationInv, Backed
<1>8. CASE UNCHANGED revocationVars
  BY <1>0, <1>8 DEF RevocationInv, revocationVars, Backed
<1> QED
  BY <1>3, <1>4, <1>5, <1>6, <1>7, <1>8 DEF RevocationNext

\* What the findings of the three words weigh together.
LEMMA StaplingWeighs ==
  /\ Revoked \/ (mustStaple /\ ~Validated) => GradeStapling = Insecure
  /\ "unknown" \in {staple.said, queried.said} => GradeStapling # Strong
<1> DEFINE V == {Strong} \cup {f.verdict : f \in StaplingFindings}
<1>1. V \in SUBSET Verdict
  BY DEF StaplingFindings, Verdict, Strong, Weak, Insecure, Ungraded
<1>2. GradeStapling = Worst(V)
  BY DEF GradeStapling
<1>3. ASSUME NEW f \in StaplingFindings PROVE f.verdict \in V
  OBVIOUS
<1>4. ASSUME Revoked PROVE Insecure \in V
  <2>1. [rule |-> "cert.revoked", verdict |-> Insecure] \in StaplingFindings
    BY <1>4 DEF StaplingFindings
  <2> QED
    BY <1>3, <2>1
<1>5. ASSUME mustStaple /\ ~Validated PROVE Insecure \in V
  <2>1. [rule |-> "cert.must-staple-not-stapled", verdict |-> Insecure] \in StaplingFindings
    BY <1>5 DEF StaplingFindings
  <2> QED
    BY <1>3, <2>1
<1>6. ASSUME "unknown" \in {staple.said, queried.said} PROVE Weak \in V
  <2>1. [rule |-> "cert.revocation-unknown", verdict |-> Weak] \in StaplingFindings
    BY <1>6 DEF StaplingFindings
  <2> QED
    BY <1>3, <2>1
<1>7. Weak > Strong
  BY DEF Weak, Strong
<1> HIDE DEF V
<1> QED
  BY <1>1, <1>2, <1>4, <1>5, <1>6, <1>7, WorstIsInsecure, WorstIsNotStrong

\* The finding "revoked" is there only because one of the words says so.
LEMMA RevokedIsSaid ==
  [rule |-> "cert.revoked", verdict |-> Insecure] \in StaplingFindings => Revoked
BY DEF StaplingFindings

\* What is backed by a signature is what the authority says.
LEMMA RevocationInvIsEnough == RevocationInv => RevocationIsTheAuthoritys
<1> SUFFICES ASSUME RevocationInv PROVE RevocationIsTheAuthoritys
  OBVIOUS
<1>0. /\ revokedAt \in Nat /\ Backed(staple) /\ Backed(listed) /\ Backed(queried)
      /\ listed.said # "unknown" /\ Now + Skew \in Nat
  BY RevocationAssumption DEF RevocationInv
<1>1. [rule |-> "cert.revoked", verdict |-> Insecure] \in StaplingFindings => revokedAt <= Now + Skew
  <2> SUFFICES ASSUME Revoked PROVE revokedAt <= Now + Skew
    BY RevokedIsSaid
  <2>1. PICK w \in {staple, listed, queried} : w.said = "revoked"
    BY DEF Revoked
  <2>2. revokedAt <= w.at /\ w.at <= Now + Skew /\ w.at \in Nat
    BY <1>0, <2>1 DEF Backed
  <2> QED
    BY <1>0, <2>2
<1>2. ASSUME NEW w \in {staple, listed, queried}
      PROVE  /\ w.said = "good" => revokedAt > w.at /\ w.at <= Now + Skew /\ chained
             /\ w.said = "revoked" => GradeStapling = Insecure
  <2>1. w.said = "good" => revokedAt > w.at /\ w.at <= Now + Skew /\ chained
    BY <1>0 DEF Backed
  <2>2. w.said = "revoked" => Revoked
    BY DEF Revoked
  <2> QED
    BY <2>1, <2>2, StaplingWeighs
<1>3. /\ RevocationLine[1] = "must staple" => mustStaple /\ ~Validated
      /\ RevocationLine[2] = "revoked" => Revoked
      /\ RevocationLine[2] = "unknown" => "unknown" \in {staple.said, queried.said}
  <2>1. CASE mustStaple /\ ~Validated
    <3>1. RevocationLine = <<"must staple", "">>
      BY <2>1 DEF RevocationLine
    <3> QED
      BY <2>1, <3>1
  <2>2. CASE Validated
    <3>0. Stapled
      BY <2>2 DEF Stapled, Validated, Told
    <3>1. RevocationLine = <<"staple", staple.said>>
      BY <2>2, <3>0 DEF RevocationLine
    <3>2. RevocationLine[1] = "staple" /\ RevocationLine[2] = staple.said
      BY <3>1
    <3> QED
      BY <3>2 DEF Revoked
  <2>3. CASE ~Validated /\ ~mustStaple /\ Stapled
    <3>1. RevocationLine = <<"staple", "nothing">>
      BY <2>3 DEF RevocationLine
    <3> QED
      BY <3>1
  <2>4. CASE ~Validated /\ ~mustStaple /\ ~Stapled /\ Told(queried)
    <3>1. RevocationLine = <<"query", queried.said>>
      BY <2>4 DEF RevocationLine
    <3>2. RevocationLine[1] = "query" /\ RevocationLine[2] = queried.said
      BY <3>1
    <3> QED
      BY <3>2 DEF Revoked
  <2>5. CASE ~Validated /\ ~mustStaple /\ ~Stapled /\ ~Told(queried) /\ Told(listed)
    <3>1. RevocationLine = <<"list", listed.said>>
      BY <2>5 DEF RevocationLine
    <3>2. RevocationLine[1] = "list" /\ RevocationLine[2] = listed.said
      BY <3>1
    <3> QED
      BY <1>0, <3>2 DEF Revoked
  <2>6. CASE ~Validated /\ ~mustStaple /\ ~Stapled /\ ~Told(queried) /\ ~Told(listed)
    <3>1. RevocationLine = <<"none", "nothing">>
      BY <2>6 DEF RevocationLine
    <3> QED
      BY <3>1
  <2> QED
    BY <2>1, <2>2, <2>3, <2>4, <2>5, <2>6
<1> QED
  BY <1>1, <1>2, <1>3, StaplingWeighs DEF RevocationIsTheAuthoritys

\* Whatever the responders and the lists of strangers answer, however old the
\* responses and lists somebody kept, and however many are asked: a certificate is
\* called good or revoked only on the word of its issuer, that was true when it was
\* given; and one source that says revoked outweighs the others.
THEOREM AuthorityIsQuoted == RevocationSpec => []RevocationIsTheAuthoritys
BY InitiallyRevocationInv, RevocationStep, RevocationInvIsEnough, PTL DEF RevocationSpec

-----------------------------------------------------------------------------
(***************************************************************************)
(* The walk over redirects. Two things are kept: a host is judged before   *)
(* it is contacted, and was provable when the judgement was made; and what *)
(* a chain met last is what it is graded by.                               *)
(***************************************************************************)

Steps == {"begin", "front", "fetch", "judge", "hop", "grade", "refused", "graded"}

\* Not listed, and shown to be the asker's if that is asked for.
MayBe(h) == h \notin Listed /\ (mode # "open" => h \in shown)

\* The walk's judgements, and who asks for a proof, of whom.
Judged ==
  /\ DOMAIN decided = Hosts /\ decided[First] = "may"
  /\ \A h \in Hosts \ {First} : decided[h] = "may" => MayBe(h)
  /\ step \notin {"begin", "front", "refused"} => MayBe(First)
  /\ step = "fetch" => decided[at.host] = "may"

Asks ==
  /\ Shown(proofs) \subseteq shown
  /\ asking = Nowhere \/ (asking \in [host : Hosts, level : Nat \ {0}] /\ asking.host \notin Listed)
  /\ asking # Nowhere => step \in {"front", "hop"}
  /\ step = "front" => asking.host = First /\ mode # "open"
  /\ step = "hop" => asking.host = at.host /\ mode # "open" /\ decided[at.host] = Undecided

Met ==
  /\ (contacted \cup challenged) \cap Listed = {}
  /\ mode # "open" => contacted \subseteq shown

\* What of a chain is told.
Hop == [tls : BOOLEAN, status : Statuses]
LedOn(c) == hops[c] # <<>> /\ hops[c][Len(hops[c])].status = "redirect"
Walked ==
  /\ hops \in [Chains -> Seq(Hop)] /\ DOMAIN stopped = Chains /\ chain \in Chains
  /\ hops["plain"] # <<>> => ~hops["plain"][1].tls
  /\ chain = "secure" => hops["plain"] = <<>> /\ stopped["secure"] = "no" /\ stopped["plain"] = "no"
  /\ chain = "plain" /\ step \notin {"grade", "graded"} => stopped["plain"] = "no"
  /\ chain = "plain" /\ hops["plain"] = <<>> => at = [tls |-> FALSE, host |-> First]
  /\ step \in {"grade", "graded"} => chain = "plain"
  /\ step \in {"begin", "front"} => chain = "secure" /\ at.host = First
  /\ step \in {"judge", "hop"} => LedOn(chain)
  /\ \A c \in Chains : Unfollowed(c) => LedOn(c)

WalkInv ==
  /\ step \in Steps /\ at \in Urls
  /\ Asks /\ Judged /\ Met /\ Walked
  /\ StrongLeadsToTLS

LEMMA InitiallyWalkInv == RedirectsInit => WalkInv
<1> SUFFICES ASSUME RedirectsInit PROVE WalkInv
  OBVIOUS
<1> USE RedirectsAssumption DEF RedirectsAssumption
<1>1. /\ step = "begin" /\ asking = Nowhere /\ chain = "secure" /\ at = [tls |-> TRUE, host |-> First]
      /\ hops = [c \in Chains |-> <<>>] /\ stopped = [c \in Chains |-> "no"]
      /\ decided = [h \in Hosts |-> IF h = First THEN "may" ELSE Undecided]
      /\ contacted = {} /\ challenged = {} /\ shown = Shown(proofs)
  BY DEF RedirectsInit
<1>2. step \in Steps /\ at \in Urls
  BY <1>1 DEF Steps, Urls
<1>3. Asks
  BY <1>1 DEF Asks
<1>4. Judged
  BY <1>1 DEF Judged, Undecided
<1>5. Met
  BY <1>1 DEF Met
<1>6. Walked
  <2>1. \A c \in Chains : ~Unfollowed(c)
    BY <1>1, Zenon DEF Unfollowed
  <2>2. <<>> \in Seq(Hop)
    OBVIOUS
  <2> QED
    BY <1>1, <2>1, <2>2 DEF Walked, Chains
<1>7. StrongLeadsToTLS
  BY <1>1, Zenon DEF StrongLeadsToTLS
<1> QED
  BY <1>2, <1>3, <1>4, <1>5, <1>6, <1>7 DEF WalkInv

\* A chain that was cut short: it went further than it was followed.
Cut(why) == why \in {"refused", "too long", "limit"}
LEMMA CutIsUnfollowed == \A c : Unfollowed(c) <=> Cut(stopped[c])
BY Zenon DEF Unfollowed, Cut

\* The chain that follows one begins at the plain address of the host asked about.
LEMMA EndChainGoesOn ==
  ASSUME NEW why, EndChain(why)
  PROVE  step' \in {"fetch", "grade"} /\ at' \in Urls /\ at'.host = First /\ ~at'.tls
BY RedirectsAssumption DEF RedirectsAssumption, EndChain, Urls

\* A chain ends, perhaps with one more hop.
LEMMA EndChainWalks ==
  ASSUME Walked, step \notin {"grade", "graded"}, NEW why, EndChain(why),
         hops' \in [Chains -> Seq(Hop)], \A c \in Chains \ {chain} : hops'[c] = hops[c],
         hops'["plain"] # <<>> => ~hops'["plain"][1].tls,
         Cut(why) => hops'[chain] # <<>> /\ hops'[chain][Len(hops'[chain])].status = "redirect"
  PROVE  Walked'
<1>1. /\ stopped' = [stopped EXCEPT ![chain] = why] /\ chain' = "plain" /\ at' = [tls |-> FALSE, host |-> First]
      /\ step' = IF chain = "secure" THEN "fetch" ELSE "grade"
  BY DEF EndChain
<1>2. chain \in {"secure", "plain"} /\ DOMAIN stopped = {"secure", "plain"} /\ Chains = {"secure", "plain"}
  BY DEF Walked, Chains
<1>3. stopped'["plain"] = "no" \/ step' = "grade"
  BY <1>1, <1>2 DEF Walked
<1>4. ASSUME NEW c \in Chains, Unfollowed(c)' PROVE LedOn(c)'
  <2>1. Cut(stopped'[c])
    BY <1>4, Zenon DEF Unfollowed, Cut
  <2>2. CASE c = chain
    BY <1>1, <1>2, <2>1, <2>2 DEF LedOn
  <2>3. CASE c # chain
    <3>1. stopped'[c] = stopped[c]
      BY <1>1, <1>2, <2>3
    <3>2. Unfollowed(c)
      BY <2>1, <3>1, CutIsUnfollowed
    <3> QED
      BY <2>3, <3>2 DEF LedOn, Walked
  <2> QED
    BY <2>2, <2>3
<1> QED
  BY <1>1, <1>2, <1>3, <1>4 DEF Walked

\* An address is fetched: the chain ends there, without a hop or with its last, or it
\* leads on.
EndsUnanswered == \E why : EndChain(why) /\ ~Cut(why) /\ hops' = hops
EndsAnswered == \E status \in Statuses : \E why : Answer(status) /\ EndChain(why) /\ (Cut(why) => status = "redirect")
IsLedOn == Answer("redirect") /\ at' \in Urls /\ step' = "judge" /\ chain' = chain /\ stopped' = stopped

LEMMA FetchEnds == Fetch => EndsUnanswered \/ EndsAnswered \/ IsLedOn
<1> SUFFICES ASSUME Fetch PROVE EndsUnanswered \/ EndsAnswered \/ IsLedOn
  OBVIOUS
<1>1. ~Cut("silence") /\ ~Cut("answer")
  BY Zenon DEF Cut
<1>2. "redirect" \in Statuses
  BY DEF Statuses
<1> QED
  BY <1>1, <1>2, Zenon DEF Fetch, EndsUnanswered, EndsAnswered, IsLedOn

\* A hop is added to the chain that is followed, and to that alone.
LEMMA AnswerIsOneMore ==
  ASSUME Walked, NEW status \in Statuses, at \in Urls, Answer(status)
  PROVE  /\ hops' \in [Chains -> Seq(Hop)]
         /\ \A c \in Chains \ {chain} : hops'[c] = hops[c]
         /\ hops'[chain] # <<>> /\ hops'[chain][Len(hops'[chain])].status = status
         /\ hops[chain] # <<>> => hops'[chain][1] = hops[chain][1]
         /\ hops[chain] = <<>> => hops'[chain][1].tls = at.tls
<1> DEFINE h == [tls |-> at.tls, status |-> status]
<1>1. h \in Hop
  BY DEF Hop, Urls
<1>2. hops[chain] \in Seq(Hop) /\ chain \in Chains /\ hops \in [Chains -> Seq(Hop)]
  BY DEF Walked
<1>3. hops' = [hops EXCEPT ![chain] = Append(hops[chain], h)]
  BY DEF Answer
<1>4. h.status = status /\ h.tls = at.tls
  OBVIOUS
<1> HIDE DEF h
<1>5. /\ Append(hops[chain], h) \in Seq(Hop) /\ Len(Append(hops[chain], h)) = Len(hops[chain]) + 1
      /\ Append(hops[chain], h)[Len(hops[chain]) + 1] = h
      /\ hops[chain] # <<>> => Append(hops[chain], h)[1] = hops[chain][1]
      /\ hops[chain] = <<>> => Append(hops[chain], h)[1] = h
      /\ Append(hops[chain], h) # <<>>
  BY <1>1, <1>2
<1>6. hops'[chain] = Append(hops[chain], h) /\ \A c \in Chains \ {chain} : hops'[c] = hops[c]
  BY <1>2, <1>3
<1>7. hops' \in [Chains -> Seq(Hop)]
  BY <1>2, <1>3, <1>5
<1> QED
  BY <1>4, <1>5, <1>6, <1>7

\* One lemma for each action: it keeps the invariant.
LEMMA FetchWalks == WalkInv /\ Fetch => WalkInv'
<1> SUFFICES ASSUME WalkInv, Fetch PROVE WalkInv'
  OBVIOUS
<1> USE RedirectsAssumption DEF RedirectsAssumption
<1>1. step = "fetch" /\ contacted' = contacted \cup {at.host}
  BY DEF Fetch
<1>2. /\ mode' = mode /\ proofs' = proofs /\ shown' = shown /\ asking' = asking /\ decided' = decided
      /\ challenged' = challenged
  BY DEF Fetch, proofVars
<1>3. /\ step' \in {"fetch", "grade", "judge"} /\ at' \in Urls
      /\ step' = "fetch" => at'.host = First
  BY FetchEnds, EndChainGoesOn DEF EndsUnanswered, EndsAnswered, IsLedOn
<1>4. Asks'
  <2>1. asking = Nowhere
    BY <1>1 DEF WalkInv, Asks
  <2>2. Shown(proofs)' = Shown(proofs)
    BY <1>2 DEF Shown, Provable, Enough
  <2> QED
    BY <1>2, <1>3, <2>1, <2>2 DEF WalkInv, Asks
<1>5. MayBe(First) /\ decided[at.host] = "may" /\ decided[First] = "may"
  BY <1>1 DEF WalkInv, Judged
<1>6. \A h : MayBe(h)' <=> MayBe(h)
  BY <1>2 DEF MayBe
<1>7. Judged'
  BY <1>2, <1>3, <1>5, <1>6 DEF WalkInv, Judged
<1>8. Met'
  <2>1. MayBe(at.host)
    BY <1>5 DEF WalkInv, Judged, Urls
  <2> QED
    BY <1>1, <1>2, <2>1 DEF WalkInv, Met, MayBe
<1>9. Walked'
  <2>0. Walked /\ at \in Urls /\ chain \in Chains /\ step \notin {"grade", "graded"}
    BY <1>1 DEF WalkInv, Walked
  <2>1. CASE EndsUnanswered
    <3>1. hops \in [Chains -> Seq(Hop)] /\ (hops["plain"] # <<>> => ~hops["plain"][1].tls)
      BY <2>0 DEF Walked
    <3> QED
      BY <2>0, <2>1, <3>1, EndChainWalks DEF EndsUnanswered
  <2>2. ASSUME NEW status \in Statuses, Answer(status) PROVE hops'["plain"] # <<>> => ~hops'["plain"][1].tls
    <3>1. chain \in {"plain", "secure"} /\ "plain" \in Chains
      BY <2>0 DEF Chains
    <3>2. CASE chain = "secure"
      BY <2>0, <2>2, <3>1, <3>2, AnswerIsOneMore DEF Walked
    <3>3. CASE chain = "plain" /\ hops["plain"] # <<>>
      BY <2>0, <2>2, <3>3, AnswerIsOneMore DEF Walked
    <3>4. CASE chain = "plain" /\ hops["plain"] = <<>>
      <4>1. ~at.tls
        BY <2>0, <3>4 DEF Walked
      <4> QED
        BY <2>0, <2>2, <3>4, <4>1, AnswerIsOneMore
    <3> QED
      BY <3>1, <3>2, <3>3, <3>4
  <2>3. CASE EndsAnswered
    <3>0. PICK status \in Statuses : \E why : Answer(status) /\ EndChain(why) /\ (Cut(why) => status = "redirect")
      BY <2>3 DEF EndsAnswered
    <3>1. PICK why : Answer(status) /\ EndChain(why) /\ (Cut(why) => status = "redirect")
      BY <3>0
    <3>2. /\ hops' \in [Chains -> Seq(Hop)]
          /\ \A c \in Chains \ {chain} : hops'[c] = hops[c]
          /\ hops'[chain] # <<>> /\ hops'[chain][Len(hops'[chain])].status = status
      BY <2>0, <3>1, AnswerIsOneMore
    <3>3. hops'["plain"] # <<>> => ~hops'["plain"][1].tls
      BY <2>2, <3>1
    <3> QED
      BY <2>0, <3>1, <3>2, <3>3, EndChainWalks
  <2>4. CASE IsLedOn
    <3> USE <2>4 DEF IsLedOn
    <3>0. "redirect" \in Statuses
      BY DEF Statuses
    <3>1. /\ hops' \in [Chains -> Seq(Hop)]
          /\ \A c \in Chains \ {chain} : hops'[c] = hops[c]
          /\ hops'[chain] # <<>> /\ hops'[chain][Len(hops'[chain])].status = "redirect"
      BY <2>0, <2>4, <3>0, AnswerIsOneMore
    <3>2. hops'["plain"] # <<>> => ~hops'["plain"][1].tls
      BY <2>2, <2>4, <3>0
    <3>3. ASSUME NEW c \in Chains, Unfollowed(c)' PROVE LedOn(c)'
      <4>1. Unfollowed(c)
        BY <2>4, <3>3, Zenon DEF Unfollowed
      <4> QED
        BY <2>0, <3>1, <4>1 DEF Walked, LedOn
    <3>4. LedOn(chain)'
      BY <2>4, <3>1 DEF LedOn
    <3>5. chain = "plain" => hops'["plain"] # <<>>
      BY <3>1
    <3>6. chain = "secure" => hops'["plain"] = hops["plain"]
      BY <3>1 DEF Chains
    <3> QED
      BY <1>1, <2>0, <2>4, <3>1, <3>2, <3>3, <3>4, <3>5, <3>6 DEF Walked
  <2> QED
    BY <2>1, <2>3, <2>4, FetchEnds, Zenon
<1>10. StrongLeadsToTLS'
  BY <1>3, Zenon DEF StrongLeadsToTLS
<1> QED
  BY <1>3, <1>4, <1>7, <1>8, <1>9, <1>10 DEF WalkInv, Steps

-----------------------------------------------------------------------------

\* The host of a redirect is judged: the walk follows it, or ends there.
LEMMA DecideWalks ==
  ASSUME WalkInv, step \in {"judge", "hop"}, NEW answer, Decide(answer),
         decided[at.host] # Undecided => answer = decided[at.host],
         answer = "may" => decided[at.host] = "may" \/ MayBe(at.host),
         asking' = Nowhere, mode' = mode, proofs' = proofs, shown' = shown, contacted' = contacted,
         challenged' \cap Listed = {}
  PROVE  WalkInv'
<1> USE RedirectsAssumption DEF RedirectsAssumption
<1>1. decided' = [decided EXCEPT ![at.host] = answer] /\ hops' = hops
  BY DEF Decide
<1>2. \/ \E why : EndChain(why)
      \/ answer = "may" /\ step' = "fetch" /\ chain' = chain /\ at' = at /\ stopped' = stopped
  BY Zenon DEF Decide, Follow
<1>3. step' \in {"fetch", "grade"} /\ at' \in Urls /\ (step' = "fetch" => at'.host = First \/ (at' = at /\ answer = "may"))
  BY <1>2, EndChainGoesOn DEF WalkInv
<1>4. at.host \in Hosts /\ DOMAIN decided = Hosts /\ decided[First] = "may" /\ MayBe(First)
  BY DEF WalkInv, Judged, Urls
<1>5. \A h : MayBe(h)' <=> MayBe(h)
  BY DEF MayBe
<1>6. Judged'
  <2>1. decided'[First] = "may" /\ DOMAIN decided' = Hosts
    BY <1>1, <1>4, Zenon DEF Undecided
  <2>2. ASSUME NEW h \in Hosts \ {First}, decided'[h] = "may" PROVE MayBe(h)
    BY <1>1, <1>4, <2>2 DEF WalkInv, Judged
  <2>3. step' = "fetch" => decided'[at'.host] = "may"
    BY <1>1, <1>3, <1>4, <2>1
  <2> QED
    BY <1>4, <1>5, <2>1, <2>2, <2>3 DEF Judged
<1>7. Asks'
  <2>1. Shown(proofs)' = Shown(proofs)
    BY DEF Shown, Provable, Enough
  <2> QED
    BY <1>3, <2>1 DEF WalkInv, Asks
<1>8. Met'
  BY DEF WalkInv, Met
<1>9. Walked'
  <2>0. Walked /\ LedOn(chain) /\ chain \in Chains /\ step \notin {"grade", "graded"}
    BY DEF WalkInv, Walked
  <2>1. CASE \E why : EndChain(why)
    <3>1. /\ hops' \in [Chains -> Seq(Hop)] /\ (hops'["plain"] # <<>> => ~hops'["plain"][1].tls)
          /\ \A c \in Chains \ {chain} : hops'[c] = hops[c]
          /\ hops'[chain] # <<>> /\ hops'[chain][Len(hops'[chain])].status = "redirect"
      BY <1>1, <2>0 DEF Walked, LedOn
    <3> QED
      BY <2>0, <2>1, <3>1, EndChainWalks
  <2>2. CASE step' = "fetch" /\ chain' = chain /\ at' = at /\ stopped' = stopped
    <3>1. \A c : (Unfollowed(c)' <=> Unfollowed(c)) /\ (LedOn(c)' <=> LedOn(c))
      BY <1>1, <2>2, Zenon DEF Unfollowed, LedOn
    <3>2. chain = "plain" => hops["plain"] # <<>>
      BY <2>0 DEF LedOn
    <3> QED
      BY <1>1, <2>0, <2>2, <3>1, <3>2 DEF Walked
  <2> QED
    BY <1>2, <2>1, <2>2
<1>10. StrongLeadsToTLS'
  BY <1>3, Zenon DEF StrongLeadsToTLS
<1> QED
  BY <1>3, <1>6, <1>7, <1>8, <1>9, <1>10 DEF WalkInv, Steps

\* Covers has answered: yes only of a host that was provable then.
LEMMA SaidWalks ==
  ASSUME WalkInv, asking # Nowhere, NEW yes \in BOOLEAN, Said(yes), yes => asking.host \in shown,
         mode' = mode, proofs' = proofs, shown' = shown, contacted' = contacted,
         challenged' \cap Listed = {}
  PROVE  WalkInv'
<1> USE RedirectsAssumption DEF RedirectsAssumption
<1>1. asking' = Nowhere
  BY DEF Said
<1>2. asking.host \in Hosts /\ asking.host \notin Listed /\ (yes => MayBe(asking.host))
  BY DEF WalkInv, Asks, MayBe
<1>3. CASE step = "hop"
  <2>1. PICK answer : Decide(answer) /\ (answer = "may" => yes)
    <3>1. yes => Decide("may")
      BY <1>3, Zenon DEF Said
    <3>2. ~yes => Decide("may not") /\ "may not" # "may"
      BY <1>3, Zenon DEF Said
    <3> QED
      BY <3>1, <3>2, Zenon
  <2>2. decided[at.host] = Undecided /\ asking.host = at.host
    BY <1>3 DEF WalkInv, Asks
  <2> QED
    BY <1>1, <1>2, <1>3, <2>1, <2>2, DecideWalks
<1>4. CASE step # "hop"
  <2>1. /\ step = "front" /\ step' = IF yes THEN "fetch" ELSE "refused"
        /\ decided' = decided /\ chain' = chain /\ at' = at /\ hops' = hops /\ stopped' = stopped
    BY <1>4 DEF Said, walkVars
  <2>2. asking.host = First /\ chain = "secure"
    BY <2>1 DEF WalkInv, Asks, Walked, Chains
  <2>3. step' \in {"fetch", "refused"} /\ (step' = "fetch" => MayBe(First))
    BY <1>2, <2>1, <2>2
  <2>4. \A h : MayBe(h)' <=> MayBe(h)
    BY DEF MayBe
  <2>5. Asks'
    <3>1. Shown(proofs)' = Shown(proofs)
      BY DEF Shown, Provable, Enough
    <3> QED
      BY <1>1, <2>1, <3>1 DEF WalkInv, Asks
  <2>6. Judged'
    BY <2>1, <2>2, <2>3, <2>4 DEF WalkInv, Judged, Walked
  <2>7. Met'
    BY DEF WalkInv, Met
  <2>8. Walked'
    <3>1. \A c : (Unfollowed(c)' <=> Unfollowed(c)) /\ (LedOn(c)' <=> LedOn(c))
      BY <2>1, Zenon DEF Unfollowed, LedOn
    <3> QED
      BY <2>1, <2>2, <2>3, <3>1 DEF WalkInv, Walked
  <2>9. StrongLeadsToTLS'
    BY <2>3, Zenon DEF StrongLeadsToTLS
  <2> QED
    BY <2>1, <2>3, <2>5, <2>6, <2>7, <2>8, <2>9 DEF WalkInv, Steps
<1> QED
  BY <1>3, <1>4

LEMMA LookUpWalks == WalkInv /\ LookUp => WalkInv'
<1> SUFFICES ASSUME WalkInv, LookUp PROVE WalkInv'
  OBVIOUS
<1> USE RedirectsAssumption DEF RedirectsAssumption
<1> DEFINE d == Labels[asking.level]
<1>1. /\ asking # Nowhere /\ asking.level <= Len(Labels)
      /\ mode' = mode /\ proofs' = proofs /\ shown' = shown /\ contacted' = contacted /\ challenged' = challenged
  BY DEF LookUp, proofVars
<1>2. challenged' \cap Listed = {}
  BY <1>1 DEF WalkInv, Met
<1>3. asking.host \in Hosts /\ asking.level \in Nat \ {0}
  BY <1>1 DEF WalkInv, Asks
<1>4. Enough(proofs.zone[d]) => asking.host \in shown
  <2>1. Labels \in Seq(Domains) /\ Labels = Above[asking.host]
    BY <1>3 DEF Labels
  <2>2. asking.level \in DOMAIN Labels
    BY <1>1, <1>3, <2>1
  <2>3. d \in ToSet(Above[asking.host])
    BY <2>1, <2>2 DEF ToSet
  <2> QED
    BY <1>3, <2>3 DEF WalkInv, Asks, Shown, Provable
<1>5. CASE Failed
  BY <1>1, <1>2, <1>5, SaidWalks DEF Failed
<1>6. CASE Enough(proofs.zone[d]) /\ Said(TRUE)
  BY <1>1, <1>2, <1>4, <1>6, SaidWalks
<1>7. CASE /\ asking' = [asking EXCEPT !.level = @ + 1] /\ step' = step /\ decided' = decided
           /\ chain' = chain /\ at' = at /\ hops' = hops /\ stopped' = stopped
  <2>1. Shown(proofs)' = Shown(proofs)
    BY <1>1 DEF Shown, Provable, Enough
  <2>2. step \in {"front", "hop"}
    BY <1>1 DEF WalkInv, Asks
  <2>3. asking' # Nowhere /\ asking'.host = asking.host /\ asking' \in [host : Hosts, level : Nat \ {0}]
    <3>1. asking \in [host : Hosts, level : Nat \ {0}]
      BY <1>1 DEF WalkInv, Asks
    <3> QED
      BY <1>7, <3>1 DEF Nowhere
  <2>4. Asks'
    BY <1>1, <1>7, <2>1, <2>2, <2>3 DEF WalkInv, Asks
  <2>5. \A h : MayBe(h)' <=> MayBe(h)
    BY <1>1 DEF MayBe
  <2>6. Judged'
    BY <1>7, <2>5 DEF WalkInv, Judged
  <2>7. Met'
    BY <1>1 DEF WalkInv, Met
  <2>8. Walked'
    <3>1. \A c : (Unfollowed(c)' <=> Unfollowed(c)) /\ (LedOn(c)' <=> LedOn(c))
      BY <1>7, Zenon DEF Unfollowed, LedOn
    <3> QED
      BY <1>7, <3>1 DEF WalkInv, Walked
  <2>9. StrongLeadsToTLS'
    BY <1>7, <2>2, Zenon DEF StrongLeadsToTLS
  <2> QED
    BY <1>7, <2>4, <2>6, <2>7, <2>8, <2>9 DEF WalkInv
<1> QED
  BY <1>5, <1>6, <1>7 DEF LookUp, walkVars

LEMMA FetchChallengeWalks == WalkInv /\ FetchChallenge => WalkInv'
<1> SUFFICES ASSUME WalkInv, FetchChallenge PROVE WalkInv'
  OBVIOUS
<1>1. /\ asking # Nowhere
      /\ mode' = mode /\ proofs' = proofs /\ shown' = shown /\ contacted' = contacted
  BY DEF FetchChallenge, proofVars
<1>2. asking.host \in Hosts \ Listed
  BY <1>1 DEF WalkInv, Asks
<1>3. challenged' \cap Listed = {}
  BY <1>2 DEF FetchChallenge, WalkInv, Met
<1>4. mode = "file" /\ asking.host \in proofs.files => asking.host \in shown
  BY <1>2 DEF WalkInv, Asks, Shown, Provable
<1>5. CASE Said(FALSE)
  BY <1>1, <1>3, <1>5, SaidWalks
<1>6. CASE mode = "file" /\ Said(asking.host \in proofs.files)
  <2> DEFINE served == asking.host \in proofs.files
  <2>1. served \in BOOLEAN /\ Said(served) /\ (served => asking.host \in shown)
    BY <1>4, <1>6
  <2> HIDE DEF served
  <2> QED
    BY <1>1, <1>3, <2>1, SaidWalks
<1> QED
  BY <1>5, <1>6 DEF FetchChallenge, Failed

LEMMA MayWalks == WalkInv /\ May => WalkInv'
<1> SUFFICES ASSUME WalkInv, May PROVE WalkInv'
  OBVIOUS
<1>1. /\ step = "judge" /\ asking = Nowhere
      /\ mode' = mode /\ proofs' = proofs /\ shown' = shown /\ contacted' = contacted /\ challenged' = challenged
  <2>1. step = "judge" /\ UNCHANGED <<mode, proofVars, webVerdict, contacted, challenged>>
    BY Zenon DEF May
  <2> QED
    BY <2>1 DEF WalkInv, Asks, proofVars
<1>2. challenged' \cap Listed = {}
  BY <1>1 DEF WalkInv, Met
<1>3. \/ /\ asking' = asking
         /\ \/ decided[at.host] # Undecided /\ Decide(decided[at.host])
            \/ \E answer : /\ decided[at.host] = Undecided /\ Decide(answer)
                           /\ answer = "may" => at.host \notin Listed /\ mode = "open"
      \/ /\ decided[at.host] = Undecided /\ at.host \notin Listed /\ mode # "open"
         /\ step' = "hop" /\ asking' = [host |-> at.host, level |-> 1]
         /\ chain' = chain /\ at' = at /\ hops' = hops /\ stopped' = stopped /\ decided' = decided
  <2>1. "may not" # "may"
    BY Zenon
  <2> QED
    BY <2>1, Zenon DEF May, walkVars
<1>4. CASE asking' = asking
  <2>0. [host |-> at.host, level |-> 1] # Nowhere
    BY DEF Nowhere
  <2>1. CASE decided[at.host] # Undecided /\ Decide(decided[at.host])
    BY <1>1, <1>2, <1>4, <2>1, DecideWalks
  <2>2. ASSUME NEW answer, decided[at.host] = Undecided, Decide(answer),
               answer = "may" => at.host \notin Listed /\ mode = "open"
        PROVE  WalkInv'
    BY <1>1, <1>2, <1>4, <2>2, DecideWalks DEF MayBe
  <2> QED
    BY <1>1, <1>3, <1>4, <2>0, <2>1, <2>2
<1>5. CASE asking' # asking
  <2>1. /\ decided[at.host] = Undecided /\ at.host \notin Listed /\ mode # "open"
        /\ step' = "hop" /\ asking' = [host |-> at.host, level |-> 1]
        /\ chain' = chain /\ at' = at /\ hops' = hops /\ stopped' = stopped /\ decided' = decided
    BY <1>3, <1>5
  <2>2. Shown(proofs)' = Shown(proofs)
    BY <1>1 DEF Shown, Provable, Enough
  <2>3. at.host \in Hosts
    BY DEF WalkInv, Urls
  <2>4. Asks'
    BY <1>1, <2>1, <2>2, <2>3 DEF WalkInv, Asks
  <2>5. \A h : MayBe(h)' <=> MayBe(h)
    BY <1>1 DEF MayBe
  <2>6. Judged'
    BY <1>1, <2>1, <2>5 DEF WalkInv, Judged
  <2>7. Met'
    BY <1>1 DEF WalkInv, Met
  <2>8. Walked'
    <3>1. \A c : (Unfollowed(c)' <=> Unfollowed(c)) /\ (LedOn(c)' <=> LedOn(c))
      BY <2>1, Zenon DEF Unfollowed, LedOn
    <3> QED
      BY <1>1, <2>1, <3>1 DEF WalkInv, Walked
  <2>9. StrongLeadsToTLS'
    BY <2>1, Zenon DEF StrongLeadsToTLS
  <2> QED
    BY <2>1, <2>4, <2>6, <2>7, <2>8, <2>9 DEF WalkInv, Steps
<1> QED
  BY <1>4, <1>5

LEMMA ScanHostWalks == WalkInv /\ ScanHost => WalkInv'
<1> SUFFICES ASSUME WalkInv, ScanHost PROVE WalkInv'
  OBVIOUS
<1> USE RedirectsAssumption DEF RedirectsAssumption
<1>1. /\ step = "begin" /\ asking = Nowhere
      /\ mode' = mode /\ proofs' = proofs /\ shown' = shown /\ contacted' = contacted /\ challenged' = challenged
      /\ chain' = chain /\ at' = at /\ hops' = hops /\ stopped' = stopped /\ decided' = decided
  BY DEF ScanHost, walkVars, proofVars, WalkInv, Asks
<1>2. \/ step' = "refused" /\ asking' = asking
      \/ First \notin Listed /\ mode = "open" /\ step' = "fetch" /\ asking' = asking
      \/ First \notin Listed /\ mode # "open" /\ step' = "front" /\ asking' = [host |-> First, level |-> 1]
  BY DEF ScanHost
<1>3. Shown(proofs)' = Shown(proofs)
  BY <1>1 DEF Shown, Provable, Enough
<1>4. Asks'
  BY <1>1, <1>2, <1>3 DEF WalkInv, Asks
<1>5. \A h : MayBe(h)' <=> MayBe(h)
  BY <1>1 DEF MayBe
<1>6. Judged'
  <2>1. step' = "fetch" => MayBe(First) /\ at.host = First
    BY <1>1, <1>2 DEF WalkInv, Walked, MayBe
  <2> QED
    BY <1>1, <1>2, <1>5, <2>1 DEF WalkInv, Judged
<1>7. Met'
  BY <1>1 DEF WalkInv, Met
<1>8. Walked'
  <2>1. \A c : (Unfollowed(c)' <=> Unfollowed(c)) /\ (LedOn(c)' <=> LedOn(c))
    BY <1>1, Zenon DEF Unfollowed, LedOn
  <2>2. chain = "secure" /\ at.host = First
    BY <1>1 DEF WalkInv, Walked
  <2>3. chain # "plain"
    BY <2>2
  <2> QED
    BY <1>1, <1>2, <2>1, <2>2, <2>3 DEF WalkInv, Walked
<1>9. StrongLeadsToTLS'
  <2>1. step' # "graded"
    BY <1>2
  <2> QED
    BY <2>1, Zenon DEF StrongLeadsToTLS
<1> QED
  BY <1>1, <1>2, <1>4, <1>6, <1>7, <1>8, <1>9 DEF WalkInv, Steps

LEMMA ChangeWalks == WalkInv /\ Change => WalkInv'
<1> SUFFICES ASSUME WalkInv, Change PROVE WalkInv'
  OBVIOUS
<1>1. /\ step # "graded" /\ step' = step /\ asking' = asking
      /\ mode' = mode /\ shown' = shown \cup Shown(proofs') /\ contacted' = contacted /\ challenged' = challenged
      /\ chain' = chain /\ at' = at /\ hops' = hops /\ stopped' = stopped /\ decided' = decided
  BY DEF Change, walkVars
<1>2. Shown(proofs)' = Shown(proofs')
  BY <1>1 DEF Shown, Provable, Enough
<1>3. Asks'
  BY <1>1, <1>2 DEF WalkInv, Asks
<1>4. \A h : MayBe(h) => MayBe(h)'
  BY <1>1 DEF MayBe
<1>5. Judged'
  BY <1>1, <1>4 DEF WalkInv, Judged
<1>6. Met'
  BY <1>1 DEF WalkInv, Met
<1>7. Walked'
  <2>1. \A c : (Unfollowed(c)' <=> Unfollowed(c)) /\ (LedOn(c)' <=> LedOn(c))
    BY <1>1, Zenon DEF Unfollowed, LedOn
  <2> QED
    BY <1>1, <2>1 DEF WalkInv, Walked
<1>8. StrongLeadsToTLS'
  BY <1>1, Zenon DEF StrongLeadsToTLS
<1> QED
  BY <1>1, <1>3, <1>5, <1>6, <1>7, <1>8 DEF WalkInv

-----------------------------------------------------------------------------
(* Strong, and where it leads. *)

\* What Strong is made of: the secure chain, followed to its end over TLS, and nothing
\* found on the plain one.
LEMMA ReachIsStrong ==
  ASSUME Reach = Strong
  PROVE  Measured /\ ~NotFollowed /\ ReachFindings = {}
<1>1. ReachFindings \in SUBSET Verdict /\ ReachFindings \subseteq {Weak, Insecure}
  BY DEF ReachFindings, Verdict, Weak, Insecure, Ungraded
<1>2. CASE ReachFindings = {}
  <2>1. Worst(ReachFindings) # Strong
    BY <1>1, <1>2, WorstIsTheWorst DEF Strong, Ungraded
  <2> QED
    BY <1>2, <2>1 DEF Reach
<1>3. CASE ReachFindings # {}
  <2>1. Worst(ReachFindings) # Strong
    BY <1>1, <1>3, WorstIsTheWorst DEF Strong, Ungraded, Weak, Insecure
  <2> QED
    BY <1>3, <2>1 DEF Reach
<1> QED
  BY <1>2, <1>3

\* The other rules can only make it worse, and do not make Strong of a walk not graded.
LEMMA GradeIsStrong ==
  ASSUME WalkInv, GradeWeb, webVerdict' = Strong
  PROVE  Reach = Strong
<1>1. PICK rest \in Verdict :
        webVerdict' = IF Worst({Reach, rest}) = Strong /\ Reach = Ungraded THEN Ungraded ELSE Worst({Reach, rest})
  BY DEF GradeWeb
<1>2. Reach \in Verdict
  <2>1. ReachFindings \in SUBSET Verdict
    BY DEF ReachFindings, Verdict, Weak, Insecure, Ungraded
  <2>2. Ungraded \in Verdict /\ Strong \in Verdict
    BY DEF Verdict, Ungraded, Insecure, Strong
  <2>3. Worst(ReachFindings) \in Verdict
    BY <2>1, <2>2, WorstIsTheWorst
  <2> QED
    BY <2>2, <2>3 DEF Reach
<1>3. Worst({Reach, rest}) = Strong /\ Reach # Ungraded
  BY <1>1 DEF Ungraded, Strong
<1>4. {Reach, rest} \in SUBSET Verdict
  BY <1>2
<1>5. Reach <= Strong
  BY <1>3, <1>4, WorstIsTheWorst
<1> QED
  BY <1>2, <1>3, <1>5 DEF Verdict, Ungraded, Strong, Insecure

LEMMA GradeWebWalks == WalkInv /\ GradeWeb => WalkInv'
<1> SUFFICES ASSUME WalkInv, GradeWeb PROVE WalkInv'
  OBVIOUS
<1>1. /\ step = "grade" /\ step' = "graded" /\ asking' = asking
      /\ mode' = mode /\ proofs' = proofs /\ shown' = shown /\ contacted' = contacted /\ challenged' = challenged
      /\ chain' = chain /\ at' = at /\ hops' = hops /\ stopped' = stopped /\ decided' = decided
  BY DEF GradeWeb, walkVars, proofVars
<1>2. Asks'
  <2>1. Shown(proofs)' = Shown(proofs)
    BY <1>1 DEF Shown, Provable, Enough
  <2> QED
    BY <1>1, <2>1 DEF WalkInv, Asks
<1>3. \A h : MayBe(h)' <=> MayBe(h)
  BY <1>1 DEF MayBe
<1>4. Judged'
  BY <1>1, <1>3 DEF WalkInv, Judged
<1>5. Met'
  BY <1>1 DEF WalkInv, Met
<1>6. Walked'
  <2>1. \A c : (Unfollowed(c)' <=> Unfollowed(c)) /\ (LedOn(c)' <=> LedOn(c))
    BY <1>1, Zenon DEF Unfollowed, LedOn
  <2> QED
    BY <1>1, <2>1 DEF WalkInv, Walked
<1>7. ASSUME webVerdict' = Strong
      PROVE  /\ Answered("secure") /\ Landed("secure").tls /\ ~Unfollowed("secure")
             /\ Answered("plain") => Landed("plain").tls /\ hops["plain"][2].tls
  <2>1. Measured /\ ~NotFollowed /\ ReachFindings = {}
    BY <1>7, GradeIsStrong, ReachIsStrong
  <2>2. Answered("secure") /\ Landed("secure").tls
    BY <2>1 DEF Measured
  <2>3. ~Unfollowed("secure")
    <3>1. Unfollowed("secure") => LeadsOn("secure")
      BY DEF WalkInv, Walked, LedOn, LeadsOn, Answered, Landed, Last, Chains
    <3> QED
      BY <2>1, <3>1 DEF NotFollowed
  <2>4. ASSUME Answered("plain") PROVE Landed("plain").tls
    <3>1. CASE ~Landed("plain").tls /\ LeadsOn("plain")
      BY <2>1, <2>4, <3>1 DEF NotFollowed
    <3>2. CASE ~Landed("plain").tls /\ ~LeadsOn("plain")
      <4> DEFINE v == IF Landed("plain").status = "error" THEN Weak ELSE Insecure
      <4>1. v \in ReachFindings
        BY <2>4, <3>2 DEF ReachFindings
      <4> QED
        BY <2>1, <4>1
    <3> QED
      BY <3>1, <3>2
  <2>5. ASSUME Answered("plain") PROVE hops["plain"][2].tls
    <3> DEFINE h == hops["plain"]
    <3>1. h \in Seq(Hop) /\ h # <<>> /\ ~h[1].tls /\ h[Len(h)].tls
      BY <2>4, <2>5 DEF WalkInv, Walked, Chains, Answered, Landed, Last
    <3>2. 2 \in DOMAIN h
      BY <3>1
    <3>3. ~ViaPlaintext
      <4>1. ViaPlaintext => Weak \in ReachFindings
        BY <2>4, <2>5 DEF ReachFindings, Weak, Insecure
      <4> QED
        BY <2>1, <4>1
    <3>4. \E j \in 1..2 : h[j].tls
      BY <3>2, <3>3 DEF ViaPlaintext
    <3>5. 1..2 = {1, 2}
      OBVIOUS
    <3> QED
      BY <3>1, <3>4, <3>5
  <2> QED
    BY <2>2, <2>3, <2>4, <2>5
<1>8. StrongLeadsToTLS'
  <2>1. \A c : (Unfollowed(c)' <=> Unfollowed(c)) /\ (Answered(c)' <=> Answered(c)) /\ Landed(c)' = Landed(c)
    BY <1>1, Zenon DEF Unfollowed, Answered, Landed
  <2> QED
    BY <1>1, <1>7, <2>1, Zenon DEF StrongLeadsToTLS, Unfollowed
<1> QED
  BY <1>1, <1>2, <1>4, <1>5, <1>6, <1>8 DEF WalkInv, Steps

LEMMA WalkStep == WalkInv /\ [RedirectsNext]_redirectsVars => WalkInv'
<1> SUFFICES ASSUME WalkInv, [RedirectsNext]_redirectsVars PROVE WalkInv'
  OBVIOUS
<1>1. CASE UNCHANGED redirectsVars
  <2>1. /\ step' = step /\ asking' = asking /\ webVerdict' = webVerdict
        /\ mode' = mode /\ proofs' = proofs /\ shown' = shown /\ contacted' = contacted /\ challenged' = challenged
        /\ chain' = chain /\ at' = at /\ hops' = hops /\ stopped' = stopped /\ decided' = decided
    BY <1>1, Zenon DEF redirectsVars, proofVars, walkVars
  <2>2. Asks'
    <3>1. Shown(proofs)' = Shown(proofs)
      BY <2>1 DEF Shown, Provable, Enough
    <3> QED
      BY <2>1, <3>1 DEF WalkInv, Asks
  <2>3. Judged' /\ Met'
    <3>1. \A h : MayBe(h)' <=> MayBe(h)
      BY <2>1 DEF MayBe
    <3> QED
      BY <2>1, <3>1 DEF WalkInv, Judged, Met
  <2>4. Walked'
    <3>1. \A c : (Unfollowed(c)' <=> Unfollowed(c)) /\ (LedOn(c)' <=> LedOn(c))
      BY <2>1, Zenon DEF Unfollowed, LedOn
    <3> QED
      BY <2>1, <3>1 DEF WalkInv, Walked
  <2>5. StrongLeadsToTLS'
    BY <2>1, Zenon DEF WalkInv, StrongLeadsToTLS, Answered, Landed
  <2> QED
    BY <2>1, <2>2, <2>3, <2>4, <2>5 DEF WalkInv
<1> QED
  BY <1>1, ChangeWalks, ScanHostWalks, FetchWalks, MayWalks, LookUpWalks, FetchChallengeWalks, GradeWebWalks, Zenon
     DEF RedirectsNext

\* Wherever the servers lead it, whichever records come and go meanwhile and whichever
\* lookups fail, a walk connects to no host on a list and to none whose control was not
\* shown (walk.may, Covers), and Strong is said only of a site that leads its visitors to
\* TLS (GradeReach).
THEOREM NobodyIsLed == RedirectsSpec => []NobodyIsLedAstray
<1>1. RedirectsSpec => []WalkInv
  BY InitiallyWalkInv, WalkStep, PTL DEF RedirectsSpec
<1>2. WalkInv => NobodyIsLedAstray
  BY DEF WalkInv, Met, NobodyIsLedAstray, OnlyShownHostsAreContacted
<1> QED
  BY <1>1, <1>2, PTL

(***************************************************************************)
(* The TLS probe (tlsprobe.go): at every step a list holds what the machine *)
(* was seen to accept, and what is not in it was asked about or is still to *)
(* be; so that a list that was finished is all of it.                      *)
(***************************************************************************)

\* A machine accepts of a version only suites that there are for it.
Held == \A m \in Machines, v \in Versions : accepts[m][v] \subseteq Offerable(v)

\* The list of an older version: what is not asked about again is what was accepted,
\* and if one machine answered, it accepts what is listed; and nothing else, if the
\* list is called complete.
Listed1(v) ==
  /\ results[v].ciphers \subseteq Suites /\ remaining[v] = Suites \ results[v].ciphers
  /\ \A m \in Machines : reached \subseteq {m} =>
       /\ results[v].ciphers \subseteq accepts[m][v]
       /\ results[v].complete => accepts[m][v] \subseteq results[v].ciphers

\* Of TLS 1.3: what the hellos were answered is what the machine does with them.
AnsweredByHand ==
  /\ \A s \in Suites13 \ remaining[TLS13] : answers[s] # "none"
  /\ \A m \in Machines : reached \subseteq {m} =>
       /\ negotiated \subseteq accepts[m][TLS13]
       /\ \A s \in Suites13 : /\ answers[s] = "accepted" => s \in accepts[m][TLS13]
                              /\ answers[s] = "refused" => s \notin accepts[m][TLS13]
       /\ results[TLS13].complete /\ ~reason => results[TLS13].ciphers = accepts[m][TLS13]

\* The report is made when every version has been probed.
ProbedFirst == stage # "versions" => \A v \in Versions : pc[v] = "done"

\* From stage to stage the verdict is of what has been found so far.
Summary == LET worst == Worst(Grades(Graded)) IN IF worst = Strong /\ Unfinished THEN Ungraded ELSE worst
Weighed ==
  /\ stage = "legacy" => tlsVerdict = Summary /\ findings = Grades(Graded) \ {Strong}
  /\ stage \in {"rest", "scan"} =>
       /\ tlsVerdict = Worst({Summary} \cup (Grades(old) \ {Strong}))
       /\ findings = (Grades(Graded) \cup Grades(old)) \ {Strong}
  /\ stage = "report" => VerdictIsEarned

ReportTold == Held /\ (\A v \in Older : Listed1(v)) /\ AnsweredByHand
TlsInv == TlsTypeOK /\ ReportTold /\ ProbedFirst /\ Weighed

\* Before anything is sent nothing is listed, so that all that is told is true.
LEMMA InitiallyTlsInv == TlsInit => TlsInv
<1> SUFFICES ASSUME TlsInit PROVE TlsInv
  OBVIOUS
<1>1. TlsTypeOK
  <2>1. negotiated \subseteq Suites13 /\ Cardinality(negotiated) <= 1
    BY FS_EmptySet DEF TlsInit
  <2>2. results \in [Versions -> Rows]
    BY DEF TlsInit, NoRow, Rows
  <2>3. remaining \in [Versions -> SUBSET (Suites13 \cup Suites)]
    BY DEF TlsInit, Offerable
  <2>4. accepts \in [Machines -> [Versions -> SUBSET (Suites13 \cup Suites)]]
    BY DEF TlsInit
  <2>5. pc \in [Versions -> {"first", "suites", "done"}] /\ answers \in [Suites13 -> Answers]
    BY DEF TlsInit, Answers
  <2>6. tlsVerdict \in Verdict
    BY DEF TlsInit, Verdict, Ungraded, Insecure
  <2> QED
    BY <2>1, <2>2, <2>3, <2>4, <2>5, <2>6 DEF TlsInit, TlsTypeOK
<1>2. \A v \in Older : Listed1(v)
  BY HandshakesAssumption DEF TlsInit, Listed1, NoRow, Offerable, Versions
<1>3. AnsweredByHand
  BY DEF TlsInit, AnsweredByHand, NoRow, Offerable, Versions
<1>4. Held
  BY DEF TlsInit, Held
<1>5. ProbedFirst /\ Weighed
  BY DEF TlsInit, ProbedFirst, Weighed
<1> QED
  BY <1>1, <1>2, <1>3, <1>4, <1>5 DEF TlsInv, ReportTold

\* What a step leaves alone it says nothing new about; that more machines were reached
\* only takes back what was said.
LEMMA ReportStands ==
  ASSUME TlsInv, reached \subseteq reached',
         UNCHANGED <<machineVars, versionVars>>
  PROVE  ReportTold'
<1>1. \A m : reached' \subseteq {m} => reached \subseteq {m}
  OBVIOUS
<1>2. /\ accepts' = accepts /\ results' = results /\ remaining' = remaining
      /\ answers' = answers /\ negotiated' = negotiated /\ reason' = reason
  BY DEF machineVars, versionVars
<1>3. Held'
  BY <1>2, Zenon DEF TlsInv, ReportTold, Held, Offerable, Versions
<1>4. ASSUME NEW v \in Older PROVE Listed1(v)'
  BY <1>1, <1>2 DEF TlsInv, ReportTold, Listed1
<1>5. AnsweredByHand'
  BY <1>1, <1>2 DEF TlsInv, ReportTold, AnsweredByHand
<1> QED
  BY <1>3, <1>4, <1>5 DEF ReportTold

\* One handshake: whoever it reached is on record, and if that is one machine alone,
\* it was that one.
LEMMA WhoAnswered ==
  ASSUME TlsTypeOK, NEW m \in Anywhere, NEW done \in BOOLEAN, RecordReached(m, done)
  PROVE  /\ reached' \subseteq Machines /\ reached \subseteq reached'
         /\ m \in Machines => m \in reached'
         /\ \A n : reached' \subseteq {n} => reached \subseteq {n} /\ (m \in Machines => m = n)
BY HandshakesAssumption DEF TlsTypeOK, Anywhere, RecordReached

\* The first handshake of a version: what was agreed on is what the machine accepts.
LEMMA FirstHandshakeTold ==
  ASSUME TlsInv, NEW v \in Versions, FirstHandshake(v)
  PROVE  TlsInv'
<1>1. PICK m \in Anywhere :
        \/ \E s \in Suites13 \cup Suites :
             /\ Accepted(m, v, FirstOffer(v), s)
             /\ results' = [results EXCEPT ![v].supported = TRUE]
             /\ negotiated' = IF v = TLS13 THEN {s} ELSE negotiated
             /\ pc' = [pc EXCEPT ![v] = "suites"]
        \/ /\ Refused(m, v, FirstOffer(v))
           /\ results' = [results EXCEPT ![v].refused = TRUE]
           /\ pc' = [pc EXCEPT ![v] = "done"]
           /\ UNCHANGED negotiated
        \/ /\ Unanswered(m)
           /\ pc' = [pc EXCEPT ![v] = "done"]
           /\ UNCHANGED <<results, negotiated>>
  BY DEF FirstHandshake
<1>2. /\ stage = "versions" /\ stage' = stage /\ accepts' = accepts /\ answersTo' = answersTo
      /\ remaining' = remaining /\ answers' = answers /\ reason' = reason
      /\ asked' = asked /\ old' = old /\ tlsVerdict' = tlsVerdict /\ findings' = findings
  BY DEF FirstHandshake, machineVars, legacyVars
<1>3. PICK done \in BOOLEAN : RecordReached(m, done)
  BY <1>1 DEF Accepted, Refused, Unanswered
<1>4. /\ reached' \subseteq Machines
      /\ \A n : reached' \subseteq {n} => reached \subseteq {n} /\ (m \in Machines => m = n)
  BY <1>3, WhoAnswered DEF TlsInv
<1>5. /\ results' \in [Versions -> Rows]
      /\ \A w \in Versions : results'[w].ciphers = results[w].ciphers /\ results'[w].complete = results[w].complete
  <2>1. results \in [Versions -> Rows]
    BY DEF TlsInv, TlsTypeOK
  <2>2. \/ results' = [results EXCEPT ![v].supported = TRUE]
        \/ results' = [results EXCEPT ![v].refused = TRUE]
        \/ results' = results
    BY <1>1
  <2>3. CASE results' = [results EXCEPT ![v].supported = TRUE]
    BY <2>1, <2>3 DEF Rows
  <2>4. CASE results' = [results EXCEPT ![v].refused = TRUE]
    BY <2>1, <2>4 DEF Rows
  <2> QED
    BY <2>1, <2>2, <2>3, <2>4
<1>6. pc' \in [Versions -> {"first", "suites", "done"}]
  BY <1>1 DEF TlsInv, TlsTypeOK
<1>7. /\ negotiated' \subseteq Suites13 /\ Cardinality(negotiated') <= 1
      /\ \A n \in Machines : reached' \subseteq {n} => negotiated' \subseteq accepts[n][TLS13]
  <2>1. CASE negotiated' = negotiated
    BY <1>4, <2>1 DEF TlsInv, TlsTypeOK, ReportTold, AnsweredByHand
  <2>2. CASE v = TLS13 /\ \E s \in Suites13 \cup Suites : Accepted(m, v, FirstOffer(v), s) /\ negotiated' = {s}
    <3>1. PICK s : Accepted(m, v, FirstOffer(v), s) /\ negotiated' = {s}
      BY <2>2
    <3>2. m \in Machines /\ s \in accepts[m][TLS13] /\ s \in Suites13
      BY <2>2, <3>1, HandshakesAssumption DEF Accepted, FirstOffer
    <3>3. Cardinality({s}) = 1
      BY FS_Singleton
    <3> QED
      BY <1>4, <3>1, <3>2, <3>3
  <2> QED
    BY <1>1, <2>1, <2>2
<1>8. TlsTypeOK'
  BY <1>2, <1>4, <1>5, <1>6, <1>7 DEF TlsInv, TlsTypeOK
<1>9. ReportTold'
  <2>1. Held'
    BY <1>2, Zenon DEF TlsInv, ReportTold, Held, Offerable, Versions
  <2>2. ASSUME NEW w \in Older PROVE Listed1(w)'
    BY <1>2, <1>4, <1>5 DEF TlsInv, ReportTold, Listed1, Versions
  <2>3. AnsweredByHand'
    BY <1>2, <1>4, <1>5, <1>7 DEF TlsInv, ReportTold, AnsweredByHand, Versions
  <2> QED
    BY <2>1, <2>2, <2>3 DEF ReportTold
<1>10. ProbedFirst' /\ Weighed'
  BY <1>2 DEF ProbedFirst, Weighed
<1> QED
  BY <1>8, <1>9, <1>10 DEF TlsInv

\* A round over an older version: what is agreed on is struck from what is asked about,
\* and a list ends only where the machine agrees to nothing that is left.
LEMMA EnumerateTold ==
  ASSUME TlsInv, NEW v \in Versions, Enumerate(v)
  PROVE  TlsInv'
<1>1. v \in Older /\ pc[v] = "suites" /\ v # TLS13
  BY HandshakesAssumption DEF Enumerate
<1>2. /\ stage' = stage /\ accepts' = accepts /\ answersTo' = answersTo
      /\ answers' = answers /\ reason' = reason /\ negotiated' = negotiated
      /\ asked' = asked /\ old' = old /\ tlsVerdict' = tlsVerdict /\ findings' = findings
  BY DEF Enumerate, machineVars, legacyVars
<1>3. stage = "versions"
  BY <1>1 DEF TlsInv, ProbedFirst
<1>4. results \in [Versions -> Rows] /\ remaining \in [Versions -> SUBSET (Suites13 \cup Suites)]
      /\ pc \in [Versions -> {"first", "suites", "done"}] /\ reached \subseteq Machines
  BY DEF TlsInv, TlsTypeOK
<1>5. Listed1(v)
  BY <1>1 DEF TlsInv, ReportTold
<1> DEFINE Good ==
      /\ results' \in [Versions -> Rows] /\ remaining' \in [Versions -> SUBSET (Suites13 \cup Suites)]
      /\ pc' \in [Versions -> {"first", "suites", "done"}] /\ reached' \subseteq Machines
      /\ \A n : reached' \subseteq {n} => reached \subseteq {n}
      /\ \A w \in Versions \ {v} : results'[w] = results[w] /\ remaining'[w] = remaining[w]
      /\ Listed1(v)'
<1>6. Good
  <2>1. CASE remaining[v] = {} /\ EndList(v, TRUE) /\ UNCHANGED reached
    <3>1. results' = [results EXCEPT ![v].complete = TRUE] /\ pc' = [pc EXCEPT ![v] = "done"] /\ remaining' = remaining
      BY <2>1 DEF EndList
    <3>2. \A m \in Machines : accepts[m][v] \subseteq Suites
      BY <1>1 DEF TlsInv, ReportTold, Held, Versions, Offerable
    <3>3. Suites \subseteq results[v].ciphers
      BY <1>5, <2>1 DEF Listed1
    <3>4. results' \in [Versions -> Rows] /\ \A w \in Versions \ {v} : results'[w] = results[w]
      BY <1>4, <3>1 DEF Rows
    <3>5. results'[v].ciphers = results[v].ciphers
      BY <1>4, <3>1 DEF Rows
    <3>6. Listed1(v)'
      BY <1>2, <1>5, <2>1, <3>1, <3>2, <3>3, <3>5 DEF Listed1
    <3> QED
      BY <1>4, <2>1, <3>1, <3>4, <3>6
  <2>2. ASSUME NEW m \in Anywhere, NEW s \in Suites, Accepted(m, v, remaining[v], s),
               results' = [results EXCEPT ![v].ciphers = @ \cup {s}],
               remaining' = [remaining EXCEPT ![v] = @ \ {s}], pc' = pc
        PROVE  Good
    <3>1. m \in Machines /\ s \in accepts[m][v] /\ s \in remaining[v] /\ RecordReached(m, TRUE)
      BY <2>2 DEF Accepted
    <3>2. /\ reached' \subseteq Machines
          /\ \A n : reached' \subseteq {n} => reached \subseteq {n} /\ m = n
      BY <3>1, WhoAnswered DEF TlsInv
    <3>3. results' \in [Versions -> Rows] /\ \A w \in Versions \ {v} : results'[w] = results[w]
      BY <1>4, <2>2 DEF Rows
    <3>4. results'[v].ciphers = results[v].ciphers \cup {s} /\ results'[v].complete = results[v].complete
      BY <1>4, <2>2 DEF Rows
    <3>5. remaining' \in [Versions -> SUBSET (Suites13 \cup Suites)] /\ remaining'[v] = remaining[v] \ {s}
          /\ \A w \in Versions \ {v} : remaining'[w] = remaining[w]
      BY <1>4, <2>2
    <3>6. Listed1(v)'
      BY <1>2, <1>5, <3>1, <3>2, <3>4, <3>5 DEF Listed1
    <3> QED
      BY <1>4, <2>2, <3>2, <3>3, <3>5, <3>6
  <2>3. ASSUME NEW m \in Anywhere, NEW complete \in BOOLEAN, EndList(v, complete),
               RecordReached(m, FALSE), complete => Refused(m, v, remaining[v])
        PROVE  Good
    <3>1. results' = [results EXCEPT ![v].complete = complete] /\ pc' = [pc EXCEPT ![v] = "done"] /\ remaining' = remaining
      BY <2>3 DEF EndList
    <3>2. /\ reached' \subseteq Machines
          /\ \A n : reached' \subseteq {n} => reached \subseteq {n} /\ (m \in Machines => m = n)
      BY <2>3, WhoAnswered DEF TlsInv
    <3>3. results' \in [Versions -> Rows] /\ \A w \in Versions \ {v} : results'[w] = results[w]
      BY <1>4, <3>1 DEF Rows
    <3>4. results'[v].ciphers = results[v].ciphers /\ results'[v].complete = complete
      BY <1>4, <3>1 DEF Rows
    <3>5. \A n \in Machines : accepts[n][v] \subseteq Suites
      BY <1>1 DEF TlsInv, ReportTold, Held, Versions, Offerable
    <3>6. complete => m \in Machines /\ accepts[m][v] \subseteq results[v].ciphers
      BY <1>5, <2>3, <3>5 DEF Refused, Listed1
    <3>7. Listed1(v)'
      BY <1>2, <1>5, <3>1, <3>2, <3>4, <3>6 DEF Listed1
    <3> QED
      BY <1>4, <3>1, <3>2, <3>3, <3>7
  <2>4. \/ remaining[v] = {} /\ EndList(v, TRUE) /\ UNCHANGED reached
        \/ \E m \in Anywhere :
             \/ \E s \in Suites :
                  /\ Accepted(m, v, remaining[v], s)
                  /\ results' = [results EXCEPT ![v].ciphers = @ \cup {s}]
                  /\ remaining' = [remaining EXCEPT ![v] = @ \ {s}]
                  /\ UNCHANGED pc
             \/ remaining[v] # {} /\ Refused(m, v, remaining[v]) /\ EndList(v, TRUE)
             \/ remaining[v] # {} /\ Unanswered(m) /\ EndList(v, FALSE)
    BY DEF Enumerate
  <2>5. \A m : Refused(m, v, remaining[v]) => RecordReached(m, FALSE)
    BY DEF Refused
  <2>6. \A m : Unanswered(m) => RecordReached(m, FALSE)
    BY DEF Unanswered
  <2> HIDE DEF Good
  <2> QED
    BY <2>1, <2>2, <2>3, <2>4, <2>5, <2>6
<1>7. TlsTypeOK'
  BY <1>2, <1>6 DEF TlsInv, TlsTypeOK
<1>8. ReportTold'
  <2>1. Held'
    BY <1>2, Zenon DEF TlsInv, ReportTold, Held, Offerable, Versions
  <2>2. ASSUME NEW w \in Older PROVE Listed1(w)'
    <3>1. CASE w = v
      BY <1>6, <3>1
    <3>2. CASE w # v
      <4>1. w \in Versions \ {v} /\ Listed1(w)
        BY <3>2 DEF TlsInv, ReportTold, Versions
      <4> QED
        BY <1>2, <1>6, <4>1 DEF Listed1
    <3> QED
      BY <3>1, <3>2
  <2>3. AnsweredByHand'
    <3>1. TLS13 \in Versions \ {v}
      BY <1>1 DEF Versions
    <3> QED
      BY <1>2, <1>6, <3>1 DEF TlsInv, ReportTold, AnsweredByHand
  <2> QED
    BY <2>1, <2>2, <2>3 DEF ReportTold
<1>9. ProbedFirst' /\ Weighed'
  BY <1>2, <1>3 DEF ProbedFirst, Weighed
<1> QED
  BY <1>7, <1>8, <1>9 DEF TlsInv

\* One suite asked about by hand: accepted or refused, it is what the machine does.
LEMMA AskByHandTold ==
  ASSUME TlsInv, NEW s \in Suites13, AskByHand(s)
  PROVE  TlsInv'
<1>1. /\ stage' = stage /\ accepts' = accepts /\ answersTo' = answersTo
      /\ pc' = pc /\ results' = results /\ reason' = reason /\ negotiated' = negotiated
      /\ asked' = asked /\ old' = old /\ tlsVerdict' = tlsVerdict /\ findings' = findings
      /\ pc[TLS13] = "suites" /\ s \in remaining[TLS13]
      /\ remaining' = [remaining EXCEPT ![TLS13] = @ \ {s}]
  BY DEF AskByHand, machineVars, legacyVars
<1>2. stage = "versions"
  BY <1>1 DEF TlsInv, ProbedFirst, Versions
<1>3. PICK m \in Anywhere :
        \/ Accepted(m, TLS13, {s}, s) /\ answers' = [answers EXCEPT ![s] = "accepted"]
        \/ Refused(m, TLS13, {s}) /\ answers' = [answers EXCEPT ![s] = "refused"]
        \/ Unanswered(m) /\ answers' = [answers EXCEPT ![s] = "unread"]
  BY DEF AskByHand
<1>4. PICK done \in BOOLEAN : RecordReached(m, done)
  BY <1>3 DEF Accepted, Refused, Unanswered
<1>5. /\ reached' \subseteq Machines
      /\ \A n : reached' \subseteq {n} => reached \subseteq {n} /\ (m \in Machines => m = n)
  BY <1>4, WhoAnswered DEF TlsInv
<1>6. answers \in [Suites13 -> Answers] /\ remaining \in [Versions -> SUBSET (Suites13 \cup Suites)]
  BY DEF TlsInv, TlsTypeOK
<1>7. /\ answers' \in [Suites13 -> Answers] /\ answers'[s] # "none"
      /\ \A q \in Suites13 \ {s} : answers'[q] = answers[q]
      /\ answers'[s] = "accepted" => m \in Machines /\ s \in accepts[m][TLS13]
      /\ answers'[s] = "refused" => m \in Machines /\ s \notin accepts[m][TLS13]
  BY <1>3, <1>6 DEF Answers, Accepted, Refused
<1>8. /\ remaining' \in [Versions -> SUBSET (Suites13 \cup Suites)]
      /\ remaining'[TLS13] = remaining[TLS13] \ {s}
      /\ \A w \in Versions \ {TLS13} : remaining'[w] = remaining[w]
  BY <1>1, <1>6 DEF Versions
<1>9. TlsTypeOK'
  BY <1>1, <1>5, <1>7, <1>8 DEF TlsInv, TlsTypeOK
<1>10. ReportTold'
  <2>1. Held'
    BY <1>1, Zenon DEF TlsInv, ReportTold, Held, Offerable, Versions
  <2>2. ASSUME NEW w \in Older PROVE Listed1(w)'
    <3>1. w \in Versions \ {TLS13} /\ Listed1(w)
      BY HandshakesAssumption DEF TlsInv, ReportTold, Versions
    <3> QED
      BY <1>1, <1>5, <1>8, <3>1 DEF Listed1
  <2>3. AnsweredByHand'
    <3>1. AnsweredByHand
      BY DEF TlsInv, ReportTold
    <3>2. \A q \in Suites13 \ remaining'[TLS13] : answers'[q] # "none"
      BY <1>7, <1>8, <3>1 DEF AnsweredByHand
    <3>3. ASSUME NEW n \in Machines, reached' \subseteq {n}
          PROVE  /\ negotiated' \subseteq accepts'[n][TLS13]
                 /\ \A q \in Suites13 : /\ answers'[q] = "accepted" => q \in accepts'[n][TLS13]
                                        /\ answers'[q] = "refused" => q \notin accepts'[n][TLS13]
                 /\ results'[TLS13].complete /\ ~reason' => results'[TLS13].ciphers = accepts'[n][TLS13]
      <4>1. reached \subseteq {n} /\ (m \in Machines => m = n)
        BY <1>5, <3>3
      <4>2. /\ negotiated \subseteq accepts[n][TLS13]
            /\ \A q \in Suites13 : /\ answers[q] = "accepted" => q \in accepts[n][TLS13]
                                   /\ answers[q] = "refused" => q \notin accepts[n][TLS13]
            /\ results[TLS13].complete /\ ~reason => results[TLS13].ciphers = accepts[n][TLS13]
        BY <3>1, <4>1 DEF AnsweredByHand
      <4>3. ASSUME NEW q \in Suites13
            PROVE  /\ answers'[q] = "accepted" => q \in accepts[n][TLS13]
                   /\ answers'[q] = "refused" => q \notin accepts[n][TLS13]
        BY <1>7, <4>1, <4>2
      <4> QED
        BY <1>1, <4>2, <4>3
    <3> QED
      BY <3>2, <3>3 DEF AnsweredByHand
  <2> QED
    BY <2>1, <2>2, <2>3 DEF ReportTold
<1>11. ProbedFirst' /\ Weighed'
  BY <1>1, <1>2 DEF ProbedFirst, Weighed
<1> QED
  BY <1>9, <1>10, <1>11 DEF TlsInv

\* What the hellos were answered, read at the end: the list is theirs unless it could not
\* be calibrated, which is then the reason.
LEMMA ReadAnswersTold ==
  ASSUME TlsInv, ReadAnswers
  PROVE  TlsInv'
<1> DEFINE said(answer) == {s \in Suites13 : answers[s] = answer}
           calibrated == negotiated \subseteq said("accepted")
           listing == IF calibrated THEN said("accepted") ELSE negotiated
           whole == calibrated => said("unread") = {}
<1>1. /\ stage' = stage /\ accepts' = accepts /\ answersTo' = answersTo
      /\ remaining' = remaining /\ answers' = answers /\ negotiated' = negotiated /\ reached' = reached
      /\ asked' = asked /\ old' = old /\ tlsVerdict' = tlsVerdict /\ findings' = findings
      /\ pc[TLS13] = "suites" /\ remaining[TLS13] = {}
      /\ pc' = [pc EXCEPT ![TLS13] = "done"] /\ reason' = ~calibrated
      /\ results' = [results EXCEPT ![TLS13].ciphers = listing, ![TLS13].complete = whole]
  BY DEF ReadAnswers, machineVars, legacyVars
<1>2. stage = "versions"
  BY <1>1 DEF TlsInv, ProbedFirst, Versions
<1>3. results \in [Versions -> Rows] /\ TLS13 \in Versions /\ answers \in [Suites13 -> Answers]
      /\ pc \in [Versions -> {"first", "suites", "done"}] /\ negotiated \subseteq Suites13
  BY DEF TlsInv, TlsTypeOK, Versions
<1>4. listing \subseteq Suites13 /\ whole \in BOOLEAN /\ (~calibrated) \in BOOLEAN
  <2>1. listing \subseteq Suites13
    BY <1>3
  <2>2. whole \in BOOLEAN
    <3>1. whole \/ ~whole
      OBVIOUS
    <3>2. whole = TRUE \/ whole = FALSE
      BY Zenon
    <3> QED
      BY <3>2, Zenon
  <2>3. (~calibrated) \in BOOLEAN
    BY Zenon
  <2> QED
    BY <2>1, <2>2, <2>3
<1>5. \A n \in Machines : reached \subseteq {n} /\ calibrated /\ whole => listing = accepts[n][TLS13]
  <2>1. SUFFICES ASSUME NEW n \in Machines, reached \subseteq {n}, calibrated, whole
                 PROVE  listing = accepts[n][TLS13]
    OBVIOUS
  <2>2. /\ \A s \in Suites13 : answers[s] # "none"
        /\ \A s \in Suites13 : /\ answers[s] = "accepted" => s \in accepts[n][TLS13]
                               /\ answers[s] = "refused" => s \notin accepts[n][TLS13]
    BY <1>1, <2>1 DEF TlsInv, ReportTold, AnsweredByHand
  <2>3. \A s \in Suites13 : answers[s] \in {"accepted", "refused"}
    BY <1>3, <2>1, <2>2 DEF Answers
  <2>4. accepts[n][TLS13] \subseteq Suites13
    BY <1>3 DEF TlsInv, ReportTold, Held, Offerable
  <2>5. listing = said("accepted")
    BY <2>1
  <2> QED
    BY <2>2, <2>3, <2>4, <2>5
<1> HIDE DEF listing, whole, calibrated
<1>6. /\ results' \in [Versions -> Rows]
      /\ results'[TLS13].ciphers = listing /\ results'[TLS13].complete = whole
      /\ \A w \in Versions \ {TLS13} : results'[w] = results[w]
  BY <1>1, <1>3, <1>4 DEF Rows
<1>7. pc' \in [Versions -> {"first", "suites", "done"}] /\ reason' \in BOOLEAN
  BY <1>1, <1>3
<1>8. TlsTypeOK'
  BY <1>1, <1>6, <1>7 DEF TlsInv, TlsTypeOK
<1>9. ReportTold'
  <2>1. Held'
    BY <1>1, Zenon DEF TlsInv, ReportTold, Held, Offerable, Versions
  <2>2. ASSUME NEW w \in Older PROVE Listed1(w)'
    <3>1. w \in Versions \ {TLS13} /\ Listed1(w)
      BY HandshakesAssumption DEF TlsInv, ReportTold, Versions
    <3> QED
      BY <1>1, <1>6, <3>1 DEF Listed1
  <2>3. AnsweredByHand'
    BY <1>1, <1>5, <1>6 DEF TlsInv, ReportTold, AnsweredByHand
  <2> QED
    BY <2>1, <2>2, <2>3 DEF ReportTold
<1>10. ProbedFirst' /\ Weighed'
  BY <1>1, <1>2 DEF ProbedFirst, Weighed
<1> QED
  BY <1>8, <1>9, <1>10 DEF TlsInv

(***************************************************************************)
(* From the report of the versions to the verdict.                         *)
(***************************************************************************)

\* What is graded is graded with one of the three verdicts.
LEMMA GradesAreVerdicts ==
  ASSUME TlsTypeOK
  PROVE  /\ Graded \subseteq DOMAIN Grade
         /\ Grades(Graded) \subseteq {Strong, Weak, Insecure} /\ Grades(old) \subseteq {Strong, Weak, Insecure}
         /\ Grades(Graded) \subseteq Verdict /\ Grades(old) \subseteq Verdict /\ Summary \in Verdict
<1>1. Graded \subseteq Versions \cup Suites13 \cup Suites
  BY DEF TlsTypeOK, Graded, Supported, Rows
<1>2. old \subseteq Questions
  BY DEF TlsTypeOK
<1>3. Grade \in [Versions \cup Suites13 \cup Suites \cup Questions -> {Strong, Weak, Insecure}]
  BY HandshakesAssumption
<1>4. /\ Grades(Graded) \subseteq {Strong, Weak, Insecure} /\ Grades(old) \subseteq {Strong, Weak, Insecure}
      /\ Graded \subseteq DOMAIN Grade
  BY <1>1, <1>2, <1>3 DEF Grades
<1>5. {Strong, Weak, Insecure} \subseteq Verdict /\ Ungraded \in Verdict
  BY DEF Verdict, Strong, Weak, Insecure, Ungraded
<1>6. Worst(Grades(Graded)) \in Grades(Graded) \cup {Ungraded}
  BY <1>4, <1>5, WorstIsTheWorst
<1> QED
  BY <1>4, <1>5, <1>6 DEF Summary

\* While the report stands, so does what is graded of it.
LEMMA GradedStands ==
  ASSUME UNCHANGED versionVars
  PROVE  /\ Graded' = Graded /\ Supported' = Supported /\ Unfinished' = Unfinished /\ Summary' = Summary
         /\ \A v : v \in Supported' => results'[v] = results[v]
<1>1. results' = results
  BY DEF versionVars
<1> QED
  BY <1>1, Zenon DEF Graded, Supported, Unfinished, Summary, Grades

\* The verdict over the versions weighs what they found.
LEMMA SummariseTold ==
  ASSUME TlsInv, Summarise
  PROVE  TlsInv'
<1>1. /\ UNCHANGED <<machineVars, versionVars>> /\ UNCHANGED legacyVars /\ reached' = reached
      /\ \A v \in Versions : pc[v] = "done"
      /\ tlsVerdict' = Summary /\ findings' = Grades(Graded) \ {Strong} /\ stage' = "legacy"
  BY DEF Summarise, Summary
<1>2. ReportTold'
  BY <1>1, ReportStands
<1>3. /\ accepts' = accepts /\ answersTo' = answersTo /\ pc' = pc /\ results' = results /\ remaining' = remaining
      /\ answers' = answers /\ negotiated' = negotiated /\ reason' = reason /\ asked' = asked /\ old' = old
  BY <1>1 DEF machineVars, versionVars, legacyVars
<1>4. TlsTypeOK'
  <2>1. Summary \in Verdict /\ Grades(Graded) \subseteq {Strong, Weak, Insecure}
    BY GradesAreVerdicts DEF TlsInv
  <2> QED
    BY <1>1, <1>3, <2>1 DEF TlsInv, TlsTypeOK
<1>5. ProbedFirst'
  BY <1>1, <1>3 DEF ProbedFirst
<1>6. Weighed'
  BY <1>1, GradedStands, Zenon DEF Weighed, Grades
<1> QED
  BY <1>2, <1>4, <1>5, <1>6 DEF TlsInv

\* A legacy question is asked beside the report, and changes none of it.
LEMMA AskLegacyTold ==
  ASSUME TlsInv, NEW q \in Questions, AskLegacy(q)
  PROVE  TlsInv'
<1>1. /\ UNCHANGED <<machineVars, versionVars>> /\ stage = "legacy" /\ stage' = stage
      /\ asked' = asked \cup {q} /\ tlsVerdict' = tlsVerdict /\ findings' = findings
  BY DEF AskLegacy
<1>2. PICK m \in Anywhere, done \in BOOLEAN : RecordReached(m, done) /\ (old' = old \cup {q} \/ old' = old)
  BY DEF AskLegacy, Unanswered
<1>3. reached' \subseteq Machines /\ reached \subseteq reached'
  BY <1>2, WhoAnswered DEF TlsInv
<1>4. ReportTold'
  BY <1>1, <1>3, ReportStands
<1>5. /\ accepts' = accepts /\ answersTo' = answersTo /\ pc' = pc /\ results' = results /\ remaining' = remaining
      /\ answers' = answers /\ negotiated' = negotiated /\ reason' = reason
  BY <1>1 DEF machineVars, versionVars
<1>6. TlsTypeOK'
  BY <1>1, <1>2, <1>3, <1>5 DEF TlsInv, TlsTypeOK
<1>7. ProbedFirst'
  BY <1>1, <1>5 DEF TlsInv, ProbedFirst
<1>8. Weighed'
  BY <1>1, GradedStands, Zenon DEF TlsInv, Weighed, Grades
<1> QED
  BY <1>4, <1>6, <1>7, <1>8 DEF TlsInv

\* What the legacy questions found is weighed in.
LEMMA MergeLegacyTold ==
  ASSUME TlsInv, MergeLegacy
  PROVE  TlsInv'
<1>1. /\ UNCHANGED <<machineVars, versionVars>> /\ UNCHANGED legacyVars /\ reached' = reached
      /\ stage = "legacy" /\ stage' = "rest"
      /\ tlsVerdict' = Worst({tlsVerdict} \cup (Grades(old) \ {Strong}))
      /\ findings' = findings \cup (Grades(old) \ {Strong})
  BY DEF MergeLegacy
<1>2. ReportTold'
  BY <1>1, ReportStands
<1>3. /\ accepts' = accepts /\ answersTo' = answersTo /\ pc' = pc /\ results' = results /\ remaining' = remaining
      /\ answers' = answers /\ negotiated' = negotiated /\ reason' = reason /\ asked' = asked /\ old' = old
  BY <1>1 DEF machineVars, versionVars, legacyVars
<1>4. /\ tlsVerdict = Summary /\ findings = Grades(Graded) \ {Strong}
  BY <1>1 DEF TlsInv, Weighed
<1>5. /\ Grades(Graded) \subseteq {Strong, Weak, Insecure} /\ Grades(old) \subseteq {Strong, Weak, Insecure}
      /\ Grades(old) \subseteq Verdict /\ Summary \in Verdict
  BY GradesAreVerdicts DEF TlsInv
<1>6. TlsTypeOK'
  <2> DEFINE V == {Summary} \cup (Grades(old) \ {Strong})
  <2>1. V \in SUBSET Verdict
    BY <1>5
  <2>2. Worst(V) \in V \cup {Ungraded}
    BY <2>1, WorstIsTheWorst
  <2>3. Worst(V) \in Verdict
    BY <2>1, <2>2 DEF Verdict, Ungraded, Insecure
  <2>4. tlsVerdict' \in Verdict
    BY <1>1, <1>4, <2>3
  <2>5. findings' \subseteq {Weak, Insecure}
    BY <1>1, <1>4, <1>5
  <2> QED
    BY <1>1, <1>3, <2>4, <2>5 DEF TlsInv, TlsTypeOK
<1>7. ProbedFirst'
  BY <1>1, <1>3 DEF TlsInv, ProbedFirst
<1>8. Weighed'
  <2>1. Summary' = Summary /\ Grades(Graded)' = Grades(Graded) /\ Grades(old)' = Grades(old)
    BY <1>1, <1>3, GradedStands, Zenon DEF Grades
  <2>2. tlsVerdict' = Worst({Summary} \cup (Grades(old) \ {Strong}))
    BY <1>1, <1>4
  <2>3. findings' = (Grades(Graded) \cup Grades(old)) \ {Strong}
    BY <1>1, <1>4
  <2> QED
    BY <1>1, <2>1, <2>2, <2>3 DEF Weighed
<1> QED
  BY <1>2, <1>6, <1>7, <1>8 DEF TlsInv

\* The rest of a probe finds out who answers, and changes no list.
LEMMA RestTold ==
  ASSUME TlsInv, Rest
  PROVE  TlsInv'
<1>1. /\ UNCHANGED <<machineVars, versionVars>> /\ UNCHANGED legacyVars
      /\ stage = "rest" /\ stage' \in {"rest", "scan"}
      /\ tlsVerdict' = tlsVerdict /\ findings' = findings
      /\ reached' \subseteq Machines /\ reached \subseteq reached'
  BY DEF Rest, RecordReached, TlsInv, TlsTypeOK
<1>2. ReportTold'
  BY <1>1, ReportStands
<1>3. /\ accepts' = accepts /\ answersTo' = answersTo /\ pc' = pc /\ results' = results /\ remaining' = remaining
      /\ answers' = answers /\ negotiated' = negotiated /\ reason' = reason /\ asked' = asked /\ old' = old
  BY <1>1 DEF machineVars, versionVars, legacyVars
<1>4. TlsTypeOK'
  BY <1>1, <1>3 DEF TlsInv, TlsTypeOK
<1>5. ProbedFirst'
  BY <1>1, <1>3 DEF TlsInv, ProbedFirst
<1>6. Weighed'
  <2>1. Summary' = Summary /\ Grades(Graded)' = Grades(Graded) /\ Grades(old)' = Grades(old)
    BY <1>1, <1>3, GradedStands, Zenon DEF Grades
  <2> QED
    BY <1>1, <2>1 DEF TlsInv, Weighed
<1> QED
  BY <1>2, <1>4, <1>5, <1>6 DEF TlsInv

\* Where every list was read to its end, and one machine answered, what is graded is
\* all of what it accepts.
LEMMA FinishedIsGraded ==
  ASSUME TlsInv, NEW m \in Machines, reached = {m}, NEW v \in Supported, results[v].complete, ~(v = TLS13 /\ reason)
  PROVE  results[v].ciphers = accepts[m][v]
<1>1. v \in Versions
  BY DEF Supported
<1>2. CASE v = TLS13
  BY <1>2 DEF TlsInv, ReportTold, AnsweredByHand
<1>3. CASE v \in Older
  BY <1>3 DEF TlsInv, ReportTold, Listed1
<1> QED
  BY <1>1, <1>2, <1>3 DEF Versions

\* The end of the probe: whatever else was found, the verdict is at least as severe as
\* all of it, and Strong only of a machine whose every suite is.
LEMMA JoinTold ==
  ASSUME TlsInv, Join
  PROVE  TlsInv'
<1>1. /\ UNCHANGED <<machineVars, versionVars>> /\ UNCHANGED legacyVars /\ reached' = reached
      /\ stage = "scan" /\ stage' = "report" /\ findings' = findings
  BY DEF Join
<1>2. PICK certificate \in IF Supported = {} THEN {Ungraded} ELSE {Strong, Weak} :
        tlsVerdict' = Settle(Worst({tlsVerdict, certificate}))
  BY DEF Join
<1>3. ReportTold'
  BY <1>1, ReportStands
<1>4. /\ accepts' = accepts /\ answersTo' = answersTo /\ pc' = pc /\ results' = results /\ remaining' = remaining
      /\ answers' = answers /\ negotiated' = negotiated /\ reason' = reason /\ asked' = asked /\ old' = old
  BY <1>1 DEF machineVars, versionVars, legacyVars
<1> DEFINE bad == Grades(old) \ {Strong}
           before == {Summary} \cup bad
           w == Worst({tlsVerdict, certificate})
<1>5. /\ tlsVerdict = Worst(before)
      /\ findings = (Grades(Graded) \cup Grades(old)) \ {Strong}
  BY <1>1 DEF TlsInv, Weighed
<1>6. /\ Grades(Graded) \subseteq {Strong, Weak, Insecure} /\ Grades(old) \subseteq {Strong, Weak, Insecure}
      /\ Grades(Graded) \subseteq Verdict /\ Grades(old) \subseteq Verdict /\ Summary \in Verdict
      /\ Graded \subseteq DOMAIN Grade
  BY GradesAreVerdicts DEF TlsInv
<1>7. tlsVerdict \in Verdict /\ certificate \in Verdict
  BY <1>2 DEF TlsInv, TlsTypeOK, Verdict, Ungraded, Strong, Weak, Insecure
<1>8. /\ tlsVerdict \in before \cup {Ungraded} /\ \A g \in before : g <= tlsVerdict
  <2>1. before \in SUBSET Verdict
    BY <1>6
  <2> QED
    BY <1>5, <2>1, WorstIsTheWorst
<1>9. w \in {tlsVerdict, certificate, Ungraded} /\ tlsVerdict <= w
  BY <1>7, WorstIsTheWorst
<1>10. /\ Worst(Grades(Graded)) \in Grades(Graded) \cup {Ungraded}
       /\ \A g \in Grades(Graded) : g <= Worst(Grades(Graded))
  BY <1>6, WorstIsTheWorst
<1>11. tlsVerdict' = IF w = Strong /\ Unfinished THEN Ungraded ELSE w
  BY <1>2 DEF Settle
<1>12. Summary = IF Worst(Grades(Graded)) = Strong /\ Unfinished THEN Ungraded ELSE Worst(Grades(Graded))
  BY DEF Summary
<1> HIDE DEF w
<1>13. w \in Verdict /\ tlsVerdict' \in Verdict
  BY <1>7, <1>9, <1>11 DEF Verdict, Ungraded, Insecure
<1>14. Worst(Grades(Graded)) \in Verdict
  BY <1>6, <1>10 DEF Verdict, Ungraded, Insecure
<1> DEFINE seen == Worst(Grades(Graded))
<1> HIDE DEF seen, bad
<1>15. \A g \in Grades(Graded) \ {Strong} : g <= tlsVerdict
  <2>1. SUFFICES ASSUME NEW g \in Grades(Graded) \ {Strong} PROVE g <= tlsVerdict
    OBVIOUS
  <2>2. g \in {Weak, Insecure} /\ g <= seen
    BY <1>6, <1>10, <2>1 DEF seen
  <2>3. seen # Strong
    BY <1>14, <2>2 DEF seen, Weak, Insecure, Strong
  <2>4. Summary = seen
    BY <1>12, <2>3 DEF seen
  <2>5. seen <= tlsVerdict
    BY <1>8, <2>4
  <2> QED
    BY <1>7, <1>14, <2>2, <2>5 DEF seen, Verdict, Weak, Insecure, Ungraded
<1>16. \A g \in bad : g <= tlsVerdict
  BY <1>8
<1>17. \A g \in findings : g <= tlsVerdict /\ g \in {Weak, Insecure}
  BY <1>5, <1>6, <1>15, <1>16 DEF bad
\* What was found stays found.
<1>18. \A g \in findings : tlsVerdict' >= g
  <2>1. SUFFICES ASSUME NEW g \in findings PROVE tlsVerdict' >= g
    OBVIOUS
  <2>2. g <= w /\ w # Strong
    BY <1>7, <1>9, <1>13, <1>17 DEF Verdict, Weak, Insecure, Ungraded, Strong
  <2>3. tlsVerdict' = w
    BY <1>11, <2>2
  <2> QED
    BY <1>13, <1>17, <2>2, <2>3 DEF Verdict, Weak, Insecure, Ungraded
\* And strong is said of what was seen to the end.
<1>19. ASSUME tlsVerdict' = Strong
       PROVE  /\ Grades(Graded) = {Strong} /\ old \subseteq {q \in Questions : Grade[q] = Strong}
              /\ \A m \in Machines : reached = {m} =>
                   \A v \in Supported : ~(v = TLS13 /\ reason) => Grades(accepts[m][v]) \subseteq {Strong}
  <2>1. w = Strong /\ ~Unfinished
    BY <1>11, <1>19 DEF Strong, Ungraded
  <2>2. findings = {}
    <3>1. \A g \in findings : g <= w /\ g \in {Weak, Insecure}
      BY <1>7, <1>9, <1>13, <1>17 DEF Verdict, Weak, Insecure, Ungraded
    <3> QED
      BY <2>1, <3>1 DEF Weak, Insecure, Strong
  <2>3. Grades(Graded) \subseteq {Strong} /\ Grades(old) \subseteq {Strong}
    BY <1>5, <2>2
  <2>4. Supported # {}
    <3>1. SUFFICES ASSUME Supported = {} PROVE FALSE
      OBVIOUS
    <3>2. certificate = Ungraded
      BY <1>2, <3>1
    <3>3. Grades(Graded) = {}
      BY <3>1 DEF Grades, Graded
    <3>4. Worst(Grades(Graded)) = Ungraded
      BY <1>10, <3>3
    <3>5. Summary = Ungraded
      BY <1>12, <3>4
    <3>6. before = {Ungraded}
      BY <2>3, <3>5 DEF bad
    <3>7. tlsVerdict = Ungraded
      BY <1>8, <3>6
    <3> QED
      BY <1>9, <2>1, <3>2, <3>7 DEF Strong, Ungraded
  <2>5. Grades(Graded) = {Strong}
    <3>1. PICK v : v \in Supported
      BY <2>4
    <3>2. Grade[v] \in Grades(Graded)
      BY <3>1 DEF Grades, Graded
    <3> QED
      BY <2>3, <3>2
  <2>6. old \subseteq {q \in Questions : Grade[q] = Strong}
    BY <2>3 DEF Grades, TlsInv, TlsTypeOK
  <2>7. ASSUME NEW m \in Machines, reached = {m}, NEW v \in Supported, ~(v = TLS13 /\ reason)
        PROVE  Grades(accepts[m][v]) \subseteq {Strong}
    <3>1. results[v].complete
      BY <2>1, <2>7 DEF Unfinished
    <3>2. results[v].ciphers = accepts[m][v]
      BY <2>7, <3>1, FinishedIsGraded
    <3>3. accepts[m][v] \subseteq Graded
      BY <2>7, <3>2 DEF Graded
    <3> QED
      BY <2>5, <3>3 DEF Grades
  <2> QED
    BY <2>5, <2>6, <2>7
<1>20. TlsTypeOK'
  BY <1>1, <1>4, <1>13 DEF TlsInv, TlsTypeOK
<1>21. ProbedFirst'
  BY <1>1, <1>4 DEF TlsInv, ProbedFirst
<1>22. VerdictIsEarned'
  <2>1. /\ Grades(Graded)' = Grades(Graded) /\ Supported' = Supported
        /\ \A m, v : Grades(accepts[m][v])' = Grades(accepts[m][v])
    BY <1>1, <1>4, GradedStands, Zenon DEF Grades
  <2> QED
    BY <1>1, <1>4, <1>18, <1>19, <2>1 DEF VerdictIsEarned
<1>23. Weighed'
  BY <1>1, <1>22 DEF Weighed
<1> QED
  BY <1>3, <1>20, <1>21, <1>23 DEF TlsInv

\* Every step of the probe keeps that.
LEMMA TlsStep == TlsInv /\ [TlsNext]_tlsVars => TlsInv'
<1> SUFFICES ASSUME TlsInv, [TlsNext]_tlsVars PROVE TlsInv'
  OBVIOUS
<1>1. CASE UNCHANGED tlsVars
  <2>1. UNCHANGED <<machineVars, versionVars>>
    BY <1>1 DEF tlsVars
  <2>2. /\ accepts' = accepts /\ answersTo' = answersTo /\ pc' = pc /\ results' = results /\ remaining' = remaining
        /\ answers' = answers /\ negotiated' = negotiated /\ reason' = reason /\ asked' = asked /\ old' = old
        /\ reached' = reached /\ stage' = stage /\ tlsVerdict' = tlsVerdict /\ findings' = findings
    BY <1>1 DEF tlsVars, machineVars, versionVars, legacyVars
  <2>3. ReportTold'
    BY <2>1, <2>2, ReportStands
  <2>4. TlsTypeOK' /\ ProbedFirst'
    BY <2>2 DEF TlsInv, TlsTypeOK, ProbedFirst
  <2>5. Weighed'
    <3>1. /\ Summary' = Summary /\ Grades(Graded)' = Grades(Graded) /\ Grades(old)' = Grades(old) /\ Supported' = Supported
          /\ \A m, v : Grades(accepts[m][v])' = Grades(accepts[m][v])
      BY <2>1, <2>2, GradedStands, Zenon DEF Grades
    <3>2. VerdictIsEarned => VerdictIsEarned'
      BY <2>2, <3>1 DEF VerdictIsEarned
    <3> QED
      BY <2>2, <3>1, <3>2 DEF TlsInv, Weighed
  <2> QED
    BY <2>3, <2>4, <2>5 DEF TlsInv
<1> QED
  BY <1>1, FirstHandshakeTold, EnumerateTold, AskByHandTold, ReadAnswersTold, SummariseTold, AskLegacyTold,
     MergeLegacyTold, RestTold, JoinTold, Zenon DEF TlsNext

\* A list that is called complete is all that the one machine reached accepts, and a
\* verdict is earned by what was found: Strong of no machine that accepts less
\* (tlsprobe.go, scan.go: Probe, summariseTLS).
THEOREM ReportsAreTrue == TlsSpec => []ProbeTellsTheTruth
<1>1. TlsSpec => []TlsInv
  BY InitiallyTlsInv, TlsStep, PTL DEF TlsSpec
<1>2. TlsInv => ProbeTellsTheTruth
  <2> SUFFICES ASSUME TlsInv PROVE ProbeTellsTheTruth
    OBVIOUS
  <2>1. CompleteIsEverything
    BY FinishedIsGraded DEF CompleteIsEverything
  <2>2. VerdictIsEarned
    BY DEF TlsInv, Weighed, VerdictIsEarned
  <2> QED
    BY <2>1, <2>2 DEF ProbeTellsTheTruth
<1> QED
  BY <1>1, <1>2, PTL

(***************************************************************************)
(* Certificates (certinfo.go, rootstores.go): a path that holds at one time *)
(* of the leaf holds at another.                                           *)
(***************************************************************************)

\* What the assumptions say of certificates, their dates and a chain.
LEMMA CertificateFacts ==
  /\ Roots \subseteq Certs
  /\ \A c \in Certs : c.from \in Int /\ c.to \in Int
  /\ MaxChainLength \in Nat \ {0}
BY CertificateAssumption, Zenon

\* Among issuers that outlive it, a path that holds at some time holds at any time of
\* the leaf's own.
LEMMA PathHoldsAnyTime ==
  ASSUME NEW leaf \in Certs, NEW sent \in SUBSET Certs, NEW roots \in SUBSET Certs,
         \A c \in sent \cup roots : c.from <= leaf.from /\ leaf.to <= c.to,
         NEW t \in Int, NEW u \in Int, ValidAt(leaf, u), Verifies(leaf, sent, roots, t)
  PROVE  Verifies(leaf, sent, roots, u)
<1> DEFINE above(n) == {c \in sent \cup roots : ValidAt(c, n)}
           Path(p) ==
             /\ leaf.by = p[1].name
             /\ \A i \in 1..(Len(p) - 1) : p[i].by = p[i + 1].name
             /\ Last(p) \in roots
           Joined(n) == \E k \in 1..Cardinality(sent \cup {leaf}) : \E p \in [1..k -> above(n)] : Path(p)
<1>1. above(t) \subseteq above(u)
  <2>1. \A c \in sent \cup roots : c.from \in Int /\ c.to \in Int /\ leaf.from \in Int /\ leaf.to \in Int
    BY CertificateFacts
  <2> QED
    BY <2>1 DEF ValidAt
<1>2. leaf.server /\ (leaf \in roots \/ Joined(t))
  BY Zenon DEF Verifies
<1>3. Joined(t) => Joined(u)
  <2>1. \A k \in 1..Cardinality(sent \cup {leaf}) : \A p \in [1..k -> above(t)] : p \in [1..k -> above(u)]
    <3> HIDE DEF above
    <3> QED
      BY <1>1
  <2> HIDE DEF above, Path
  <2> QED
    BY <2>1, Zenon
<1> QED
  BY <1>2, <1>3, Zenon DEF Verifies

\* What was sent is certificates.
LEMMA SentAreCertificates ==
  ASSUME NEW c \in Seq(Certs), c # <<>>
  PROVE  Head(c) \in Certs /\ Sent(c) \subseteq Certs
<1> DEFINE n == IF Len(c) < MaxChainLength THEN Len(c) ELSE MaxChainLength
<1>1. n \in 1..Len(c)
  BY CertificateFacts
<1> HIDE DEF n
<1>2. SubSeq(c, 1, n) \in Seq(Certs) /\ SubSeq(c, 1, n) # <<>>
  BY <1>1
<1>3. Tail(SubSeq(c, 1, n)) \in Seq(Certs)
  BY <1>2
<1> QED
  BY <1>3 DEF Sent, Described, ToSet, n

\* Whoever a store trusts within the dates of the leaf it trusts outside them, if the
\* issuers outlive it: trust is not expiry.
LEMMA TrustHasNoClock ==
  ASSUME NEW c \in Seq(Certs), c # <<>>, NEW times \in SUBSET Int
  PROVE  TrustIgnoresTheClock(c, times)
<1> DEFINE leaf == Head(c)
           above == Sent(c) \cup Roots \cup UNION {StoreRoots(s) : s \in DOMAIN Stores}
           outlived == \A d \in above : d.from <= leaf.from /\ leaf.to <= d.to
<1>1. SUFFICES ASSUME outlived, leaf.from < leaf.to, NEW t \in times, NEW u \in times
               PROVE  /\ Trusted(c, t) = Trusted(c, u)
                      /\ \A s \in DOMAIN Stores : StoreVerdict(s, c, t) = StoreVerdict(s, c, u)
  BY DEF TrustIgnoresTheClock
<1>2. leaf \in Certs /\ Sent(c) \subseteq Certs /\ Roots \subseteq Certs /\ t \in Int /\ u \in Int
  BY SentAreCertificates, CertificateFacts
<1>3. leaf.from \in Int /\ leaf.to \in Int /\ Middle(leaf) \in Int /\ ValidAt(leaf, Middle(leaf))
  <2>1. leaf.from \in Int /\ leaf.to \in Int
    BY <1>2, CertificateFacts
  <2>2. \A a, b \in Int : a < b => a + (b - a) \div 2 \in a..b
    OBVIOUS
  <2> HIDE DEF leaf
  <2>3. Middle(leaf) \in leaf.from .. leaf.to
    BY <1>1, <2>1, <2>2 DEF Middle
  <2> QED
    BY <2>1, <2>3 DEF ValidAt
<1>4. \A n \in Int : Verifies(leaf, Sent(c), Roots, n) => Verifies(leaf, Sent(c), Roots, Middle(leaf))
  <2>1. \A d \in Sent(c) \cup Roots : d.from <= leaf.from /\ leaf.to <= d.to
    BY <1>1
  <2> HIDE DEF leaf
  <2> QED
    BY <1>2, <1>3, <2>1, PathHoldsAnyTime
<1>5. Trusted(c, t) = Trusted(c, u)
  <2>1. leaf.to > leaf.from
    BY <1>1, <1>3
  <2>2. ASSUME NEW n \in Int PROVE Trusted(c, n) = Verifies(leaf, Sent(c), Roots, Middle(leaf))
    BY <1>4, <2>1, <2>2, Zenon DEF Trusted, Verifies
  <2> QED
    BY <1>2, <2>2
<1>6. ASSUME NEW s \in DOMAIN Stores PROVE StoreVerdict(s, c, t) = StoreVerdict(s, c, u)
  <2> DEFINE asOf(n) == IF ValidAt(leaf, n) \/ leaf.to <= leaf.from THEN n ELSE Middle(leaf)
             anchors(n) == {r \in StoreRoots(s) : Verifies(leaf, Sent(c), {r}, asOf(n))}
  <2>1. asOf(t) \in Int /\ asOf(u) \in Int /\ ValidAt(leaf, asOf(t)) /\ ValidAt(leaf, asOf(u))
    <3>1. ~(leaf.to <= leaf.from)
      BY <1>1, <1>3
    <3> HIDE DEF leaf
    <3> QED
      BY <1>2, <1>3, <3>1
  <2>2. \A r \in StoreRoots(s) : Verifies(leaf, Sent(c), {r}, asOf(t)) <=> Verifies(leaf, Sent(c), {r}, asOf(u))
    <3>1. SUFFICES ASSUME NEW r \in StoreRoots(s)
                   PROVE  Verifies(leaf, Sent(c), {r}, asOf(t)) <=> Verifies(leaf, Sent(c), {r}, asOf(u))
      OBVIOUS
    <3>2. {r} \in SUBSET Certs
      BY DEF StoreRoots
    <3>3. \A d \in Sent(c) \cup {r} : d.from <= leaf.from /\ leaf.to <= d.to
      BY <1>1
    <3> HIDE DEF asOf, leaf
    <3> QED
      BY <1>2, <2>1, <3>2, <3>3, PathHoldsAnyTime
  <2>3. anchors(t) = anchors(u)
    <3> HIDE DEF asOf, leaf
    <3> QED
      BY <2>2, Zenon
  <2> QED
    BY <2>3, Zenon DEF StoreVerdict
<1> QED
  BY <1>5, <1>6

(***************************************************************************)
(* What a rule weighs, wherever it is found broken.                        *)
(***************************************************************************)

WeakRules ==
  {"signature-algorithm-unrecognised", "key-algorithm-unrecognised", "critical-extension-unrecognised",
   "no-digital-signature", "wildcard-shape", "expiring-soon", "chain-incomplete", "cn-not-in-san", "serial-entropy",
   "validity-too-long"}
Weight(r) == IF r \in WeakRules THEN Weak ELSE Insecure
IsCertFinding(f) == \E w \in {"cert", "chain"}, r \in RuleNames : f = [rule |-> <<w, r>>, verdict |-> Weight(r)]

\* What is found of a rule weighs what the rule does.
LEMMA FoundIsWeighed ==
  ASSUME NEW condition, NEW w \in {"cert", "chain"}, NEW r \in RuleNames,
         NEW f \in Found(condition, w, r, Weight(r))
  PROVE  IsCertFinding(f)
BY Zenon DEF Found, IsCertFinding

\* So do the rules of what is in a certificate,
LEMMA ContentIsWeighed ==
  /\ DOMAIN ContentRules \subseteq RuleNames /\ DOMAIN LeafRules \subseteq RuleNames
  /\ \A r \in DOMAIN ContentRules : ContentRules[r] = Weight(r)
  /\ \A r \in DOMAIN LeafRules : LeafRules[r] = Weight(r)
<1>1. \A r \in DOMAIN ContentRules : ContentRules[r] = Weight(r)
  BY DEF ContentRules, Weight, WeakRules
<1>2. \A r \in DOMAIN LeafOnly : LeafOnly[r] = Weight(r)
  BY DEF LeafOnly, Weight, WeakRules
<1> QED
  BY <1>1, <1>2 DEF LeafRules, RuleNames

\* those of its dates,
LEMMA DatesAreWeighed ==
  ASSUME NEW w \in {"cert", "chain"}, NEW c \in Certs, NEW now \in Int, NEW f \in DateFindings(w, c, now)
  PROVE  IsCertFinding(f)
<1> DEFINE late == now > c.to
           intime == now <= c.to
           early == now < c.from
<1>1. /\ {"expired", "not-yet-valid", "expiring-soon"} \subseteq RuleNames
      /\ Weight("expired") = Insecure /\ Weight("not-yet-valid") = Insecure /\ Weight("expiring-soon") = Weak
  BY DEF RuleNames, Weight, WeakRules
<1>2. late <=> ~intime
  BY CertificateFacts
<1>3. \E condition : \/ f \in Found(condition, w, "expired", Insecure)
                     \/ f \in Found(condition, w, "not-yet-valid", Insecure)
                     \/ f \in Found(condition, w, "expiring-soon", Weak)
  <2>1. CASE late
    <3>1. DateFindings(w, c, now) = Found(TRUE, w, "expired", Insecure)
      BY <1>2, <2>1, Zenon DEF DateFindings
    <3> QED
      BY <3>1
  <2>2. CASE intime /\ early
    <3>1. DateFindings(w, c, now) = Found(TRUE, w, "not-yet-valid", Insecure)
      BY <1>2, <2>2, Zenon DEF DateFindings
    <3> QED
      BY <3>1
  <2>3. CASE ~late /\ ~(intime /\ early)
    <3>1. DateFindings(w, c, now) = Found(c.to - now <= Warning, w, "expiring-soon", Weak)
      BY <2>3, Zenon DEF DateFindings
    <3> QED
      BY <3>1
  <2> QED
    BY <1>2, <2>1, <2>2, <2>3
<1> QED
  BY <1>1, <1>3, FoundIsWeighed

\* and those of the chain.
LEMMA ChainIsWeighed ==
  ASSUME NEW c \in Seq(Certs), c # <<>>, NEW host, NEW now \in Int, NEW f \in ChainFindings(c, host, now)
  PROVE  IsCertFinding(f)
<1>1. CASE f \in LeafFindings(c, host, now)
  <2> DEFINE leaf == Head(c)
  <2>1. \/ f \in DateFindings("cert", leaf, now)
        \/ \E condition : \/ f \in Found(condition, "cert", "self-signed", Insecure)
                          \/ f \in Found(condition, "cert", "chain-untrusted", Insecure)
                          \/ f \in Found(condition, "cert", "chain-incomplete", Weak)
                          \/ f \in Found(condition, "cert", "hostname-mismatch", Insecure)
                          \/ f \in Found(condition, "cert", "cn-not-in-san", Weak)
                          \/ f \in Found(condition, "cert", "serial-entropy", Weak)
                          \/ f \in Found(condition, "cert", "validity-too-long", Weak)
        \/ \E r \in DOMAIN LeafRules : f \in Found(TRUE, "cert", r, LeafRules[r])
    <3> DEFINE several == UNION {Found(TRUE, "cert", r, LeafRules[r]) : r \in leaf.flaws \cap DOMAIN LeafRules}
               self == SelfSigned(leaf)
               apart == ~SelfSigned(leaf) /\ ~Trusted(c, now)
               broken == ~Complete(c)
               misnamed == host \notin leaf.hosts
               unnamed == leaf.cn # "" /\ leaf.cn \notin leaf.hosts
               short == Trusted(c, now) /\ "short serial" \in leaf.flaws
               long == leaf.to - leaf.from > Lifetime(leaf.from)
    <3>1. LeafFindings(c, host, now) =
            DateFindings("cert", leaf, now)
            \cup Found(self, "cert", "self-signed", Insecure)
            \cup Found(apart, "cert", "chain-untrusted", Insecure)
            \cup Found(broken, "cert", "chain-incomplete", Weak)
            \cup Found(misnamed, "cert", "hostname-mismatch", Insecure)
            \cup several
            \cup Found(unnamed, "cert", "cn-not-in-san", Weak)
            \cup Found(short, "cert", "serial-entropy", Weak)
            \cup Found(long, "cert", "validity-too-long", Weak)
      BY Zenon DEF LeafFindings
    <3>2. f \in several => \E r \in DOMAIN LeafRules : f \in Found(TRUE, "cert", r, LeafRules[r])
      OBVIOUS
    <3> HIDE DEF several, self, apart, broken, misnamed, unnamed, short, long, leaf
    <3>3. \/ f \in DateFindings("cert", leaf, now) \/ f \in several
          \/ f \in Found(self, "cert", "self-signed", Insecure)
          \/ f \in Found(apart, "cert", "chain-untrusted", Insecure)
          \/ f \in Found(broken, "cert", "chain-incomplete", Weak)
          \/ f \in Found(misnamed, "cert", "hostname-mismatch", Insecure)
          \/ f \in Found(unnamed, "cert", "cn-not-in-san", Weak)
          \/ f \in Found(short, "cert", "serial-entropy", Weak)
          \/ f \in Found(long, "cert", "validity-too-long", Weak)
      BY <1>1, <3>1
    <3> QED
      BY <3>2, <3>3
  <2>2. /\ {"self-signed", "chain-untrusted", "chain-incomplete", "hostname-mismatch", "cn-not-in-san",
            "serial-entropy", "validity-too-long"} \subseteq RuleNames
        /\ Weight("self-signed") = Insecure /\ Weight("chain-untrusted") = Insecure
        /\ Weight("hostname-mismatch") = Insecure
        /\ Weight("chain-incomplete") = Weak /\ Weight("cn-not-in-san") = Weak
        /\ Weight("serial-entropy") = Weak /\ Weight("validity-too-long") = Weak
    BY DEF RuleNames, Weight, WeakRules
  <2>3. CASE f \in DateFindings("cert", leaf, now)
    BY <2>3, DatesAreWeighed, SentAreCertificates
  <2>4. CASE \E r \in DOMAIN LeafRules : f \in Found(TRUE, "cert", r, LeafRules[r])
    <3>1. PICK r \in DOMAIN LeafRules : f \in Found(TRUE, "cert", r, Weight(r))
      BY <2>4, ContentIsWeighed
    <3>2. r \in RuleNames
      BY ContentIsWeighed
    <3> QED
      BY <3>1, <3>2, FoundIsWeighed
  <2> QED
    BY <2>1, <2>2, <2>3, <2>4, FoundIsWeighed
<1>2. CASE f \in IssuerFindings(c, now)
  <2>1. \/ \E d \in Certs : f \in DateFindings("chain", d, now)
        \/ \E r \in DOMAIN ContentRules : f \in Found(TRUE, "chain", r, ContentRules[r])
    <3>1. PICK d \in {e \in Sent(c) : ~SelfSigned(e)} :
            f \in DateFindings("chain", d, now)
                  \cup UNION {Found(TRUE, "chain", r, ContentRules[r]) : r \in d.flaws \cap DOMAIN ContentRules}
      BY <1>2 DEF IssuerFindings
    <3>2. d \in Certs
      BY SentAreCertificates
    <3> QED
      BY <3>1, <3>2
  <2>2. CASE \E d \in Certs : f \in DateFindings("chain", d, now)
    BY <2>2, DatesAreWeighed
  <2>3. CASE \E r \in DOMAIN ContentRules : f \in Found(TRUE, "chain", r, ContentRules[r])
    <3>1. PICK r \in DOMAIN ContentRules : f \in Found(TRUE, "chain", r, Weight(r))
      BY <2>3, ContentIsWeighed
    <3>2. r \in RuleNames
      BY ContentIsWeighed
    <3> QED
      BY <3>1, <3>2, FoundIsWeighed
  <2> QED
    BY <2>1, <2>2, <2>3
<1> QED
  BY <1>1, <1>2 DEF ChainFindings

\* What a report, or the authorities, may find.
GivenFindings == (UNION {r.findings : r \in Reports}) \cup UNION Staplings
IsFinding(f) == IsCertFinding(f) \/ f \in GivenFindings

\* What the assumptions say of times, reports and staplings.
LEMMA ScanFacts ==
  /\ ScanTimes \subseteq Int
  /\ \A r \in Reports : r.complete \in BOOLEAN /\ \A c \in r.others \cup {r.chain} : c \in Seq(Certs)
  /\ \A f \in GivenFindings : /\ f = [rule |-> f.rule, verdict |-> f.verdict] /\ f.verdict \in {Weak, Insecure}
                              /\ f.rule \notin {"cert", "chain"} \X RuleNames
  /\ \A f, g \in GivenFindings : f.rule = g.rule => f.verdict = g.verdict
BY ScanAssumption DEF GivenFindings

\* A rule weighs what it weighs: two findings of one rule are one.
LEMMA OneFindingOfARule ==
  ASSUME NEW f, NEW g, IsFinding(f), IsFinding(g)
  PROVE  /\ f.verdict \in {Weak, Insecure}
         /\ f.rule = g.rule => f = g
<1>1. ASSUME NEW h, IsCertFinding(h)
      PROVE  /\ h.rule \in {"cert", "chain"} \X RuleNames
             /\ h = [rule |-> h.rule, verdict |-> Weight(h.rule[2])]
             /\ h.verdict \in {Weak, Insecure}
  <2>1. PICK w \in {"cert", "chain"}, r \in RuleNames : h = [rule |-> <<w, r>>, verdict |-> Weight(r)]
    BY <1>1 DEF IsCertFinding
  <2> QED
    BY <2>1 DEF Weight
<1>2. f.verdict \in {Weak, Insecure}
  BY <1>1, ScanFacts DEF IsFinding
<1>3. ASSUME f.rule = g.rule PROVE f = g
  <2>1. CASE IsCertFinding(f) /\ IsCertFinding(g)
    BY <1>1, <1>3, <2>1
  <2>2. CASE f \in GivenFindings /\ g \in GivenFindings
    BY <1>3, <2>2, ScanFacts
  <2>3. CASE IsCertFinding(f) /\ g \in GivenFindings
    BY <1>1, <1>3, <2>3, ScanFacts
  <2>4. CASE IsCertFinding(g) /\ f \in GivenFindings
    BY <1>1, <1>3, <2>4, ScanFacts
  <2> QED
    BY <2>1, <2>2, <2>3, <2>4 DEF IsFinding
<1> QED
  BY <1>2, <1>3

\* So whichever finding of a rule comes first, what is shown is all that was found.
LEMMA AllIsShown ==
  ASSUME NEW have, NEW new, \A f \in have \cup new : IsFinding(f), NEW all \in Collect(have, new)
  PROVE  all = have \cup new
<1> DEFINE unseen == {f \in new : \A g \in have : g.rule # f.rule}
<1>1. unseen = new \ have
  BY OneFindingOfARule
<1>2. PICK s \in SUBSET unseen : /\ all = have \cup s
                                 /\ \A f \in unseen : \E g \in s : {h \in s : h.rule = f.rule} = {g}
  BY DEF Collect
<1>3. ASSUME NEW f \in unseen PROVE f \in s
  <2>1. PICK g \in s : {h \in s : h.rule = f.rule} = {g}
    BY <1>2
  <2>2. g.rule = f.rule
    BY <2>1
  <2>3. IsFinding(f) /\ IsFinding(g)
    BY <2>1
  <2>4. f = g
    BY <2>2, <2>3, OneFindingOfARule
  <2> QED
    BY <2>4
<1> QED
  BY <1>1, <1>2, <1>3

(***************************************************************************)
(* The verdict over some findings.                                         *)
(***************************************************************************)

Weighs(v, found) ==
  /\ v \in Verdict
  /\ found # {} => \E f \in found : v = f.verdict
  /\ \A f \in found : f.verdict <= v
  /\ found = {} => v \in {Strong, Ungraded}

\* The worst of some findings weighs them.
LEMMA WorstWeighs ==
  ASSUME NEW found, \A f \in found : IsFinding(f)
  PROVE  /\ Weighs(Worst({Strong} \cup {f.verdict : f \in found}), found)
         /\ Worst({Strong} \cup {f.verdict : f \in found}) # Ungraded
         /\ \A v : found # {} /\ Weighs(v, found) => v = Worst({f.verdict : f \in found})
<1> DEFINE V == {f.verdict : f \in found}
<1>1. V \subseteq {Weak, Insecure}
  BY OneFindingOfARule
<1>2. {Strong} \cup V \in SUBSET Verdict /\ V \in SUBSET Verdict
  BY <1>1 DEF Verdict, Strong, Weak, Insecure, Ungraded
<1> DEFINE w == Worst({Strong} \cup V)
<1>3. w \in V \cup {Strong, Ungraded} /\ Strong <= w /\ \A v \in V : v <= w
  BY <1>2, WorstIsTheWorst
<1>4. V # {} => w \in V
  <2> HIDE DEF V, w
  <2>1. \A v \in V : v \in {Weak, Insecure} /\ v <= w
    BY <1>1, <1>3
  <2> QED
    BY <1>3, <2>1 DEF Strong, Weak, Insecure, Ungraded
<1>5. w # Ungraded
  <2> HIDE DEF w
  <2> QED
    BY <1>3 DEF Strong, Ungraded
<1>6. Weighs(w, found)
  <2>1. w \in Verdict
    BY <1>2, <1>3 DEF Verdict, Strong, Ungraded, Insecure
  <2>2. \A f \in found : f.verdict <= w
    BY <1>3
  <2>3. found # {} => \E f \in found : w = f.verdict
    <3>1. found # {} => w \in V
      BY <1>4
    <3> HIDE DEF w
    <3> QED
      BY <3>1
  <2>4. found = {} => w \in {Strong, Ungraded}
    <3>1. found = {} => V = {}
      OBVIOUS
    <3> HIDE DEF w, V
    <3> QED
      BY <1>3, <3>1
  <2> HIDE DEF w
  <2> QED
    BY <2>1, <2>2, <2>3, <2>4 DEF Weighs
<1>7. ASSUME NEW v, found # {}, Weighs(v, found) PROVE v = Worst(V)
  <2>1. v \in V /\ \A u \in V : u <= v
    BY <1>7 DEF Weighs
  <2>2. Worst(V) \in V \cup {Ungraded} /\ \A u \in V : u <= Worst(V)
    BY <1>2, WorstIsTheWorst
  <2> DEFINE u == Worst(V)
  <2>3. v <= u /\ u \in V \cup {Ungraded} /\ (u \in V => u <= v)
    BY <2>1, <2>2
  <2>4. v \in {Weak, Insecure} /\ u \in {Weak, Insecure, Ungraded}
    BY <1>1, <2>1, <2>3
  <2> HIDE DEF u, V
  <2>5. u \in V
    BY <2>3, <2>4 DEF Weak, Insecure, Ungraded
  <2>6. v = u
    BY <2>3, <2>4, <2>5 DEF Weak, Insecure, Ungraded
  <2> QED
    BY <2>6 DEF u
<1> QED
  BY <1>5, <1>6, <1>7

\* Two bodies of findings that were weighed weigh together the worse of the two.
LEMMA WeighedTogether ==
  ASSUME NEW v, NEW w, NEW found, NEW more, Weighs(v, found), Weighs(w, more),
         \A f \in found \cup more : IsFinding(f)
  PROVE  /\ Weighs(Worst({v, w}), found \cup more)
         /\ Worst({v, w}) = Ungraded => v = Ungraded /\ w = Ungraded
<1> DEFINE u == Worst({v, w})
<1>1. v \in Verdict /\ w \in Verdict
  BY DEF Weighs
<1>2. u \in {v, w, Ungraded} /\ v <= u /\ w <= u
  BY <1>1, WorstIsTheWorst
<1>3. \A f \in found \cup more : f.verdict \in {Weak, Insecure}
  BY OneFindingOfARule
<1> HIDE DEF u
<1>4. u \in Verdict
  BY <1>1, <1>2 DEF Verdict, Ungraded, Insecure
<1>5. u \in {v, w}
  BY <1>1, <1>2 DEF Verdict, Ungraded, Insecure
<1>6. \A f \in found \cup more : f.verdict <= u
  <2>1. \A f \in found : f.verdict <= v
    BY DEF Weighs
  <2>2. \A f \in more : f.verdict <= w
    BY DEF Weighs
  <2> QED
    BY <1>1, <1>2, <1>3, <1>4, <2>1, <2>2 DEF Verdict, Weak, Insecure, Ungraded
<1>7. found \cup more # {} => \E f \in found \cup more : u = f.verdict
  <2>1. SUFFICES ASSUME NEW g \in found \cup more PROVE \E f \in found \cup more : u = f.verdict
    OBVIOUS
  <2>2. u # Strong /\ u # Ungraded
    BY <1>3, <1>4, <1>6 DEF Verdict, Strong, Weak, Insecure, Ungraded
  <2>3. CASE u = v
    BY <2>2, <2>3 DEF Weighs
  <2>4. CASE u = w
    BY <2>2, <2>4 DEF Weighs
  <2> QED
    BY <1>5, <2>3, <2>4
<1>8. found \cup more = {} => u \in {Strong, Ungraded}
  BY <1>5 DEF Weighs
<1>9. Weighs(u, found \cup more)
  BY <1>4, <1>6, <1>7, <1>8 DEF Weighs
<1>10. u = Ungraded => v = Ungraded /\ w = Ungraded
  BY <1>1, <1>2 DEF Verdict, Ungraded, Insecure
<1> QED
  BY <1>9, <1>10 DEF u

(***************************************************************************)
(* The scan (scan.go): its verdict is at every stage that of the findings, *)
(* and Ungraded only where nothing was completed.                          *)
(***************************************************************************)

\* What the report amounts to when it is settled.
Settled ==
  /\ verdict = IF shownFindings = {} THEN IF report.complete THEN Strong ELSE Ungraded
               ELSE Worst({f.verdict : f \in shownFindings})
  /\ verdict = Strong => "ciphers" \in coverage
Weighing == {"certificate", "stapling", "issuance", "settle"}
Before == {"begin", "probe", "refused", "failed"}
RevocationHasAChain == "revocation" \in coverage => "chain" \in coverage

ScanInv ==
  /\ scanStage \in ScanStages /\ aimed \in Typed /\ scannedAt \in ScanTimes /\ report \in Reports /\ verdict \in Verdict
  /\ \A f \in shownFindings : IsFinding(f)
  /\ scanStage \in Before => verdict = Ungraded /\ shownFindings = {}
  /\ scanStage \in Weighing => Weighs(verdict, shownFindings) /\ (verdict = Ungraded => ~report.complete)
  /\ scanStage = "certificate" => report.chain # <<>>
  /\ scanStage = "done" => Settled
  /\ RevocationHasAChain

\* A scan begins with no verdict.
LEMMA InitiallyScanInv == ScanInit => ScanInv
<1> SUFFICES ASSUME ScanInit PROVE ScanInv
  OBVIOUS
<1>1. verdict \in Verdict
  BY DEF ScanInit, Verdict, Ungraded, Insecure
<1> QED
  BY <1>1 DEF ScanInit, ScanInv, ScanStages, Weighing, RevocationHasAChain

\* What was typed is taken or refused.
LEMMA ResolveScans == ScanInv /\ Resolve => ScanInv'
<1> SUFFICES ASSUME ScanInv, Resolve PROVE ScanInv'
  OBVIOUS
<1>1. /\ scanStage = "begin" /\ scanStage' \in {"refused", "probe"}
      /\ aimed' = aimed /\ scannedAt' = scannedAt /\ report' = report /\ shownFindings' = shownFindings
      /\ verdict' = verdict /\ coverage' = coverage
  BY Zenon DEF Resolve
<1> QED
  BY <1>1 DEF ScanInv, ScanStages, Before, Weighing, RevocationHasAChain

\* The report of the probe is what is shown of it.
LEMMA ProbeScans == ScanInv /\ Probe => ScanInv'
<1> SUFFICES ASSUME ScanInv, Probe PROVE ScanInv'
  OBVIOUS
<1>1. /\ scanStage = "probe" /\ aimed' = aimed /\ scannedAt' = scannedAt /\ report' = report /\ coverage' = coverage
      /\ verdict = Ungraded /\ shownFindings = {} /\ report \in Reports
  BY DEF Probe, ScanInv, Before
<1>2. CASE scanStage' = "failed" /\ shownFindings' = shownFindings /\ verdict' = verdict
  BY <1>1, <1>2 DEF ScanInv, ScanStages, Before, Weighing, RevocationHasAChain
<1>3. CASE /\ shownFindings' \in Collect(shownFindings, report.findings)
           /\ verdict' = TlsVerdict(report)
           /\ scanStage' = IF report.chain = <<>> THEN "issuance" ELSE "certificate"
  <2>1. \A f \in report.findings : IsFinding(f)
    BY <1>1 DEF IsFinding, GivenFindings
  <2>2. shownFindings' = report.findings
    BY <1>1, <1>3, <2>1, AllIsShown
  <2>3. Weighs(verdict', report.findings) /\ (verdict' = Ungraded => ~report.complete)
    <3>1. CASE ~report.complete /\ report.findings = {}
      <4>1. verdict' = Ungraded
        BY <1>3, <3>1 DEF TlsVerdict
      <4> QED
        BY <3>1, <4>1 DEF Weighs, Verdict, Ungraded, Insecure
    <3>2. CASE ~(~report.complete /\ report.findings = {})
      <4>1. verdict' = Worst({Strong} \cup {f.verdict : f \in report.findings})
        BY <1>3, <3>2 DEF TlsVerdict
      <4> QED
        BY <2>1, <4>1, WorstWeighs
    <3> QED
      BY <3>1, <3>2
  <2> HIDE DEF Weighs
  <2>4. verdict' \in Verdict
    BY <2>3 DEF Weighs
  <2> QED
    BY <1>1, <1>3, <2>1, <2>2, <2>3, <2>4 DEF ScanInv, ScanStages, Before, Weighing, RevocationHasAChain
<1> QED
  BY <1>2, <1>3 DEF Probe

\* A chain is graded with the worst of its findings.
LEMMA ChainIsGraded ==
  ASSUME NEW c \in Seq(Certs), c # <<>>, NEW host, NEW now \in Int
  PROVE  /\ Weighs(ChainVerdict(c, host, now), ChainFindings(c, host, now))
         /\ ChainVerdict(c, host, now) # Ungraded
         /\ \A f \in ChainFindings(c, host, now) : IsFinding(f)
<1>1. \A f \in ChainFindings(c, host, now) : IsFinding(f)
  BY ChainIsWeighed DEF IsFinding
<1> QED
  BY <1>1, WorstWeighs DEF ChainVerdict

\* The chains are weighed beside it, the one that was sent and the others that were seen.
LEMMA AnalyseScans == ScanInv /\ Analyse => ScanInv'
<1> SUFFICES ASSUME ScanInv, Analyse PROVE ScanInv'
  OBVIOUS
<1> DEFINE CF(c) == ChainFindings(c, aimed.host, scannedAt)
           CV(c) == ChainVerdict(c, aimed.host, scannedAt)
           All == Readable \cup {report.chain}
           found == UNION {CF(c) : c \in All}
           V == {verdict} \cup {CV(c) : c \in All}
<1>1. /\ scanStage = "certificate" /\ aimed' = aimed /\ scannedAt' = scannedAt /\ report' = report
      /\ coverage' = coverage /\ scanStage' = "stapling"
      /\ verdict' = Worst(V)
      /\ \E first \in Collect(shownFindings, CF(report.chain)) :
           shownFindings' \in Collect(first, UNION {CF(c) : c \in Readable})
  BY DEF Analyse
<1>2. /\ Weighs(verdict, shownFindings) /\ (verdict = Ungraded => ~report.complete)
      /\ \A f \in shownFindings : IsFinding(f)
      /\ report \in Reports /\ report.chain # <<>> /\ scannedAt \in Int
  BY <1>1, ScanFacts DEF ScanInv, Weighing
<1>3. \A c \in All : c \in Seq(Certs) /\ c # <<>>
  BY <1>2, ScanFacts DEF Readable
<1>4. \A c \in All : Weighs(CV(c), CF(c)) /\ CV(c) # Ungraded /\ \A f \in CF(c) : IsFinding(f)
  BY <1>2, <1>3, ChainIsGraded
<1> HIDE DEF CF, CV
<1>5. shownFindings' = shownFindings \cup found
  <2>1. PICK first \in Collect(shownFindings, CF(report.chain)) :
          shownFindings' \in Collect(first, UNION {CF(c) : c \in Readable})
    BY <1>1
  <2>2. \A f \in shownFindings \cup CF(report.chain) : IsFinding(f)
    BY <1>2, <1>4
  <2>3. first = shownFindings \cup CF(report.chain)
    BY <2>2, AllIsShown
  <2> DEFINE rest == UNION {CF(c) : c \in Readable}
  <2>4. \A f \in first \cup rest : IsFinding(f)
    BY <1>4, <2>2, <2>3
  <2>5. shownFindings' = first \cup rest
    <3> HIDE DEF rest
    <3>1. shownFindings' \in Collect(first, rest)
      BY <2>1 DEF rest
    <3> QED
      BY <2>4, <3>1, AllIsShown
  <2>6. found = CF(report.chain) \cup rest
    OBVIOUS
  <2> QED
    BY <2>3, <2>5, <2>6
<1>6. \A f \in shownFindings' : IsFinding(f)
  BY <1>2, <1>4, <1>5
<1>7. V \in SUBSET Verdict
  BY <1>2, <1>4 DEF Weighs
<1>8. Worst(V) \in V \cup {Ungraded} /\ \A v \in V : v <= Worst(V)
  BY <1>7, WorstIsTheWorst
<1> DEFINE w == Worst(V)
<1>9. w # Ungraded /\ w \in V
  <2>1. CV(report.chain) \in Verdict /\ CV(report.chain) # Ungraded /\ CV(report.chain) <= w
    BY <1>4, <1>8 DEF Weighs
  <2>2. w \in V \cup {Ungraded}
    BY <1>8
  <2> HIDE DEF w
  <2>3. w # Ungraded
    BY <2>1 DEF Verdict, Ungraded, Insecure
  <2> QED
    BY <2>2, <2>3
<1>10. Weighs(w, shownFindings \cup found)
  <2>1. \A f \in shownFindings \cup found : f.verdict \in {Weak, Insecure}
    <3>1. \A f \in shownFindings \cup found : IsFinding(f)
      BY <1>5, <1>6
    <3> HIDE DEF found
    <3> QED
      BY <3>1, OneFindingOfARule
  <2>2. w \in Verdict
    BY <1>7, <1>9
  <2>3. \A f \in shownFindings \cup found : f.verdict <= w
    <3>1. ASSUME NEW f \in shownFindings \cup found PROVE \E v \in V : f.verdict <= v
      BY <1>2, <1>4 DEF Weighs
    <3>2. V \subseteq Verdict /\ \A v \in V : v <= w
      BY <1>7, <1>8
    <3> HIDE DEF V, w, found
    <3> QED
      BY <2>1, <2>2, <3>1, <3>2 DEF Verdict, Weak, Insecure, Ungraded
  <2>4. \A f \in shownFindings \cup found : w # Strong
    <3> HIDE DEF w, found
    <3> QED
      BY <2>1, <2>2, <2>3 DEF Verdict, Strong, Weak, Insecure, Ungraded
  <2>5. shownFindings \cup found # {} => \E f \in shownFindings \cup found : w = f.verdict
    <3>1. SUFFICES ASSUME shownFindings \cup found # {} PROVE \E f \in shownFindings \cup found : w = f.verdict
      OBVIOUS
    <3>2. w \notin {Strong, Ungraded}
      BY <1>9, <2>4, <3>1
    <3>3. CASE w = verdict
      <4>1. \E f \in shownFindings : verdict = f.verdict
        BY <1>2, <3>2, <3>3 DEF Weighs
      <4> HIDE DEF w, found
      <4> QED
        BY <3>3, <4>1
    <3>4. CASE \E c \in All : w = CV(c)
      <4>1. PICK c \in All : w = CV(c)
        BY <3>4
      <4>2. \E f \in CF(c) : CV(c) = f.verdict
        BY <1>4, <3>2, <4>1 DEF Weighs
      <4>3. CF(c) \subseteq found
        OBVIOUS
      <4> HIDE DEF w, found
      <4> QED
        BY <4>1, <4>2, <4>3
    <3>5. w = verdict \/ \E c \in All : w = CV(c)
      BY <1>9
    <3> QED
      BY <3>3, <3>4, <3>5
  <2>6. shownFindings \cup found = {} => w \in {Strong, Ungraded}
    <3>1. SUFFICES ASSUME shownFindings = {}, \A c \in All : CF(c) = {} PROVE w \in {Strong, Ungraded}
      OBVIOUS
    <3>2. verdict \in {Strong, Ungraded}
      BY <1>2, <3>1 DEF Weighs
    <3>3. \A c \in All : CV(c) \in {Strong, Ungraded}
      BY <1>4, <3>1 DEF Weighs
    <3>4. w \in V
      BY <1>9
    <3> HIDE DEF w
    <3> QED
      BY <3>2, <3>3, <3>4
  <2> HIDE DEF w, found
  <2> QED
    BY <2>2, <2>3, <2>5, <2>6 DEF Weighs
<1> HIDE DEF w, found, V
<1>11. Weighs(verdict', shownFindings') /\ verdict' # Ungraded /\ verdict' \in Verdict
  BY <1>1, <1>5, <1>9, <1>10 DEF w, Weighs
<1> QED
  BY <1>1, <1>6, <1>11 DEF ScanInv, ScanStages, Before, Weighing, RevocationHasAChain

\* So is what was stapled.
LEMMA GradeRevocationScans == ScanInv /\ GradeRevocation => ScanInv'
<1> SUFFICES ASSUME ScanInv, GradeRevocation PROVE ScanInv'
  OBVIOUS
<1>1. /\ scanStage = "stapling" /\ scanStage' = "issuance"
      /\ aimed' = aimed /\ scannedAt' = scannedAt /\ report' = report
  BY DEF GradeRevocation
<1>2. PICK new \in Staplings :
        /\ shownFindings' \in Collect(shownFindings, new)
        /\ verdict' = Worst({verdict, Strong} \cup {f.verdict : f \in new})
        /\ "chain" \in coverage'
  BY Zenon DEF GradeRevocation
<1>3. /\ Weighs(verdict, shownFindings) /\ (verdict = Ungraded => ~report.complete)
      /\ \A f \in shownFindings : IsFinding(f)
  BY <1>1 DEF ScanInv, Weighing
<1>4. \A f \in new : IsFinding(f)
  BY DEF IsFinding, GivenFindings
<1>5. shownFindings' = shownFindings \cup new
  BY <1>2, <1>3, <1>4, AllIsShown
<1> DEFINE s == Worst({Strong} \cup {f.verdict : f \in new})
<1>6. Weighs(s, new) /\ s # Ungraded
  BY <1>4, WorstWeighs
<1>7. verdict' = Worst({verdict, s})
  <2> DEFINE V == {f.verdict : f \in new}
             a == Worst({verdict, Strong} \cup V)
             b == Worst({verdict, s})
  <2>1. V \subseteq {Weak, Insecure}
    BY <1>4, OneFindingOfARule
  <2>2. verdict \in Verdict /\ s \in Verdict
    BY <1>3, <1>6 DEF Weighs
  <2>3. /\ {verdict, Strong} \cup V \in SUBSET Verdict /\ {Strong} \cup V \in SUBSET Verdict
        /\ {verdict, s} \in SUBSET Verdict
    BY <2>1, <2>2 DEF Verdict, Strong, Weak, Insecure, Ungraded
  <2>4. /\ a \in V \cup {verdict, Strong, Ungraded} /\ verdict <= a /\ Strong <= a /\ \A v \in V : v <= a
    BY <2>3, WorstIsTheWorst
  <2>5. /\ s \in V \cup {Strong, Ungraded} /\ Strong <= s /\ \A v \in V : v <= s
    BY <2>3, WorstIsTheWorst
  <2>6. /\ b \in {verdict, s, Ungraded} /\ verdict <= b /\ s <= b
    BY <2>3, WorstIsTheWorst
  <2> HIDE DEF a, b, s, V
  <2>7. a \in Verdict /\ b \in Verdict /\ s \in V \cup {Strong}
    BY <2>1, <2>2, <2>4, <2>5, <2>6 DEF Verdict, Strong, Weak, Insecure, Ungraded
  <2>8. a <= b
    BY <2>1, <2>2, <2>4, <2>5, <2>6, <2>7 DEF Verdict, Strong, Weak, Insecure, Ungraded
  <2>9. b <= a
    BY <2>1, <2>2, <2>4, <2>5, <2>6, <2>7 DEF Verdict, Strong, Weak, Insecure, Ungraded
  <2>10. a = b
    BY <2>7, <2>8, <2>9 DEF Verdict, Insecure, Ungraded
  <2> QED
    BY <1>2, <2>10 DEF a, b, V
<1> HIDE DEF s
<1>8. Weighs(verdict', shownFindings') /\ verdict' # Ungraded
  <2>1. \A f \in shownFindings \cup new : IsFinding(f)
    BY <1>3, <1>4
  <2> QED
    BY <1>3, <1>5, <1>6, <1>7, <2>1, WeighedTogether
<1>9. \A f \in shownFindings' : IsFinding(f)
  BY <1>3, <1>4, <1>5
<1>10. verdict' \in Verdict
  BY <1>8 DEF Weighs
<1> QED
  BY <1>1, <1>2, <1>8, <1>9, <1>10 DEF ScanInv, ScanStages, Before, Weighing, RevocationHasAChain

\* What may be issued is coverage, and no verdict.
LEMMA CheckIssuanceScans == ScanInv /\ CheckIssuance => ScanInv'
<1> SUFFICES ASSUME ScanInv, CheckIssuance PROVE ScanInv'
  OBVIOUS
<1>1. /\ scanStage = "issuance" /\ scanStage' = "settle"
      /\ aimed' = aimed /\ scannedAt' = scannedAt /\ report' = report /\ shownFindings' = shownFindings
      /\ verdict' = verdict /\ coverage' \in {coverage, coverage \cup {"issuance"}}
  BY DEF CheckIssuance
<1>2. /\ Weighs(verdict, shownFindings) /\ (verdict = Ungraded => ~report.complete)
      /\ RevocationHasAChain
  BY <1>1 DEF ScanInv, Weighing
<1>3. RevocationHasAChain'
  BY <1>1, <1>2 DEF RevocationHasAChain
<1> QED
  BY <1>1, <1>2, <1>3 DEF ScanInv, ScanStages, Before, Weighing

\* And in the end Strong is not said over a list that was cut short.
LEMMA SettleScans == ScanInv /\ SettleScan => ScanInv'
<1> SUFFICES ASSUME ScanInv, SettleScan PROVE ScanInv'
  OBVIOUS
<1>1. /\ scanStage = "settle" /\ scanStage' = "done"
      /\ aimed' = aimed /\ scannedAt' = scannedAt /\ report' = report /\ shownFindings' = shownFindings
      /\ verdict' = IF verdict = Strong /\ ~report.complete THEN Ungraded ELSE verdict
      /\ coverage' = IF report.complete THEN coverage \cup {"ciphers"} ELSE coverage
  BY DEF SettleScan
<1>2. /\ Weighs(verdict, shownFindings) /\ (verdict = Ungraded => ~report.complete)
      /\ RevocationHasAChain /\ \A f \in shownFindings : IsFinding(f)
  BY <1>1 DEF ScanInv, Weighing
<1>3. RevocationHasAChain'
  BY <1>1, <1>2 DEF RevocationHasAChain
<1>4. Settled'
  <2>1. CASE shownFindings = {}
    <3>1. verdict \in {Strong, Ungraded}
      BY <1>2, <2>1 DEF Weighs
    <3> QED
      BY <1>1, <1>2, <2>1, <3>1 DEF Settled, Strong, Ungraded
  <2>2. CASE shownFindings # {}
    <3>1. verdict = Worst({f.verdict : f \in shownFindings})
      BY <1>2, <2>2, WorstWeighs
    <3>2. verdict \in {Weak, Insecure}
      BY <1>2, <2>2, OneFindingOfARule DEF Weighs
    <3>3. verdict # Strong
      BY <3>2 DEF Strong, Weak, Insecure
    <3>4. verdict' = verdict
      BY <1>1, <3>3
    <3> QED
      BY <1>1, <2>2, <3>1, <3>3, <3>4 DEF Settled
  <2> QED
    BY <2>1, <2>2
<1>5. verdict' \in Verdict
  BY <1>1 DEF ScanInv, Verdict, Ungraded, Insecure
<1> QED
  BY <1>1, <1>2, <1>3, <1>4, <1>5 DEF ScanInv, ScanStages, Before, Weighing

\* Every step of the scan keeps that.
LEMMA ScanStep == ScanInv /\ [ScanNext]_scanVars => ScanInv'
<1> SUFFICES ASSUME ScanInv, [ScanNext]_scanVars PROVE ScanInv'
  OBVIOUS
<1>1. CASE UNCHANGED scanVars
  BY <1>1 DEF scanVars, ScanInv, Settled, RevocationHasAChain
<1> QED
  BY <1>1, ResolveScans, ProbeScans, AnalyseScans, GradeRevocationScans, CheckIssuanceScans, SettleScans, Zenon
     DEF ScanNext

\* The verdict is of the findings, and trust of no time.
LEMMA ScanInvIsEnough == ScanInv => VerdictIsOfTheFindings /\ ScanTypeOK
<1> SUFFICES ASSUME ScanInv PROVE VerdictIsOfTheFindings /\ ScanTypeOK
  OBVIOUS
<1>1. ASSUME scanStage = "certificate", NEW c \in Readable \cup {report.chain}
      PROVE  TrustIgnoresTheClock(c, ScanTimes)
  <2>1. c \in Seq(Certs) /\ c # <<>> /\ ScanTimes \in SUBSET Int
    BY <1>1, ScanFacts DEF ScanInv, Readable
  <2> QED
    BY <2>1, TrustHasNoClock
<1>2. scanStage \in {"refused", "failed"} => verdict = Ungraded /\ shownFindings = {}
  BY DEF ScanInv, Before
<1>3. scanStage = "done" => Settled /\ RevocationHasAChain
  BY DEF ScanInv
<1>4. VerdictIsOfTheFindings
  BY <1>1, <1>2, <1>3 DEF VerdictIsOfTheFindings, Settled, RevocationHasAChain
<1>5. ScanTypeOK
  BY OneFindingOfARule DEF ScanInv, ScanTypeOK
<1> QED
  BY <1>4, <1>5

\* The verdict of a scan is the worst of every finding it shows, Strong only if there is
\* none and every list was read to its end; and whom the stores trust does not depend on
\* when the chain expires (scan.go: settle; certinfo.go, rootstores.go).
THEOREM VerdictsAreOfFindings == ScanSpec => []VerdictIsOfTheFindings
<1>1. ScanSpec => []ScanInv
  BY InitiallyScanInv, ScanStep, PTL DEF ScanSpec
<1> QED
  BY <1>1, ScanInvIsEnough, PTL

(***************************************************************************)
(* The dialler (safedial.go): what it dialled is at every turn what may be *)
(* dialled of the part of the list it has gone through.                    *)
(***************************************************************************)

\* What holds of 0, and of the next number whenever of one, holds of every number.
LEMMA EveryNumber ==
  ASSUME NEW P, 0 \in P, \A n \in Nat : n \in P => n + 1 \in P
  PROVE  Nat \subseteq P
<1> DEFINE T == Nat \ P
           R == OpToRel(<, Nat)
<1>1. IsWellFoundedOn(R, Nat)
  BY NatLessThanWellFounded
<1>2. \A x, y \in Nat : x < y => <<x, y>> \in R
  BY DEF OpToRel
<1>3. SUFFICES ASSUME T # {} PROVE FALSE
  OBVIOUS
<1>4. \E x \in T : \A y \in T : <<y, x>> \notin R
  <2>1. T \subseteq Nat
    OBVIOUS
  <2> HIDE DEF T, R
  <2> QED
    BY <1>1, <1>3, <2>1, WFMin
<1>5. PICK x \in T : \A y \in T : ~(y < x)
  <2> HIDE DEF R
  <2> QED
    BY <1>2, <1>4
<1>6. x \in Nat \ {0}
  OBVIOUS
<1>7. x - 1 \in Nat /\ x - 1 < x /\ (x - 1) + 1 = x
  BY ONLY <1>6
<1>8. x - 1 \in T
  BY ONLY <1>5, <1>7, \A n \in Nat : n \in P => n + 1 \in P
<1> QED
  BY <1>5, <1>7, <1>8

\* Reading a list one after another: nothing at first, then each of the set is added.
ReadOn(s, S, n, before) == IF n = 0 THEN <<>> ELSE IF s[n] \in S THEN Append(before, s[n]) ELSE before

\* That is how what is chosen of a list comes about.
LEMMA ChosenSteps ==
  ASSUME NEW T, NEW s \in Seq(T), NEW S
  PROVE  /\ Chosen(s, S)[0] = <<>>
         /\ \A n \in 1 .. Len(s) : Chosen(s, S)[n] =
              IF s[n] \in S THEN Append(Chosen(s, S)[n - 1], s[n]) ELSE Chosen(s, S)[n - 1]
<1> DEFINE Reads(g, m) == g = [n \in 0 .. m |-> ReadOn(s, S, n, g[n - 1])]
           P == {m \in Nat : \E g : Reads(g, m)}
<1>1. 0 \in P
  <2>1. Reads([n \in 0 .. 0 |-> <<>>], 0)
    BY DEF ReadOn
  <2> QED
    BY <2>1
<1>2. ASSUME NEW m \in Nat, m \in P PROVE m + 1 \in P
  <2>1. PICK g : Reads(g, m)
    BY <1>2
  <2> DEFINE h == [n \in 0 .. m + 1 |-> IF n <= m THEN g[n] ELSE ReadOn(s, S, n, g[n - 1])]
  <2>2. ASSUME NEW n \in 0 .. m + 1 PROVE h[n] = ReadOn(s, S, n, h[n - 1])
    <3>1. CASE n = 0
      BY <2>1, <3>1 DEF ReadOn
    <3>2. CASE n \in 1 .. m
      <4>1. n - 1 \in 0 .. m /\ n \in 0 .. m /\ n <= m /\ n - 1 <= m /\ n - 1 \in 0 .. m + 1
        BY <3>2
      <4>2. h[n - 1] = g[n - 1] /\ h[n] = g[n]
        BY <4>1
      <4>3. g[n] = ReadOn(s, S, n, g[n - 1])
        <5> HIDE DEF h
        <5> QED
          BY <2>1, <4>1
      <4> QED
        BY <4>2, <4>3
    <3>3. CASE n = m + 1
      <4>1. n - 1 \in 0 .. m + 1 /\ n - 1 <= m /\ ~(n <= m)
        BY <3>3
      <4>2. h[n - 1] = g[n - 1] /\ h[n] = ReadOn(s, S, n, g[n - 1])
        BY <4>1
      <4> QED
        BY <4>2
    <3> QED
      BY <3>1, <3>2, <3>3
  <2>3. h = [n \in 0 .. m + 1 |-> h[n]]
    OBVIOUS
  <2>4. Reads(h, m + 1)
    <3> HIDE DEF h
    <3> QED
      BY <2>2, <2>3
  <2>5. \E f : Reads(f, m + 1)
    <3> HIDE DEF h, Reads
    <3> QED
      BY <2>4
  <2> HIDE DEF Reads, h
  <2> QED
    BY <2>5
<1>3. Len(s) \in P
  <2> HIDE DEF P
  <2>1. Nat \subseteq P
    BY <1>1, <1>2, EveryNumber
  <2> QED
    BY <2>1
<1>4. Chosen(s, S) = [n \in 0 .. Len(s) |-> ReadOn(s, S, n, Chosen(s, S)[n - 1])]
  <2>1. \E g : Reads(g, Len(s))
    BY <1>3
  <2>2. Chosen(s, S) = CHOOSE g : Reads(g, Len(s))
    BY DEF Chosen, ReadOn
  <2>3. Reads(Chosen(s, S), Len(s))
    <3> DEFINE C == Chosen(s, S)
    <3> HIDE DEF C
    <3>1. C = CHOOSE g : Reads(g, Len(s))
      BY <2>2 DEF C
    <3> HIDE DEF Reads
    <3> QED
      BY <2>1, <3>1 DEF C
  <2> QED
    BY <2>3
<1>5. 0 \in 0 .. Len(s) /\ \A n \in 1 .. Len(s) : n \in 0 .. Len(s) /\ n # 0
  OBVIOUS
<1>6. \A n \in 0 .. Len(s) : Chosen(s, S)[n] = ReadOn(s, S, n, Chosen(s, S)[n - 1])
  BY ONLY <1>4
<1> QED
  BY ONLY <1>5, <1>6 DEF ReadOn

\* What is chosen of the first n of a list are the elements of the set among them.
ChosenTo(T, s, S, n) ==
  /\ Chosen(s, S)[n] \in Seq(T \cap S) /\ Len(Chosen(s, S)[n]) <= n
  /\ \A i \in 1 .. n : s[i] \in S => \E j \in DOMAIN Chosen(s, S)[n] : Chosen(s, S)[n][j] = s[i]

\* That is what reading it one after another comes to.
LEMMA ChosenIsChosen ==
  ASSUME NEW T, NEW s \in Seq(T), NEW S
  PROVE  \A n \in 0 .. Len(s) : ChosenTo(T, s, S, n)
<1> DEFINE C == Chosen(s, S)
           Good(n) == /\ C[n] \in Seq(T \cap S) /\ Len(C[n]) <= n
                      /\ \A i \in 1 .. n : s[i] \in S => \E j \in DOMAIN C[n] : C[n][j] = s[i]
           P == {n \in Nat : n <= Len(s) => Good(n)}
<1>1. /\ C[0] = <<>>
      /\ \A n \in 1 .. Len(s) : C[n] = IF s[n] \in S THEN Append(C[n - 1], s[n]) ELSE C[n - 1]
  BY ChosenSteps
<1> HIDE DEF C
<1>2. 0 \in P
  <2>1. C[0] \in Seq(T \cap S) /\ Len(C[0]) = 0
    BY <1>1
  <2>2. \A i \in 1 .. 0 : FALSE
    OBVIOUS
  <2> QED
    BY <2>1, <2>2
<1>3. ASSUME NEW n \in Nat, n \in P PROVE n + 1 \in P
  <2> SUFFICES ASSUME n + 1 <= Len(s) PROVE Good(n + 1)
    OBVIOUS
  <2>1. Good(n) /\ n + 1 \in 1 .. Len(s) /\ (n + 1) - 1 = n
    BY <1>3
  <2>2. CASE s[n + 1] \in S
    <3>1. C[n + 1] = Append(C[n], s[n + 1])
      BY <1>1, <2>1, <2>2
    <3>2. s[n + 1] \in T \cap S
      BY <2>1, <2>2
    <3>3. C[n + 1] \in Seq(T \cap S) /\ Len(C[n + 1]) = Len(C[n]) + 1
      BY <2>1, <3>1, <3>2
    <3>4. \A j \in DOMAIN C[n] : j \in DOMAIN C[n + 1] /\ C[n + 1][j] = C[n][j]
      BY <2>1, <3>1, <3>2
    <3>5. Len(C[n]) + 1 \in DOMAIN C[n + 1] /\ C[n + 1][Len(C[n]) + 1] = s[n + 1]
      BY <2>1, <3>1, <3>2
    <3>6. ASSUME NEW i \in 1 .. n + 1, s[i] \in S PROVE \E j \in DOMAIN C[n + 1] : C[n + 1][j] = s[i]
      BY <2>1, <3>4, <3>5, <3>6
    <3> QED
      BY <2>1, <3>3, <3>6
  <2>3. CASE s[n + 1] \notin S
    <3>1. C[n + 1] = C[n]
      BY <1>1, <2>1, <2>3
    <3>2. C[n + 1] \in Seq(T \cap S) /\ Len(C[n + 1]) <= n + 1
      BY <2>1, <3>1
    <3>3. ASSUME NEW i \in 1 .. n + 1, s[i] \in S PROVE \E j \in DOMAIN C[n + 1] : C[n + 1][j] = s[i]
      <4>1. i # n + 1
        BY <2>3, <3>3
      <4>2. i \in 1 .. n
        BY ONLY <4>1, i \in 1 .. n + 1, n \in Nat
      <4> QED
        BY <2>1, <3>1, <3>3, <4>2
    <3> QED
      BY <3>2, <3>3
  <2> QED
    BY <2>2, <2>3
<1>4. Nat \subseteq P
  <2> HIDE DEF P
  <2> QED
    BY <1>2, <1>3, EveryNumber
<1>5. \A n \in 0 .. Len(s) : Good(n)
  BY <1>4
<1> QED
  BY <1>5 DEF C, ChosenTo

\* And so of the whole list.
LEMMA OnlyIsOfTheSet ==
  ASSUME NEW T, NEW s \in Seq(T), NEW S
  PROVE  Only(s, S) \in Seq(T \cap S) /\ Only(s, S) \in Seq(T) /\ Len(Only(s, S)) <= Len(s)
<1>1. Len(s) \in 0 .. Len(s)
  OBVIOUS
<1>2. Only(s, S) \in Seq(T \cap S) /\ Len(Only(s, S)) <= Len(s)
  <2>1. \A n \in 0 .. Len(s) : ChosenTo(T, s, S, n)
    BY ChosenIsChosen
  <2> QED
    BY ONLY <1>1, <2>1 DEF Only, ChosenTo
<1>3. Only(s, S) \in Seq(T)
  BY <1>2, SeqMonotonic
<1> QED
  BY <1>2, <1>3

\* And what is public of it is among its public ones.
LEMMA PublicOnes ==
  ASSUME NEW addrs \in Seq(Addresses), NEW i \in 1 .. Len(addrs), addrs[i] \in Public
  PROVE  \E j \in DOMAIN Only(addrs, Public) : Only(addrs, Public)[j] = addrs[i]
<1>1. Len(addrs) \in 0 .. Len(addrs)
  OBVIOUS
<1>2. \A n \in 0 .. Len(addrs) : ChosenTo(Addresses, addrs, Public, n)
  BY ChosenIsChosen
<1>3. ChosenTo(Addresses, addrs, Public, Len(addrs))
  BY <1>1, <1>2
<1> QED
  BY ONLY <1>3, i \in 1 .. Len(addrs), addrs[i] \in Public DEF Only, ChosenTo

\* What is between two places of a list is of the list.
LEMMA PartOfAList ==
  ASSUME NEW T, NEW s, NEW n \in Nat, NEW k \in Nat, n <= k, \A i \in 1 .. k : s[i] \in T
  PROVE  /\ SubSeq(s, n + 1, k) \in Seq(T) /\ Len(SubSeq(s, n + 1, k)) = k - n
         /\ \A i \in 1 .. k - n : SubSeq(s, n + 1, k)[i] = s[n + i]
<1>1. n + 1 \in Int /\ k \in Int /\ \A i \in n + 1 .. k : i \in 1 .. k
  BY ONLY n \in Nat, k \in Nat
<1>2. \A i \in n + 1 .. k : s[i] \in T
  BY <1>1, Zenon
<1>3. /\ SubSeq(s, n + 1, k) \in Seq(T)
      /\ Len(SubSeq(s, n + 1, k)) = IF n + 1 <= k THEN k - (n + 1) + 1 ELSE 0
      /\ \A i \in 1 .. k - (n + 1) + 1 : SubSeq(s, n + 1, k)[i] = s[n + 1 + i - 1]
  BY ONLY <1>1, <1>2, SubSeqProperties
<1> DEFINE r == SubSeq(s, n + 1, k)
<1> HIDE DEF r
<1>4. r \in Seq(T) /\ Len(r) = (IF n + 1 <= k THEN k - (n + 1) + 1 ELSE 0)
      /\ \A i \in 1 .. k - (n + 1) + 1 : r[i] = s[n + 1 + i - 1]
  BY ONLY <1>3 DEF r
<1>5. k - (n + 1) + 1 = k - n /\ (IF n + 1 <= k THEN k - (n + 1) + 1 ELSE 0) = k - n
  BY ONLY n \in Nat, k \in Nat, n <= k
<1>6. \A i \in 1 .. k - n : n + 1 + i - 1 = n + i
  BY ONLY n \in Nat, k \in Nat
<1>7. Len(r) = k - n /\ \A i \in 1 .. k - n : r[i] = s[n + i]
  BY <1>4, <1>5, <1>6, Zenon
<1> QED
  BY <1>4, <1>7, Zenon DEF r

\* So the first so many of a list, and those after them, are of the list.
LEMMA PartsOfAList ==
  ASSUME NEW T, NEW s \in Seq(T), NEW n \in Nat
  PROVE  /\ FirstOf(s, n) \in Seq(T) /\ Len(FirstOf(s, n)) = (IF Len(s) < n THEN Len(s) ELSE n)
         /\ \A i \in 1 .. Len(FirstOf(s, n)) : FirstOf(s, n)[i] = s[i]
         /\ n <= Len(s) => /\ After(s, n) \in Seq(T) /\ Len(After(s, n)) = Len(s) - n
                           /\ \A i \in 1 .. Len(s) - n : After(s, n)[i] = s[n + i]
<1> DEFINE m == IF Len(s) < n THEN Len(s) ELSE n
<1>1. m \in 0 .. Len(s) /\ Len(s) \in Nat
  OBVIOUS
<1>2. \A i \in 1 .. Len(s) : s[i] \in T
  OBVIOUS
<1> HIDE DEF m
<1>3. /\ SubSeq(s, 1, m) \in Seq(T) /\ Len(SubSeq(s, 1, m)) = m
      /\ \A i \in 1 .. m : SubSeq(s, 1, m)[i] = s[i]
  <2>1. m \in Nat /\ 0 <= m /\ \A i \in 1 .. m : s[i] \in T
    BY <1>1, <1>2
  <2>2. /\ SubSeq(s, 0 + 1, m) \in Seq(T) /\ Len(SubSeq(s, 0 + 1, m)) = m - 0
        /\ \A i \in 1 .. m - 0 : SubSeq(s, 0 + 1, m)[i] = s[0 + i]
    BY ONLY <2>1, 0 \in Nat, PartOfAList
  <2>3. 0 + 1 = 1 /\ m - 0 = m /\ \A i \in 1 .. m : 0 + i = i
    BY ONLY <2>1
  <2> QED
    BY ONLY <2>2, <2>3, Zenon
<1>4. n <= Len(s) => /\ SubSeq(s, n + 1, Len(s)) \in Seq(T) /\ Len(SubSeq(s, n + 1, Len(s))) = Len(s) - n
                     /\ \A i \in 1 .. Len(s) - n : SubSeq(s, n + 1, Len(s))[i] = s[n + i]
  BY ONLY <1>1, <1>2, n \in Nat, PartOfAList
<1> QED
  BY <1>3, <1>4 DEF FirstOf, After, m

\* A list that is cut is of the name's addresses, no more than the limit, and has
\* of either family the first half of the limit.
LEMMA EitherFamilyHasItsHalf ==
  ASSUME NEW addrs \in Seq(Addresses)
  PROVE  /\ InterleaveFamilies(addrs) \in Seq(Addresses) /\ Len(InterleaveFamilies(addrs)) <= Limit
         /\ Len(addrs) <= Limit => InterleaveFamilies(addrs) = addrs
         /\ Len(addrs) > Limit =>
              \A f \in Families : \A i \in 1 .. Len(FirstOf(OfFamily(f, addrs), Limit \div 2)) :
                \E j \in DOMAIN InterleaveFamilies(addrs) :
                  InterleaveFamilies(addrs)[j] = FirstOf(OfFamily(f, addrs), Limit \div 2)[i]
<1> DEFINE v4 == OfFamily("IPv4", addrs)
           v6 == OfFamily("IPv6", addrs)
           pairs == IF Len(v4) < Len(v6) THEN Len(v4) ELSE Len(v6)
           half == Limit \div 2
           alternating == [i \in 1 .. 2 * pairs |-> IF i % 2 = 1 THEN v4[(i + 1) \div 2] ELSE v6[i \div 2]]
           long == alternating \o After(v4, pairs) \o After(v6, pairs)
<1>1. Limit \in Nat \ {0} /\ half \in Nat /\ 2 * half <= Limit
  BY DialAssumption
<1>2. v4 \in Seq(Addresses) /\ v6 \in Seq(Addresses)
  BY OnlyIsOfTheSet DEF OfFamily
<1>3. InterleaveFamilies(addrs) = IF Len(addrs) <= Limit THEN addrs ELSE FirstOf(long, Limit)
  BY DEF InterleaveFamilies
<1> HIDE DEF v4, v6, half
<1>4. pairs \in Nat /\ pairs <= Len(v4) /\ pairs <= Len(v6) /\ (pairs = Len(v4) \/ pairs = Len(v6))
  BY <1>2
<1> HIDE DEF pairs
<1>5. alternating \in Seq(Addresses) /\ Len(alternating) = 2 * pairs
  <2>1. ASSUME NEW i \in 1 .. 2 * pairs
        PROVE  (i % 2 = 1 => (i + 1) \div 2 \in 1 .. Len(v4)) /\ (i % 2 # 1 => i \div 2 \in 1 .. Len(v6))
    BY <1>2, <1>4
  <2>2. \A i \in 1 .. 2 * pairs : alternating[i] \in Addresses
    BY <1>2, <2>1
  <2>3. 2 * pairs \in Nat
    BY <1>4
  <2>4. alternating \in [1 .. 2 * pairs -> Addresses]
    BY <2>2
  <2> HIDE DEF alternating
  <2> QED
    BY <2>3, <2>4
<1>6. \A i \in 1 .. pairs : alternating[2 * i - 1] = v4[i] /\ alternating[2 * i] = v6[i]
  <2> SUFFICES ASSUME NEW i \in 1 .. pairs PROVE alternating[2 * i - 1] = v4[i] /\ alternating[2 * i] = v6[i]
    OBVIOUS
  <2>1. /\ 2 * i - 1 \in 1 .. 2 * pairs /\ (2 * i - 1) % 2 = 1 /\ ((2 * i - 1) + 1) \div 2 = i
        /\ 2 * i \in 1 .. 2 * pairs /\ (2 * i) % 2 # 1 /\ (2 * i) \div 2 = i
    BY <1>4
  <2> QED
    BY <2>1
<1> HIDE DEF alternating
<1>7. /\ After(v4, pairs) \in Seq(Addresses) /\ Len(After(v4, pairs)) = Len(v4) - pairs
      /\ \A i \in 1 .. Len(v4) - pairs : After(v4, pairs)[i] = v4[pairs + i]
      /\ After(v6, pairs) \in Seq(Addresses) /\ Len(After(v6, pairs)) = Len(v6) - pairs
      /\ \A i \in 1 .. Len(v6) - pairs : After(v6, pairs)[i] = v6[pairs + i]
  BY <1>2, <1>4, PartsOfAList
<1>8. /\ long \in Seq(Addresses) /\ Len(long) = Len(v4) + Len(v6)
      /\ \A i \in 1 .. pairs : long[2 * i - 1] = v4[i] /\ long[2 * i] = v6[i]
      /\ \A i \in pairs + 1 .. Len(v4) : long[pairs + i] = v4[i]
      /\ \A i \in pairs + 1 .. Len(v6) : long[pairs + i] = v6[i]
  <2> DEFINE A == alternating
             B == After(v4, pairs)
             C == After(v6, pairs)
  <2>1. A \in Seq(Addresses) /\ B \in Seq(Addresses) /\ C \in Seq(Addresses)
    BY <1>5, <1>7
  <2>2. Len(A) = 2 * pairs /\ Len(B) = Len(v4) - pairs /\ Len(C) = Len(v6) - pairs
    BY <1>5, <1>7
  <2> HIDE DEF A, B, C
  <2> DEFINE D == A \o B
  <2>3. /\ D \in Seq(Addresses) /\ Len(D) = Len(A) + Len(B)
        /\ \A i \in 1 .. Len(A) + Len(B) : D[i] = IF i <= Len(A) THEN A[i] ELSE B[i - Len(A)]
    BY <2>1, ConcatProperties
  <2> HIDE DEF D
  <2>4. Len(D) = Len(A) + Len(B)
    BY <2>3
  <2>5. /\ D \o C \in Seq(Addresses) /\ Len(D \o C) = Len(D) + Len(C)
        /\ \A i \in 1 .. Len(D) + Len(C) : (D \o C)[i] = IF i <= Len(D) THEN D[i] ELSE C[i - Len(D)]
    <3>1. D \in Seq(Addresses) /\ C \in Seq(Addresses)
      BY <2>1, <2>3
    <3>2. \A s, t \in Seq(Addresses) :
            /\ s \o t \in Seq(Addresses) /\ Len(s \o t) = Len(s) + Len(t)
            /\ \A i \in 1 .. Len(s) + Len(t) : (s \o t)[i] = IF i <= Len(s) THEN s[i] ELSE t[i - Len(s)]
      BY ConcatProperties
    <3> QED
      BY ONLY <3>1, <3>2
  <2>6. long = D \o C
    BY DEF D, A, B, C
  <2>7. Len(v4) \in Nat /\ Len(v6) \in Nat
    BY <1>2
  <2>8. ASSUME NEW i \in 1 .. pairs PROVE long[2 * i - 1] = v4[i] /\ long[2 * i] = v6[i]
    <3>1. /\ 2 * i - 1 \in 1 .. Len(A) + Len(B) /\ 2 * i \in 1 .. Len(A) + Len(B)
          /\ 2 * i - 1 <= Len(A) /\ 2 * i <= Len(A)
          /\ 2 * i - 1 \in 1 .. Len(D) + Len(C) /\ 2 * i \in 1 .. Len(D) + Len(C)
          /\ 2 * i - 1 <= Len(D) /\ 2 * i <= Len(D)
      BY <1>4, <2>2, <2>4, <2>7
    <3>2. long[2 * i - 1] = D[2 * i - 1] /\ long[2 * i] = D[2 * i]
      BY ONLY <3>1, <2>5, <2>6
    <3>3. D[2 * i - 1] = A[2 * i - 1] /\ D[2 * i] = A[2 * i]
      BY ONLY <3>1, <2>3
    <3> QED
      BY <1>6, <3>2, <3>3 DEF A
  <2>9. ASSUME NEW i \in pairs + 1 .. Len(v4) PROVE long[pairs + i] = v4[i]
    <3> DEFINE k == pairs + i
               l == i - pairs
    <3>1. /\ k \in 1 .. Len(A) + Len(B) /\ ~(k <= Len(A)) /\ k - Len(A) = l
          /\ k \in 1 .. Len(D) + Len(C) /\ k <= Len(D) /\ l \in 1 .. Len(v4) - pairs /\ pairs + l = i
      BY <1>4, <2>2, <2>4, <2>7
    <3> HIDE DEF k, l
    <3>2. long[k] = D[k] /\ D[k] = B[l]
      BY ONLY <3>1, <2>3, <2>5, <2>6
    <3>3. B[l] = v4[i]
      BY <3>1, <1>7 DEF B
    <3> QED
      BY <3>2, <3>3 DEF k
  <2>10. ASSUME NEW i \in pairs + 1 .. Len(v6) PROVE long[pairs + i] = v6[i]
    <3> DEFINE k == pairs + i
               l == i - pairs
    <3>1. pairs = Len(v4)
      BY <1>4, <2>7
    <3>2. /\ k \in 1 .. Len(D) + Len(C) /\ ~(k <= Len(D)) /\ k - Len(D) = l
          /\ l \in 1 .. Len(v6) - pairs /\ pairs + l = i
      BY <1>4, <2>2, <2>4, <2>7, <3>1
    <3> HIDE DEF k, l
    <3>3. long[k] = C[l]
      BY ONLY <3>2, <2>5, <2>6
    <3>4. C[l] = v6[i]
      BY <3>2, <1>7 DEF C
    <3> QED
      BY <3>3, <3>4 DEF k
  <2>11. long \in Seq(Addresses) /\ Len(long) = Len(v4) + Len(v6)
    <3>1. pairs \in Int /\ Len(D) = 2 * pairs + (Len(v4) - pairs) /\ Len(C) = Len(v6) - pairs
      BY <1>4, <2>2, <2>4
    <3>2. Len(D) + Len(C) = Len(v4) + Len(v6)
      BY ONLY <2>7, <3>1
    <3> HIDE DEF long
    <3> QED
      BY ONLY <2>5, <2>6, <3>2
  <2> HIDE DEF long
  <2> QED
    BY <2>8, <2>9, <2>10, <2>11
<1> HIDE DEF long
<1>9. /\ FirstOf(long, Limit) \in Seq(Addresses)
      /\ Len(FirstOf(long, Limit)) = (IF Len(long) < Limit THEN Len(long) ELSE Limit)
      /\ \A i \in 1 .. Len(FirstOf(long, Limit)) : FirstOf(long, Limit)[i] = long[i]
  BY <1>1, <1>8, PartsOfAList
<1>10. ASSUME NEW s \in {v4, v6}, NEW i \in 1 .. Len(FirstOf(s, half))
       PROVE  \E j \in DOMAIN FirstOf(long, Limit) : FirstOf(long, Limit)[j] = FirstOf(s, half)[i]
  <2>1. s \in Seq(Addresses)
    BY <1>2
  <2>2. i \in 1 .. Len(s) /\ i <= half /\ FirstOf(s, half)[i] = s[i]
    <3>1. /\ FirstOf(s, half) \in Seq(Addresses) /\ Len(FirstOf(s, half)) = (IF Len(s) < half THEN Len(s) ELSE half)
          /\ \A k \in 1 .. Len(FirstOf(s, half)) : FirstOf(s, half)[k] = s[k]
      BY <1>1, <2>1, PartsOfAList
    <3> QED
      BY <1>1, <2>1, <3>1
  <2>3. \E j \in 1 .. 2 * i : j <= Len(long) /\ long[j] = s[i]
    <3>0. Len(v4) \in Nat /\ Len(v6) \in Nat
      BY <1>2
    <3>1. CASE i <= pairs
      <4>1. i \in 1 .. pairs /\ 2 * i - 1 \in 1 .. 2 * i /\ 2 * i \in 1 .. 2 * i /\ 2 * i <= Len(long) /\ 2 * i - 1 <= Len(long)
        BY <1>4, <1>8, <2>2, <3>0, <3>1
      <4> QED
        BY <1>8, <4>1
    <3>2. CASE i > pairs
      <4>1. i \in pairs + 1 .. Len(s) /\ pairs + i \in 1 .. 2 * i /\ pairs + i <= Len(long)
        BY <1>4, <1>8, <2>2, <3>0, <3>2
      <4> QED
        BY <1>8, <4>1
    <3> QED
      BY <1>4, <2>2, <3>1, <3>2
  <2>4. PICK j \in 1 .. 2 * i : j <= Len(long) /\ long[j] = s[i]
    BY <2>3
  <2>5. j <= Limit /\ j \in 1 .. Len(FirstOf(long, Limit))
    BY <1>1, <1>8, <1>9, <2>2, <2>4
  <2> QED
    BY <1>9, <2>2, <2>4, <2>5
<1>11. \A f \in Families : OfFamily(f, addrs) \in {v4, v6}
  BY DEF Families, v4, v6
<1>12. InterleaveFamilies(addrs) \in Seq(Addresses) /\ Len(InterleaveFamilies(addrs)) <= Limit
  BY <1>1, <1>3, <1>8, <1>9
<1>13. Len(addrs) <= Limit => InterleaveFamilies(addrs) = addrs
  BY <1>3
<1>14. Len(addrs) > Limit => InterleaveFamilies(addrs) = FirstOf(long, Limit)
  BY <1>1, <1>3
<1> QED
  BY <1>10, <1>11, <1>12, <1>13, <1>14 DEF half

\* Where the dialler is in the list: what comes after is not looked at yet, and what
\* may be dialled of what came before was.
InPlace ==
  \E k \in 0 .. Len(InterleaveFamilies(resolved)) :
    /\ candidates = After(InterleaveFamilies(resolved), k)
    /\ attempted = Chosen(InterleaveFamilies(resolved), Public)[k]

\* Before anything is resolved there is nothing, and without an error of a dial
\* nothing was dialled.
NothingYet ==
  /\ result = "unbegun" => resolved = <<>>
  /\ ~dialErr /\ result # "connected" => attempted = <<>>

DialInv == DialTypeOK /\ InPlace /\ NothingYet /\ ErrorIsWhatHappened

\* Before a list is looked at nothing is chosen of it.
LEMMA NothingChosenYet ==
  ASSUME NEW T, NEW s \in Seq(T), NEW S PROVE Chosen(s, S)[0] = <<>>
BY ONLY s \in Seq(T), ChosenSteps

\* A name without addresses has nothing to be dialled.
LEMMA NothingOfNothing ==
  /\ InterleaveFamilies(<<>>) = <<>> /\ Chosen(<<>>, Public)[0] = <<>> /\ After(<<>>, 0) = <<>>
  /\ Only(InterleaveFamilies(<<>>), Public) = <<>>
<1>1. <<>> \in Seq(Addresses) /\ Len(<<>>) = 0
  OBVIOUS
<1>2. InterleaveFamilies(<<>>) = <<>>
  <2>1. Len(<<>>) <= Limit
    BY <1>1, DialAssumption
  <2> QED
    BY <1>1, <2>1 DEF InterleaveFamilies
<1>3. Chosen(<<>>, Public)[0] = <<>>
  BY <1>1, NothingChosenYet
<1>4. After(<<>>, 0) = <<>>
  BY <1>1, SubSeqEmpty DEF After
<1> QED
  BY <1>1, <1>2, <1>3, <1>4 DEF Only

\* The call begins in place.
LEMMA DialBegins == DialInit => DialInv
<1> SUFFICES ASSUME DialInit PROVE DialInv
  OBVIOUS
<1>1. /\ resolved = <<>> /\ candidates = <<>> /\ attempted = <<>> /\ blocked = FALSE /\ dialErr = FALSE
      /\ result = "unbegun"
  BY DEF DialInit
<1>2. DialTypeOK
  <2>1. Len(<<>>) = 0 /\ 0 <= Limit /\ 0 <= MaxAnswer /\ <<>> \in Seq(Addresses)
    BY DialAssumption
  <2>2. FALSE \in BOOLEAN /\ "unbegun" \in Results
    BY DEF Results
  <2> QED
    BY <1>1, <2>1, <2>2 DEF DialTypeOK
<1>3. InPlace
  <2>1. 0 \in 0 .. Len(InterleaveFamilies(<<>>))
    BY NothingOfNothing
  <2> QED
    BY <1>1, <2>1, NothingOfNothing DEF InPlace
<1>4. NothingYet /\ ErrorIsWhatHappened
  BY <1>1 DEF NothingYet, ErrorIsWhatHappened, Families
<1> QED
  BY <1>2, <1>3, <1>4 DEF DialInv

\* What is resolved is put in order, and none of it looked at yet.
LEMMA BeginKeepsDialInv == DialInv /\ Begin => DialInv'
<1> SUFFICES ASSUME DialInv, Begin PROVE DialInv'
  OBVIOUS
<1>1. /\ DialTypeOK /\ InPlace /\ NothingYet /\ result = "unbegun" /\ resolved = <<>>
      /\ UNCHANGED <<blocked, dialErr, attempted>>
  BY DEF DialInv, NothingYet, Begin
<1>2. attempted = <<>> /\ candidates = <<>> /\ resolved = <<>>
  <2>1. PICK k \in 0 .. Len(<<>>) : candidates = After(<<>>, k) /\ attempted = Chosen(<<>>, Public)[k]
    BY <1>1, NothingOfNothing DEF DialInv, NothingYet, InPlace, Begin
  <2>2. k = 0
    BY <2>1
  <2> QED
    BY <2>1, <2>2, NothingOfNothing DEF DialInv, NothingYet, Begin
<1>3. CASE result' \in {"blocked", "unresolved"} /\ UNCHANGED <<resolved, candidates>>
  <2>1. DialTypeOK'
    BY <1>1, <1>3 DEF DialInv, DialTypeOK, Results, Begin
  <2>2. InPlace'
    BY <1>1, <1>3 DEF DialInv, InPlace, Begin
  <2>3. NothingYet' /\ ErrorIsWhatHappened'
    BY <1>2, <1>3, NothingOfNothing DEF NothingYet, ErrorIsWhatHappened, Families, Begin
  <2> QED
    BY <2>1, <2>2, <2>3 DEF DialInv
<1>4. CASE \E addrs \in BoundedSeq(Addresses, MaxAnswer) \ {<<>>} :
             resolved' = addrs /\ candidates' = InterleaveFamilies(addrs) /\ result' = "looking"
  <2>1. PICK addrs \in BoundedSeq(Addresses, MaxAnswer) \ {<<>>} :
               resolved' = addrs /\ candidates' = InterleaveFamilies(addrs) /\ result' = "looking"
    BY <1>4
  <2>2. addrs \in Seq(Addresses) /\ Len(addrs) <= MaxAnswer
    <3>1. PICK n \in 0 .. MaxAnswer : addrs \in [1 .. n -> Addresses]
      BY <2>1, DialAssumption DEF BoundedSeq, SeqOf
    <3> QED
      BY <3>1, DialAssumption
  <2> DEFINE all == InterleaveFamilies(addrs)
  <2>3. all \in Seq(Addresses) /\ Len(all) <= Limit
    BY <2>2, EitherFamilyHasItsHalf
  <2> HIDE DEF all
  <2>4. DialTypeOK'
    BY <1>1, <1>2, <2>1, <2>2, <2>3 DEF DialInv, DialTypeOK, Results, Begin, all
  <2>5. After(all, 0) = all /\ Chosen(all, Public)[0] = <<>> /\ 0 \in 0 .. Len(all)
    <3>1. SubSeq(all, 1, Len(all)) = all
      BY <2>3, SubSeqFull
    <3>2. Chosen(all, Public)[0] = <<>>
      BY <2>3, ChosenSteps
    <3> QED
      BY <2>3, <3>1, <3>2 DEF After
  <2>6. InPlace'
    BY <1>2, <2>1, <2>5 DEF InPlace, Begin, all
  <2>7. NothingYet' /\ ErrorIsWhatHappened'
    BY <1>2, <2>1 DEF NothingYet, ErrorIsWhatHappened, Families, Begin
  <2> QED
    BY <2>4, <2>6, <2>7 DEF DialInv
<1> QED
  BY <1>3, <1>4 DEF Begin

\* Running out of time says nothing of the destination.
LEMMA OutOfTimeKeepsDialInv == DialInv /\ OutOfTime => DialInv'
<1> SUFFICES ASSUME DialInv, OutOfTime PROVE DialInv'
  OBVIOUS
<1>1. /\ result = "looking" /\ result' = "late"
      /\ UNCHANGED <<resolved, candidates, blocked, dialErr, attempted>>
  BY DEF OutOfTime
<1>2. DialTypeOK'
  BY <1>1 DEF DialInv, DialTypeOK, Results
<1>3. InPlace'
  BY <1>1 DEF DialInv, InPlace
<1>4. NothingYet' /\ ErrorIsWhatHappened'
  BY <1>1 DEF DialInv, NothingYet, ErrorIsWhatHappened, Families
<1> QED
  BY <1>2, <1>3, <1>4 DEF DialInv

\* A turn takes the next of the list, and dials it if it may.
LEMMA TurnKeepsDialInv == DialInv /\ Turn => DialInv'
<1> SUFFICES ASSUME DialInv, Turn PROVE DialInv'
  OBVIOUS
<1> DEFINE all == InterleaveFamilies(resolved)
<1>1. resolved \in Seq(Addresses) /\ all \in Seq(Addresses) /\ Len(all) <= Limit
  BY EitherFamilyHasItsHalf DEF DialInv, DialTypeOK
<1>2. PICK k \in 0 .. Len(all) : candidates = After(all, k) /\ attempted = Chosen(all, Public)[k]
  BY DEF DialInv, InPlace
<1>3. /\ result = "looking" /\ candidates # <<>> /\ candidates' = Tail(candidates) /\ resolved' = resolved
  BY DEF Turn
<1> HIDE DEF all
<1>4. /\ k + 1 \in 1 .. Len(all) /\ k + 1 \in 0 .. Len(all) /\ (k + 1) - 1 = k
      /\ Head(candidates) = all[k + 1] /\ Tail(candidates) = After(all, k + 1) /\ all[k + 1] \in Addresses
  <2>1. k # Len(all)
    <3> SUFFICES ASSUME k = Len(all) PROVE FALSE
      OBVIOUS
    <3>1. k + 1 \in Int /\ Len(all) \in Int /\ Len(all) < k + 1
      BY <1>1
    <3>2. After(all, k) = <<>>
      BY <3>1, SubSeqEmpty DEF After
    <3> QED
      BY <1>2, <1>3, <3>2
  <2>2. k + 1 \in 1 .. Len(all) /\ k + 1 \in 0 .. Len(all) /\ (k + 1) - 1 = k /\ Len(all) \in k + 1 .. Len(all)
    BY <1>1, <2>1
  <2>3. /\ Head(SubSeq(all, k + 1, Len(all))) = all[k + 1]
        /\ Tail(SubSeq(all, k + 1, Len(all))) = SubSeq(all, (k + 1) + 1, Len(all))
    BY <1>1, <2>2, HeadTailOfSubSeq
  <2> QED
    BY <1>1, <1>2, <2>2, <2>3 DEF After
<1>5. Chosen(all, Public)[k + 1] =
        IF all[k + 1] \in Public THEN Append(Chosen(all, Public)[k], all[k + 1]) ELSE Chosen(all, Public)[k]
  <2>1. \A n \in 1 .. Len(all) : Chosen(all, Public)[n] =
          IF all[n] \in Public THEN Append(Chosen(all, Public)[n - 1], all[n]) ELSE Chosen(all, Public)[n - 1]
    BY <1>1, ChosenSteps
  <2>2. Chosen(all, Public)[k + 1] =
          IF all[k + 1] \in Public THEN Append(Chosen(all, Public)[(k + 1) - 1], all[k + 1])
          ELSE Chosen(all, Public)[(k + 1) - 1]
    BY ONLY <1>4, <2>1
  <2> QED
    BY ONLY <1>4, <2>2
<1>6. all[k + 1] \in Public <=> Head(candidates).public
  BY <1>4, DialAssumption DEF Public
<1>7. attempted' = Chosen(all, Public)[k + 1]
  BY <1>2, <1>4, <1>5, <1>6 DEF Turn
<1>8. Chosen(all, Public)[k + 1] \in Seq(Addresses \cap Public)
  BY <1>1, <1>4, ChosenIsChosen DEF ChosenTo
<1>9. DialTypeOK'
  <2>1. candidates' \in Seq(Addresses) /\ Len(candidates') <= Limit
    <3>1. candidates \in Seq(Addresses) /\ Len(candidates) <= Limit
      BY DEF DialInv, DialTypeOK
    <3>2. Tail(candidates) \in Seq(Addresses) /\ Len(Tail(candidates)) = Len(candidates) - 1
      BY <1>3, <3>1, HeadTailProperties
    <3> QED
      BY <1>3, <3>1, <3>2, DialAssumption
  <2>2. attempted' \in Seq(Addresses)
    BY <1>7, <1>8, SeqMonotonic
  <2>3. blocked' \in BOOLEAN /\ dialErr' \in BOOLEAN /\ result' \in Results
    BY DEF DialInv, DialTypeOK, Results, Turn
  <2> QED
    BY <1>3, <2>1, <2>2, <2>3 DEF DialInv, DialTypeOK
<1>10. InPlace'
  BY <1>3, <1>4, <1>7 DEF InPlace, all
<1>11. NothingYet'
  BY <1>3 DEF DialInv, NothingYet, Turn
<1>12. ErrorIsWhatHappened'
  <2>1. result' \in {"looking", "connected"}
    BY <1>3 DEF Turn
  <2>2. \A i \in DOMAIN attempted' : attempted'[i].public
    BY <1>7, <1>8 DEF Public
  <2> QED
    BY <2>1, <2>2 DEF ErrorIsWhatHappened, Families
<1> QED
  BY <1>9, <1>10, <1>11, <1>12 DEF DialInv

\* Who gives up has come to the end of the list.
LEMMA GiveUpKeepsDialInv == DialInv /\ GiveUp => DialInv'
<1> SUFFICES ASSUME DialInv, GiveUp PROVE DialInv'
  OBVIOUS
<1> DEFINE all == InterleaveFamilies(resolved)
<1>1. resolved \in Seq(Addresses) /\ all \in Seq(Addresses)
  BY EitherFamilyHasItsHalf DEF DialInv, DialTypeOK
<1>2. PICK k \in 0 .. Len(all) : candidates = After(all, k) /\ attempted = Chosen(all, Public)[k]
  BY DEF DialInv, InPlace
<1>3. /\ result = "looking" /\ candidates = <<>>
      /\ UNCHANGED <<resolved, candidates, blocked, dialErr, attempted>>
  BY DEF GiveUp
<1>4. attempted = Only(all, Public)
  <2> HIDE DEF all
  <2>1. /\ Len(After(all, k)) = Len(all) - k /\ Len(all) \in Nat
    BY <1>1, PartsOfAList
  <2>2. Len(After(all, k)) = 0
    BY <1>2, <1>3
  <2>3. k = Len(all)
    BY <2>1, <2>2
  <2> QED
    BY <1>2, <2>3 DEF Only
<1>5. DialTypeOK' /\ InPlace'
  <2>1. result' \in Results
    BY DEF GiveUp, Results
  <2> QED
    BY <1>3, <2>1 DEF DialInv, DialTypeOK, InPlace
<1>6. NothingYet'
  BY <1>3 DEF DialInv, NothingYet, GiveUp, Families
<1>7. ErrorIsWhatHappened'
  <2> HIDE DEF all
  <2>1. \A i \in DOMAIN attempted : attempted[i].public
    BY DEF DialInv, ErrorIsWhatHappened
  <2>2. CASE ~dialErr /\ blocked /\ result' = "blocked"
    BY <1>3, <1>4, <2>1, <2>2 DEF DialInv, NothingYet, ErrorIsWhatHappened, Families, all
  <2>3. CASE dialErr /\ \E f \in Families : Sole(attempted, f) /\ result' = f
    BY <1>3, <1>4, <2>1, <2>3 DEF ErrorIsWhatHappened, Families, all
  <2>4. CASE dialErr /\ ~(\E f \in Families : Sole(attempted, f)) /\ result' = "failed"
    BY <1>3, <1>4, <2>1, <2>4 DEF ErrorIsWhatHappened, Families, all
  <2> QED
    BY <2>2, <2>3, <2>4 DEF GiveUp
<1> QED
  BY <1>5, <1>6, <1>7 DEF DialInv

\* Every step of the dialler keeps that.
LEMMA DialInvIsKept == DialInv /\ [DialNext]_dialVars => DialInv'
<1> SUFFICES ASSUME DialInv, [DialNext]_dialVars PROVE DialInv'
  OBVIOUS
<1>1. CASE UNCHANGED dialVars
  BY <1>1 DEF dialVars, DialInv, DialTypeOK, InPlace, NothingYet, ErrorIsWhatHappened
<1> QED
  BY <1>1, BeginKeepsDialInv, OutOfTimeKeepsDialInv, TurnKeepsDialInv, GiveUpKeepsDialInv DEF DialNext

\* What either family is owed is in the list that was gone through.
LEMMA DialInvIsEnough == DialInv => GivesUpForAReason /\ DialTypeOK
<1> SUFFICES ASSUME DialInv PROVE GivesUpForAReason /\ DialTypeOK
  OBVIOUS
<1>1. DialTypeOK /\ ErrorIsWhatHappened
  BY DEF DialInv
<1> DEFINE all == InterleaveFamilies(resolved)
           half(f) == FirstOf(OfFamily(f, resolved), Limit \div 2)
           due == IF Len(resolved) <= Limit THEN ToSet(resolved) ELSE UNION {ToSet(half(f)) : f \in Families}
<1>2. resolved \in Seq(Addresses)
  BY <1>1 DEF DialTypeOK
<1>3. all \in Seq(Addresses)
  BY <1>2, EitherFamilyHasItsHalf
<1>4. ASSUME NEW a \in due PROVE \E j \in DOMAIN all : all[j] = a
  <2>1. CASE Len(resolved) <= Limit
    <3>1. all = resolved
      BY <1>2, <2>1, EitherFamilyHasItsHalf
    <3>2. a \in ToSet(resolved)
      BY <1>4, <2>1
    <3> QED
      BY <3>1, <3>2 DEF ToSet
  <2>2. CASE ~(Len(resolved) <= Limit)
    <3>1. PICK f \in Families : a \in ToSet(half(f))
      BY <1>4, <2>2
    <3>2. Limit \div 2 \in Nat /\ Len(resolved) > Limit
      BY <1>2, <2>2, DialAssumption
    <3>3. OfFamily(f, resolved) \in Seq(Addresses)
      BY <1>2, OnlyIsOfTheSet DEF OfFamily
    <3>4. half(f) \in Seq(Addresses)
      BY <3>2, <3>3, PartsOfAList
    <3>5. PICK i \in 1 .. Len(half(f)) : half(f)[i] = a
      BY <3>1, <3>4 DEF ToSet
    <3> QED
      BY <1>2, <3>2, <3>5, EitherFamilyHasItsHalf
  <2> QED
    BY <2>1, <2>2
<1> HIDE DEF due
<1>5. ASSUME result \in Families \cup {"failed"}, NEW a \in due, a.public PROVE a \in ToSet(attempted)
  <2>1. PICK j \in 1 .. Len(all) : all[j] = a
    BY <1>3, <1>4
  <2>2. attempted = Only(all, Public)
    BY <1>1, <1>5 DEF ErrorIsWhatHappened
  <2> HIDE DEF all
  <2>3. all[j] \in Public
    BY <1>3, <1>5, <2>1 DEF Public
  <2>4. Only(all, Public) \in Seq(Addresses) /\ \E i \in DOMAIN Only(all, Public) : Only(all, Public)[i] = all[j]
    <3>1. Only(all, Public) \in Seq(Addresses)
      BY <1>3, OnlyIsOfTheSet
    <3>2. \E i \in DOMAIN Only(all, Public) : Only(all, Public)[i] = all[j]
      BY <1>3, <2>1, <2>3, PublicOnes
    <3> QED
      BY <3>1, <3>2
  <2> QED
    BY <2>1, <2>2, <2>4 DEF ToSet
<1>6. BothFamiliesAreTried
  BY <1>5 DEF BothFamiliesAreTried, due
<1> QED
  BY <1>1, <1>6 DEF GivesUpForAReason

\* The dialler says what happened: an address that is not public is never dialled, an
\* error that blames the destination or a family of its addresses is of what was
\* dialled, and who gives up tried what it owes either family.
THEOREM DialTellsTheReason == DialSpec => []GivesUpForAReason
<1>1. DialInit => DialInv
  BY DialBegins
<1>2. DialInv /\ [DialNext]_dialVars => DialInv'
  BY DialInvIsKept
<1>3. DialInv => GivesUpForAReason
  BY DialInvIsEnough
<1> QED
  BY <1>1, <1>2, <1>3, PTL DEF DialSpec

(***************************************************************************)
(* Types: of the walk, whose chains are within the limit of redirects, of  *)
(* the look at revocation, and of all of them together.                    *)
(***************************************************************************)

\* The walk, while it may still fetch, has followed no more redirects than it may.
Ends == {"no", "answer", "silence", "foreign", "refused", "limit", "too long"}
Judgements == {Undecided, "may", "may not"}
NotTooFar ==
  /\ \A c \in Chains : Len(hops[c]) <= MaxRedirects + 1
  /\ step = "fetch" => Len(hops[chain]) <= MaxRedirects
  /\ step \in {"begin", "front"} => hops[chain] = <<>>
WalkTypes ==
  /\ mode \in Modes /\ proofs \in Proofs /\ webVerdict \in Verdict
  /\ asking.host \in Hosts \cup {Nobody}
  /\ decided \in [Hosts -> Judgements] /\ stopped \in [Chains -> Ends]
  /\ contacted \subseteq Hosts /\ challenged \subseteq Hosts /\ shown \subseteq Hosts
  /\ NotTooFar

\* What a chain ends with, and what is decided of a host.
LEMMA EndsAndJudgements ==
  /\ {"no", "answer", "silence", "foreign", "refused", "limit"} \subseteq Ends
  /\ \A why \in {"too long", "foreign"} : why \in Ends
  /\ Undecided \in Judgements /\ "may" \in Judgements
  /\ \A yes : (IF yes THEN "may" ELSE "may not") \in Judgements
BY Zenon DEF Ends, Judgements

\* A chain that ends leaves no more than it may have followed.
LEMMA EndChainIsTyped ==
  ASSUME WalkInv, WalkTypes, NEW why \in Ends, EndChain(why), step \notin {"grade", "graded"},
         hops' \in [Chains -> Seq(Hop)], \A c \in Chains \ {chain} : hops'[c] = hops[c],
         Len(hops'[chain]) <= MaxRedirects + 1
  PROVE  stopped' \in [Chains -> Ends] /\ NotTooFar'
<1>1. stopped \in [Chains -> Ends] /\ chain \in Chains /\ MaxRedirects \in Nat
  BY RedirectsAssumption DEF WalkTypes, WalkInv, Walked
<1>2. stopped' \in [Chains -> Ends]
  BY <1>1 DEF EndChain
<1>3. \A c \in Chains : Len(hops'[c]) <= MaxRedirects + 1
  BY DEF WalkTypes, NotTooFar
<1>4. step' \in {"fetch", "grade"} /\ chain' = "plain"
  BY DEF EndChain
<1>5. step' = "fetch" => Len(hops'[chain']) <= MaxRedirects
  <2> SUFFICES ASSUME step' = "fetch" PROVE Len(hops'["plain"]) <= MaxRedirects
    BY <1>4
  <2>1. chain = "secure" /\ hops["plain"] = <<>>
    BY DEF EndChain, WalkInv, Walked
  <2>2. hops'["plain"] = <<>>
    BY <2>1 DEF Chains
  <2> QED
    BY <1>1, <2>2
<1> QED
  BY <1>2, <1>3, <1>4, <1>5 DEF NotTooFar

\* The address that was judged is followed, or the chain ends.
LEMMA DecideIsTyped ==
  ASSUME WalkInv, WalkTypes, NEW answer \in Judgements, Decide(answer), step \in {"judge", "hop"}
  PROVE  decided' \in [Hosts -> Judgements] /\ stopped' \in [Chains -> Ends] /\ NotTooFar'
<1>1. /\ decided' = [decided EXCEPT ![at.host] = answer] /\ hops' = hops
      /\ \/ \E why \in {"limit", "refused"} : EndChain(why)
         \/ ~(Len(hops[chain]) > MaxRedirects) /\ step' = "fetch" /\ UNCHANGED <<chain, at, stopped>>
  BY DEF Decide, Follow
<1>2. /\ hops \in [Chains -> Seq(Hop)] /\ chain \in Chains /\ at.host \in Hosts /\ decided \in [Hosts -> Judgements]
      /\ \A c \in Chains : Len(hops[c]) <= MaxRedirects + 1
      /\ stopped \in [Chains -> Ends] /\ MaxRedirects \in Nat
  BY RedirectsAssumption DEF WalkInv, Walked, WalkTypes, NotTooFar, Urls
<1>3. decided' \in [Hosts -> Judgements]
  BY <1>1, <1>2
<1>4. CASE \E why \in {"limit", "refused"} : EndChain(why)
  <2>1. PICK why \in {"limit", "refused"} : EndChain(why)
    BY <1>4
  <2>2. why \in Ends
    BY EndsAndJudgements
  <2> QED
    BY <1>1, <1>2, <1>3, <2>1, <2>2, EndChainIsTyped
<1>5. CASE ~(Len(hops[chain]) > MaxRedirects) /\ step' = "fetch" /\ UNCHANGED <<chain, at, stopped>>
  BY <1>1, <1>2, <1>3, <1>5 DEF NotTooFar
<1> QED
  BY <1>1, <1>4, <1>5

\* What is provable is of the hosts there are.
LEMMA ShownAreHosts == \A p : Shown(p) \subseteq Hosts
BY DEF Shown

\* So it begins.
LEMMA InitiallyWalkTypes == RedirectsInit => WalkTypes
<1> SUFFICES ASSUME RedirectsInit PROVE WalkTypes
  OBVIOUS
<1>1. /\ asking.host \in Hosts \cup {Nobody} /\ webVerdict \in Verdict
      /\ contacted \subseteq Hosts /\ challenged \subseteq Hosts /\ shown \subseteq Hosts
  BY ShownAreHosts DEF RedirectsInit, Nowhere, Verdict, Ungraded, Insecure
<1>2. decided \in [Hosts -> Judgements] /\ stopped \in [Chains -> Ends]
  BY EndsAndJudgements DEF RedirectsInit
<1>3. NotTooFar
  BY RedirectsAssumption DEF RedirectsInit, NotTooFar, Chains
<1> QED
  BY <1>1, <1>2, <1>3 DEF RedirectsInit, WalkTypes

\* Every step of the walk keeps its types.
LEMMA WalkTypesAreKept == WalkInv /\ WalkTypes /\ [RedirectsNext]_redirectsVars => WalkTypes'
<1> SUFFICES ASSUME WalkInv, WalkTypes, [RedirectsNext]_redirectsVars PROVE WalkTypes'
  OBVIOUS
<1>1. /\ hops \in [Chains -> Seq(Hop)] /\ chain \in Chains /\ at \in Urls /\ at.host \in Hosts
      /\ decided \in [Hosts -> Judgements] /\ stopped \in [Chains -> Ends]
      /\ \A c \in Chains : Len(hops[c]) \in Nat /\ Len(hops[c]) <= MaxRedirects + 1
      /\ MaxRedirects \in Nat
  BY RedirectsAssumption DEF WalkInv, Walked, WalkTypes, NotTooFar, Urls
<1>2. CASE UNCHANGED redirectsVars
  BY <1>2 DEF redirectsVars, proofVars, walkVars, WalkTypes, NotTooFar
<1>3. CASE Change
  BY <1>3, ShownAreHosts DEF Change, walkVars, WalkTypes, NotTooFar
<1>4. CASE ScanHost
  <2>1. /\ step = "begin" /\ step' \in {"refused", "fetch", "front"} /\ asking'.host \in Hosts \cup {Nobody}
        /\ UNCHANGED <<mode, proofVars, decided, walkVars, webVerdict, contacted, challenged>>
    BY <1>4, RedirectsAssumption DEF ScanHost, WalkTypes
  <2>2. hops[chain] = <<>>
    BY <2>1 DEF WalkTypes, NotTooFar
  <2>3. NotTooFar'
    BY <1>1, <2>1, <2>2 DEF walkVars, NotTooFar
  <2> QED
    BY <2>1, <2>3 DEF WalkTypes, proofVars, walkVars
<1>5. CASE Fetch
  <2>1. /\ step = "fetch" /\ contacted' = contacted \cup {at.host}
        /\ UNCHANGED <<mode, proofVars, asking, decided, webVerdict, challenged>>
        /\ Len(hops[chain]) <= MaxRedirects
    BY <1>5 DEF Fetch, WalkTypes, NotTooFar
  <2>2. ASSUME NEW status \in Statuses, Answer(status)
        PROVE  /\ hops' \in [Chains -> Seq(Hop)] /\ \A c \in Chains \ {chain} : hops'[c] = hops[c]
               /\ Len(hops'[chain]) <= MaxRedirects + 1
    <3> DEFINE hop == [tls |-> at.tls, status |-> status]
    <3>1. hop \in Hop
      BY <1>1 DEF Hop, Urls
    <3>2. hops' = [hops EXCEPT ![chain] = Append(hops[chain], hop)]
      BY <2>2 DEF Answer
    <3> HIDE DEF hop
    <3>3. Append(hops[chain], hop) \in Seq(Hop) /\ Len(Append(hops[chain], hop)) = Len(hops[chain]) + 1
      BY <1>1, <3>1
    <3> QED
      BY <1>1, <2>1, <3>2, <3>3
  <2>3. stopped' \in [Chains -> Ends] /\ NotTooFar'
    <3>1. CASE EndChain("silence") /\ UNCHANGED hops
      BY <1>1, <2>1, <3>1, EndsAndJudgements, EndChainIsTyped
    <3>2. CASE \E status \in Statuses : Answer(status) /\ EndChain("answer")
      BY <1>1, <2>1, <2>2, <3>2, EndsAndJudgements, EndChainIsTyped
    <3>3. CASE Answer("redirect") /\ \E why \in Ends : EndChain(why)
      <4>1. "redirect" \in Statuses
        BY DEF Statuses
      <4> QED
        BY <1>1, <2>1, <2>2, <3>3, <4>1, EndChainIsTyped
    <3>4. CASE Answer("redirect") /\ step' = "judge" /\ UNCHANGED <<chain, stopped>>
      <4>1. "redirect" \in Statuses
        BY DEF Statuses
      <4>2. \A c \in Chains : Len(hops'[c]) <= MaxRedirects + 1
        BY <1>1, <2>2, <3>4, <4>1
      <4> QED
        BY <1>1, <3>4, <4>2 DEF NotTooFar
    <3>5. \/ EndChain("silence") /\ UNCHANGED hops
          \/ \E status \in Statuses : Answer(status) /\ EndChain("answer")
          \/ Answer("redirect") /\ \E why \in Ends : EndChain(why)
          \/ Answer("redirect") /\ step' = "judge" /\ UNCHANGED <<chain, stopped>>
      BY <1>5, EndsAndJudgements, Zenon DEF Fetch
    <3> QED
      BY <3>1, <3>2, <3>3, <3>4, <3>5
  <2> QED
    BY <1>1, <2>1, <2>3 DEF WalkTypes, proofVars
<1>6. CASE May
  <2>1. /\ step = "judge" /\ UNCHANGED <<mode, proofVars, webVerdict, contacted, challenged>>
        /\ asking'.host \in Hosts \cup {Nobody}
    <3>1. asking' = asking \/ asking' = [host |-> at.host, level |-> 1]
      BY <1>6, Zenon DEF May
    <3>2. step = "judge" /\ UNCHANGED <<mode, proofVars, webVerdict, contacted, challenged>>
      BY <1>6, Zenon DEF May
    <3>3. asking.host \in Hosts \cup {Nobody}
      BY DEF WalkTypes
    <3> QED
      BY <1>1, <3>1, <3>2, <3>3
  <2>2. \/ \E answer \in Judgements : Decide(answer)
        \/ step' = "hop" /\ UNCHANGED <<walkVars, decided>>
    <3>1. decided[at.host] \in Judgements /\ "may" \in Judgements /\ \A yes : (IF yes THEN "may" ELSE "may not") \in Judgements
      BY <1>1, EndsAndJudgements
    <3>2. "may not" \in Judgements
      BY Zenon DEF Judgements
    <3> QED
      BY <1>6, <3>1, <3>2, Zenon DEF May
  <2>3. decided' \in [Hosts -> Judgements] /\ stopped' \in [Chains -> Ends] /\ NotTooFar'
    <3>1. CASE \E answer \in Judgements : Decide(answer)
      BY <2>1, <3>1, DecideIsTyped
    <3>2. CASE step' = "hop" /\ UNCHANGED <<walkVars, decided>>
      BY <1>1, <3>2 DEF walkVars, NotTooFar
    <3> QED
      BY <2>2, <3>1, <3>2
  <2> QED
    BY <2>1, <2>3 DEF WalkTypes, proofVars
<1>7. ASSUME NEW yes, Said(yes)
      PROVE  /\ asking' = Nowhere
             /\ decided' \in [Hosts -> Judgements] /\ stopped' \in [Chains -> Ends] /\ NotTooFar'
  <2>1. asking' = Nowhere
    BY <1>7 DEF Said
  <2>2. CASE step = "front" /\ step' \in {"fetch", "refused"} /\ UNCHANGED <<decided, walkVars>>
    <3>1. hops[chain] = <<>>
      BY <2>2 DEF WalkTypes, NotTooFar
    <3> QED
      BY <1>1, <2>1, <2>2, <3>1 DEF walkVars, NotTooFar
  <2>3. CASE step = "hop" /\ \E answer \in Judgements : Decide(answer)
    BY <2>1, <2>3, DecideIsTyped
  <2>4. \/ step = "front" /\ step' \in {"fetch", "refused"} /\ UNCHANGED <<decided, walkVars>>
        \/ step = "hop" /\ \E answer \in Judgements : Decide(answer)
    <3>1. (IF yes THEN "may" ELSE "may not") \in Judgements
      BY EndsAndJudgements
    <3>2. (IF yes THEN "fetch" ELSE "refused") \in {"fetch", "refused"}
      OBVIOUS
    <3> QED
      BY <1>7, <3>1, <3>2, Zenon DEF Said
  <2> QED
    BY <2>2, <2>3, <2>4
<1>8. CASE LookUp
  <2>1. /\ asking # Nowhere /\ UNCHANGED <<mode, proofVars, webVerdict, contacted, challenged>>
        /\ \/ \E yes : Said(yes)
           \/ asking' = [asking EXCEPT !.level = @ + 1] /\ UNCHANGED <<step, decided, walkVars>>
    BY <1>8 DEF LookUp, Failed
  <2>2. asking.host \in Hosts /\ asking \in [host : Hosts, level : Nat \ {0}]
    BY <2>1 DEF WalkInv, Asks
  <2>3. CASE \E yes : Said(yes)
    BY <1>7, <2>1, <2>3 DEF WalkTypes, proofVars, Nowhere
  <2>4. CASE asking' = [asking EXCEPT !.level = @ + 1] /\ UNCHANGED <<step, decided, walkVars>>
    <3>1. asking'.host = asking.host
      BY <2>2, <2>4
    <3> QED
      BY <1>1, <2>1, <2>2, <2>4, <3>1 DEF WalkTypes, proofVars, walkVars, NotTooFar
  <2> QED
    BY <2>1, <2>3, <2>4
<1>9. CASE FetchChallenge
  <2>1. asking \in [host : Hosts, level : Nat \ {0}]
    BY <1>9 DEF FetchChallenge, WalkInv, Asks
  <2>2. /\ UNCHANGED <<mode, proofVars, webVerdict, contacted>>
        /\ challenged' \subseteq Hosts
        /\ \E yes : Said(yes)
    <3>1. asking.host \in Hosts /\ challenged \subseteq Hosts
      BY <2>1 DEF WalkTypes
    <3>2. UNCHANGED <<mode, proofVars, webVerdict, contacted>>
          /\ (challenged' = challenged \/ challenged' = challenged \cup {asking.host})
      BY <1>9, Zenon DEF FetchChallenge
    <3>3. \E yes : Said(yes)
      BY <1>9, Zenon DEF FetchChallenge, Failed
    <3> QED
      BY <3>1, <3>2, <3>3
  <2> QED
    BY <1>7, <2>2 DEF WalkTypes, proofVars, Nowhere
<1>10. CASE GradeWeb
  <2>1. step' = "graded" /\ UNCHANGED <<mode, proofVars, asking, decided, walkVars, contacted, challenged>>
    BY <1>10 DEF GradeWeb
  <2>2. webVerdict' \in Verdict
    <3>1. Reach \in Verdict
      <4>1. ReachFindings \subseteq Verdict
        BY DEF ReachFindings, Verdict, Ungraded, Insecure, Weak
      <4>2. Worst(ReachFindings) \in Verdict
        <5>1. Worst(ReachFindings) \in ReachFindings \cup {Ungraded}
          BY <4>1, WorstIsTheWorst
        <5>2. Ungraded \in Verdict
          BY DEF Verdict, Ungraded, Insecure
        <5> QED
          BY <4>1, <5>1, <5>2
      <4>3. Strong \in Verdict
        BY DEF Verdict, Ungraded, Insecure, Strong
      <4> QED
        BY <4>2, <4>3 DEF Reach
    <3>2. \A rest \in Verdict : Worst({Reach, rest}) \in Verdict
      BY <3>1, WorstIsTheWorst DEF Verdict, Ungraded, Insecure
    <3>3. Ungraded \in Verdict
      BY DEF Verdict, Ungraded, Insecure
    <3> HIDE DEF Reach
    <3> QED
      BY <1>10, <3>2, <3>3 DEF GradeWeb
  <2> QED
    BY <1>1, <2>1, <2>2 DEF WalkTypes, proofVars, walkVars, NotTooFar
<1> QED
  BY <1>2, <1>3, <1>4, <1>5, <1>6, <1>8, <1>9, <1>10 DEF RedirectsNext

\* That is the type of the walk.
LEMMA WalkIsTyped == WalkInv /\ WalkTypes => RedirectsTypeOK
<1> SUFFICES ASSUME WalkInv, WalkTypes PROVE RedirectsTypeOK
  OBVIOUS
<1>1. \A c \in Chains : hops[c] \in Seq([tls : BOOLEAN, status : Statuses]) /\ Len(hops[c]) <= MaxRedirects + 1
  BY DEF WalkInv, Walked, WalkTypes, NotTooFar, Hop
<1>2. /\ step \in {"begin", "front", "fetch", "judge", "hop", "grade", "refused", "graded"}
      /\ chain \in Chains /\ at \in Urls
  BY DEF WalkInv, Walked, Steps
<1> QED
  BY <1>1, <1>2, Zenon DEF WalkTypes, RedirectsTypeOK, Judgements, Ends

\* Where a look at revocation is, and what is left to be asked.
RevocationPlace == look \in Looks /\ places \in 0 .. Places /\ tried \in 0 .. MaxPoints

\* It begins with what is stapled.
LEMMA InitiallyRevocationPlace == RevocationInit => RevocationPlace
BY RevocationAssumption DEF RevocationInit, RevocationPlace, Looks

\* No more is asked than there is, or may be.
LEMMA RevocationPlaceIsKept == RevocationPlace /\ [RevocationNext]_revocationVars => RevocationPlace'
<1> SUFFICES ASSUME RevocationPlace, [RevocationNext]_revocationVars PROVE RevocationPlace'
  OBVIOUS
<1>1. Places \in Nat /\ MaxPoints \in Nat \ {0} /\ Asking \in BOOLEAN
  BY RevocationAssumption
<1>2. CASE UNCHANGED revocationVars
  BY <1>2 DEF revocationVars, RevocationPlace
<1>3. CASE Staple
  <2>1. look' = "list" /\ places' \in 0 .. Places /\ tried' = 0
    BY <1>3, Zenon DEF Staple
  <2> QED
    BY <1>1, <2>1 DEF RevocationPlace, Looks
<1>4. ASSUME NEW word, NEW given, TryPlace(word, given)
      PROVE  places' \in 0 .. Places /\ tried' \in 0 .. MaxPoints
  BY <1>1, <1>4 DEF TryPlace, RevocationPlace
<1>5. CASE AskList \/ AskResponder
  <2>1. look' = look /\ \E word, given : TryPlace(word, given)
    BY <1>5, Zenon DEF AskList, AskResponder
  <2> QED
    BY <1>4, <2>1 DEF RevocationPlace
<1>6. CASE ListsDone
  <2>1. look' = (IF Asking THEN "query" ELSE "done") /\ places' \in (IF Asking THEN 0 .. Places ELSE {0}) /\ tried' = 0
    BY <1>6, Zenon DEF ListsDone
  <2> QED
    BY <1>1, <2>1 DEF RevocationPlace, Looks
<1>7. CASE RespondersDone
  <2>1. look' = "done" /\ places' = 0 /\ tried' = tried
    BY <1>7, Zenon DEF RespondersDone
  <2> QED
    BY <1>1, <2>1 DEF RevocationPlace, Looks
<1> QED
  BY <1>2, <1>3, <1>5, <1>6, <1>7 DEF RevocationNext

(***************************************************************************)
(* The parts of a check together.                                          *)
(***************************************************************************)

PartsInv ==
  TlsInv /\ (WalkInv /\ WalkTypes) /\ DialInv /\ ScanInv /\ (RevocationInv /\ RevocationPlace)

\* Whichever runs, each of them begins as it does alone.
LEMMA InitiallyPartsInv == Init => PartsInv
BY InitiallyTlsInv, InitiallyWalkInv, InitiallyWalkTypes, DialBegins, InitiallyScanInv, InitiallyRevocationInv,
   InitiallyRevocationPlace, Zenon DEF Init, PartsInv

\* A step is of one of them, and leaves the others as they are.
LEMMA PartsInvIsKept == PartsInv /\ [Next]_scansVars => PartsInv'
<1> SUFFICES ASSUME PartsInv, [Next]_scansVars PROVE PartsInv'
  OBVIOUS
<1>1. /\ [TlsNext]_tlsVars /\ [RedirectsNext]_redirectsVars /\ [DialNext]_dialVars /\ [ScanNext]_scanVars
      /\ [RevocationNext]_revocationVars
  BY Zenon DEF Next, scansVars
<1> QED
  BY <1>1, TlsStep, WalkStep, WalkTypesAreKept, DialInvIsKept, ScanStep, RevocationStep, RevocationPlaceIsKept, Zenon
     DEF PartsInv

\* What each part keeps is of its type.
LEMMA PartsAreTyped == PartsInv => ScansTypeOK
<1> SUFFICES ASSUME PartsInv PROVE ScansTypeOK
  OBVIOUS
<1>1. TlsTypeOK
  BY DEF PartsInv, TlsInv
<1>2. DialTypeOK /\ ScanTypeOK /\ RedirectsTypeOK
  BY DialInvIsEnough, ScanInvIsEnough, WalkIsTyped DEF PartsInv
<1>3. RevocationTypeOK
  BY DEF PartsInv, RevocationInv, RevocationPlace, RevocationTypeOK, Backed
<1> QED
  BY <1>1, <1>2, <1>3 DEF ScansTypeOK

\* What the checks of a web server keep is always of its type: no list of hops, of
\* candidates or of places to ask exceeds its limit.
THEOREM ScansAreTyped == Spec => []ScansTypeOK
<1>1. Spec => []PartsInv
  BY InitiallyPartsInv, PartsInvIsKept, PTL DEF Spec
<1> QED
  BY <1>1, PartsAreTyped, PTL
=============================================================================
