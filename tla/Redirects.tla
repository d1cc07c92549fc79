------------------------------ MODULE Redirects ------------------------------
(***************************************************************************)
(* A check of a website: who may be contacted and what is made of the walk *)
(* (webscan.go, verify.go, policy/web.go), and the walk over redirects     *)
(* itself (webprobe.go).                                                   *)
(*                                                                         *)
(* Two chains of redirects are followed one after the other. A server may  *)
(* send the walk to any host, so every host is judged before it is          *)
(* contacted, and the judgement is kept for the walk. Meanwhile records     *)
(* that prove control come and go.                                         *)
(***************************************************************************)
EXTENDS Verdicts, SequencesExt

CONSTANTS
  Hosts, First,  \* the hosts there are; the one the check is about
  Listed,        \* refused by the exclusion or the demonstration list
  Domains, Above, \* where proofs are published: of each host, itself and upwards
  MaxRedirects,
  Proofs,        \* what may be published: [zone, files]
  MaxChanges,    \* bound: how often that changes during the check
  Nobody

\* What a deployment asks for: nothing, a record, a record or a file, or a
\* record the resolver calls signed.
Modes == {"open", "record", "file", "signed"}
Records == {"none", "unsigned", "signed"}
Chains == {"secure", "plain"}
\* What a host may answer with: a page, an error, or the status of a redirect.
Statuses == {"page", "error", "redirect"}

ASSUME RedirectsAssumption ==
  /\ First \in Hosts /\ Listed \subseteq Hosts /\ Nobody \notin Hosts
  /\ \A h \in Hosts : Above[h] \in Seq(Domains) /\ Above[h] # <<>>
  /\ MaxRedirects \in Nat /\ MaxChanges \in Nat
  /\ Proofs \subseteq [zone : [Domains -> Records], files : SUBSET Hosts]

VARIABLES
  mode,       \* Scanner.Verify: settled when the service starts
  proofs,     \* the records there are, and the hosts that serve the challenge file
  step,       \* where the check is
  asking,     \* Covers: the host asked about, and how far up its labels
  decided,    \* walk.decided: the hosts judged, and how
  chain, at,  \* the chain followed, and the address to fetch next
  hops,       \* of each chain: the hops that answered
  stopped,    \* of each chain: why it ended
  webVerdict,
  contacted, challenged, \* history: hosts connected to by the probe, by Covers
  shown,      \* history: hosts whose control was provable at some moment of the check
  changes     \* how often a record changed, for the bound

proofVars == <<proofs, shown, changes>>
walkVars == <<chain, at, hops, stopped>>
redirectsVars == <<mode, proofVars, step, asking, decided, walkVars, webVerdict, contacted, challenged>>

Undecided == "undecided"
Urls == [tls : BOOLEAN, host : Hosts]
Nowhere == [host |-> Nobody, level |-> 0]

\* A record at the host or above it, or the file on the host itself.
Enough(record) == record = "signed" \/ (record = "unsigned" /\ mode # "signed")
Provable(h, p) ==
  \/ \E d \in ToSet(Above[h]) : Enough(p.zone[d])
  \/ mode = "file" /\ h \in p.files
Shown(p) == {h \in Hosts : Provable(h, p)}

RedirectsTypeOK ==
  /\ mode \in Modes
  /\ proofs \in Proofs
  /\ step \in {"begin", "front", "fetch", "judge", "hop", "grade", "refused", "graded"}
  /\ asking.host \in Hosts \cup {Nobody}
  /\ decided \in [Hosts -> {Undecided, "may", "may not"}]
  /\ chain \in Chains /\ at \in Urls
  /\ \A c \in Chains : hops[c] \in Seq([tls : BOOLEAN, status : Statuses]) /\ Len(hops[c]) <= MaxRedirects + 1
  /\ stopped \in [Chains -> {"no", "answer", "silence", "foreign", "refused", "limit", "too long"}]
  /\ webVerdict \in Verdict
  /\ contacted \subseteq Hosts /\ challenged \subseteq Hosts /\ shown \subseteq Hosts

RedirectsInit ==
  /\ mode \in Modes
  /\ proofs \in Proofs
  /\ step = "begin"
  /\ asking = Nowhere
  /\ decided = [h \in Hosts |-> IF h = First THEN "may" ELSE Undecided]
  /\ chain = "secure"
  /\ at = [tls |-> TRUE, host |-> First]
  /\ hops = [c \in Chains |-> <<>>]
  /\ stopped = [c \in Chains |-> "no"]
  /\ webVerdict = Ungraded
  /\ contacted = {}
  /\ challenged = {}
  /\ shown = Shown(proofs)
  /\ changes = 0

-----------------------------------------------------------------------------
(* Meanwhile, somebody publishes a proof or withdraws it. *)

Change ==
  /\ step \notin {"refused", "graded"}
  /\ changes < MaxChanges
  /\ changes' = changes + 1
  /\ proofs' \in Proofs \ {proofs}
  /\ shown' = shown \cup Shown(proofs')
  /\ UNCHANGED <<mode, step, asking, decided, walkVars, webVerdict, contacted, challenged>>

-----------------------------------------------------------------------------
(* The chains. *)

\* A chain has ended; the plaintext one follows the secure one.
EndChain(why) ==
  /\ stopped' = [stopped EXCEPT ![chain] = why]
  /\ chain' = "plain"
  /\ at' = [tls |-> FALSE, host |-> First]
  /\ step' = IF chain = "secure" THEN "fetch" ELSE "grade"

\* The address was judged, and is fetched unless it is one too many.
\* (Fault: one more than that.)
FollowOneMore ==
  IF Len(hops[chain]) > MaxRedirects + 1
    THEN EndChain("limit")
    ELSE step' = "fetch" /\ UNCHANGED <<chain, at, stopped>>
Follow ==
  IF Len(hops[chain]) > MaxRedirects
    THEN EndChain("limit")
    ELSE step' = "fetch" /\ UNCHANGED <<chain, at, stopped>>

\* fetch and nextURL: no answer, or one that leads nowhere, or nowhere this
\* probe goes (too long an address; another scheme), or to another address.
Answer(status) ==
  hops' = [hops EXCEPT ![chain] = Append(@, [tls |-> at.tls, status |-> status])]
Fetch ==
  /\ step = "fetch"
  /\ contacted' = contacted \cup {at.host}
  /\ \/ EndChain("silence") /\ UNCHANGED hops
     \/ \E status \in Statuses : Answer(status) /\ EndChain("answer")
     \/ Answer("redirect") /\ \E why \in {"too long", "foreign"} : EndChain(why)
     \/ /\ Answer("redirect")
        /\ at' \in Urls
        /\ step' = "judge"
        /\ UNCHANGED <<chain, stopped>>
  /\ UNCHANGED <<mode, proofVars, asking, decided, webVerdict, challenged>>

-----------------------------------------------------------------------------
(* Who may be contacted. *)

\* Scan, about the host it was given: the lists, then the proof.
ScanHost ==
  /\ step = "begin"
  /\ IF First \in Listed THEN step' = "refused" /\ UNCHANGED asking
     ELSE IF mode = "open" THEN step' = "fetch" /\ UNCHANGED asking
     ELSE step' = "front" /\ asking' = [host |-> First, level |-> 1]
  /\ UNCHANGED <<mode, proofVars, decided, walkVars, webVerdict, contacted, challenged>>

\* walk.may, about the host of a redirect: as it was decided before, or from the
\* lists and the proof.
Decide(answer) ==
  /\ decided' = [decided EXCEPT ![at.host] = answer]
  /\ IF answer = "may" THEN Follow ELSE EndChain("refused")
  /\ UNCHANGED hops
May ==
  /\ step = "judge"
  /\ \/ decided[at.host] # Undecided /\ Decide(decided[at.host]) /\ UNCHANGED asking
     \/ decided[at.host] = Undecided /\ at.host \in Listed /\ Decide("may not") /\ UNCHANGED asking
     \/ decided[at.host] = Undecided /\ at.host \notin Listed /\ mode = "open" /\ Decide("may") /\ UNCHANGED asking
     \/ /\ decided[at.host] = Undecided /\ at.host \notin Listed /\ mode # "open"
        /\ step' = "hop"
        /\ asking' = [host |-> at.host, level |-> 1]
        /\ UNCHANGED <<walkVars, decided>>
  /\ UNCHANGED <<mode, proofVars, webVerdict, contacted, challenged>>

\* What Covers answers, to the one who asked. A failure stops the walk too, and
\* refuses the scan.
\* (Fault: a failure is let pass.)
Said(yes) ==
  /\ asking' = Nowhere
  /\ \/ /\ step = "front"
        /\ step' = IF yes THEN "fetch" ELSE "refused"
        /\ UNCHANGED <<decided, walkVars>>
     \/ step = "hop" /\ Decide(IF yes THEN "may" ELSE "may not")
FailedIsYes == Said(TRUE)
Failed == Said(FALSE)

\* CoversSigned: a lookup for each label upwards; then, where it is offered, the
\* file on the host itself.
Labels == Above[asking.host]
LookUp ==
  /\ asking # Nowhere
  /\ asking.level <= Len(Labels)
  /\ \/ Failed
     \/ Enough(proofs.zone[Labels[asking.level]]) /\ Said(TRUE)
     \/ /\ ~Enough(proofs.zone[Labels[asking.level]])
        /\ asking' = [asking EXCEPT !.level = @ + 1]
        /\ UNCHANGED <<step, decided, walkVars>>
  /\ UNCHANGED <<mode, proofVars, webVerdict, contacted, challenged>>
FetchChallenge ==
  /\ asking # Nowhere
  /\ asking.level > Len(Labels)
  /\ \/ mode # "file" /\ Said(FALSE) /\ UNCHANGED challenged
     \/ /\ mode = "file"
        /\ challenged' = challenged \cup {asking.host}
        /\ Failed \/ Said(asking.host \in proofs.files)
  /\ UNCHANGED <<mode, proofVars, webVerdict, contacted>>

-----------------------------------------------------------------------------
(* What is made of the walk: GradeReach, and Grade joining it with the rest. *)

\* The last hop that answered stands for where the chain leads.
Answered(c) == hops[c] # <<>>
Landed(c) == Last(hops[c])

\* Set on the last hop of a chain that went further than it was followed.
Unfollowed(c) == stopped[c] \in {"refused", "too long", "limit"}

LeadsOn(c) == Answered(c) /\ Landed(c).status = "redirect" /\ Unfollowed(c)
ViaPlaintext == \E i \in DOMAIN hops["plain"] : i > 1 /\ \A j \in 1 .. i : ~hops["plain"][j].tls

Measured == Answered("secure") /\ Landed("secure").tls
NotFollowed ==
  \/ Measured /\ LeadsOn("secure")
  \/ Answered("plain") /\ ~Landed("plain").tls /\ LeadsOn("plain")
ReachFindings ==
  {v \in {Weak, Insecure} :
    \/ v = Insecure /\ Answered("secure") /\ ~Landed("secure").tls
    \/ Answered("plain") /\ Landed("plain").tls /\ v = Weak /\ ViaPlaintext
    \/ /\ Answered("plain") /\ ~Landed("plain").tls /\ ~LeadsOn("plain")
       /\ v = IF Landed("plain").status = "error" THEN Weak ELSE Insecure}
Reach == IF Measured /\ ~NotFollowed /\ ReachFindings = {} THEN Strong ELSE Worst(ReachFindings)

\* The other rules (policies, cookies, headers, the page) may find anything.
GradeWeb ==
  /\ step = "grade"
  /\ step' = "graded"
  /\ \E rest \in Verdict :
       LET worst == Worst({Reach, rest})
       IN  webVerdict' = IF worst = Strong /\ Reach = Ungraded THEN Ungraded ELSE worst
  /\ UNCHANGED <<mode, proofVars, asking, decided, walkVars, contacted, challenged>>

RedirectsNext == Change \/ ScanHost \/ Fetch \/ May \/ LookUp \/ FetchChallenge \/ GradeWeb

RedirectsSpec == RedirectsInit /\ [][RedirectsNext]_redirectsVars
-----------------------------------------------------------------------------

\* "A redirect is a different host, chosen by the server that answered rather
\* than by the operator" (webscan.go): wherever the redirects of whatever server
\* lead, whichever records come and go meanwhile and whichever lookups fail, no
\* host on a list is connected to, not even for its proof, and no other without
\* a proof that was there at some moment of this check.
OnlyShownHostsAreContacted ==
  /\ (contacted \cup challenged) \cap Listed = {}
  /\ mode # "open" => contacted \subseteq shown

\* Where the site leads a visitor: strong is said only where the last answer of the
\* secure chain came over TLS and is no redirect that this scan was not to follow, that
\* was one too many or too long, and where a visitor of the plain address was either
\* met by nobody or sent to TLS at once. What it does not say is in StrongWasFollowed.
StrongLeadsToTLS ==
  step = "graded" /\ webVerdict = Strong =>
    /\ Answered("secure") /\ Landed("secure").tls
    /\ stopped["secure"] \notin {"refused", "limit", "too long"}
    /\ Answered("plain") => Landed("plain").tls /\ hops["plain"][2].tls

\* "A chain this scan did not follow to its end is not a chain that ended", of which
\* "nothing is called sound" (GradeReach): where a redirect "went somewhere this scan
\* did not follow", nothing "can make the report strong" (Grade). So the secure chain
\* of a strong site ended in an answer, or at a host that was asked and gave none.
StrongWasFollowed ==
  step = "graded" /\ webVerdict = Strong => stopped["secure"] \in {"answer", "silence"}

\* Wherever the redirects lead, they lead nobody astray: not this walk to a host it may
\* not see, and not a reader to a Strong that a visitor does not get, as far as that
\* was followed.
NobodyIsLedAstray == OnlyShownHostsAreContacted /\ StrongLeadsToTLS
=============================================================================
