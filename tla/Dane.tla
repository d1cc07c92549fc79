-------------------------------- MODULE Dane --------------------------------
(***************************************************************************)
(* Whether an exchanger's DANE records hold (dane.go, and daneBinding of    *)
(* mailscan.go): one run over the usable records, in the order DNS gave      *)
(* them, against the chain the exchanger presented.                          *)
(***************************************************************************)
EXTENDS Integers, SequencesExt

CONSTANTS
  Certificates, \* certificates an exchanger may present, without the leaf
  Leaf,
  TlsaRecords,  \* usage, selector, matching, whole (the data has the length it needs), of (the certificate it is of)
  MaxTlsa       \* bound: how many records there are

ASSUME DaneAssumption ==
  /\ Leaf \notin Certificates /\ MaxTlsa \in Nat
  /\ \A r \in TlsaRecords : r.usage \in 0..3 /\ r.selector \in 0..1 /\ r.matching \in 0..3 /\ r.whole \in BOOLEAN

DaneTA == 2
DaneEE == 3
SelectorCertificate == 0
SelectorPublicKey == 1
MatchingExact == 0

\* Usable: only what a sender acts on, and only data as long as its digest.
Usable(r) == r.usage \in {DaneTA, DaneEE} /\ r.matching \in 0..2 /\ r.whole

\* What Verify says of the leaf under each certificate of the chain, were that the
\* only root, in the order chainsTo asks: "chains", "another name", "expired anchor",
\* "expired", "no chain".
Verdicts509 == {"chains", "another name", "expired anchor", "expired", "no chain"}

VARIABLES
  tlsa,      \* the records of the exchanger
  presented, \* how it answered: "unmeasured", "no starttls", or "chain"
  sentChain,     \* the chain it presented, the leaf first
  under,     \* chainsTo, for each of them
  turn,      \* the record looked at next
  undetermined, \* whether it is set; taFailure only chooses the words
  outcome

daneVars == <<tlsa, presented, sentChain, under, turn, undetermined, outcome>>

Outcomes == {"matched", "mismatched", "no-usable-records", "undetermined", "no-starttls", "not-checked"}

DaneTypeOK ==
  /\ tlsa \in BoundedSeq(TlsaRecords, MaxTlsa)
  /\ presented \in {"unmeasured", "no starttls", "chain"}
  /\ turn \in 1..(Len(tlsa) + 1)
  /\ undetermined \in BOOLEAN
  /\ outcome \in Outcomes \cup {"open"}

DaneInit ==
  /\ tlsa \in BoundedSeq(TlsaRecords, MaxTlsa) \ {<<>>}
  /\ presented \in {"unmeasured", "no starttls", "chain"}
  /\ sentChain \in IF presented = "chain" THEN {<<>>, <<Leaf>>} \cup {<<Leaf, c>> : c \in Certificates} ELSE {<<>>}
  /\ under \in [ToSet(sentChain) -> Verdicts509]
  /\ turn = 1
  /\ undetermined = FALSE
  /\ outcome = "open"

\* matches: the content the selector names, or its digest, is the record's.
Matches(r, c) == r.of = c

\* daneBinding, before Check: no usable record, no certificate, or no offer of one;
\* and Check, where no chain was presented.
BindingFor ==
  /\ outcome = "open" /\ turn = 1
  /\ \/ /\ \A i \in DOMAIN tlsa : ~Usable(tlsa[i])
        /\ outcome' = "no-usable-records"
     \/ /\ \E i \in DOMAIN tlsa : Usable(tlsa[i])
        /\ \/ presented = "unmeasured" /\ outcome' = "not-checked"
           \/ presented = "no starttls" /\ outcome' = "no-starttls"
           \/ presented = "chain" /\ sentChain = <<>> /\ outcome' = "undetermined"
  /\ UNCHANGED <<tlsa, presented, sentChain, under, turn, undetermined>>

Checking ==
  /\ outcome = "open" /\ sentChain # <<>> /\ turn <= Len(tlsa)
  /\ \E i \in DOMAIN tlsa : Usable(tlsa[i])

\* One turn of Check. DANE-EE asks for the leaf alone, and for neither its name nor
\* its dates; DANE-TA for a certificate of the chain that the leaf chains to. A bare
\* key of which no certificate was presented settles nothing.
\* (Fault: DANE-EE takes any certificate of the chain.)
Skip ==
  /\ Checking /\ ~Usable(tlsa[turn])
  /\ turn' = turn + 1
  /\ UNCHANGED <<tlsa, presented, sentChain, under, undetermined, outcome>>
EndEntityOf(matching) ==
  LET r == tlsa[turn]
  IN  /\ Checking /\ Usable(r) /\ r.usage = DaneEE
      /\ \/ matching /\ outcome' = "matched"
         \/ ~matching /\ UNCHANGED outcome
      /\ turn' = turn + 1
      /\ UNCHANGED <<tlsa, presented, sentChain, under, undetermined>>
EndEntityAny == Checking /\ EndEntityOf(\E c \in ToSet(sentChain) : Matches(tlsa[turn], c))
EndEntity == Checking /\ EndEntityOf(Matches(tlsa[turn], Leaf))
TrustAnchor ==
  LET r == tlsa[turn]
      anchors == {c \in ToSet(sentChain) : Matches(r, c)}
  IN  /\ Checking /\ Usable(r) /\ r.usage = DaneTA
      /\ outcome' = IF \E c \in anchors : under[c] = "chains" THEN "matched" ELSE outcome
      /\ undetermined' = (\/ undetermined
                          \/ \E c \in anchors : under[c] = "expired anchor"
                          \/ anchors = {} /\ r.selector = SelectorPublicKey /\ r.matching = MatchingExact)
      /\ turn' = turn + 1
      /\ UNCHANGED <<tlsa, presented, sentChain, under>>

\* What could not be settled comes before what failed.
EndOfRecords ==
  /\ outcome = "open" /\ turn > Len(tlsa)
  /\ outcome' = IF undetermined THEN "undetermined" ELSE "mismatched"
  /\ UNCHANGED <<tlsa, presented, sentChain, under, turn, undetermined>>

DaneNext == BindingFor \/ Skip \/ EndEntity \/ TrustAnchor \/ EndOfRecords

DaneSpec == DaneInit /\ [][DaneNext]_daneVars
-----------------------------------------------------------------------------

\* What one usable record says by itself.
RecordHolds(r) ==
  \/ r.usage = DaneEE /\ r.of = Leaf
  \/ r.usage = DaneTA /\ \E c \in ToSet(sentChain) : r.of = c /\ under[c] = "chains"
RecordFails(r) ==
  IF r.usage = DaneEE THEN r.of # Leaf
  ELSE \/ \E c \in ToSet(sentChain) : r.of = c /\ under[c] \in {"another name", "expired", "no chain"}
       \/ r.of \notin ToSet(sentChain) /\ ~(r.selector = SelectorPublicKey /\ r.matching = MatchingExact)

\* The order DNS gives the records in decides nothing: a binding is said to hold
\* exactly when one usable record holds by itself, and to be broken only when every
\* usable record is shown to fail ("undetermined" is kept apart from "mismatched").
BindingIsTheRecords ==
  LET usable == {r \in ToSet(tlsa) : Usable(r)}
  IN  /\ outcome = "matched" => sentChain # <<>> /\ \E r \in usable : RecordHolds(r)
      /\ outcome = "mismatched" => usable # {} /\ \A r \in usable : RecordFails(r) /\ ~RecordHolds(r)
      /\ (outcome \notin {"open", "matched"} /\ sentChain # <<>>) => \A r \in usable : ~RecordHolds(r)
=============================================================================
