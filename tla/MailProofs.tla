------------------------------ MODULE MailProofs ------------------------------
(***************************************************************************)
(* Proofs about the check of a mail domain: the binding of an exchanger by *)
(* its DANE records, the walk over its sender policy, the reading of its   *)
(* policy file, the conversation with it, who is spoken to at all, and     *)
(* what a question that fails does to the report; for any records, lines   *)
(* and answers.                                                            *)
(***************************************************************************)
EXTENDS Dane, Spf, Conversation, MailScan, FiniteSetTheorems, SequenceTheorems, TLAPS

(***************************************************************************)
(* DANE (dane.go): the records are tried in turn, each against the chain   *)
(* the exchanger presented.                                                *)
(***************************************************************************)
\* The variables have their types; only an exchanger that answered presented a chain.
DaneShape ==
  /\ tlsa \in Seq(TlsaRecords) /\ tlsa # <<>>
  /\ under \in [ToSet(sentChain) -> Verdicts509]
  /\ presented # "chain" => sentChain = <<>>
  /\ turn \in 1..(Len(tlsa) + 1)
  /\ undetermined \in BOOLEAN
  /\ outcome \in Outcomes \cup {"open"}

\* Of the records behind: none holds, and each is shown to fail unless something was
\* left undetermined. Once one was looked at, there is one to look at.
SoFar ==
  outcome = "open" =>
    /\ \A i \in 1..(turn - 1) :
         Usable(tlsa[i]) => ~RecordHolds(tlsa[i]) /\ (undetermined \/ RecordFails(tlsa[i]))
    /\ turn > 1 => \E r \in ToSet(tlsa) : Usable(r)

DaneInv == DaneShape /\ SoFar /\ BindingIsTheRecords

LEMMA DaneStarts == DaneInit => DaneInv
<1> SUFFICES ASSUME DaneInit PROVE DaneInv
  OBVIOUS
<1>1. tlsa \in Seq(TlsaRecords)
  <2>1. PICK m \in 0..MaxTlsa : tlsa \in [1..m -> TlsaRecords]
    BY DEF DaneInit, BoundedSeq, SeqOf
  <2> QED
    BY <2>1
<1>2. DaneShape
  <2>1. presented # "chain" => sentChain = <<>>
    BY DEF DaneInit
  <2>2. turn \in 1..(Len(tlsa) + 1)
    <3>1. turn = 1
      BY DEF DaneInit
    <3>2. Len(tlsa) \in Nat
      BY <1>1
    <3> QED
      BY <3>1, <3>2
  <2>3. under \in [ToSet(sentChain) -> Verdicts509]
    BY DEF DaneInit
  <2>4. undetermined \in BOOLEAN /\ outcome = "open" /\ tlsa # <<>>
    BY DEF DaneInit
  <2> QED
    BY <1>1, <2>1, <2>2, <2>3, <2>4 DEF DaneShape
<1>3. outcome = "open" /\ turn = 1
  BY DEF DaneInit
<1>4. SoFar
  BY <1>3 DEF SoFar
<1>5. BindingIsTheRecords
  BY <1>3 DEF BindingIsTheRecords
<1> QED
  BY <1>2, <1>4, <1>5 DEF DaneInv

\* A sequence is its records.
LEMMA MembersAreAtPlaces ==
  ASSUME NEW s, NEW S, s \in Seq(S)
  PROVE  /\ \A r \in ToSet(s) : r \in S /\ \E i \in 1..Len(s) : s[i] = r
         /\ \A i \in 1..Len(s) : s[i] \in ToSet(s)
BY DEF ToSet

\* One turn over a record that did not match: the records behind are one more.
LEMMA OneMoreRecord ==
  ASSUME DaneShape, SoFar, Checking,
         turn' = turn + 1, outcome' = "open",
         UNCHANGED <<tlsa, presented, sentChain, under>>,
         undetermined' \in BOOLEAN, undetermined => undetermined',
         Usable(tlsa[turn]) => ~RecordHolds(tlsa[turn]) /\ (undetermined' \/ RecordFails(tlsa[turn]))
  PROVE  DaneInv'
<1>1. DaneShape'
  BY DEF DaneShape, Checking
<1>2. \E r \in ToSet(tlsa) : Usable(r)
  BY MembersAreAtPlaces DEF DaneShape, Checking
<1>3. SoFar'
  <2> SUFFICES ASSUME NEW i \in 1..turn, Usable(tlsa[i])
               PROVE  ~RecordHolds(tlsa[i]) /\ (undetermined' \/ RecordFails(tlsa[i]))
    <3>1. turn \in Int /\ (turn + 1) - 1 = turn
      BY DEF DaneShape
    <3> QED
      BY <1>2, <3>1 DEF SoFar, RecordHolds, RecordFails
  <2>1. CASE i = turn
    BY <2>1
  <2>2. CASE i \in 1..(turn - 1)
    BY <2>2 DEF SoFar, Checking
  <2> QED
    BY <2>1, <2>2 DEF DaneShape
<1> QED
  BY <1>1, <1>3 DEF DaneInv, BindingIsTheRecords

\* One turn over a record that holds ends the search.
LEMMA OneThatHolds ==
  ASSUME DaneShape, Checking, turn' = turn + 1, outcome' = "matched",
         UNCHANGED <<tlsa, presented, sentChain, under>>, undetermined' \in BOOLEAN,
         Usable(tlsa[turn]), RecordHolds(tlsa[turn])
  PROVE  DaneInv'
<1>1. turn \in 1..Len(tlsa) /\ sentChain # <<>>
  BY DEF DaneShape, Checking
<1>2. DaneShape'
  BY <1>1 DEF DaneShape, Outcomes
<1>3. tlsa[turn] \in ToSet(tlsa)
  BY <1>1, MembersAreAtPlaces DEF DaneShape
<1>4. BindingIsTheRecords'
  BY <1>1, <1>3 DEF BindingIsTheRecords, RecordHolds, Usable
<1> QED
  BY <1>2, <1>4 DEF DaneInv, SoFar

LEMMA DaneStepKeeps == DaneInv /\ [DaneNext]_daneVars => DaneInv'
<1> SUFFICES ASSUME DaneInv, [DaneNext]_daneVars PROVE DaneInv'
  OBVIOUS
<1>1. CASE BindingFor
  <2>1. outcome' \in {"no-usable-records", "not-checked", "no-starttls", "undetermined"}
    BY <1>1 DEF BindingFor
  <2>2. DaneShape'
    BY <1>1, <2>1 DEF BindingFor, DaneInv, DaneShape, Outcomes
  <2>3. BindingIsTheRecords'
    <3>1. sentChain = <<>> \/ \A r \in ToSet(tlsa) : ~Usable(r)
      <4>1. sentChain = <<>> \/ \A i \in DOMAIN tlsa : ~Usable(tlsa[i])
        BY <1>1 DEF BindingFor, DaneInv, DaneShape
      <4>2. \A r \in ToSet(tlsa) : \E i \in DOMAIN tlsa : tlsa[i] = r
        BY DEF ToSet
      <4> QED
        BY <4>1, <4>2
    <3>2. UNCHANGED <<tlsa, sentChain, under>>
      BY <1>1 DEF BindingFor
    <3> QED
      BY <2>1, <3>1, <3>2 DEF BindingIsTheRecords
  <2> QED
    BY <2>1, <2>2, <2>3 DEF DaneInv, SoFar
<1>2. CASE Skip
  BY <1>2, OneMoreRecord DEF Skip, Checking, DaneInv, DaneShape
<1>3. CASE EndEntity
  <2>1. /\ Checking /\ Usable(tlsa[turn]) /\ tlsa[turn].usage = DaneEE
        /\ turn' = turn + 1 /\ UNCHANGED <<tlsa, presented, sentChain, under, undetermined>>
    BY <1>3 DEF EndEntity, EndEntityOf
  <2>2. CASE tlsa[turn].of = Leaf /\ outcome' = "matched"
    BY <2>1, <2>2, OneThatHolds DEF RecordHolds, DaneInv, DaneShape
  <2>3. CASE tlsa[turn].of # Leaf /\ outcome' = outcome
    <3>1. ~RecordHolds(tlsa[turn]) /\ RecordFails(tlsa[turn])
      BY <2>1, <2>3 DEF RecordHolds, RecordFails, DaneTA, DaneEE
    <3> QED
      BY <2>1, <2>3, <3>1, OneMoreRecord DEF Checking, DaneInv, DaneShape
  <2> QED
    BY <1>3, <2>2, <2>3 DEF EndEntity, EndEntityOf, Matches
<1>4. CASE TrustAnchor
  <2> DEFINE r == tlsa[turn]
             anchors == {c \in ToSet(sentChain) : Matches(r, c)}
  <2>0. r.usage = DaneTA
    BY <1>4 DEF TrustAnchor
  <2>1. /\ Checking /\ Usable(r)
        /\ turn' = turn + 1 /\ UNCHANGED <<tlsa, presented, sentChain, under>>
        /\ outcome' = IF \E c \in anchors : under[c] = "chains" THEN "matched" ELSE outcome
        /\ undetermined' = (\/ undetermined
                            \/ \E c \in anchors : under[c] = "expired anchor"
                            \/ anchors = {} /\ r.selector = SelectorPublicKey /\ r.matching = MatchingExact)
    BY <1>4 DEF TrustAnchor
  <2>2. undetermined' \in BOOLEAN /\ (undetermined => undetermined')
    BY <2>1 DEF DaneInv, DaneShape
  <2>3. CASE \E c \in anchors : under[c] = "chains"
    <3>1. RecordHolds(r)
      BY <2>0, <2>3 DEF RecordHolds, Matches
    <3> QED
      BY <2>1, <2>2, <2>3, <3>1, OneThatHolds DEF DaneInv
  <2>4. CASE ~\E c \in anchors : under[c] = "chains"
    <3>1. ~RecordHolds(r)
      <4>1. r.usage # DaneEE
        BY <2>0 DEF DaneTA, DaneEE
      <4>2. \A c \in ToSet(sentChain) : r.of = c => under[c] # "chains"
        BY <2>4 DEF Matches
      <4> QED
        BY <4>1, <4>2 DEF RecordHolds
    <3>2. undetermined' \/ RecordFails(r)
      <4>0. r.usage # DaneEE
        BY <2>0 DEF DaneTA, DaneEE
      <4>1. \A c \in anchors : under[c] \in Verdicts509 /\ c = r.of /\ c \in ToSet(sentChain)
        BY DEF DaneInv, DaneShape, Matches
      <4>2. CASE anchors = {}
        <5>1. r.of \notin ToSet(sentChain)
          BY <4>2 DEF Matches
        <5> QED
          BY <2>1, <4>0, <4>2, <5>1 DEF RecordFails
      <4>3. CASE anchors # {}
        <5>1. PICK c \in anchors : TRUE
          BY <4>3
        <5>2. under[c] \in {"another name", "expired", "no chain"} \/ under[c] = "expired anchor"
          BY <2>4, <4>1, <5>1 DEF Verdicts509
        <5> QED
          BY <2>1, <4>0, <4>1, <5>1, <5>2 DEF RecordFails
      <4> QED
        BY <4>2, <4>3
    <3> QED
      BY <2>1, <2>2, <2>4, <3>1, <3>2, OneMoreRecord DEF Checking, DaneInv
  <2> QED
    BY <2>3, <2>4
<1>5. CASE EndOfRecords
  <2>1. /\ outcome = "open" /\ turn > Len(tlsa)
        /\ outcome' = IF undetermined THEN "undetermined" ELSE "mismatched"
        /\ UNCHANGED <<tlsa, presented, sentChain, under, turn, undetermined>>
    BY <1>5 DEF EndOfRecords
  <2>2. \A r \in ToSet(tlsa) : Usable(r) => ~RecordHolds(r) /\ (undetermined \/ RecordFails(r))
    <3>1. tlsa \in Seq(TlsaRecords) /\ turn = Len(tlsa) + 1 /\ Len(tlsa) \in Nat
      BY <2>1 DEF DaneInv, DaneShape
    <3>2. \A i \in 1..Len(tlsa) : Usable(tlsa[i]) => ~RecordHolds(tlsa[i]) /\ (undetermined \/ RecordFails(tlsa[i]))
      BY <2>1, <3>1 DEF DaneInv, SoFar
    <3> QED
      BY <3>1, <3>2, MembersAreAtPlaces
  <2>3. BindingIsTheRecords'
    <3>1. outcome' = "mismatched" => \A r \in ToSet(tlsa) : Usable(r) => RecordFails(r)
      BY <2>1, <2>2
    <3>2. \E r \in ToSet(tlsa) : Usable(r)
      <4>1. turn > 1
        BY <2>1 DEF DaneInv, DaneShape
      <4> QED
        BY <2>1, <4>1 DEF DaneInv, SoFar
    <3> QED
      BY <2>1, <2>2, <3>1, <3>2 DEF BindingIsTheRecords, RecordHolds, RecordFails
  <2> QED
    BY <2>1, <2>3 DEF DaneInv, DaneShape, SoFar, Outcomes
<1>6. CASE UNCHANGED daneVars
  BY <1>6 DEF daneVars, DaneInv, DaneShape, SoFar, BindingIsTheRecords, RecordHolds, RecordFails
<1> QED
  BY <1>1, <1>2, <1>3, <1>4, <1>5, <1>6 DEF DaneNext

\* Whatever the records, their order and the chain: a binding is said to hold exactly
\* when one usable record holds by itself, and to be broken only when each is shown
\* to fail.
THEOREM BindingHolds == DaneSpec => []BindingIsTheRecords
<1>1. DaneInv => BindingIsTheRecords
  BY DEF DaneInv
<1> QED
  BY <1>1, DaneStarts, DaneStepKeeps, PTL DEF DaneSpec

-----------------------------------------------------------------------------
(***************************************************************************)
(* The policy file (mtasts.go): what is kept of it is what its lines say,  *)
(* read one after the other.                                               *)
(***************************************************************************)
LineValues == {l.value : l \in PolicyLines}
MxLines == {i \in DOMAIN body : body[i].key = "mx"}
NamesGiven == {body[i].value : i \in MxLines} \ {<<>>}

StsShape ==
  /\ body \in Seq(PolicyLines) /\ allowed \in Seq(LineValues)
  /\ given \subseteq Once
  /\ overlong \in BOOLEAN /\ fetched \in FetchOutcomes

\* The three keys as they were found so far: each at one line, which says what is
\* kept of it.
KeysSoFar ==
  /\ \A i \in DOMAIN body : body[i].key = "mx" \/ body[i].key \in given
  /\ \A k \in given : \E i \in DOMAIN body :
       /\ body[i].key = k /\ declared[k] = body[i].value
       /\ \A j \in DOMAIN body : body[j].key = k => j = i

\* The names so far: no other is kept, and each is unless it is said that some are not.
NamesSoFar ==
  /\ ToSet(allowed) \subseteq NamesGiven
  /\ overlong \/ NamesGiven \subseteq ToSet(allowed)

StsInv ==
  /\ StsShape
  /\ fetched \in {"not-begun", "reading", "policy"} => KeysSoFar /\ NamesSoFar
  /\ PolicyReadsOneWay

LEMMA StsStarts == StsInit => StsInv
<1> SUFFICES ASSUME StsInit PROVE StsInv
  OBVIOUS
<1>1. given = {} /\ fetched = "not-begun" /\ overlong = FALSE
  BY DEF StsInit
<1>2. body \in Seq(PolicyLines) /\ DOMAIN body = {}
  <2>1. body = <<>>
    BY DEF StsInit
  <2> QED
    BY <2>1
<1>3. allowed \in Seq(LineValues) /\ ToSet(allowed) = {}
  <2>1. allowed = <<>>
    BY DEF StsInit
  <2> QED
    BY <2>1 DEF ToSet
<1>4. StsShape
  BY <1>1, <1>2, <1>3 DEF StsShape, FetchOutcomes
<1>5. KeysSoFar
  BY <1>1, <1>2 DEF KeysSoFar
<1>6. NamesSoFar
  <2>1. MxLines = {}
    BY <1>2 DEF MxLines
  <2>2. NamesGiven = {}
    BY <2>1 DEF NamesGiven
  <2> QED
    BY <1>3, <2>2 DEF NamesSoFar
<1> QED
  BY <1>1, <1>4, <1>5, <1>6 DEF StsInv, PolicyReadsOneWay

\* What is read of the same lines is the same.
LEMMA SameLines ==
  ASSUME UNCHANGED <<body, given, declared, allowed, overlong>>
  PROVE  /\ KeysSoFar' <=> KeysSoFar
         /\ NamesSoFar' <=> NamesSoFar
<1>1. KeysSoFar' <=> KeysSoFar
  BY DEF KeysSoFar
<1>2. NamesGiven' = NamesGiven
  <2>1. MxLines' = MxLines
    BY DEF MxLines
  <2> QED
    BY <2>1 DEF NamesGiven
<1>3. NamesSoFar' <=> NamesSoFar
  BY <1>2 DEF NamesSoFar
<1> QED
  BY <1>1, <1>3

\* A sequence with one more at its end.
LEMMA OneMoreLine ==
  ASSUME NEW S, NEW s \in Seq(S), NEW x \in S
  PROVE  /\ Append(s, x) \in Seq(S)
         /\ DOMAIN s = 1..Len(s) /\ Len(s) \in Nat
         /\ DOMAIN Append(s, x) = 1..(Len(s) + 1)
         /\ \A i \in 1..Len(s) : Append(s, x)[i] = s[i]
         /\ Append(s, x)[Len(s) + 1] = x
         /\ ToSet(Append(s, x)) = ToSet(s) \cup {x}
<1>1. /\ Append(s, x) \in Seq(S)
      /\ DOMAIN s = 1..Len(s) /\ Len(s) \in Nat
      /\ DOMAIN Append(s, x) = 1..(Len(s) + 1)
      /\ \A i \in 1..Len(s) : Append(s, x)[i] = s[i]
      /\ Append(s, x)[Len(s) + 1] = x
  OBVIOUS
<1>2. ToSet(Append(s, x)) = ToSet(s) \cup {x}
  BY <1>1 DEF ToSet
<1> QED
  BY <1>1, <1>2

\* A name is added, or dropped with a word about it.
LEMMA NameKeeps ==
  ASSUME StsInv, fetched = "reading", fetched' = "reading",
         NEW line \in PolicyLines, line.key = "mx", body' = Append(body, line), Take(line)
  PROVE  StsInv'
<1>1. /\ overlong' = (overlong \/ Len(allowed) >= MaxNames)
      /\ allowed' = IF Len(allowed) >= MaxNames \/ line.value = <<>> THEN allowed ELSE Append(allowed, line.value)
      /\ UNCHANGED <<given, declared>>
  BY DEF Take
<1>2. line.value \in LineValues
  BY DEF LineValues
<1>3. body \in Seq(PolicyLines) /\ allowed \in Seq(LineValues)
  BY DEF StsInv, StsShape
<1>4. /\ DOMAIN body = 1..Len(body) /\ Len(body) \in Nat
      /\ DOMAIN body' = 1..(Len(body) + 1) /\ body' \in Seq(PolicyLines)
      /\ \A i \in 1..Len(body) : body'[i] = body[i]
      /\ body'[Len(body) + 1] = line
  BY <1>3, OneMoreLine
<1>5. KeysSoFar /\ NamesSoFar
  BY DEF StsInv
<1>6. StsShape'
  <2>1. allowed' \in Seq(LineValues)
    BY <1>1, <1>2, <1>3, OneMoreLine
  <2> QED
    BY <1>1, <1>4, <2>1 DEF StsInv, StsShape, FetchOutcomes
<1>7. KeysSoFar'
  <2>1. \A i \in DOMAIN body' : body'[i].key = "mx" \/ body'[i].key \in given
    BY <1>4, <1>5 DEF KeysSoFar
  <2>2. ASSUME NEW k \in given
        PROVE  \E i \in DOMAIN body' :
                 /\ body'[i].key = k /\ declared[k] = body'[i].value
                 /\ \A j \in DOMAIN body' : body'[j].key = k => j = i
    <3>1. PICK i \in DOMAIN body : /\ body[i].key = k /\ declared[k] = body[i].value
                                   /\ \A j \in DOMAIN body : body[j].key = k => j = i
      BY <1>5 DEF KeysSoFar
    <3>2. k # "mx"
      BY DEF StsInv, StsShape, Once
    <3>3. i \in DOMAIN body' /\ body'[i] = body[i]
      BY <1>4, <3>1
    <3>4. \A j \in DOMAIN body' : body'[j].key = k => j = i
      BY <1>4, <3>1, <3>2
    <3> QED
      BY <3>1, <3>3, <3>4
  <2> QED
    BY <1>1, <2>1, <2>2 DEF KeysSoFar
<1>8. NamesSoFar'
  <2>1. NamesGiven' = NamesGiven \cup ({line.value} \ {<<>>})
    <3>1. MxLines' = MxLines \cup {Len(body) + 1}
      BY <1>4 DEF MxLines
    <3> QED
      BY <1>4, <3>1 DEF NamesGiven, MxLines
  <2>2. CASE Len(allowed) >= MaxNames
    BY <1>1, <1>5, <2>1, <2>2 DEF NamesSoFar
  <2>3. CASE ~(Len(allowed) >= MaxNames) /\ line.value = <<>>
    BY <1>1, <1>5, <2>1, <2>3 DEF NamesSoFar
  <2>4. CASE ~(Len(allowed) >= MaxNames) /\ line.value # <<>>
    <3>1. ToSet(allowed') = ToSet(allowed) \cup {line.value}
      BY <1>1, <1>2, <1>3, <2>4, OneMoreLine
    <3>2. overlong' = overlong
      BY <1>1, <2>4 DEF StsInv, StsShape
    <3> QED
      BY <1>5, <2>1, <2>4, <3>1, <3>2 DEF NamesSoFar
  <2> QED
    BY <2>2, <2>3, <2>4
<1> QED
  BY <1>6, <1>7, <1>8 DEF StsInv, PolicyReadsOneWay

\* A key that was not there yet is kept as this line says.
LEMMA KeyKeeps ==
  ASSUME StsInv, fetched = "reading", fetched' = "reading",
         NEW line \in PolicyLines, line.key # "mx", line.key \notin given,
         body' = Append(body, line), Take(line)
  PROVE  StsInv'
<1>1. /\ given' = given \cup {line.key}
      /\ declared' = [k \in given' |-> IF k = line.key THEN line.value ELSE declared[k]]
      /\ UNCHANGED <<allowed, overlong>>
  BY DEF Take
<1>2. line.key \in Once
  BY StsAssumption
<1>3. /\ DOMAIN body = 1..Len(body) /\ Len(body) \in Nat
      /\ DOMAIN body' = 1..(Len(body) + 1) /\ body' \in Seq(PolicyLines)
      /\ \A i \in 1..Len(body) : body'[i] = body[i]
      /\ body'[Len(body) + 1] = line
  BY OneMoreLine DEF StsInv, StsShape
<1>4. KeysSoFar /\ NamesSoFar
  BY DEF StsInv
<1>5. StsShape'
  BY <1>1, <1>2, <1>3 DEF StsInv, StsShape, FetchOutcomes
<1>6. KeysSoFar'
  <2>1. \A i \in DOMAIN body' : body'[i].key = "mx" \/ body'[i].key \in given'
    BY <1>1, <1>3, <1>4 DEF KeysSoFar
  <2>2. ASSUME NEW k \in given'
        PROVE  \E i \in DOMAIN body' :
                 /\ body'[i].key = k /\ declared'[k] = body'[i].value
                 /\ \A j \in DOMAIN body' : body'[j].key = k => j = i
    <3>1. CASE k = line.key
      <4>1. \A i \in DOMAIN body : body[i].key # k
        BY <1>4, <3>1 DEF KeysSoFar
      <4>2. \A j \in DOMAIN body' : body'[j].key = k => j = Len(body) + 1
        BY <1>3, <4>1
      <4>3. declared'[k] = line.value
        BY <1>1, <3>1
      <4> QED
        BY <1>3, <3>1, <4>2, <4>3
    <3>2. CASE k # line.key
      <4>1. k \in given /\ declared'[k] = declared[k]
        BY <1>1, <3>2
      <4>2. PICK i \in DOMAIN body : /\ body[i].key = k /\ declared[k] = body[i].value
                                     /\ \A j \in DOMAIN body : body[j].key = k => j = i
        BY <1>4, <4>1 DEF KeysSoFar
      <4>3. i \in DOMAIN body' /\ body'[i] = body[i]
        BY <1>3, <4>2
      <4>4. \A j \in DOMAIN body' : body'[j].key = k => j = i
        BY <1>3, <3>2, <4>2
      <4> QED
        BY <4>1, <4>2, <4>3, <4>4
    <3> QED
      BY <3>1, <3>2
  <2> QED
    BY <2>1, <2>2 DEF KeysSoFar
<1>7. NamesSoFar'
  <2>1. MxLines' = MxLines
    BY <1>3 DEF MxLines
  <2>2. \A i \in MxLines : body'[i] = body[i]
    BY <1>3 DEF MxLines
  <2>3. NamesGiven' = NamesGiven
    BY <2>1, <2>2 DEF NamesGiven
  <2> QED
    BY <1>1, <1>4, <2>3 DEF NamesSoFar
<1> QED
  BY <1>5, <1>6, <1>7 DEF StsInv, PolicyReadsOneWay

\* A line that makes the file invalid ends the reading.
LEMMA InvalidKeeps ==
  ASSUME StsInv, fetched' = "invalid", NEW line \in PolicyLines, body' = Append(body, line),
         UNCHANGED <<given, allowed, overlong>>
  PROVE  StsInv'
<1>1. body' \in Seq(PolicyLines)
  BY OneMoreLine DEF StsInv, StsShape
<1> QED
  BY <1>1 DEF StsInv, StsShape, PolicyReadsOneWay, FetchOutcomes

LEMMA EndKeeps ==
  ASSUME StsInv, EndOfBody
  PROVE  StsInv'
<1>1. /\ fetched = "reading" /\ fetched' \in {"policy", "invalid"}
      /\ UNCHANGED <<body, given, declared, allowed, overlong>>
  BY DEF EndOfBody
<1>2. KeysSoFar /\ NamesSoFar
  BY <1>1 DEF StsInv
<1>3. KeysSoFar' /\ NamesSoFar'
  BY <1>1, <1>2, SameLines
<1>5. StsShape'
  BY <1>1 DEF StsInv, StsShape, FetchOutcomes
<1>4. ASSUME fetched' = "policy" PROVE PolicyReadsOneWay'
  <2>1. /\ given = Once /\ declared["version"] = "STSv1"
        /\ declared["mode"] = "none" \/ allowed # <<>> \/ overlong
    BY <1>4 DEF EndOfBody
  <2>2. ASSUME NEW key \in Once
        PROVE  \E i \in {i \in DOMAIN body : body[i].key = key} :
                 {j \in DOMAIN body : body[j].key = key} = {i} /\ declared[key] = body[i].value
    <3>1. PICK i \in DOMAIN body : /\ body[i].key = key /\ declared[key] = body[i].value
                                   /\ \A j \in DOMAIN body : body[j].key = key => j = i
      BY <1>2, <2>1 DEF KeysSoFar
    <3>2. {j \in DOMAIN body : body[j].key = key} = {i}
      BY <3>1
    <3> QED
      BY <3>1, <3>2
  <2>3. /\ ToSet(allowed) \subseteq NamesGiven
        /\ overlong \/ ToSet(allowed) = NamesGiven
    BY <1>2 DEF NamesSoFar
  <2> QED
    BY <1>1, <2>1, <2>2, <2>3 DEF PolicyReadsOneWay, NamesGiven, MxLines
<1> QED
  BY <1>1, <1>3, <1>4, <1>5 DEF StsInv, PolicyReadsOneWay

LEMMA StsStepKeeps == StsInv /\ [StsNext]_stsVars => StsInv'
<1> SUFFICES ASSUME StsInv, [StsNext]_stsVars PROVE StsInv'
  OBVIOUS
<1>1. CASE FetchPolicy
  <2>1. /\ fetched = "not-begun" /\ fetched' \in {"not-fetched", "invalid", "reading"}
        /\ UNCHANGED <<body, given, declared, allowed, overlong>>
    BY <1>1 DEF FetchPolicy
  <2>2. KeysSoFar' /\ NamesSoFar'
    BY <2>1, SameLines DEF StsInv
  <2> QED
    BY <2>1, <2>2 DEF StsInv, StsShape, FetchOutcomes, PolicyReadsOneWay
<1>2. CASE ReadLine
  <2>1. PICK line \in PolicyLines :
          /\ body' = Append(body, line)
          /\ \/ line.key \notin given /\ Take(line)
             \/ line.key \in given /\ fetched' = "invalid" /\ UNCHANGED <<given, declared, allowed, overlong>>
    BY <1>2 DEF ReadLine
  <2>2. fetched = "reading"
    BY <1>2 DEF ReadLine
  <2>3. CASE fetched' = "invalid" /\ UNCHANGED <<given, declared, allowed, overlong>>
    BY <2>1, <2>3, InvalidKeeps
  <2>4. CASE line.key = "mx" /\ Take(line)
    <3>1. fetched' = "reading"
      BY <2>2, <2>4 DEF Take
    <3> QED
      BY <2>1, <2>2, <2>4, <3>1, NameKeeps
  <2>5. CASE line.key # "mx" /\ line.key \notin given /\ Take(line) /\ Valid(line)
    <3>1. fetched' = "reading"
      BY <2>2, <2>5 DEF Take
    <3> QED
      BY <2>1, <2>2, <2>5, <3>1, KeyKeeps
  <2>6. CASE line.key # "mx" /\ Take(line) /\ ~Valid(line)
    BY <2>3, <2>6 DEF Take
  <2> QED
    BY <2>1, <2>3, <2>4, <2>5, <2>6
<1>3. CASE EndOfBody
  BY <1>3, EndKeeps
<1>4. CASE UNCHANGED stsVars
  <2>1. UNCHANGED <<body, given, declared, allowed, overlong>> /\ fetched' = fetched
    BY <1>4 DEF stsVars
  <2>2. PolicyReadsOneWay'
    BY <2>1 DEF StsInv, PolicyReadsOneWay
  <2>3. StsShape'
    BY <2>1 DEF StsInv, StsShape
  <2> QED
    BY <2>1, <2>2, <2>3, SameLines DEF StsInv
<1> QED
  BY <1>1, <1>2, <1>3, <1>4 DEF StsNext

\* Whatever the lines of a policy file and their order: what is taken for a policy
\* says each of its three keys once, as graded, and names what it names.
THEOREM ReadsOneWay == StsSpec => []PolicyReadsOneWay
<1>1. StsInv => PolicyReadsOneWay
  BY DEF StsInv
<1> QED
  BY <1>1, StsStarts, StsStepKeeps, PTL DEF StsSpec

-----------------------------------------------------------------------------
(***************************************************************************)
(* The conversation with an exchanger. Where it is says what is known of   *)
(* it: nothing before the greeting, the connection after it, the offer     *)
(* after EHLO; and the certificate only once nothing is left to read.      *)
(***************************************************************************)

Result ==
  [connected : BOOLEAN, measured : BOOLEAN, offered : BOOLEAN, upgraded : BOOLEAN, trusted : BOOLEAN,
   names : BOOLEAN, timedOut : BOOLEAN, reason : Reasons, certificate : CertificateReasons]

\* What is known while the conversation goes on.
Known(connected, offered) ==
  /\ out.connected = connected /\ out.measured = offered /\ out.offered = offered
  /\ ~out.upgraded /\ ~out.trusted /\ ~out.names /\ ~out.timedOut
  /\ out.reason = ""

ConversationInv ==
  /\ probing \in ProbeSteps
  /\ out \in Result
  /\ probing \in {"dial", "greeting"} => Known(FALSE, FALSE)
  /\ probing = "ehlo" => Known(TRUE, FALSE)
  /\ probing \in {"starttls", "handshake"} => Known(TRUE, TRUE)
  /\ CheckHeloName(configured)
  /\ ResultIsOneSentence

\* An operator's name is the one that is sent.
LEMMA OperatorsNameIsSent ==
  ASSUME CheckHeloName(configured)
  PROVE  configured # "" => HeloName = configured
BY DEF CheckHeloName, HeloName

\* Why a reply was not read is one of the reasons.
LEMMA ReplyReasons ==
  ASSUME NEW unread \in {"no greeting", "ehlo unread", "starttls refused"}, NEW reply \in ReadReply(unread)
  PROVE  reply.error \in Reasons
<1> DEFINE other(reason) == IF unread = "starttls refused" THEN unread ELSE reason
<1>1. other("not smtp") \in Reasons /\ other("stopped") \in Reasons /\ unread \in Reasons /\ "" \in Reasons
  BY DEF Reasons
<1> DEFINE ends == {i \in 1..MaxLines : EndOfReply(i)}
           read(i) == [code |-> stream[1].code, words |-> [j \in 1..i |-> stream[j].word],
                       left |-> SubSeq(stream, i + 1, Len(stream)),
                       error |-> IF ReadableReply(i) THEN "" ELSE other("not smtp")]
           cut(r) == [code |-> 0, words |-> <<>>, left |-> stream, error |-> r]
<1>2. \/ \E i \in ends : reply = read(i)
      \/ \E r \in {unread, other("stopped")} : reply = cut(r)
  BY DEF ReadReply
<1>3. \A i : read(i).error \in {"", other("not smtp")}
  OBVIOUS
<1>4. \A r : cut(r).error = r
  OBVIOUS
<1> HIDE DEF other, read, cut
<1> QED
  BY <1>1, <1>2, <1>3, <1>4

\* A conversation that is over for a reason, and without a certificate, is told well.
LEMMA OverForAReason ==
  ASSUME ConversationInv, probing' = "over", out' \in Result, out'.reason # "",
         ~out'.upgraded, ~out'.trusted, ~out'.names, out'.offered = out'.measured,
         out'.measured => out'.connected, out'.timedOut => ~out'.connected,
         UNCHANGED configured, helo' \in {helo, HeloName}
  PROVE  ConversationInv'
<1>1. CheckHeloName(configured) /\ configured # "" => helo' \in {"", configured}
  BY OperatorsNameIsSent DEF ConversationInv, ResultIsOneSentence
<1>2. CheckHeloName(configured)'
  BY DEF ConversationInv, CheckHeloName
<1>3. probing' \in ProbeSteps
  BY DEF ProbeSteps
<1>4. /\ out'.connected \in BOOLEAN /\ out'.measured \in BOOLEAN /\ out'.offered \in BOOLEAN
      /\ out'.upgraded \in BOOLEAN /\ out'.timedOut \in BOOLEAN
  BY DEF Result
<1>5. ~(out'.measured /\ (~out'.offered \/ out'.upgraded))
  BY <1>4
<1>6. (out'.reason = "") = (out'.measured /\ (~out'.offered \/ out'.upgraded))
  BY <1>5
<1>7. ResultIsOneSentence'
  <2>1. out'.offered => out'.measured
    BY <1>4
  <2>2. (configured # "" => helo \in {"", configured})'
    BY <1>1 DEF ConversationInv
  <2> QED
    BY <1>6, <2>1, <2>2 DEF ResultIsOneSentence
<1> QED
  BY <1>2, <1>3, <1>7 DEF ConversationInv

\* What is known of a conversation when it ends is what was known before.
LEMMA EndIsOver ==
  ASSUME ConversationInv, NEW c \in BOOLEAN, NEW o \in BOOLEAN, Known(c, o), o => c,
         NEW reason \in Reasons, reason # "", End(reason), UNCHANGED <<configured, helo>>
  PROVE  ConversationInv'
<1>1. out \in Result /\ out' = [out EXCEPT !.reason = reason] /\ probing' = "over"
  BY DEF ConversationInv, End
<1>2. out' \in Result
  BY <1>1 DEF Result
<1>3. /\ out'.reason = reason /\ out'.connected = c /\ out'.measured = o /\ out'.offered = o
      /\ ~out'.upgraded /\ ~out'.trusted /\ ~out'.names /\ ~out'.timedOut
  BY <1>1 DEF Result, Known
<1> QED
  BY <1>1, <1>2, <1>3, OverForAReason

LEMMA InitiallyConversationInv == ConversationInit => ConversationInv
<1> SUFFICES ASSUME ConversationInit PROVE ConversationInv
  OBVIOUS
<1>1. out \in Result
  BY DEF ConversationInit, Result, Reasons, CertificateReasons
<1>2. Known(FALSE, FALSE) /\ probing = "dial" /\ helo = "" /\ CheckHeloName(configured)
  BY DEF ConversationInit, Known
<1>3. ResultIsOneSentence
  BY <1>2 DEF Known, ResultIsOneSentence
<1> QED
  BY <1>1, <1>2, <1>3 DEF ConversationInv, ProbeSteps

\* What the handshake ends in, whatever was presented.
LEMMA JudgedWell ==
  ASSUME out \in Result, Known(TRUE, TRUE), NEW chain \in ServerChains \cup {NoChain},
         NEW o \in Judged(chain)
  PROVE  /\ o \in Result /\ o.connected /\ o.measured /\ o.offered /\ o.upgraded /\ ~o.timedOut
         /\ o.reason = ""
         /\ (o.certificate = "") = (o.trusted /\ o.names)
<1> DEFINE trusted == chain # NoChain /\ ~chain.expired /\ chain.known /\ chain.fit
           named == chain # NoChain /\ chain.names
           why == CASE chain = NoChain -> "none presented"
               [] chain # NoChain /\ ~trusted ->
                    IF chain.expired THEN "expired" ELSE IF ~chain.known THEN "unknown root" ELSE "unfit"
               [] trusted /\ ~chain.names -> "unnamed"
               [] OTHER -> ""
<1>1. why \in CertificateReasons /\ (why = "") = (trusted /\ named)
  <2>1. CASE chain = NoChain
    <3>1. why = "none presented"
      BY <2>1
    <3> QED
      BY <2>1, <3>1 DEF CertificateReasons
  <2>2. CASE chain # NoChain /\ ~trusted
    <3>1. why = IF chain.expired THEN "expired" ELSE IF ~chain.known THEN "unknown root" ELSE "unfit"
      BY <2>2
    <3>2. why \in {"expired", "unknown root", "unfit"}
      BY <3>1
    <3> QED
      BY <2>2, <3>2 DEF CertificateReasons
  <2>3. CASE trusted /\ ~chain.names
    <3>1. why = "unnamed"
      BY <2>3
    <3> QED
      BY <2>3, <3>1 DEF CertificateReasons
  <2>4. CASE trusted /\ chain.names
    <3>1. why = ""
      BY <2>4
    <3> QED
      BY <2>4, <3>1 DEF CertificateReasons
  <2> QED
    BY <2>1, <2>2, <2>3, <2>4
<1> DEFINE other == IF chain = NoChain THEN why ELSE "no store"
<1>2. other \in CertificateReasons /\ other # ""
  BY <1>1 DEF CertificateReasons
<1>3. trusted \in BOOLEAN /\ named \in BOOLEAN
  OBVIOUS
<1>4. \/ o = [out EXCEPT !.upgraded = TRUE, !.trusted = trusted, !.names = named, !.certificate = why]
      \/ o = [out EXCEPT !.upgraded = TRUE, !.certificate = other]
  BY DEF Judged
<1> HIDE DEF trusted, named, why, other
<1> QED
  BY <1>1, <1>2, <1>3, <1>4 DEF Result, Known

\* A conversation that goes on, with what is known of it.
LEMMA GoesOn ==
  ASSUME ConversationInv, out' \in Result, UNCHANGED configured, helo' \in {helo, HeloName},
         \/ probing' \in {"dial", "greeting"} /\ Known(FALSE, FALSE)'
         \/ probing' = "ehlo" /\ Known(TRUE, FALSE)'
         \/ probing' \in {"starttls", "handshake"} /\ Known(TRUE, TRUE)'
  PROVE  ConversationInv'
<1>1. configured # "" => helo' \in {"", configured}
  BY OperatorsNameIsSent DEF ConversationInv, ResultIsOneSentence
<1>2. CheckHeloName(configured)'
  BY DEF ConversationInv, CheckHeloName
<1>3. probing' \in ProbeSteps /\ probing' # "over"
  BY DEF ProbeSteps
<1>4. ResultIsOneSentence'
  BY <1>1, <1>3 DEF ResultIsOneSentence, Known
<1> QED
  BY <1>2, <1>3, <1>4 DEF ConversationInv

LEMMA ConversationStep == ConversationInv /\ [ConversationNext]_conversationVars => ConversationInv'
<1> SUFFICES ASSUME ConversationInv, [ConversationNext]_conversationVars PROVE ConversationInv'
  OBVIOUS
<1>0. UNCHANGED <<configured, hostname, literal>>
  BY DEF ConversationNext, conversationVars
<1>a. out \in Result
  BY DEF ConversationInv
<1>b. \A x : [out EXCEPT !.reason = x].reason = x
  BY <1>a DEF Result
<1>1. CASE Arrive
  <2>1. UNCHANGED <<probing, helo, out>> /\ probing \notin {"dial", "over"}
    BY <1>1 DEF Arrive
  <2>2. \A c, o : Known(c, o) => Known(c, o)'
    BY <2>1 DEF Known
  <2> QED
    BY <1>0, <2>1, <2>2, GoesOn DEF ConversationInv, ProbeSteps
<1>2. CASE Dialled
  <2>0. Known(FALSE, FALSE) /\ UNCHANGED helo
    BY <1>2 DEF Dialled, ConversationInv
  <2>1. CASE probing' = "greeting" /\ UNCHANGED out
    <3>1. Known(FALSE, FALSE)'
      BY <2>0, <2>1 DEF Known
    <3> QED
      BY <1>0, <1>a, <2>0, <2>1, <3>1, GoesOn
  <2>2. ASSUME NEW r \in {"blocked", "connection refused", "unresolved", "unreachable"}, End(r)
        PROVE  ConversationInv'
    <3>1. r \in Reasons /\ r # ""
      BY DEF Reasons
    <3> QED
      BY <1>0, <2>0, <2>2, <3>1, EndIsOver
  <2>3. CASE probing' = "over" /\ out' = [out EXCEPT !.reason = "timeout", !.timedOut = TRUE]
    <3>1. out' \in Result /\ out'.reason # ""
      BY <1>a, <2>3 DEF Result, Reasons
    <3>2. ~out'.upgraded /\ ~out'.trusted /\ ~out'.names /\ ~out'.measured /\ ~out'.offered /\ ~out'.connected
      BY <1>a, <2>0, <2>3 DEF Result, Known
    <3>3. out'.offered = out'.measured
      BY <1>a, <2>0, <2>3 DEF Result, Known
    <3> QED
      BY <1>0, <2>0, <2>3, <3>1, <3>2, <3>3, OverForAReason
  <2> QED
    BY <1>2, <2>1, <2>2, <2>3 DEF Dialled
<1>3. CASE Greeting
  <2>0. Known(FALSE, FALSE)
    BY <1>3 DEF Greeting, ConversationInv
  <2>1. PICK reply \in ReadReply("no greeting") :
          \/ reply.error # "" /\ End(reply.error) /\ UNCHANGED helo
          \/ /\ probing' = "over" /\ out' = [out EXCEPT !.connected = TRUE, !.reason = "refusal"]
             /\ UNCHANGED helo
          \/ /\ helo' = HeloName
             /\ \/ probing' = "ehlo" /\ out' = [out EXCEPT !.connected = TRUE]
                \/ probing' = "over" /\ out' = [out EXCEPT !.connected = TRUE, !.reason = "closed"]
    BY <1>3 DEF Greeting
  <2>2. CASE reply.error # "" /\ End(reply.error) /\ UNCHANGED helo
    BY <1>0, <2>0, <2>2, ReplyReasons, EndIsOver
  <2>3. ASSUME NEW r \in {"refusal", "closed"}, probing' = "over",
               out' = [out EXCEPT !.connected = TRUE, !.reason = r], helo' \in {helo, HeloName}
        PROVE  ConversationInv'
    <3>1. out' \in Result /\ out'.reason # ""
      BY <1>a, <2>3 DEF Result, Reasons
    <3>2. ~out'.upgraded /\ ~out'.trusted /\ ~out'.names /\ ~out'.measured /\ ~out'.offered /\ ~out'.timedOut
      BY <1>a, <2>0, <2>3 DEF Result, Known
    <3>3. out'.offered = out'.measured
      BY <1>a, <2>0, <2>3 DEF Result, Known
    <3> QED
      BY <1>0, <2>3, <3>1, <3>2, <3>3, OverForAReason
  <2>4. CASE helo' = HeloName /\ probing' = "ehlo" /\ out' = [out EXCEPT !.connected = TRUE]
    <3>1. out' \in Result /\ Known(TRUE, FALSE)'
      BY <1>a, <2>0, <2>4 DEF Result, Known
    <3> QED
      BY <1>0, <2>4, <3>1, GoesOn
  <2> QED
    BY <2>1, <2>2, <2>3, <2>4
<1>4. CASE Ehlo
  <2>0. Known(TRUE, FALSE) /\ UNCHANGED helo
    BY <1>4 DEF Ehlo, ConversationInv
  <2>1. PICK reply \in ReadReply("ehlo unread") :
          \/ reply.error # "" /\ End(reply.error)
          \/ End("no reverse DNS") \/ End("ehlo refused")
          \/ probing' = "over" /\ out' = [out EXCEPT !.measured = TRUE]
          \/ probing' = "starttls" /\ out' = [out EXCEPT !.measured = TRUE, !.offered = TRUE]
          \/ probing' = "over" /\ out' = [out EXCEPT !.measured = TRUE, !.offered = TRUE, !.reason = "closed"]
    BY <1>4 DEF Ehlo
  <2>2. ASSUME NEW r \in Reasons, r # "", End(r)
        PROVE  ConversationInv'
    BY <1>0, <2>0, <2>2, EndIsOver
  <2>3. "no reverse DNS" \in Reasons /\ "ehlo refused" \in Reasons
    BY DEF Reasons
  <2>4. CASE probing' = "over" /\ out' = [out EXCEPT !.measured = TRUE]
    <3>1. out' \in Result
      BY <1>a, <2>4 DEF Result
    <3>2. /\ out'.reason = "" /\ out'.measured /\ ~out'.offered /\ out'.connected /\ ~out'.upgraded
          /\ ~out'.trusted /\ ~out'.names /\ ~out'.timedOut
      BY <1>a, <2>0, <2>4 DEF Result, Known
    <3>3. ResultIsOneSentence'
      BY <1>0, <2>0, <3>2 DEF ConversationInv, ResultIsOneSentence
    <3>4. CheckHeloName(configured)'
      BY <1>0 DEF ConversationInv, CheckHeloName
    <3> QED
      BY <2>4, <3>1, <3>3, <3>4 DEF ConversationInv, ProbeSteps
  <2>5. CASE probing' = "starttls" /\ out' = [out EXCEPT !.measured = TRUE, !.offered = TRUE]
    <3>1. out' \in Result /\ Known(TRUE, TRUE)'
      BY <1>a, <2>0, <2>5 DEF Result, Known
    <3> QED
      BY <1>0, <2>0, <2>5, <3>1, GoesOn
  <2>6. CASE probing' = "over" /\ out' = [out EXCEPT !.measured = TRUE, !.offered = TRUE, !.reason = "closed"]
    <3>1. out' \in Result /\ out'.reason # ""
      BY <1>a, <2>6 DEF Result, Reasons
    <3>2. ~out'.upgraded /\ ~out'.trusted /\ ~out'.names /\ out'.connected /\ ~out'.timedOut
      BY <1>a, <2>0, <2>6 DEF Result, Known
    <3>3. out'.offered = out'.measured
      BY <1>a, <2>6 DEF Result
    <3> QED
      BY <1>0, <2>0, <2>6, <3>1, <3>2, <3>3, OverForAReason
  <2> QED
    BY <2>1, <2>2, <2>3, <2>4, <2>5, <2>6, ReplyReasons
<1>5. CASE StartTLS
  <2>0. Known(TRUE, TRUE) /\ UNCHANGED helo
    BY <1>5 DEF StartTLS, ConversationInv
  <2>1. PICK reply \in ReadReply("starttls refused") :
          \/ reply.error # "" /\ End(reply.error)
          \/ End("starttls refused")
          \/ probing' = "handshake" /\ UNCHANGED out
    BY <1>5 DEF StartTLS
  <2>2. ASSUME NEW r \in Reasons, r # "", End(r)
        PROVE  ConversationInv'
    BY <1>0, <2>0, <2>2, EndIsOver
  <2>3. "starttls refused" \in Reasons
    BY DEF Reasons
  <2>4. CASE probing' = "handshake" /\ UNCHANGED out
    <3>1. Known(TRUE, TRUE)'
      BY <2>0, <2>4 DEF Known
    <3> QED
      BY <1>0, <1>a, <2>0, <2>4, <3>1, GoesOn
  <2> QED
    BY <2>1, <2>2, <2>3, <2>4, ReplyReasons
<1>6. CASE Handshake
  <2>0. Known(TRUE, TRUE) /\ UNCHANGED <<stream, helo>>
    BY <1>6 DEF Handshake, ConversationInv
  <2>1. ASSUME NEW r \in {"early", "no handshake"}, End(r)
        PROVE  ConversationInv'
    <3>1. r \in Reasons /\ r # ""
      BY DEF Reasons
    <3> QED
      BY <1>0, <2>0, <2>1, <3>1, EndIsOver
  <2>2. ASSUME stream = <<>>, probing' = "over", NEW chain \in ServerChains \cup {NoChain}, out' \in Judged(chain)
        PROVE  ConversationInv'
    <3>1. /\ out' \in Result /\ out'.connected /\ out'.measured /\ out'.offered /\ out'.upgraded
          /\ ~out'.timedOut /\ out'.reason = ""
          /\ (out'.certificate = "") = (out'.trusted /\ out'.names)
      BY <1>a, <2>0, <2>2, JudgedWell
    <3>2. ResultIsOneSentence'
      BY <1>0, <2>0, <2>2, <3>1 DEF ConversationInv, ResultIsOneSentence
    <3>3. CheckHeloName(configured)'
      BY <1>0 DEF ConversationInv, CheckHeloName
    <3> QED
      BY <2>2, <3>1, <3>2, <3>3 DEF ConversationInv, ProbeSteps
  <2> QED
    BY <1>6, <2>1, <2>2 DEF Handshake
<1>7. CASE UNCHANGED conversationVars
  BY <1>7 DEF conversationVars, ConversationInv, Known, ResultIsOneSentence, CheckHeloName
<1> QED
  BY <1>1, <1>2, <1>3, <1>4, <1>5, <1>6, <1>7 DEF ConversationNext

\* Whatever an exchanger, or anybody on the way to it, sends and whenever: a result is
\* one sentence that says what happened, nothing is negotiated over a conversation
\* somebody wrote into, and an operator's name is the only one that is sent.
THEOREM OneSentence == ConversationSpec => []ResultIsOneSentence
<1>1. ConversationInv => ResultIsOneSentence
  BY DEF ConversationInv
<1> QED
  BY <1>1, InitiallyConversationInv, ConversationStep, PTL DEF ConversationSpec

-----------------------------------------------------------------------------
(***************************************************************************)
(* Who a mail scan speaks to. The MX records are read before anybody is    *)
(* spoken to and not changed after, so the exchangers that are asked are   *)
(* those of one list throughout; a scan that failed to read it, or the     *)
(* announcement of a policy, has less of it and never more.                *)
(***************************************************************************)

\* g says of the MX records, and of how many policies are announced, what f does.
Shaped(f) ==
  /\ {"mx", "sts", "spf", "dmarc", "tlsReporting", "dane", "exchangers", "dkim"} \subseteq DOMAIN f
  /\ {"read", "reason", "null", "hosts"} \subseteq DOMAIN f.mx
  /\ "records" \in DOMAIN f.sts
Agree(g, f) == Shaped(g) /\ g.mx = f.mx /\ g.sts.records = f.sts.records

LEMMA NothingIsShaped ==
  Shaped(NoFacts) /\ NoFacts.mx.hosts = <<>> /\ NoFacts.sts.records = 0
BY DEF Shaped, NoFacts

LEMMA ByItself == ASSUME NEW f, Shaped(f) PROVE Agree(f, f)
BY DEF Agree

LEMMA NoneOrOne == \A n \in {0, 1} : n > 0 <=> n # 0
OBVIOUS

Ends == {"not-fetched", "invalid", "policy"}

\* What each end of a fetch makes of the policy.
PolicyEnds(sts, hosts, got, is) ==
  /\ sts.records = 0 => is = sts
  /\ sts.records = 1 /\ ~ReadsPolicy => is = [sts EXCEPT !.reason = "not-configured"]
  /\ sts.records = 1 /\ ReadsPolicy =>
       /\ got.fetched = "not-fetched" => is = [sts EXCEPT !.reason = "not-fetched"]
       /\ got.fetched = "invalid" => is = [sts EXCEPT !.read = TRUE, !.invalid = "invalid"]
       /\ got.fetched = "policy" =>
            is = [sts EXCEPT !.read = TRUE, !.mode = got.mode, !.maxAge = got.maxAge, !.mx = got.mx,
                             !.truncated = got.truncated,
                             !.uncovered = {h \in ToSet(hosts) : ~got.truncated /\ ~Covers(got.mx, h)}]

LEMMA PolicyIs ==
  ASSUME NEW sts, sts.records \in {0, 1}, NEW hosts, NEW got, got.fetched \in Ends
  PROVE  PolicyEnds(sts, hosts, got, PolicyOf(sts, hosts, got))
<1>1. sts.records > 0 <=> sts.records # 0
  BY NoneOrOne
<1>2. sts.records = 1 => sts.records # 0
  OBVIOUS
<1> QED
  BY <1>1, <1>2, Zenon DEF PolicyOf, PolicyEnds

\* Whatever a fetch ends in, what was announced is left as it was.
LEMMA PolicyAgrees ==
  ASSUME NEW f, Shaped(f), NEW got, got.fetched \in Ends,
         f.sts.records \in {0, 1}
  PROVE  Agree(AddSTSPolicy(f, got), f)
<1> DEFINE sts == PolicyOf(f.sts, f.mx.hosts, got)
<1>1. "records" \in DOMAIN sts /\ sts.records = f.sts.records
  <2>1. got.fetched \in {"not-fetched", "invalid", "policy"}
    BY DEF Ends
  <2>2. "records" \in DOMAIN f.sts /\ ReadsPolicy \in BOOLEAN
    BY MailAssumption DEF MailAssumption, Shaped
  <2>3. PolicyEnds(f.sts, f.mx.hosts, got, sts)
    BY PolicyIs
  <2> HIDE DEF sts
  <2> QED
    BY <2>1, <2>2, <2>3 DEF PolicyEnds
<1> HIDE DEF sts
<1>2. AddSTSPolicy(f, got) = [f EXCEPT !.sts = sts]
  BY DEF AddSTSPolicy, sts
<1> QED
  BY <1>1, <1>2 DEF Agree, Shaped

-----------------------------------------------------------------------------

\* Until the MX records, and the record that announces a policy, are asked for, nothing
\* is known of either; until the policy file is, nobody is spoken to.
BeforeSpf == {"begin", "refused", "spf"}
BeforeDmarc == BeforeSpf \cup {"dmarc"}
BeforeReporting == BeforeDmarc \cup {"tls-reporting"}
NoExchangersYet == BeforeReporting \cup {"mx"}
NoRecordYet == NoExchangersYet \cup {"sts-record"}
Early == NoRecordYet \cup {"sts-policy"}

\* The policy host of an announced policy; an exchanger that is named, and asked.
Announced(c) == c = <<"https", "mta-sts">> /\ Fetches(entire)
Asked == DOMAIN facts.mx.hosts \cap 1..MaxExchangers
Named(c) == facts.mx.read /\ ~facts.mx.null /\ \E i \in Asked : c = <<"smtp", facts.mx.hosts[i]>>

MailInv ==
  /\ mailStage \in Stages
  /\ Shaped(facts) /\ Shaped(entire)
  /\ facts.sts.records \in {0, 1} /\ entire.sts.records \in {0, 1}
  /\ entire.sts.records = 0 => facts.sts.records = 0
  /\ facts.mx.hosts \in {<<>>, entire.mx.hosts}
  /\ mailStage \in NoExchangersYet => facts.mx.hosts = <<>>
  /\ mailStage \in NoRecordYet => facts.sts.records = 0
  /\ mailStage \in Early => spokenTo = {}
  /\ \A c \in spokenTo : Announced(c) \/ Named(c)

LEMMA InitiallyMailInv == MailInit => MailInv
<1> SUFFICES ASSUME MailInit PROVE MailInv
  OBVIOUS
<1>1. facts = NoFacts /\ entire = NoFacts /\ spokenTo = {} /\ mailStage = "begin"
  BY DEF MailInit
<1>2. mailStage \in Stages
  BY <1>1 DEF Stages
<1> QED
  BY <1>1, <1>2, NothingIsShaped DEF MailInv

\* A step does not go back to before a question was asked.
NotBack ==
  /\ mailStage' \in Stages
  /\ mailStage' \in BeforeSpf => mailStage \in BeforeSpf
  /\ mailStage' \in BeforeDmarc => mailStage \in BeforeDmarc
  /\ mailStage' \in BeforeReporting => mailStage \in BeforeReporting
  /\ mailStage' \in NoExchangersYet => mailStage \in NoExchangersYet
  /\ mailStage' \in NoRecordYet => mailStage \in NoRecordYet
  /\ mailStage' \in Early => mailStage \in Early

\* The questions are asked in their order.
LEMMA StagesInOrder == MailNext => NotBack
<1> SUFFICES ASSUME MailNext PROVE NotBack
  OBVIOUS
<1>1. CASE CheckTarget
  <2>1. mailStage = "begin" /\ mailStage' \in {"spf", "refused"}
    BY <1>1 DEF CheckTarget
  <2> QED
    BY <2>1, Zenon DEF NotBack, Stages, BeforeSpf, BeforeDmarc, BeforeReporting, NoExchangersYet, NoRecordYet, Early
<1>2. CASE ReadSPF
  <2>1. mailStage = "spf" /\ mailStage' = "dmarc"
    BY <1>2 DEF ReadSPF, Ask
  <2> QED
    BY <2>1, Zenon DEF NotBack, Stages, BeforeSpf, BeforeDmarc, BeforeReporting, NoExchangersYet, NoRecordYet, Early
<1>3. CASE ReadDMARC
  <2>1. mailStage = "dmarc" /\ mailStage' = "tls-reporting"
    BY <1>3, Zenon DEF ReadDMARC, Ask
  <2> QED
    BY <2>1, Zenon DEF NotBack, Stages, BeforeSpf, BeforeDmarc, BeforeReporting, NoExchangersYet, NoRecordYet, Early
<1>4. CASE ReadTLSReporting
  <2>1. mailStage = "tls-reporting" /\ mailStage' = "mx"
    BY <1>4, Zenon DEF ReadTLSReporting, Ask
  <2> QED
    BY <2>1, Zenon DEF NotBack, Stages, BeforeSpf, BeforeDmarc, BeforeReporting, NoExchangersYet, NoRecordYet, Early
<1>5. CASE ReadExchangers
  <2>1. mailStage = "mx" /\ mailStage' = "sts-record"
    BY <1>5, Zenon DEF ReadExchangers, Ask
  <2> QED
    BY <2>1, Zenon DEF NotBack, Stages, BeforeSpf, BeforeDmarc, BeforeReporting, NoExchangersYet, NoRecordYet, Early
<1>6. CASE ReadRecord
  <2>1. mailStage = "sts-record" /\ mailStage' = "sts-policy"
    BY <1>6, Zenon DEF ReadRecord, Ask
  <2> QED
    BY <2>1, Zenon DEF NotBack, Stages, BeforeSpf, BeforeDmarc, BeforeReporting, NoExchangersYet, NoRecordYet, Early
<1>7. CASE ReadSTSPolicy
  <2>1. mailStage = "sts-policy" /\ mailStage' = "tlsa"
    BY <1>7, Zenon DEF ReadSTSPolicy
  <2> QED
    BY <2>1, Zenon DEF NotBack, Stages, BeforeSpf, BeforeDmarc, BeforeReporting, NoExchangersYet, NoRecordYet, Early
<1>8. CASE ReadTLSA
  <2>1. mailStage = "tlsa" /\ mailStage' = "exchangers"
    BY <1>8, Zenon DEF ReadTLSA, Ask
  <2> QED
    BY <2>1, Zenon DEF NotBack, Stages, BeforeSpf, BeforeDmarc, BeforeReporting, NoExchangersYet, NoRecordYet, Early
<1>9. CASE ProbeExchanger
  <2>1. mailStage = "exchangers" /\ mailStage' = "exchangers"
    BY <1>9, Zenon DEF ProbeExchanger
  <2> QED
    BY <2>1, Zenon DEF NotBack, Stages, BeforeSpf, BeforeDmarc, BeforeReporting, NoExchangersYet, NoRecordYet, Early
<1>10. CASE ExchangersDone
  <2>1. mailStage = "exchangers" /\ mailStage' = "dkim"
    BY <1>10, Zenon DEF ExchangersDone
  <2> QED
    BY <2>1, Zenon DEF NotBack, Stages, BeforeSpf, BeforeDmarc, BeforeReporting, NoExchangersYet, NoRecordYet, Early
<1>11. CASE ReadDKIM
  <2>1. mailStage = "dkim" /\ mailStage' = "dkim"
    BY <1>11, Zenon DEF ReadDKIM
  <2> QED
    BY <2>1, Zenon DEF NotBack, Stages, BeforeSpf, BeforeDmarc, BeforeReporting, NoExchangersYet, NoRecordYet, Early
<1>12. CASE MailGraded
  <2>1. mailStage = "dkim" /\ mailStage' = "done"
    BY <1>12, Zenon DEF MailGraded
  <2> QED
    BY <2>1, Zenon DEF NotBack, Stages, BeforeSpf, BeforeDmarc, BeforeReporting, NoExchangersYet, NoRecordYet, Early
<1> QED
  BY <1>1, <1>2, <1>3, <1>4, <1>5, <1>6, <1>7, <1>8, <1>9, <1>10, <1>11, <1>12, Zenon DEF MailNext

\* A step that says nothing new of the MX records and the announcement leaves what may
\* be contacted as it was.
LEMMA QuietStep ==
  ASSUME MailInv, NotBack, Agree(facts', facts), Agree(entire', entire),
         mailStage' \in Early => spokenTo' = {},
         \A c \in spokenTo' : c \in spokenTo \/ Announced(c) \/ Named(c)
  PROVE  MailInv'
<1>1. facts'.mx = facts.mx /\ entire'.mx = entire.mx
  BY DEF Agree
<1>2. facts'.sts.records = facts.sts.records /\ entire'.sts.records = entire.sts.records
  BY DEF Agree
<1>3. \A c : Announced(c) => Announced(c)'
  BY <1>2 DEF Announced, Fetches
<1>4. \A c : Named(c) => Named(c)'
  BY <1>1 DEF Named, Asked
<1>5. \A c \in spokenTo' : (Announced(c) \/ Named(c))'
  BY <1>3, <1>4 DEF MailInv
<1>6. Shaped(facts)' /\ Shaped(entire)'
  BY DEF Agree, Shaped
<1>7. /\ facts'.sts.records \in {0, 1} /\ entire'.sts.records \in {0, 1}
      /\ entire'.sts.records = 0 => facts'.sts.records = 0
      /\ facts'.mx.hosts \in {<<>>, entire'.mx.hosts}
  BY <1>1, <1>2 DEF MailInv
<1>8. /\ mailStage' \in Stages
      /\ mailStage' \in NoExchangersYet' => facts'.mx.hosts = <<>>
      /\ mailStage' \in NoRecordYet' => facts'.sts.records = 0
      /\ mailStage' \in Early' => spokenTo' = {}
  BY <1>1, <1>2, Zenon DEF MailInv, NotBack, BeforeSpf, BeforeDmarc, BeforeReporting, NoExchangersYet, NoRecordYet, Early
<1> QED
  BY <1>5, <1>6, <1>7, <1>8 DEF MailInv

\* The same, of a step that speaks to nobody.
LEMMA SilentStep ==
  ASSUME MailInv, NotBack, Agree(facts', facts), Agree(entire', entire), UNCHANGED spokenTo
  PROVE  MailInv'
<1>1. mailStage' \in Early => spokenTo' = {}
  BY DEF NotBack, MailInv
<1> QED
  BY <1>1, QuietStep

\* What is written beside them leaves them alone.
LEMMA BesideThem ==
  ASSUME NEW f, Shaped(f), NEW g, DOMAIN g = DOMAIN f, g.mx = f.mx, g.sts = f.sts
  PROVE  Agree(g, f)
BY DEF Agree, Shaped

\* What is found of everything but the MX records and the policy.
LEMMA FieldsBeside ==
  ASSUME NEW f, Shaped(f)
  PROVE  /\ \A v : Agree([f EXCEPT !.spf = v], f)
         /\ \A v : Agree([f EXCEPT !.spf.reason = v], f)
         /\ \A v : Agree([f EXCEPT !.dmarc = v], f)
         /\ \A v : Agree([f EXCEPT !.dmarc.reason = v], f)
         /\ \A v : Agree([f EXCEPT !.tlsReporting = v], f)
         /\ \A v : Agree([f EXCEPT !.dane = v], f)
         /\ \A v : Agree([f EXCEPT !.exchangers = v], f)
         /\ \A v : Agree([f EXCEPT !.dkim.looked = v], f)
         /\ \A v : Agree([f EXCEPT !.dkim.keys = v], f)
BY BesideThem DEF Shaped

\* So do the two that build their facts with an operator.
LEMMA TlsaAgrees ==
  ASSUME NEW f, Shaped(f), NEW published, NEW answered PROVE Agree(TlsaOf(f, published, answered), f)
<1>1. \E v : TlsaOf(f, published, answered) = [f EXCEPT !.dane = v]
  BY Zenon DEF TlsaOf
<1> QED
  BY <1>1, FieldsBeside

LEMMA ResultAgrees ==
  ASSUME NEW f, Shaped(f), NEW host, NEW found, NEW r PROVE Agree(AddResult(f, host, found, r), f)
<1> DEFINE said == f.exchangers.results \cup {r}
           bound == f.dane.bindings \cup IF host \in ToSet(f.dane.hosts) THEN {DaneBinding(host, found, r)} ELSE {}
<1>1. AddResult(f, host, found, r) \in {f, [f EXCEPT !.exchangers.contacted = TRUE, !.exchangers.partial = Partial(f),
                                                    !.exchangers.results = said, !.dane.bindings = bound]}
  BY Zenon DEF AddResult
<1> HIDE DEF said, bound
<1>2. Agree([f EXCEPT !.exchangers.contacted = TRUE, !.exchangers.partial = Partial(f),
                      !.exchangers.results = said, !.dane.bindings = bound], f)
  BY BesideThem DEF Shaped
<1> QED
  BY <1>1, <1>2, ByItself, Zenon

-----------------------------------------------------------------------------

\* One lemma for each question: it keeps the invariant.
LEMMA ReadSPFKeeps == MailInv /\ ReadSPF /\ NotBack => MailInv'
<1> SUFFICES ASSUME MailInv, ReadSPF, NotBack PROVE MailInv'
  OBVIOUS
<1>1. \E found, told :
        /\ entire' = [entire EXCEPT !.spf = found]
        /\ facts' = [facts EXCEPT !.spf = found] \/ facts' = [facts EXCEPT !.spf = told]
        /\ spokenTo' = spokenTo
  BY Zenon DEF ReadSPF, Ask
<1>2. Agree(entire', entire) /\ Agree(facts', facts)
  BY <1>1, FieldsBeside DEF MailInv
<1> QED
  BY <1>1, <1>2, SilentStep

LEMMA ReadDMARCKeeps == MailInv /\ ReadDMARC /\ NotBack => MailInv'
<1> SUFFICES ASSUME MailInv, ReadDMARC, NotBack PROVE MailInv'
  OBVIOUS
<1>1. PICK records \in DmarcRecords :
        /\ entire' = [entire EXCEPT !.dmarc = Dmarc(records)]
        /\ facts' = [facts EXCEPT !.dmarc = Dmarc(records)] \/ facts' = [facts EXCEPT !.dmarc.reason = "unread"]
        /\ spokenTo' = spokenTo
  BY Zenon DEF ReadDMARC, Ask
<1>2. Agree(entire', entire) /\ Agree(facts', facts)
  <2>1. /\ \A v : Agree([entire EXCEPT !.dmarc = v], entire)
        /\ \A v : Agree([facts EXCEPT !.dmarc = v], facts)
        /\ Agree([facts EXCEPT !.dmarc.reason = "unread"], facts)
    BY FieldsBeside DEF MailInv
  <2> QED
    BY <1>1, <2>1, Zenon
<1> QED
  BY <1>1, <1>2, SilentStep

LEMMA ReadTLSReportingKeeps == MailInv /\ ReadTLSReporting /\ NotBack => MailInv'
<1> SUFFICES ASSUME MailInv, ReadTLSReporting, NotBack PROVE MailInv'
  OBVIOUS
<1>1. PICK published \in BOOLEAN :
        /\ entire' = [entire EXCEPT !.tlsReporting = published]
        /\ facts' = [facts EXCEPT !.tlsReporting = published] \/ facts' = facts
        /\ spokenTo' = spokenTo
  BY Zenon DEF ReadTLSReporting, Ask
<1>2. Agree(entire', entire) /\ Agree(facts', facts)
  <2>1. /\ \A v : Agree([entire EXCEPT !.tlsReporting = v], entire)
        /\ \A v : Agree([facts EXCEPT !.tlsReporting = v], facts)
        /\ Agree(facts, facts)
    BY FieldsBeside, ByItself DEF MailInv
  <2> QED
    BY <1>1, <2>1, Zenon
<1> QED
  BY <1>1, <1>2, SilentStep

\* The list is read, or it is not: nothing was known of it, and nobody had been spoken to.
LEMMA ReadExchangersKeeps == MailInv /\ ReadExchangers /\ NotBack => MailInv'
<1> SUFFICES ASSUME MailInv, ReadExchangers, NotBack PROVE MailInv'
  OBVIOUS
<1>1. PICK hosts \in MxAnswers :
        /\ entire' = [entire EXCEPT !.mx = Mx(hosts)]
        /\ facts' = [facts EXCEPT !.mx = Mx(hosts)] \/ facts' = [facts EXCEPT !.mx.reason = "unread"]
        /\ spokenTo' = spokenTo
  BY Zenon DEF ReadExchangers, Ask
<1>2. /\ mailStage \in NoExchangersYet /\ mailStage \in NoRecordYet /\ mailStage \in Early
      /\ mailStage' \notin NoExchangersYet
  <2>1. mailStage = "mx" /\ mailStage' = "sts-record"
    BY Zenon DEF ReadExchangers, Ask
  <2> QED
    BY <2>1 DEF BeforeSpf, BeforeDmarc, BeforeReporting, NoExchangersYet, NoRecordYet, Early
<1>3. facts.mx.hosts = <<>> /\ facts.sts.records = 0 /\ spokenTo' = {}
  BY <1>1, <1>2 DEF MailInv
<1>4. \A f : Shaped(f) => Shaped([f EXCEPT !.mx = Mx(hosts)]) /\ [f EXCEPT !.mx = Mx(hosts)].sts = f.sts
  <2>1. {"read", "reason", "null", "hosts"} \subseteq DOMAIN Mx(hosts)
    BY Zenon DEF Mx
  <2> QED
    BY <2>1 DEF Shaped
<1>5. Shaped(entire') /\ Shaped(facts') /\ entire'.sts = entire.sts /\ facts'.sts = facts.sts
  BY <1>1, <1>4 DEF MailInv, Shaped
<1>6. facts'.mx.hosts \in {<<>>, entire'.mx.hosts}
  <2>1. \A f : Shaped(f) => [f EXCEPT !.mx = Mx(hosts)].mx = Mx(hosts)
    BY DEF Shaped
  <2>2. [facts EXCEPT !.mx.reason = "unread"].mx.hosts = facts.mx.hosts
    BY DEF MailInv, Shaped
  <2> QED
    BY <1>1, <1>3, <2>1, <2>2 DEF MailInv
<1>7. (Shaped(facts) /\ Shaped(entire))'
  BY <1>5 DEF Shaped
<1> QED
  BY <1>2, <1>3, <1>5, <1>6, <1>7 DEF MailInv, NotBack, BeforeSpf, BeforeDmarc, BeforeReporting, NoExchangersYet, NoRecordYet, Early

\* The same of the record that announces a policy.
LEMMA ReadRecordKeeps == MailInv /\ ReadRecord /\ NotBack => MailInv'
<1> SUFFICES ASSUME MailInv, ReadRecord, NotBack PROVE MailInv'
  OBVIOUS
<1>1. PICK n \in {0, 1} :
        /\ entire' = [entire EXCEPT !.sts.records = n]
        /\ facts' = [facts EXCEPT !.sts.records = n] \/ facts' = facts
        /\ spokenTo' = spokenTo
  <2>1. 0..1 = {0, 1}
    OBVIOUS
  <2> QED
    BY <2>1, Zenon DEF ReadRecord, Ask
<1>2. /\ mailStage \in NoRecordYet /\ mailStage \in Early
      /\ mailStage' \notin NoExchangersYet /\ mailStage' \notin NoRecordYet
  <2>1. mailStage = "sts-record" /\ mailStage' = "sts-policy"
    BY Zenon DEF ReadRecord, Ask
  <2> QED
    BY <2>1 DEF BeforeSpf, BeforeDmarc, BeforeReporting, NoExchangersYet, NoRecordYet, Early
<1>3. facts.sts.records = 0 /\ spokenTo' = {}
  BY <1>1, <1>2 DEF MailInv
<1>4. \A f : Shaped(f) => /\ Shaped([f EXCEPT !.sts.records = n])
                          /\ [f EXCEPT !.sts.records = n].mx = f.mx
                          /\ [f EXCEPT !.sts.records = n].sts.records = n
  BY DEF Shaped
<1>5. /\ Shaped(entire') /\ Shaped(facts') /\ entire'.mx = entire.mx /\ facts'.mx = facts.mx
      /\ entire'.sts.records = n /\ facts'.sts.records \in {0, n}
  BY <1>1, <1>3, <1>4 DEF MailInv
<1>7. (Shaped(facts) /\ Shaped(entire))'
  BY <1>5 DEF Shaped
<1>8. /\ facts'.sts.records \in {0, 1} /\ entire'.sts.records \in {0, 1}
      /\ entire'.sts.records = 0 => facts'.sts.records = 0
      /\ facts'.mx.hosts \in {<<>>, entire'.mx.hosts}
  BY <1>5 DEF MailInv
<1> QED
  BY <1>2, <1>3, <1>7, <1>8 DEF MailInv, NotBack, BeforeSpf, BeforeDmarc, BeforeReporting, NoExchangersYet, NoRecordYet, Early

\* The policy host is asked of what this scan found announced: a scan whose questions
\* were all answered found it announced as well.
LEMMA ReadSTSPolicyKeeps == MailInv /\ ReadSTSPolicy /\ NotBack => MailInv'
<1> SUFFICES ASSUME MailInv, ReadSTSPolicy, NotBack PROVE MailInv'
  OBVIOUS
<1> DEFINE outcomes == IF Fetches(entire) THEN Policies ELSE {[fetched |-> "not-fetched"]}
           failed == [fetched |-> "not-fetched"]
           asked == IF Fetches(facts) THEN {<<"https", "mta-sts">>} ELSE {}
<1>1. PICK got \in outcomes :
        /\ entire' = AddSTSPolicy(entire, got)
        /\ facts' = AddSTSPolicy(facts, got) \/ facts' = AddSTSPolicy(facts, failed)
        /\ spokenTo' = spokenTo \cup asked
  BY Zenon DEF ReadSTSPolicy
<1>2. got.fetched \in Ends /\ failed.fetched \in Ends
  <2>1. failed.fetched = "not-fetched"
    OBVIOUS
  <2>2. got = failed \/ got \in Policies
    BY <1>1, Zenon
  <2> QED
    BY <2>1, <2>2, MailAssumption, Zenon DEF MailAssumption, Ends
<1> HIDE DEF asked, outcomes, failed
<1>3. Agree(entire', entire) /\ Agree(facts', facts)
  <2>0. Shaped(entire) /\ Shaped(facts) /\ entire.sts.records \in {0, 1} /\ facts.sts.records \in {0, 1}
    BY DEF MailInv
  <2>1. Agree(AddSTSPolicy(entire, got), entire)
    BY <1>2, <2>0, PolicyAgrees
  <2>2. Agree(AddSTSPolicy(facts, got), facts) /\ Agree(AddSTSPolicy(facts, failed), facts)
    BY <1>2, <2>0, PolicyAgrees
  <2> QED
    BY <1>1, <2>1, <2>2, Zenon
<1>4. Fetches(facts) => Fetches(entire)
  <2>1. facts.sts.records > 0 <=> facts.sts.records # 0
    BY NoneOrOne DEF MailInv
  <2>2. entire.sts.records > 0 <=> entire.sts.records # 0
    BY NoneOrOne DEF MailInv
  <2> QED
    BY <2>1, <2>2 DEF Fetches, MailInv
<1>5. \A c \in spokenTo' : c \in spokenTo \/ Announced(c)
  BY <1>1, <1>4 DEF Announced, asked
<1>6. mailStage' \notin Early
  <2>1. mailStage' = "tlsa"
    BY Zenon DEF ReadSTSPolicy
  <2> QED
    BY <2>1 DEF BeforeSpf, BeforeDmarc, BeforeReporting, NoExchangersYet, NoRecordYet, Early
<1> QED
  BY <1>3, <1>5, <1>6, QuietStep

LEMMA ReadTLSAKeeps == MailInv /\ ReadTLSA /\ NotBack => MailInv'
<1> SUFFICES ASSUME MailInv, ReadTLSA, NotBack PROVE MailInv'
  OBVIOUS
<1> DEFINE places == DOMAIN FirstHosts(entire)
<1>1. \E published, answered :
        /\ entire' = TlsaOf(entire, published, places)
        /\ facts' = TlsaOf(facts, published, places) \/ facts' = TlsaOf(facts, published, answered)
        /\ spokenTo' = spokenTo
  BY Zenon DEF ReadTLSA, Ask
<1> HIDE DEF places
<1>2. Agree(entire', entire) /\ Agree(facts', facts)
  BY <1>1, TlsaAgrees DEF MailInv
<1>3. spokenTo' = spokenTo
  BY <1>1
<1> QED
  BY <1>2, <1>3, SilentStep

\* An exchanger that is spoken to is one of the first of the list.
LEMMA ProbeExchangerKeeps == MailInv /\ ProbeExchanger /\ NotBack => MailInv'
<1> SUFFICES ASSUME MailInv, ProbeExchanger, NotBack PROVE MailInv'
  OBVIOUS
<1>1. PICK host, found, r :
        /\ entire' = AddResult(entire, host, found, r)
        /\ facts' = AddResult(facts, host, found, r) \/ facts' = AddResult(facts, host, found, Unreached(host))
        /\ spokenTo' = spokenTo \cup IF MayContact(facts) /\ host \in ToSet(FirstHosts(facts))
                                       THEN {<<"smtp", host>>} ELSE {}
  BY Zenon DEF ProbeExchanger
<1>2. Agree(entire', entire) /\ Agree(facts', facts)
  BY <1>1, ResultAgrees, Zenon DEF MailInv
<1>3. host \in ToSet(FirstHosts(facts)) => \E i \in Asked : host = facts.mx.hosts[i]
  BY DEF ToSet, FirstHosts, Restrict, Asked
<1>4. \A c \in spokenTo' : c \in spokenTo \/ Named(c)
  BY <1>1, <1>3 DEF Named, MayContact
<1>5. mailStage' \notin Early
  <2>1. mailStage' = "exchangers"
    BY Zenon DEF ProbeExchanger
  <2> QED
    BY <2>1 DEF BeforeSpf, BeforeDmarc, BeforeReporting, NoExchangersYet, NoRecordYet, Early
<1> QED
  BY <1>2, <1>4, <1>5, QuietStep

LEMMA ExchangersDoneKeeps == MailInv /\ ExchangersDone /\ NotBack => MailInv'
<1> SUFFICES ASSUME MailInv, ExchangersDone, NotBack PROVE MailInv'
  OBVIOUS
<1>1. \E looked : facts' = [facts EXCEPT !.dkim.looked = looked] /\ entire' = [entire EXCEPT !.dkim.looked = looked]
  BY Zenon DEF ExchangersDone
<1>2. /\ \A v : Agree([entire EXCEPT !.dkim.looked = v], entire)
      /\ \A v : Agree([facts EXCEPT !.dkim.looked = v], facts)
  BY FieldsBeside DEF MailInv
<1>3. Agree(entire', entire) /\ Agree(facts', facts)
  BY <1>1, <1>2, Zenon
<1>4. spokenTo' = spokenTo
  BY Zenon DEF ExchangersDone
<1> QED
  BY <1>3, <1>4, SilentStep

LEMMA ReadDKIMKeeps == MailInv /\ ReadDKIM /\ NotBack => MailInv'
<1> SUFFICES ASSUME MailInv, ReadDKIM, NotBack PROVE MailInv'
  OBVIOUS
<1>1. /\ \E v : entire' = [entire EXCEPT !.dkim.keys = v]
      /\ \E v : facts' = [facts EXCEPT !.dkim.keys = v]
      /\ spokenTo' = spokenTo
  BY Zenon DEF ReadDKIM
<1>2. /\ \A v : Agree([entire EXCEPT !.dkim.keys = v], entire)
      /\ \A v : Agree([facts EXCEPT !.dkim.keys = v], facts)
  BY FieldsBeside DEF MailInv
<1>3. Agree(entire', entire) /\ Agree(facts', facts)
  BY <1>1, <1>2, Zenon
<1> QED
  BY <1>1, <1>3, SilentStep

LEMMA MailStep == MailInv /\ [MailNext]_mailVars => MailInv'
<1> SUFFICES ASSUME MailInv, [MailNext]_mailVars PROVE MailInv'
  OBVIOUS
<1>1. CASE MailNext
  <2>1. NotBack
    BY <1>1, StagesInOrder
  <2>2. CASE CheckTarget \/ MailGraded
    <3>1. facts' = facts /\ entire' = entire /\ spokenTo' = spokenTo
      BY <2>2, Zenon DEF CheckTarget, MailGraded
    <3> QED
      BY <2>1, <3>1, ByItself, SilentStep DEF MailInv
  <2> QED
    BY <1>1, <2>1, <2>2, ReadSPFKeeps, ReadDMARCKeeps, ReadTLSReportingKeeps, ReadExchangersKeeps, ReadRecordKeeps,
       ReadSTSPolicyKeeps, ReadTLSAKeeps, ProbeExchangerKeeps, ExchangersDoneKeeps, ReadDKIMKeeps, Zenon DEF MailNext
<1>2. CASE UNCHANGED mailVars
  <2>1. mailStage' = mailStage /\ facts' = facts /\ entire' = entire /\ spokenTo' = spokenTo
    BY <1>2 DEF mailVars
  <2>2. NotBack
    BY <2>1 DEF NotBack, MailInv
  <2> QED
    BY <2>1, <2>2, ByItself, SilentStep DEF MailInv
<1> QED
  BY <1>1, <1>2

-----------------------------------------------------------------------------

LEMMA MailInvariant == MailSpec => []MailInv
BY InitiallyMailInv, MailStep, PTL DEF MailSpec

\* The exchangers that may be asked are no more than the limit.
LEMMA AskedAreFew ==
  ASSUME NEW hosts, NEW S,
         \A c \in S : \E i \in DOMAIN hosts \cap 1..MaxExchangers : c = <<"smtp", hosts[i]>>
  PROVE  Cardinality(S) <= MaxExchangers
<1> DEFINE I == DOMAIN hosts \cap 1..MaxExchangers
           J == {i \in I : <<"smtp", hosts[i]>> \in S}
           contact == [i \in J |-> <<"smtp", hosts[i]>>]
<1>1. MaxExchangers \in Nat
  BY MailAssumption DEF MailAssumption
<1>2. IsFiniteSet(1..MaxExchangers) /\ Cardinality(1..MaxExchangers) = MaxExchangers
  BY <1>1, FS_Interval
<1>3. IsFiniteSet(J) /\ Cardinality(J) <= Cardinality(1..MaxExchangers)
  BY <1>2, FS_Subset
<1>4. contact \in Surjection(J, S)
  BY DEF Surjection
<1>5. IsFiniteSet(S) /\ Cardinality(S) <= Cardinality(J)
  BY <1>3, <1>4, FS_Surjection
<1>6. Cardinality(S) \in Nat /\ Cardinality(J) \in Nat
  BY <1>3, <1>5, FS_CardinalityType
<1> QED
  BY <1>1, <1>2, <1>3, <1>5, <1>6

LEMMA OnlyNamed == MailInv => OnlyNamedAreContacted
<1> SUFFICES ASSUME MailInv PROVE OnlyNamedAreContacted
  OBVIOUS
<1>1. mailStage \in {"begin", "refused"} => spokenTo = {}
  <2>1. mailStage \in {"begin", "refused"} => mailStage \in Early
    BY Zenon DEF BeforeSpf, BeforeDmarc, BeforeReporting, NoExchangersYet, NoRecordYet, Early
  <2> QED
    BY <2>1 DEF MailInv
<1>2. \A c \in spokenTo : c[1] = "smtp" => Named(c)
  BY DEF MailInv, Announced
<1>3. ASSUME NEW host \in {c[2] : c \in {d \in spokenTo : d[1] = "smtp"}}
      PROVE  facts.mx.read /\ ~facts.mx.null /\ host \in ToSet(entire.mx.hosts)
  <2>1. PICK c \in spokenTo : c[1] = "smtp" /\ c[2] = host
    OBVIOUS
  <2>2. Named(c)
    BY <1>2, <2>1
  <2>3. PICK i \in DOMAIN facts.mx.hosts : c = <<"smtp", facts.mx.hosts[i]>>
    BY <2>2 DEF Named, Asked
  <2>4. host = facts.mx.hosts[i]
    BY <2>1, <2>3
  <2>5. facts.mx.hosts = entire.mx.hosts
    <3>1. DOMAIN <<>> = {}
      OBVIOUS
    <3> QED
      BY <2>3, <3>1 DEF MailInv
  <2>6. host \in ToSet(entire.mx.hosts)
    BY <2>3, <2>4, <2>5 DEF ToSet
  <2> QED
    BY <2>2, <2>6 DEF Named
<1>4. <<"https", "mta-sts">> \in spokenTo => entire.sts.records > 0 /\ ReadsPolicy
  <2>1. ~Named(<<"https", "mta-sts">>)
    BY DEF Named
  <2> QED
    BY <2>1 DEF MailInv, Announced, Fetches
<1>5. Cardinality({c \in spokenTo : c[1] = "smtp"}) <= MaxExchangers
  BY <1>2, AskedAreFew DEF Named, Asked
<1> QED
  BY <1>1, <1>3, <1>4, <1>5 DEF OnlyNamedAreContacted

\* Whatever fails and in whatever order the exchangers answer, a mail scan speaks to
\* nobody whom the domain's own records do not name, to no exchanger when they say that
\* no mail is taken, to the policy host only where a policy is announced, and to no more
\* exchangers than its limit (readExchangerTLS, readSTSPolicy).
THEOREM OnlyNamedAsked == MailSpec => []OnlyNamedAreContacted
BY MailInvariant, OnlyNamed, PTL

-----------------------------------------------------------------------------
(***************************************************************************)
(* A question that fails (mailscan.go, policy/mail.go). What the scan      *)
(* found is held field by field against what it would have found had none  *)
(* failed; of a field whose question failed it says that, or nothing.      *)
(***************************************************************************)

\* The strings that are signs.
Nothing == ""
Everybody == "+"

LEMMA Signs == Nothing # Everybody /\ "unread" # Nothing
BY Zenon DEF Nothing, Everybody

\* What is said of a record whose question failed.
UnreadSpf == [NoFacts.spf EXCEPT !.reason = "unread"]
UnreadDmarc == [NoFacts.dmarc EXCEPT !.reason = "unread"]
UnreadMx == [NoFacts.mx EXCEPT !.reason = "unread"]

LEMMA NoFactsAre ==
  NoFacts =
  [spf |-> [records |-> 0, all |-> Nothing, limit |-> FALSE, void |-> FALSE, ptr |-> FALSE, unread |-> 0, reason |-> Nothing],
   dmarc |-> [records |-> 0, policy |-> Nothing, percent |-> 0, reporting |-> FALSE, reason |-> Nothing],
   tlsReporting |-> FALSE,
   mx |-> [read |-> FALSE, reason |-> Nothing, hosts |-> <<>>, null |-> FALSE],
   sts |-> [records |-> 0, read |-> FALSE, reason |-> Nothing, invalid |-> Nothing, mode |-> Nothing, maxAge |-> 0, mx |-> {},
            truncated |-> FALSE, uncovered |-> {}],
   dane |-> [hosts |-> <<>>, asked |-> 0, unread |-> 0, partial |-> FALSE, bindings |-> {}],
   exchangers |-> [contacted |-> FALSE, reason |-> Nothing, partial |-> FALSE, results |-> {}],
   dkim |-> [looked |-> FALSE, keys |-> {}]]
BY Zenon DEF NoFacts, Nothing

LEMMA UnreadIs ==
  /\ UnreadSpf.records = 0 /\ UnreadSpf.all = Nothing /\ UnreadSpf.limit = FALSE /\ UnreadSpf.void = FALSE
  /\ UnreadSpf.ptr = FALSE /\ UnreadSpf.unread = 0 /\ UnreadSpf.reason = "unread"
  /\ UnreadDmarc.records = 0 /\ UnreadDmarc.reason = "unread"
  /\ UnreadMx.read = FALSE /\ UnreadMx.reason = "unread" /\ UnreadMx.hosts = <<>>
BY NoFactsAre DEF UnreadSpf, UnreadDmarc, UnreadMx

\* A finding is made, and a note is written, of what holds.
LEMMA FindingGrows ==
  ASSUME NEW a, NEW b, a => b, NEW rule, NEW verdict
  PROVE  Finding(a, rule, verdict) \subseteq Finding(b, rule, verdict)
BY DEF Finding

LEMMA NoFinding ==
  ASSUME NEW a, ~a, NEW rule, NEW verdict
  PROVE  Finding(a, rule, verdict) = {}
BY DEF Finding

-----------------------------------------------------------------------------

\* What the facts say, beside what they would say had no question failed. Of a sender
\* policy whose lookups failed they say nothing, or what a part of the walk found.
PolicyMissed == facts.spf = UnreadSpf \/ Beside(facts.spf, entire.spf)
SpfTold ==
  /\ facts.spf = entire.spf \/ PolicyMissed
  /\ "spf" \in failures => PolicyMissed
DmarcTold ==
  /\ facts.dmarc \in {entire.dmarc, UnreadDmarc}
  /\ "dmarc" \in failures => facts.dmarc = UnreadDmarc
ReportingTold ==
  \/ facts.tlsReporting = entire.tlsReporting
  \/ facts.tlsReporting = FALSE /\ "tls-reporting" \in failures
MxTold ==
  /\ entire.mx # UnreadMx /\ facts.mx \in {entire.mx, UnreadMx}
  /\ "mx" \in failures => facts.mx = UnreadMx

\* The policy: the same; or not read, and where not even its record was, a question
\* for it failed; or the same but for the exchangers it leaves out, which are not known.
SamePolicy ==
  /\ facts.sts.read = entire.sts.read /\ facts.sts.invalid = entire.sts.invalid
  /\ facts.sts.mode = entire.sts.mode /\ facts.sts.mx = entire.sts.mx
StsTold ==
  \/ facts.sts = entire.sts
  \/ facts.sts.read = FALSE /\ (facts.sts.records = 0 => "sts-record" \in failures)
  \/ facts.mx = UnreadMx /\ SamePolicy /\ facts.sts.uncovered = {}

\* The TLSA records: the same, or of some host it is not known.
SameRecords ==
  /\ facts.dane.hosts = entire.dane.hosts /\ facts.dane.asked = entire.dane.asked
  /\ facts.dane.unread = entire.dane.unread /\ facts.dane.partial = entire.dane.partial
DaneTold ==
  \/ facts.mx = UnreadMx
  \/ /\ ToSet(facts.dane.hosts) \subseteq ToSet(entire.dane.hosts)
     /\ SameRecords \/ ("tlsa" \in failures /\ facts.dane.unread > 0)

\* The exchangers: nobody was asked, or each result and each binding is one that would
\* have been found, or says that it could not be.
ReachedTold ==
  \/ facts.mx = UnreadMx /\ facts.exchangers.results = {} /\ facts.dane.bindings = {}
  \/ /\ facts.mx = entire.mx
     /\ facts.exchangers.contacted = entire.exchangers.contacted
     /\ \A x \in facts.exchangers.results : x \in entire.exchangers.results \/ x.measured = FALSE
     /\ \A b \in facts.dane.bindings : b \in entire.dane.bindings \/ b.outcome = "not-checked"

DkimTold ==
  /\ facts.dkim.looked = entire.dkim.looked
  /\ \A k \in facts.dkim.keys :
       k \in entire.dkim.keys \/ (k.reason = "unread" /\ k.found = FALSE /\ k.weak = FALSE)

Told == SpfTold /\ DmarcTold /\ ReportingTold /\ MxTold /\ StsTold /\ DaneTold /\ ReachedTold /\ DkimTold

-----------------------------------------------------------------------------
(***************************************************************************)
(* What is found of such facts.                                            *)
(***************************************************************************)

\* What a walk finds in which a lookup failed: nothing but void lookups, and those only
\* where the walk without the failure stopped at the limit.
LEMMA FewerOfTheWalk ==
  ASSUME Beside(facts.spf, entire.spf)
  PROVE  SpfFindings(facts.spf) \subseteq SpfFindings(entire.spf) \cup IF WentFurther THEN {VoidFound} ELSE {}
<1> DEFINE Duplicate(spf) == Finding(spf.records > 1, "mail.spf-duplicate", Insecure)
           Limit(spf) == Finding(spf.limit, "mail.spf-lookup-limit", Insecure)
           Void(spf) == Finding(spf.void, "mail.spf-void-lookups", Weak)
           Anybody(spf) == Finding(spf.all = "+", "mail.spf-allows-everybody", Insecure)
           more == IF WentFurther THEN {VoidFound} ELSE {}
<1>1. \A spf : SpfFindings(spf) = Duplicate(spf) \cup Limit(spf) \cup Void(spf) \cup Anybody(spf)
  BY Zenon DEF SpfFindings
<1>2. Duplicate(facts.spf) = Duplicate(entire.spf)
  BY DEF Beside
<1>3. Limit(facts.spf) \subseteq Limit(entire.spf)
  BY FindingGrows DEF Beside
<1>4. Void(facts.spf) \subseteq Void(entire.spf) \cup more
  <2>1. CASE entire.spf.limit
    <3>1. WentFurther
      BY <2>1 DEF WentFurther, Beside
    <3> QED
      BY <3>1 DEF Finding, VoidFound
  <2>2. CASE ~entire.spf.limit
    <3>1. facts.spf.void => entire.spf.void
      BY <2>2 DEF Beside
    <3> QED
      BY <3>1, FindingGrows
  <2> QED
    BY <2>1, <2>2
<1>5. Anybody(facts.spf) = Anybody(entire.spf)
  BY Zenon DEF Beside
<1> HIDE DEF Duplicate, Limit, Void, Anybody, more
<1>6. SpfFindings(facts.spf) \subseteq SpfFindings(entire.spf) \cup more
  BY <1>1, <1>2, <1>3, <1>4, <1>5
<1> QED
  BY <1>6 DEF more

LEMMA FewerOfTheRecords ==
  ASSUME SpfTold, DmarcTold
  PROVE  /\ SpfFindings(facts.spf) \subseteq SpfFindings(entire.spf) \cup IF WentFurther THEN {VoidFound} ELSE {}
         /\ DmarcFindings(facts.dmarc) \subseteq DmarcFindings(entire.dmarc)
<1>1. SpfFindings(UnreadSpf) = {}
  <2>1. ~(UnreadSpf.records > 1) /\ ~UnreadSpf.limit /\ ~UnreadSpf.void
    BY UnreadIs
  <2>2. ~(UnreadSpf.all = "+")
    BY UnreadIs, Signs, Zenon DEF Everybody
  <2> QED
    BY <2>1, <2>2, NoFinding, Zenon DEF SpfFindings
<1>2. DmarcFindings(UnreadDmarc) = {}
  <2>1. ~(UnreadDmarc.records = 1) /\ ~(UnreadDmarc.records > 1)
    BY UnreadIs
  <2> QED
    BY <2>1, NoFinding, Zenon DEF DmarcFindings
<1> DEFINE more == IF WentFurther THEN {VoidFound} ELSE {}
<1>3. Beside(facts.spf, entire.spf) => SpfFindings(facts.spf) \subseteq SpfFindings(entire.spf) \cup more
  BY FewerOfTheWalk
<1> HIDE DEF more
<1>4. SpfFindings(facts.spf) \subseteq SpfFindings(entire.spf) \cup more
  BY <1>1, <1>3 DEF SpfTold, PolicyMissed
<1>5. DmarcFindings(facts.dmarc) \subseteq DmarcFindings(entire.dmarc)
  BY <1>2, Zenon DEF DmarcTold
<1> QED
  BY <1>4, <1>5 DEF more

LEMMA FewerOfThePolicy ==
  ASSUME StsTold
  PROVE  StsFindings(facts.sts) \subseteq StsFindings(entire.sts)
<1>1. CASE facts.sts.read = FALSE
  <2>1. ~facts.sts.read /\ ~Enforced(facts.sts)
    BY <1>1 DEF Enforced
  <2>2. StsFindings(facts.sts) = {}
    BY <2>1, NoFinding, Zenon DEF StsFindings
  <2> QED
    BY <2>2, Zenon
<1>2. CASE SamePolicy /\ facts.sts.uncovered = {}
  <2>1. Enforced(facts.sts) /\ facts.sts.uncovered # {} => Enforced(entire.sts) /\ entire.sts.uncovered # {}
    BY <1>2
  <2>2. StsInvalid(facts.sts) => StsInvalid(entire.sts)
    BY <1>2, Zenon DEF SamePolicy, StsInvalid
  <2>3. facts.sts.read /\ StsInvalid(facts.sts) => entire.sts.read /\ StsInvalid(entire.sts)
    BY <1>2, <2>2, Zenon DEF SamePolicy
  <2> DEFINE a1 == facts.sts.read /\ StsInvalid(facts.sts)
             b1 == entire.sts.read /\ StsInvalid(entire.sts)
             a2 == Enforced(facts.sts) /\ facts.sts.uncovered # {}
             b2 == Enforced(entire.sts) /\ entire.sts.uncovered # {}
  <2>4. /\ Finding(a1, "mail.mta-sts-policy-invalid", Weak) \subseteq Finding(b1, "mail.mta-sts-policy-invalid", Weak)
        /\ Finding(a2, "mail.mta-sts-uncovered-exchanger", Weak) \subseteq Finding(b2, "mail.mta-sts-uncovered-exchanger", Weak)
    <3> HIDE DEF a1, b1, a2, b2
    <3>1. (a1 => b1) /\ (a2 => b2)
      BY <2>1, <2>3, Zenon DEF a1, b1, a2, b2
    <3> QED
      BY <3>1, FindingGrows, Zenon
  <2> QED
    BY <2>4, Zenon DEF StsFindings
<1> QED
  BY <1>1, <1>2, Zenon DEF StsTold

LEMMA FewerOfTheExchangers ==
  ASSUME StsTold, ReachedTold, MxTold
  PROVE  /\ ExchangerFindings(facts.sts, facts.exchangers.results) \subseteq
              ExchangerFindings(entire.sts, entire.exchangers.results)
         /\ DaneFindings(facts.dane.bindings) \subseteq DaneFindings(entire.dane.bindings)
<1>1. CASE facts.exchangers.results = {} /\ facts.dane.bindings = {}
  BY <1>1 DEF ExchangerFindings, DaneFindings, Finding
<1>2. CASE /\ facts.mx = entire.mx
           /\ \A x \in facts.exchangers.results : x \in entire.exchangers.results \/ x.measured = FALSE
           /\ \A b \in facts.dane.bindings : b \in entire.dane.bindings \/ b.outcome = "not-checked"
  <2> DEFINE a == Enforced(facts.sts) /\ \E x \in facts.exchangers.results : FailsPolicy(facts.sts, x)
             b == Enforced(entire.sts) /\ \E x \in entire.exchangers.results : FailsPolicy(entire.sts, x)
             c == \E y \in facts.dane.bindings : y.validated /\ y.usable > 0 /\ y.outcome \in {"no-starttls", "mismatched"}
             d == \E y \in entire.dane.bindings : y.validated /\ y.usable > 0 /\ y.outcome \in {"no-starttls", "mismatched"}
  <2>1. a => b
    <3> SUFFICES ASSUME Enforced(facts.sts), NEW x \in facts.exchangers.results, FailsPolicy(facts.sts, x)
                 PROVE  b
      OBVIOUS
    <3>1. x.measured /\ x \in entire.exchangers.results
      BY <1>2 DEF FailsPolicy
    <3>2. CASE facts.sts = entire.sts
      BY <3>1, <3>2
    <3>3. CASE facts.sts.read = FALSE
      BY <3>3 DEF Enforced
    <3>4. CASE SamePolicy /\ facts.sts.uncovered = {} /\ facts.mx = UnreadMx
      BY <1>2, <3>4, Zenon DEF MxTold
    <3> QED
      BY <3>2, <3>3, <3>4 DEF StsTold
  <2>2. c => d
    BY <1>2
  <2>3. /\ ExchangerFindings(facts.sts, facts.exchangers.results) = Finding(a, "mail.mta-sts-exchanger-fails-policy", Weak)
        /\ ExchangerFindings(entire.sts, entire.exchangers.results) = Finding(b, "mail.mta-sts-exchanger-fails-policy", Weak)
        /\ DaneFindings(facts.dane.bindings) = Finding(c, "mail.dane-exchanger-fails-binding", Weak)
        /\ DaneFindings(entire.dane.bindings) = Finding(d, "mail.dane-exchanger-fails-binding", Weak)
    BY DEF ExchangerFindings, DaneFindings
  <2> HIDE DEF a, b, c, d
  <2>4. \A rule : Finding(a, rule, Weak) \subseteq Finding(b, rule, Weak)
    BY ONLY <2>1, FindingGrows, Zenon
  <2>5. \A rule : Finding(c, rule, Weak) \subseteq Finding(d, rule, Weak)
    BY ONLY <2>2, FindingGrows, Zenon
  <2> QED
    BY <2>3, <2>4, <2>5, Zenon
<1> QED
  BY <1>1, <1>2 DEF ReachedTold

LEMMA FewerOfTheKeys ==
  ASSUME DkimTold
  PROVE  DkimFindings(facts.dkim.keys) \subseteq DkimFindings(entire.dkim.keys)
BY FindingGrows DEF DkimTold, DkimFindings

LEMMA FewerFindings ==
  Told => MailFindings(facts) \subseteq MailFindings(entire) \cup IF WentFurther THEN {VoidFound} ELSE {}
<1> DEFINE more == IF WentFurther THEN {VoidFound} ELSE {}
<1>1. Told => SpfFindings(facts.spf) \subseteq SpfFindings(entire.spf) \cup more
  BY FewerOfTheRecords DEF Told
<1> HIDE DEF more
<1>2. Told => MailFindings(facts) \subseteq MailFindings(entire) \cup more
  BY <1>1, FewerOfTheRecords, FewerOfThePolicy, FewerOfTheExchangers, FewerOfTheKeys, Zenon DEF Told, MailFindings
<1> QED
  BY <1>2 DEF more

\* Whatever is found is Weak or Insecure.
LEMMA FindingsWeigh == \A f : \A x \in MailFindings(f) : x.verdict \in {Weak, Insecure}
<1> DEFINE Condemns(x) == x.verdict \in {Weak, Insecure}
<1>1. \A c, rule : \A x \in Finding(c, rule, Weak) \cup Finding(c, rule, Insecure) : Condemns(x)
  BY DEF Finding
<1> HIDE DEF Condemns
<1>2. \A spf : \A x \in SpfFindings(spf) : Condemns(x)
  BY <1>1, Zenon DEF SpfFindings
<1>3. \A dmarc : \A x \in DmarcFindings(dmarc) : Condemns(x)
  BY <1>1, Zenon DEF DmarcFindings
<1>4. \A sts : \A x \in StsFindings(sts) : Condemns(x)
  BY <1>1, Zenon DEF StsFindings
<1>5. \A sts, results : \A x \in ExchangerFindings(sts, results) : Condemns(x)
  BY <1>1, Zenon DEF ExchangerFindings
<1>6. \A bindings : \A x \in DaneFindings(bindings) : Condemns(x)
  BY <1>1, Zenon DEF DaneFindings
<1>7. \A keys : \A x \in DkimFindings(keys) : Condemns(x)
  BY <1>1, Zenon DEF DkimFindings
<1>8. \A f : \A x \in MailFindings(f) : Condemns(x)
  BY <1>2, <1>3, <1>4, <1>5, <1>6, <1>7, Zenon DEF MailFindings
<1> QED
  BY <1>8 DEF Condemns

\* The most severe of such verdicts is one of them, and none is more severe.
LEMMA MostSevere ==
  ASSUME NEW V \in SUBSET {Weak, Insecure}
  PROVE  /\ Worst({Strong} \cup V) \in {Strong} \cup V
         /\ \A v \in V : v <= Worst({Strong} \cup V)
<1> DEFINE S == ({Strong} \cup V) \cup {Ungraded}
<1>1. S \subseteq {-1, 0, 1, 2} /\ -1 \in S /\ 0 \in S /\ V \subseteq S /\ S \subseteq V \cup {0, -1}
  BY DEF Ungraded, Strong, Weak, Insecure
<1>2. \E x \in S : \A y \in S : x >= y
  <2> HIDE DEF S
  <2>1. CASE 2 \in S
    BY <1>1, <2>1
  <2>2. CASE 2 \notin S /\ 1 \in S
    BY <1>1, <2>2
  <2>3. CASE 2 \notin S /\ 1 \notin S
    BY <1>1, <2>3
  <2> QED
    BY <2>1, <2>2, <2>3
<1>3. Worst({Strong} \cup V) = CHOOSE x \in S : \A y \in S : x >= y
  BY DEF Worst, Max
<1> DEFINE w == Worst({Strong} \cup V)
<1>4. w \in S /\ \A y \in S : w >= y
  BY <1>2, <1>3
<1> HIDE DEF S, w
<1>5. w \in {0} \cup V
  BY <1>1, <1>4
<1>6. \A v \in V : v <= w
  BY <1>1, <1>4
<1> QED
  BY <1>5, <1>6 DEF w, Strong

LEMMA GradedNoWorse ==
  ASSUME Told
  PROVE  /\ GradeMail(facts) = Ungraded \/ GradeMail(facts) <= GradeMail(entire) \/ GradeMail(entire) = Ungraded
         /\ GradeMail(facts) = Strong => failures \cap {"spf", "dmarc", "mx"} = {}
<1> DEFINE V(f) == {x.verdict : x \in MailFindings(f)}
<1>1. \A f : V(f) \in SUBSET {Weak, Insecure}
  BY FindingsWeigh
<1>0. V(facts) \subseteq V(entire) \/ (V(facts) \subseteq V(entire) \cup {Weak} /\ Insecure \in V(entire))
  <2>1. CASE ~WentFurther
    BY <2>1, FewerFindings
  <2>2. CASE WentFurther
    <3>1. V(facts) \subseteq V(entire) \cup {Weak}
      BY <2>2, FewerFindings DEF VoidFound
    <3>2. [rule |-> "mail.spf-lookup-limit", verdict |-> Insecure] \in MailFindings(entire)
      <4>1. [rule |-> "mail.spf-lookup-limit", verdict |-> Insecure]
              \in Finding(entire.spf.limit, "mail.spf-lookup-limit", Insecure)
        BY <2>2 DEF Finding, WentFurther
      <4> QED
        BY <4>1, Zenon DEF MailFindings, SpfFindings
    <3> QED
      BY <3>1, <3>2
  <2> QED
    BY <2>1, <2>2
<1> HIDE DEF V
<1>2. /\ WorstFinding(facts) \in {Strong} \cup V(facts)
      /\ WorstFinding(entire) \in {Strong} \cup V(entire)
      /\ \A v \in V(entire) : v <= WorstFinding(entire)
  <2>1. \A f : WorstFinding(f) = Worst({Strong} \cup V(f))
    BY DEF WorstFinding, V
  <2> QED
    BY <1>1, <2>1, MostSevere
<1>3. WorstFinding(facts) <= WorstFinding(entire)
  <2>1. CASE WorstFinding(facts) \in V(facts)
    <3>1. CASE WorstFinding(facts) \in V(entire)
      BY <1>2, <3>1
    <3>2. CASE WorstFinding(facts) = Weak /\ Insecure \in V(entire)
      <4>1. Insecure <= WorstFinding(entire) /\ WorstFinding(entire) \in {Strong, Weak, Insecure}
        BY <1>1, <1>2, <3>2
      <4> QED
        BY <3>2, <4>1 DEF Strong, Weak, Insecure
    <3> QED
      BY <1>0, <2>1, <3>1, <3>2
  <2>2. CASE WorstFinding(facts) = Strong
    BY <1>1, <1>2, <2>2 DEF Strong, Weak, Insecure
  <2> QED
    BY <1>2, <2>1, <2>2
<1>4. GradeMail(facts) = Ungraded \/ GradeMail(facts) <= GradeMail(entire) \/ GradeMail(entire) = Ungraded
  BY <1>3 DEF GradeMail
<1>5. ASSUME GradeMail(facts) = Strong, "spf" \in failures \/ "dmarc" \in failures \/ "mx" \in failures
      PROVE  FALSE
  <2>1. PolicyMissed \/ facts.dmarc = UnreadDmarc \/ facts.mx = UnreadMx
    BY <1>5 DEF Told, SpfTold, DmarcTold, MxTold
  <2>2. facts.spf.reason = "unread" \/ facts.spf.unread > 0 \/ facts.dmarc.reason = "unread" \/ facts.mx.reason = "unread"
    BY <2>1, UnreadIs DEF PolicyMissed, Beside
  <2>3. PrincipalUnread(facts)
    BY <2>2, Signs, Zenon DEF PrincipalUnread, Nothing
  <2>4. Ungraded # Strong
    BY DEF Ungraded, Strong
  <2>5. WorstFinding(facts) # Strong => GradeMail(facts) # Strong
    BY Zenon DEF GradeMail
  <2> QED
    BY <1>5, <2>3, <2>4, <2>5 DEF GradeMail
<1> QED
  BY <1>4, <1>5

-----------------------------------------------------------------------------
(***************************************************************************)
(* What the notes say of such facts.                                       *)
(***************************************************************************)

\* Each note of S is one of T, or says that something was not settled, or is one of
\* the absences that are not told from a failure, or of a walk that went further.
OfTheWalk(about) == WentFurther /\ about \in {"spf-ptr", "spf-lookups"}
Within(S, T) ==
  \A note \in S : note \in T \/ note[1] = "unsettled" \/ TakenForAbsence(note[2]) \/ OfTheWalk(note[2])

LEMMA UnsettledIsWithin == \A c, about, T : Within(Unsettled(c, about), T)
BY DEF Within, Unsettled

LEMMA SeenIsWithin ==
  /\ \A a, b, about : (a => b) => Within(Seen(a, about), Seen(b, about))
  /\ \A a, about, T : TakenForAbsence(about) \/ OfTheWalk(about) => Within(Seen(a, about), T)
  /\ \A a, about, T : ~a => Within(Seen(a, about), T)
<1>1. \A a, b, about : (a => b) => Within(Seen(a, about), Seen(b, about))
  BY DEF Within, Seen
<1>2. \A a, about, T : TakenForAbsence(about) \/ OfTheWalk(about) => Within(Seen(a, about), T)
  <2>1. \A a, about : \A note \in Seen(a, about) : note[2] = about
    BY DEF Seen
  <2> QED
    BY <2>1 DEF Within
<1>3. \A a, about, T : ~a => Within(Seen(a, about), T)
  BY DEF Within, Seen
<1> QED
  BY <1>1, <1>2, <1>3

LEMMA WithinIs ==
  /\ \A S : Within(S, S)
  /\ \A S1, S2, T : Within(S1, T) /\ Within(S2, T) => Within(S1 \cup S2, T)
  /\ \A S, T1, T2 : Within(S, T1) => Within(S, T1 \cup T2)
  /\ \A S, T1, T2 : Within(S, T2) => Within(S, T1 \cup T2)
  /\ \A T : Within({}, T)
BY DEF Within

\* Two unions, one within the other piece by piece.
LEMMA PieceByPiece ==
  \A S1, T1, S2, T2 : Within(S1, T1) /\ Within(S2, T2) => Within(S1 \cup S2, T1 \cup T2)
BY WithinIs
LEMMA SpfSeen == SpfTold => Within(DescribeSPF(facts.spf), DescribeSPF(entire.spf))
<1>1. CASE facts.spf = entire.spf
  BY <1>1, WithinIs, Zenon
<1>2. CASE facts.spf = UnreadSpf
  <2> DEFINE spf == facts.spf
             fails == spf.reason # ""
             absent == spf.reason = "" /\ spf.records = 0
             all == spf.all \in {"-", "~", "?"} \/ (spf.all = "" /\ spf.records = 1)
             read == spf.records = 1 /\ ~spf.limit
             T == DescribeSPF(entire.spf)
  <2>1. /\ spf.records = 0 /\ spf.all = Nothing /\ spf.ptr = FALSE /\ spf.reason = "unread"
    BY <1>2, UnreadIs
  <2>2. ~(spf.records = 1) /\ ~spf.ptr
    BY <2>1
  <2>3. ~absent
    BY <2>1, Signs, Zenon DEF Nothing
  <2>4. ~all
    <3>1. spf.all = ""
      BY <2>1, Zenon DEF Nothing
    <3> QED
      BY <2>2, <3>1, Zenon
  <2>5. ~read
    BY <2>2
  <2>6. DescribeSPF(spf) =
          Unsettled(fails, "spf") \cup Seen(absent, "no-spf") \cup Seen(all, "spf-all")
          \cup Seen(read, "spf-lookups") \cup Unsettled(spf.unread > 0, "spf-includes") \cup Seen(spf.ptr, "spf-ptr")
    BY Zenon DEF DescribeSPF
  <2> HIDE DEF fails, absent, all, read, T
  <2>7. Within(DescribeSPF(spf), T)
    BY <2>2, <2>3, <2>4, <2>5, <2>6, UnsettledIsWithin DEF Seen, Within
  <2> QED
    BY <2>7 DEF T
<1>3. CASE Beside(facts.spf, entire.spf)
  <2> DEFINE Unsure(spf) == Unsettled(spf.reason # "", "spf")
             Absent(spf) == Seen(spf.reason = "" /\ spf.records = 0, "no-spf")
             All(spf) == Seen(spf.all \in {"-", "~", "?"} \/ (spf.all = "" /\ spf.records = 1), "spf-all")
             Cost(spf) == Seen(spf.records = 1 /\ ~spf.limit, "spf-lookups")
             Missed(spf) == Unsettled(spf.unread > 0, "spf-includes")
             Ptr(spf) == Seen(spf.ptr, "spf-ptr")
  <2>1. \A spf : DescribeSPF(spf) = Unsure(spf) \cup Absent(spf) \cup All(spf) \cup Cost(spf) \cup Missed(spf) \cup Ptr(spf)
    BY Zenon DEF DescribeSPF
  <2>2. Within(Unsure(facts.spf), Unsure(entire.spf)) /\ Within(Missed(facts.spf), Missed(entire.spf))
    BY UnsettledIsWithin, Zenon
  <2>3. Absent(facts.spf) = Absent(entire.spf) /\ All(facts.spf) = All(entire.spf)
    BY <1>3, Zenon DEF Beside
  <2>4. entire.spf.limit => WentFurther
    BY <1>3 DEF Beside, WentFurther
  <2>5. Within(Cost(facts.spf), Cost(entire.spf))
    <3>1. CASE entire.spf.limit
      BY <2>4, <3>1, SeenIsWithin DEF OfTheWalk
    <3>2. CASE ~entire.spf.limit
      <4>1. facts.spf.records = 1 /\ ~facts.spf.limit => entire.spf.records = 1 /\ ~entire.spf.limit
        BY <1>3, <3>2 DEF Beside
      <4> QED
        BY <4>1, SeenIsWithin
    <3> QED
      BY <3>1, <3>2
  <2>6. Within(Ptr(facts.spf), Ptr(entire.spf))
    <3>1. CASE entire.spf.limit
      BY <2>4, <3>1, SeenIsWithin DEF OfTheWalk
    <3>2. CASE ~entire.spf.limit
      <4>1. facts.spf.ptr => entire.spf.ptr
        BY <1>3, <3>2 DEF Beside
      <4> QED
        BY <4>1, SeenIsWithin
    <3> QED
      BY <3>1, <3>2
  <2> HIDE DEF Unsure, Absent, All, Cost, Missed, Ptr
  <2>7. Within(Absent(facts.spf), Absent(entire.spf)) /\ Within(All(facts.spf), All(entire.spf))
    BY <2>3, WithinIs
  <2> QED
    BY <2>1, <2>2, <2>5, <2>6, <2>7, PieceByPiece
<1> QED
  BY <1>1, <1>2, <1>3, Zenon DEF SpfTold, PolicyMissed

LEMMA DmarcSeen == DmarcTold => Within(DescribeDMARC(facts.dmarc), DescribeDMARC(entire.dmarc))
<1>1. CASE facts.dmarc = entire.dmarc
  BY <1>1, WithinIs, Zenon
<1>2. CASE facts.dmarc = UnreadDmarc
  <2> DEFINE dmarc == facts.dmarc
             fails == dmarc.reason # ""
             absent == dmarc.reason = "" /\ dmarc.records = 0
             asks == dmarc.reason = "" /\ dmarc.records # 0 /\ dmarc.policy \in {"none", "quarantine", "reject"}
             silent == dmarc.records >= 1 /\ ~dmarc.reporting
             T == DescribeDMARC(entire.dmarc)
  <2>1. dmarc.reason = "unread" /\ dmarc.records = 0
    BY <1>2, UnreadIs
  <2>2. ~absent /\ ~asks
    BY <2>1, Signs, Zenon DEF Nothing
  <2>3. ~silent
    BY <2>1
  <2>4. DescribeDMARC(dmarc) =
          Unsettled(fails, "dmarc") \cup Seen(absent, "no-dmarc") \cup Seen(asks, "dmarc-policy")
          \cup Seen(silent, "no-dmarc-reports")
    BY Zenon DEF DescribeDMARC
  <2> HIDE DEF fails, absent, asks, silent, T
  <2>5. Within(DescribeDMARC(dmarc), T)
    BY <2>2, <2>3, <2>4, UnsettledIsWithin DEF Seen, Within
  <2> QED
    BY <2>5 DEF T
<1> QED
  BY <1>1, <1>2, Zenon DEF DmarcTold

LEMMA ReportingSeen ==
  ReportingTold => Within(Seen(~facts.tlsReporting, "no-tls-reports"), Seen(~entire.tlsReporting, "no-tls-reports"))
<1>1. CASE facts.tlsReporting = entire.tlsReporting
  BY <1>1, WithinIs, Zenon
<1>2. CASE "tls-reporting" \in failures
  <2>1. TakenForAbsence("no-tls-reports")
    BY <1>2 DEF TakenForAbsence
  <2> QED
    BY <2>1, SeenIsWithin
<1> QED
  BY <1>1, <1>2 DEF ReportingTold

LEMMA StsSeen ==
  ASSUME StsTold, MxTold, facts.mx = entire.mx
  PROVE  Within(DescribeSTS(facts), DescribeSTS(entire))
<1>1. CASE facts.sts = entire.sts
  <2>1. DescribeSTS(facts) = DescribeSTS(entire)
    BY <1>1, Zenon DEF DescribeSTS
  <2> QED
    BY <2>1, WithinIs, Zenon
<1>2. CASE facts.sts.records = 0 /\ "sts-record" \in failures
  <2>1. TakenForAbsence("no-sts")
    BY <1>2 DEF TakenForAbsence
  <2>2. DescribeSTS(facts) = Seen(TRUE, "no-sts")
    BY <1>2, Zenon DEF DescribeSTS
  <2> QED
    BY <2>1, <2>2, SeenIsWithin, Zenon
<1>3. CASE facts.sts.records # 0 /\ facts.sts.read = FALSE
  <2>1. DescribeSTS(facts) = Unsettled(TRUE, "sts-policy")
    BY <1>3, Zenon DEF DescribeSTS
  <2> QED
    BY <2>1, UnsettledIsWithin, Zenon
<1> QED
  BY <1>1, <1>2, <1>3, Zenon DEF StsTold, MxTold

LEMMA DaneSeen ==
  ASSUME DaneTold, MxTold, facts.mx = entire.mx
  PROVE  Within(DescribeDaneRecords(facts), DescribeDaneRecords(entire))
<1>1. CASE SameRecords
  <2>1. DescribeDaneRecords(facts) = DescribeDaneRecords(entire)
    BY <1>1, Zenon DEF DescribeDaneRecords, SameRecords
  <2> QED
    BY <2>1, WithinIs, Zenon
<1>2. CASE "tlsa" \in failures /\ facts.dane.unread > 0
  <2>1. TakenForAbsence("no-dane") /\ TakenForAbsence("dane-somewhere") /\ facts.dane.unread # 0
    BY <1>2 DEF TakenForAbsence
  <2> DEFINE d == facts.dane
             none == d.asked = 0 /\ d.unread = 0
             all == Cardinality(DOMAIN d.hosts) = Len(facts.mx.hosts) /\ d.unread = 0 /\ ~d.partial
             some == DOMAIN d.hosts # {}
             said == IF none THEN {}
                     ELSE IF all THEN Seen(TRUE, "dane-everywhere")
                     ELSE IF some THEN Seen(TRUE, "dane-somewhere")
                     ELSE Seen(TRUE, "no-dane")
             T == DescribeDaneRecords(entire)
  <2>2. ~none /\ ~all
    BY <2>1, Zenon
  <2>3. said \in {Seen(TRUE, "dane-somewhere"), Seen(TRUE, "no-dane")}
    <3> HIDE DEF none, all, some
    <3> QED
      BY <2>2, Zenon
  <2>4. DescribeDaneRecords(facts) =
          said \cup Unsettled(d.unread > 0, "dane-records") \cup Unsettled(d.partial, "more-dane-records")
    BY DEF DescribeDaneRecords
  <2> HIDE DEF said, T
  <2>5. Within(said, T)
    BY <2>1, <2>3, SeenIsWithin, Zenon
  <2>6. Within(DescribeDaneRecords(facts), T)
    BY <2>4, <2>5, UnsettledIsWithin DEF Within
  <2> QED
    BY <2>6 DEF T
<1> QED
  BY <1>1, <1>2, Zenon DEF DaneTold, MxTold

\* Some binding says one of these, of records that are signed or not.
Says(bindings, outcomes, validated) == \E b \in bindings : b.outcome \in outcomes /\ b.validated \in validated

LEMMA BindingsSeen ==
  ASSUME NEW F, NEW E, \A b \in F : b \in E \/ b.outcome = "not-checked"
  PROVE  Within(DescribeDANE(F), DescribeDANE(E))
<1> DEFINE failed == {"mismatched", "no-starttls"}
<1>1. /\ Says(F, {"matched"}, BOOLEAN) => Says(E, {"matched"}, BOOLEAN)
      /\ Says(F, failed, {FALSE}) => Says(E, failed, {FALSE})
      /\ Says(F, {"no-usable-records"}, BOOLEAN) => Says(E, {"no-usable-records"}, BOOLEAN)
  BY DEF Says
<1>2. \A B : DescribeDANE(B) =
               Seen(Says(B, {"matched"}, BOOLEAN), "dane-holds")
               \cup Unsettled(Says(B, {"matched"}, {FALSE}), "dane-signed")
               \cup Seen(Says(B, failed, {FALSE}), "dane-does-not-hold")
               \cup Seen(Says(B, {"no-usable-records"}, BOOLEAN), "dane-unusable")
               \cup Unsettled(Says(B, {"undetermined", "not-checked"}, BOOLEAN), "dane")
  BY DEF DescribeDANE, Says
<1> HIDE DEF failed
<1> QED
  BY <1>1, <1>2, UnsettledIsWithin DEF Seen, Within

\* What was measured of an exchanger, and says this of its certificate.
Measured(results) == {x \in results : ~Unmeasured(x)}

LEMMA ExchangersSeen ==
  ASSUME ReachedTold, MxTold, facts.mx = entire.mx
  PROVE  Within(DescribeExchangers(facts), DescribeExchangers(entire))
<1> DEFINE F == Measured(facts.exchangers.results)
           E == Measured(entire.exchangers.results)
           good(X) == \E x \in X : x.offered /\ x.trusted /\ x.names
           plain(X) == \E x \in X : ~x.offered
           bad(X) == \E x \in X : x.offered /\ ~(x.trusted /\ x.names)
           told(f) == Seen(good(Measured(f.exchangers.results)), "starttls")
                      \cup Seen(plain(Measured(f.exchangers.results)), "no-starttls")
                      \cup Seen(bad(Measured(f.exchangers.results)), "certificate")
           quiet(f) == Measured(f.exchangers.results) # f.exchangers.results
           which(f) == IF f.exchangers.results # {} /\ \A x \in f.exchangers.results : Unmeasured(x) /\ x.timedOut
                       THEN "port-25" ELSE "exchangers"
<1>1. /\ facts.exchangers.contacted = entire.exchangers.contacted
      /\ \A x \in facts.exchangers.results : x \in entire.exchangers.results \/ x.measured = FALSE
      /\ \A b \in facts.dane.bindings : b \in entire.dane.bindings \/ b.outcome = "not-checked"
  BY DEF ReachedTold, MxTold
<1>2. F \subseteq E
  BY <1>1 DEF Measured, Unmeasured
<1>3. /\ good(F) => good(E)
      /\ plain(F) => plain(E)
      /\ bad(F) => bad(E)
  <2> HIDE DEF F, E
  <2> QED
    BY <1>2
<1>4. \A f : DescribeExchangers(f) =
               IF ~f.exchangers.contacted THEN Unsettled(TRUE, "exchangers")
               ELSE told(f) \cup Unsettled(quiet(f), which(f)) \cup Unsettled(f.exchangers.partial, "more-exchangers")
                    \cup DescribeDANE(f.dane.bindings)
  BY DEF DescribeExchangers, Measured
<1>5. Within(told(facts), told(entire))
  <2> HIDE DEF good, plain, bad
  <2> QED
    BY <1>3 DEF Seen, Within
<1>6. Within(DescribeDANE(facts.dane.bindings), DescribeDANE(entire.dane.bindings))
  BY <1>1, BindingsSeen
<1> HIDE DEF told, quiet, which
<1>7. CASE ~facts.exchangers.contacted
  BY <1>4, <1>7, UnsettledIsWithin
<1>8. CASE facts.exchangers.contacted
  <2>1. DescribeExchangers(facts) =
          told(facts) \cup Unsettled(quiet(facts), which(facts)) \cup Unsettled(facts.exchangers.partial, "more-exchangers")
          \cup DescribeDANE(facts.dane.bindings)
    BY <1>4, <1>8, Zenon
  <2>2. DescribeExchangers(entire) =
          told(entire) \cup Unsettled(quiet(entire), which(entire)) \cup Unsettled(entire.exchangers.partial, "more-exchangers")
          \cup DescribeDANE(entire.dane.bindings)
    BY <1>1, <1>4, <1>8, Zenon
  <2> QED
    BY <1>5, <1>6, <2>1, <2>2, UnsettledIsWithin DEF Within
<1> QED
  BY <1>7, <1>8

LEMMA MailPathSeen ==
  ASSUME MxTold, StsTold, DaneTold, ReachedTold
  PROVE  Within(DescribeMailPath(facts), DescribeMailPath(entire))
<1>1. CASE facts.mx = UnreadMx
  <2>1. facts.mx.reason = "unread"
    BY <1>1, UnreadIs
  <2>2. DescribeMailPath(facts) = Unsettled(TRUE, "mx")
    <3>1. facts.mx.reason # ""
      BY <2>1, Signs, Zenon DEF Nothing
    <3> QED
      BY <3>1, Zenon DEF DescribeMailPath
  <2> QED
    BY <2>2, UnsettledIsWithin, Zenon
<1>2. CASE facts.mx = entire.mx
  <2> DEFINE of(f) == Seen(TRUE, "mx") \cup DescribeSTS(f) \cup DescribeDaneRecords(f) \cup DescribeExchangers(f)
             path(mx, rest) == IF mx.reason # "" THEN Unsettled(TRUE, "mx")
                               ELSE IF mx.null THEN Seen(TRUE, "null-mx")
                               ELSE IF ~mx.read THEN {}
                               ELSE IF mx.hosts = <<>> THEN Seen(TRUE, "no-mx")
                               ELSE rest
  <2>1. DescribeMailPath(facts) = path(facts.mx, of(facts)) /\ DescribeMailPath(entire) = path(facts.mx, of(entire))
    <3>1. \A f : DescribeMailPath(f) = path(f.mx, of(f))
      BY Zenon DEF DescribeMailPath
    <3> QED
      BY <1>2, <3>1, Zenon
  <2>2. Within(of(facts), of(entire))
    BY <1>2, StsSeen, DaneSeen, ExchangersSeen DEF Within
  <2>3. \/ path(facts.mx, of(facts)) = of(facts) /\ path(facts.mx, of(entire)) = of(entire)
        \/ path(facts.mx, of(facts)) = path(facts.mx, of(entire))
    <3> HIDE DEF of
    <3> QED
      BY Zenon
  <2> HIDE DEF of, path
  <2>4. CASE path(facts.mx, of(facts)) = of(facts) /\ path(facts.mx, of(entire)) = of(entire)
    <3>1. DescribeMailPath(facts) = of(facts) /\ DescribeMailPath(entire) = of(entire)
      BY <2>1, <2>4
    <3> QED
      BY <2>2, <3>1
  <2>5. CASE path(facts.mx, of(facts)) = path(facts.mx, of(entire))
    BY <2>1, <2>5, WithinIs
  <2> QED
    BY <2>3, <2>4, <2>5, Zenon
<1> QED
  BY <1>1, <1>2, Zenon DEF MxTold

LEMMA DkimSeen == DkimTold => Within(DescribeDKIM(facts.dkim), DescribeDKIM(entire.dkim))
<1> SUFFICES ASSUME DkimTold PROVE Within(DescribeDKIM(facts.dkim), DescribeDKIM(entire.dkim))
  OBVIOUS
<1> DEFINE F == facts.dkim.keys
           E == entire.dkim.keys
           unread(K) == {k \in K : k.reason # ""}
           found(K) == {k \in K \ unread(K) : k.found}
           rest(K) == K \ (unread(K) \cup found(K))
           named(K) == \E k \in rest(K) : k.named
           testing(K) == \E k \in found(K) : k.testing
           revoked(K) == \E k \in found(K) : k.revoked
           open(K) == found(K) = {} /\ \E k \in rest(K) : ~k.named
           said(K) == Seen(found(K) # {}, "dkim-keys") \cup Seen(named(K), "no-key-where-named")
                      \cup Unsettled(open(K), "dkim-keys") \cup Unsettled(unread(K) # {}, "dkim-selectors")
                      \cup Seen(testing(K), "dkim-testing") \cup Seen(revoked(K), "dkim-revoked")
<1>1. /\ facts.dkim.looked = entire.dkim.looked
      /\ \A k \in F : k \in E \/ (k.reason = "unread" /\ k.found = FALSE /\ k.weak = FALSE)
  BY DEF DkimTold
<1>2. \A k : k.reason = "unread" => k.reason # ""
  BY Signs, Zenon DEF Nothing
<1> HIDE DEF F, E
<1>3. found(F) \subseteq found(E)
  BY <1>1
<1>4. rest(F) \subseteq rest(E)
  BY <1>1, <1>2, Zenon
<1>5. \A dkim : DescribeDKIM(dkim) = IF ~dkim.looked THEN Unsettled(TRUE, "dkim") ELSE said(dkim.keys)
  BY Zenon DEF DescribeDKIM
<1> HIDE DEF unread, found, rest, open
<1>6. /\ found(F) # {} => found(E) # {}
      /\ named(F) => named(E)
      /\ testing(F) => testing(E)
      /\ revoked(F) => revoked(E)
  BY <1>3, <1>4
<1> HIDE DEF named, testing, revoked
<1>7. Within(said(F), said(E))
  BY <1>6, UnsettledIsWithin DEF Seen, Within
<1> HIDE DEF said
<1>8. CASE ~facts.dkim.looked
  BY <1>5, <1>8, UnsettledIsWithin
<1>9. CASE facts.dkim.looked
  <2>1. DescribeDKIM(facts.dkim) = said(F)
    BY <1>5, <1>9, Zenon DEF F
  <2>2. DescribeDKIM(entire.dkim) = said(E)
    BY <1>1, <1>5, <1>9, Zenon DEF E
  <2> QED
    BY <1>7, <2>1, <2>2
<1> QED
  BY <1>8, <1>9

LEMMA SeenAsWell ==
  Told => \A note \in Notes(facts) \ Notes(entire) :
            note[1] = "unsettled" \/ TakenForAbsence(note[2]) \/ OfTheWalk(note[2])
<1> SUFFICES ASSUME Told PROVE Within(Notes(facts), Notes(entire))
  BY DEF Within
<1>1. /\ Within(DescribeSPF(facts.spf), DescribeSPF(entire.spf))
      /\ Within(DescribeDMARC(facts.dmarc), DescribeDMARC(entire.dmarc))
      /\ Within(Seen(~facts.tlsReporting, "no-tls-reports"), Seen(~entire.tlsReporting, "no-tls-reports"))
      /\ Within(DescribeMailPath(facts), DescribeMailPath(entire))
      /\ Within(DescribeDKIM(facts.dkim), DescribeDKIM(entire.dkim))
  BY SpfSeen, DmarcSeen, ReportingSeen, MailPathSeen, DkimSeen DEF Told
<1> QED
  BY <1>1 DEF Notes, Within

LEMMA ToldIsEnough == Told => FailureNeverCondemns
BY FewerFindings, GradedNoWorse, SeenAsWell, Zenon DEF FailureNeverCondemns, OfTheWalk

-----------------------------------------------------------------------------
(***************************************************************************)
(* That the facts stay so, whatever is asked and whatever fails.           *)
(***************************************************************************)

\* The fields the steps write to are there.
Formed(f) ==
  /\ {"records", "read", "reason", "invalid", "mode", "maxAge", "mx", "truncated", "uncovered"} \subseteq DOMAIN f.sts
  /\ {"hosts", "asked", "unread", "partial", "bindings"} \subseteq DOMAIN f.dane
  /\ {"contacted", "partial", "results"} \subseteq DOMAIN f.exchangers
  /\ {"looked", "keys"} \subseteq DOMAIN f.dkim

\* Of what was not asked yet nothing is known, and no question for it failed.
NotAsked ==
  /\ mailStage \in BeforeSpf => "spf" \notin failures /\ facts.spf = NoFacts.spf
  /\ mailStage \in BeforeDmarc => "dmarc" \notin failures /\ facts.dmarc = NoFacts.dmarc
  /\ mailStage \in BeforeReporting => facts.tlsReporting = FALSE
  /\ mailStage \in NoExchangersYet => "mx" \notin failures /\ facts.mx = NoFacts.mx
PolicyNotAsked ==
  /\ mailStage \in NoRecordYet => facts.sts = entire.sts
  /\ mailStage \in Early =>
       /\ facts.sts.read = FALSE /\ facts.sts.uncovered = {}
       /\ facts.sts = entire.sts \/ (facts.sts.records = 0 /\ "sts-record" \in failures)
NobodyAsked ==
  mailStage \in NoExchangersYet =>
    facts.exchangers = entire.exchangers /\ facts.exchangers.results = {} /\ facts.dane.bindings = {}

FailureInv ==
  /\ MailInv /\ Formed(facts) /\ Formed(entire)
  /\ NotAsked /\ PolicyNotAsked /\ NobodyAsked
  /\ Told

LEMMA InitiallyFailureInv == MailInit => FailureInv
<1> SUFFICES ASSUME MailInit PROVE FailureInv
  OBVIOUS
<1>1. facts = NoFacts /\ entire = NoFacts /\ failures = {}
  BY DEF MailInit
<1>2. MailInv
  BY InitiallyMailInv
<1>3. /\ Formed(NoFacts)
      /\ NoFacts.tlsReporting = FALSE /\ NoFacts.sts.read = FALSE /\ NoFacts.sts.uncovered = {}
      /\ NoFacts.exchangers.results = {} /\ NoFacts.dane.bindings = {} /\ NoFacts.dkim.keys = {}
  BY NoFactsAre DEF Formed
<1>4. NoFacts.mx # UnreadMx
  <2>1. NoFacts.mx.reason = Nothing
    BY NoFactsAre
  <2> QED
    BY <2>1, UnreadIs, Signs, Zenon
<1>5. NotAsked /\ PolicyNotAsked /\ NobodyAsked
  BY <1>1, <1>3 DEF NotAsked, PolicyNotAsked, NobodyAsked
<1>6. Told
  BY <1>1, <1>3, <1>4
     DEF Told, SpfTold, DmarcTold, ReportingTold, MxTold, StsTold, DaneTold, SameRecords, ReachedTold, DkimTold
<1> QED
  BY <1>1, <1>2, <1>3, <1>5, <1>6 DEF FailureInv

\* What a step leaves of the records, of the policy, of the exchangers, of the keys.
RecordsLeft ==
  /\ facts'.spf = facts.spf /\ entire'.spf = entire.spf /\ facts'.dmarc = facts.dmarc /\ entire'.dmarc = entire.dmarc
  /\ facts'.tlsReporting = facts.tlsReporting /\ entire'.tlsReporting = entire.tlsReporting
MxLeft == facts'.mx = facts.mx /\ entire'.mx = entire.mx
PolicyLeft == facts'.sts = facts.sts /\ entire'.sts = entire.sts
RecordsOfHostsLeft == facts'.dane = facts.dane /\ entire'.dane = entire.dane
ResultsLeft == facts'.exchangers = facts.exchangers /\ entire'.exchangers = entire.exchangers
KeysLeft == facts'.dkim = facts.dkim /\ entire'.dkim = entire.dkim

\* A failure is not forgotten, and only the stage that is asked can fail.
OneMayFail == failures \subseteq failures' /\ failures' \subseteq failures \cup {mailStage}

\* The parts of the invariant, each about what is left of it.
SpfPart == SpfTold /\ (mailStage \in BeforeSpf => "spf" \notin failures /\ facts.spf = NoFacts.spf)
DmarcPart == DmarcTold /\ (mailStage \in BeforeDmarc => "dmarc" \notin failures /\ facts.dmarc = NoFacts.dmarc)
ReportingPart == ReportingTold /\ (mailStage \in BeforeReporting => facts.tlsReporting = FALSE)
MxPart == MxTold /\ (mailStage \in NoExchangersYet => "mx" \notin failures /\ facts.mx = NoFacts.mx)
PolicyPart == StsTold /\ PolicyNotAsked
HostsPart == DaneTold /\ ReachedTold /\ NobodyAsked

LEMMA InParts ==
  FailureInv <=> /\ MailInv /\ Formed(facts) /\ Formed(entire)
                 /\ SpfPart /\ DmarcPart /\ ReportingPart /\ MxPart /\ PolicyPart /\ HostsPart /\ DkimTold
BY Zenon DEF FailureInv, NotAsked, Told, SpfPart, DmarcPart, ReportingPart, MxPart, PolicyPart, HostsPart

LEMMA SpfStays ==
  ASSUME SpfPart, NotBack, OneMayFail, mailStage # "spf", facts'.spf = facts.spf, entire'.spf = entire.spf
  PROVE  SpfPart'
BY DEF SpfPart, SpfTold, PolicyMissed, NotBack, OneMayFail

LEMMA DmarcStays ==
  ASSUME DmarcPart, NotBack, OneMayFail, mailStage # "dmarc", facts'.dmarc = facts.dmarc, entire'.dmarc = entire.dmarc
  PROVE  DmarcPart'
BY DEF DmarcPart, DmarcTold, NotBack, OneMayFail

LEMMA ReportingStays ==
  ASSUME ReportingPart, NotBack, OneMayFail, facts'.tlsReporting = facts.tlsReporting,
         entire'.tlsReporting = entire.tlsReporting
  PROVE  ReportingPart'
BY DEF ReportingPart, ReportingTold, NotBack, OneMayFail

LEMMA MxStays ==
  ASSUME MxPart, NotBack, OneMayFail, mailStage # "mx", MxLeft
  PROVE  MxPart'
BY DEF MxPart, MxTold, NotBack, OneMayFail, MxLeft

LEMMA PolicyStays ==
  ASSUME PolicyPart, NotBack, OneMayFail, PolicyLeft, facts.mx = UnreadMx => facts'.mx = UnreadMx
  PROVE  PolicyPart'
<1>1. StsTold'
  BY DEF PolicyPart, StsTold, SamePolicy, OneMayFail, PolicyLeft
<1>2. PolicyNotAsked'
  BY DEF PolicyPart, PolicyNotAsked, NotBack, OneMayFail, PolicyLeft
<1> QED
  BY <1>1, <1>2 DEF PolicyPart

LEMMA HostsStay ==
  ASSUME HostsPart, NotBack, OneMayFail, RecordsOfHostsLeft, ResultsLeft, MxLeft
  PROVE  HostsPart'
<1>1. DaneTold'
  BY DEF HostsPart, DaneTold, SameRecords, OneMayFail, RecordsOfHostsLeft, MxLeft
<1>2. ReachedTold'
  BY DEF HostsPart, ReachedTold, RecordsOfHostsLeft, ResultsLeft, MxLeft
<1>3. NobodyAsked'
  BY DEF HostsPart, NobodyAsked, NotBack, RecordsOfHostsLeft, ResultsLeft
<1> QED
  BY <1>1, <1>2, <1>3 DEF HostsPart

LEMMA KeysStay == ASSUME DkimTold, KeysLeft PROVE DkimTold'
BY DEF DkimTold, KeysLeft

LEMMA FormStays ==
  ASSUME Formed(facts), Formed(entire), PolicyLeft, RecordsOfHostsLeft, ResultsLeft, KeysLeft
  PROVE  Formed(facts)' /\ Formed(entire)'
BY DEF Formed, PolicyLeft, RecordsOfHostsLeft, ResultsLeft, KeysLeft

\* A question is answered, or fails; nothing else is.
LEMMA AskOneMayFail ==
  ASSUME NEW question, NEW answered, NEW unanswered, NEW then, Ask(question, answered, unanswered, then)
  PROVE  /\ mailStage = question /\ mailStage' = then /\ OneMayFail
         /\ \/ facts' = answered /\ failures' = failures
            \/ facts' = unanswered
BY DEF Ask, Fails, OneMayFail

LEMMA ReadSPFTells == FailureInv /\ ReadSPF /\ NotBack /\ MailInv' => FailureInv'
<1> SUFFICES ASSUME FailureInv, ReadSPF, NotBack, MailInv' PROVE FailureInv'
  OBVIOUS
<1>0. /\ MailInv /\ Formed(facts) /\ Formed(entire) /\ SpfPart /\ DmarcPart /\ ReportingPart /\ MxPart
      /\ PolicyPart /\ HostsPart /\ DkimTold
  BY InParts
<1>1. PICK walk \in SpfWalks : \E told \in walk.partly \cup {[facts.spf EXCEPT !.reason = "unread"]} :
        /\ entire' = [entire EXCEPT !.spf = walk.whole]
        /\ Ask("spf", [facts EXCEPT !.spf = walk.whole], [facts EXCEPT !.spf = told], "dmarc")
  BY Zenon DEF ReadSPF
<1>6. PICK told \in walk.partly \cup {[facts.spf EXCEPT !.reason = "unread"]} :
        Ask("spf", [facts EXCEPT !.spf = walk.whole], [facts EXCEPT !.spf = told], "dmarc")
  BY <1>1, Zenon
<1>2. /\ mailStage = "spf" /\ mailStage' = "dmarc" /\ OneMayFail
      /\ \/ facts' = [facts EXCEPT !.spf = walk.whole] /\ failures' = failures
         \/ facts' = [facts EXCEPT !.spf = told]
  BY <1>6, AskOneMayFail
<1>7. entire' = [entire EXCEPT !.spf = walk.whole]
  BY <1>1, Zenon
<1>3. /\ facts'.dmarc = facts.dmarc /\ entire'.dmarc = entire.dmarc
      /\ facts'.tlsReporting = facts.tlsReporting /\ entire'.tlsReporting = entire.tlsReporting
      /\ MxLeft /\ PolicyLeft /\ RecordsOfHostsLeft /\ ResultsLeft /\ KeysLeft
  BY <1>0, <1>2, <1>7 DEF MailInv, Shaped, MxLeft, PolicyLeft, RecordsOfHostsLeft, ResultsLeft, KeysLeft
<1>4. SpfPart'
  <2>1. mailStage \in BeforeSpf /\ mailStage' \notin BeforeSpf
    BY <1>2 DEF BeforeSpf
  <2>2. entire'.spf = walk.whole /\ "spf" \notin failures /\ facts.spf = NoFacts.spf
    BY <1>0, <1>7, <2>1 DEF MailInv, Shaped, SpfPart
  <2>3. CASE facts' = [facts EXCEPT !.spf = walk.whole] /\ failures' = failures
    <3>1. facts'.spf = walk.whole
      BY <1>0, <2>3 DEF MailInv, Shaped
    <3> QED
      BY <2>1, <2>2, <2>3, <3>1 DEF SpfPart, SpfTold
  <2>4. CASE facts' = [facts EXCEPT !.spf = told]
    <3>1. facts'.spf = told
      BY <1>0, <2>4 DEF MailInv, Shaped
    <3>2. told = UnreadSpf \/ Beside(told, walk.whole)
      BY <2>2, MailAssumption, Zenon DEF UnreadSpf
    <3>3. PolicyMissed'
      BY <2>2, <3>1, <3>2 DEF PolicyMissed
    <3> QED
      BY <2>1, <3>3 DEF SpfPart, SpfTold
  <2> QED
    BY <1>2, <2>3, <2>4
<1>5. DmarcPart' /\ ReportingPart' /\ MxPart' /\ PolicyPart' /\ HostsPart' /\ DkimTold'
      /\ Formed(facts)' /\ Formed(entire)'
  BY <1>0, <1>2, <1>3, DmarcStays, ReportingStays, MxStays, PolicyStays, HostsStay, KeysStay, FormStays DEF MxLeft
<1> QED
  BY <1>4, <1>5, InParts, PTL

LEMMA ReadDMARCTells == FailureInv /\ ReadDMARC /\ NotBack /\ MailInv' => FailureInv'
<1> SUFFICES ASSUME FailureInv, ReadDMARC, NotBack, MailInv' PROVE FailureInv'
  OBVIOUS
<1>0. /\ MailInv /\ Formed(facts) /\ Formed(entire) /\ SpfPart /\ DmarcPart /\ ReportingPart /\ MxPart
      /\ PolicyPart /\ HostsPart /\ DkimTold
  BY InParts
<1>a. PICK records \in DmarcRecords :
        /\ entire' = [entire EXCEPT !.dmarc = Dmarc(records)]
        /\ Ask("dmarc", [facts EXCEPT !.dmarc = Dmarc(records)], [facts EXCEPT !.dmarc.reason = "unread"], "tls-reporting")
  BY Zenon DEF ReadDMARC
<1> DEFINE found == Dmarc(records)
<1>1. /\ entire' = [entire EXCEPT !.dmarc = found]
      /\ Ask("dmarc", [facts EXCEPT !.dmarc = found], [facts EXCEPT !.dmarc.reason = "unread"], "tls-reporting")
  BY <1>a
<1> HIDE DEF found
<1>2. /\ mailStage = "dmarc" /\ mailStage' = "tls-reporting" /\ OneMayFail
      /\ \/ facts' = [facts EXCEPT !.dmarc = found] /\ failures' = failures
         \/ facts' = [facts EXCEPT !.dmarc.reason = "unread"]
  BY <1>1, AskOneMayFail
<1>3. /\ facts'.spf = facts.spf /\ entire'.spf = entire.spf
      /\ facts'.tlsReporting = facts.tlsReporting /\ entire'.tlsReporting = entire.tlsReporting
      /\ MxLeft /\ PolicyLeft /\ RecordsOfHostsLeft /\ ResultsLeft /\ KeysLeft
  BY <1>0, <1>1, <1>2 DEF MailInv, Shaped, MxLeft, PolicyLeft, RecordsOfHostsLeft, ResultsLeft, KeysLeft
<1>4. DmarcPart'
  <2>1. mailStage \in BeforeDmarc /\ mailStage' \notin BeforeDmarc
    BY <1>2 DEF BeforeSpf, BeforeDmarc
  <2>2. entire'.dmarc = found /\ "dmarc" \notin failures /\ facts.dmarc = NoFacts.dmarc
    BY <1>0, <1>1, <2>1 DEF MailInv, Shaped, DmarcPart
  <2>3. CASE facts' = [facts EXCEPT !.dmarc = found] /\ failures' = failures
    <3>1. facts'.dmarc = found
      BY <1>0, <2>3 DEF MailInv, Shaped
    <3> QED
      BY <2>1, <2>2, <2>3, <3>1 DEF DmarcPart, DmarcTold
  <2>4. CASE facts' = [facts EXCEPT !.dmarc.reason = "unread"]
    <3>1. facts'.dmarc = UnreadDmarc
      BY <1>0, <2>2, <2>4 DEF MailInv, Shaped, UnreadDmarc
    <3> QED
      BY <2>1, <3>1 DEF DmarcPart, DmarcTold
  <2> QED
    BY <1>2, <2>3, <2>4
<1>5. SpfPart' /\ ReportingPart' /\ MxPart' /\ PolicyPart' /\ HostsPart' /\ DkimTold'
      /\ Formed(facts)' /\ Formed(entire)'
  BY <1>0, <1>2, <1>3, SpfStays, ReportingStays, MxStays, PolicyStays, HostsStay, KeysStay, FormStays DEF MxLeft
<1> QED
  BY <1>4, <1>5, InParts, PTL

LEMMA ReadTLSReportingTells == FailureInv /\ ReadTLSReporting /\ NotBack /\ MailInv' => FailureInv'
<1> SUFFICES ASSUME FailureInv, ReadTLSReporting, NotBack, MailInv' PROVE FailureInv'
  OBVIOUS
<1>0. /\ MailInv /\ Formed(facts) /\ Formed(entire) /\ SpfPart /\ DmarcPart /\ ReportingPart /\ MxPart
      /\ PolicyPart /\ HostsPart /\ DkimTold
  BY InParts
<1>1. PICK published \in BOOLEAN :
        /\ entire' = [entire EXCEPT !.tlsReporting = published]
        /\ Ask("tls-reporting", [facts EXCEPT !.tlsReporting = published], facts, "mx")
  BY Zenon DEF ReadTLSReporting
<1>2. /\ mailStage = "tls-reporting" /\ mailStage' = "mx" /\ OneMayFail
      /\ \/ facts' = [facts EXCEPT !.tlsReporting = published]
         \/ facts' = facts /\ "tls-reporting" \in failures'
  BY <1>1 DEF Ask, Fails, OneMayFail
<1>3. /\ facts'.spf = facts.spf /\ entire'.spf = entire.spf
      /\ facts'.dmarc = facts.dmarc /\ entire'.dmarc = entire.dmarc
      /\ MxLeft /\ PolicyLeft /\ RecordsOfHostsLeft /\ ResultsLeft /\ KeysLeft
  BY <1>0, <1>1, <1>2 DEF MailInv, Shaped, MxLeft, PolicyLeft, RecordsOfHostsLeft, ResultsLeft, KeysLeft
<1>4. ReportingPart'
  <2>1. mailStage \in BeforeReporting /\ mailStage' \notin BeforeReporting
    BY <1>2 DEF BeforeSpf, BeforeDmarc, BeforeReporting
  <2>2. facts.tlsReporting = FALSE
    BY <1>0, <2>1 DEF ReportingPart
  <2>3. facts'.tlsReporting = entire'.tlsReporting \/ (facts'.tlsReporting = FALSE /\ "tls-reporting" \in failures')
    BY <1>0, <1>1, <1>2, <2>2 DEF MailInv, Shaped
  <2> QED
    BY <2>1, <2>3 DEF ReportingPart, ReportingTold
<1>5. SpfPart' /\ DmarcPart' /\ MxPart' /\ PolicyPart' /\ HostsPart' /\ DkimTold'
      /\ Formed(facts)' /\ Formed(entire)'
  BY <1>0, <1>2, <1>3, SpfStays, DmarcStays, MxStays, PolicyStays, HostsStay, KeysStay, FormStays DEF MxLeft
<1> QED
  BY <1>4, <1>5, InParts, PTL

\* A list of exchangers that was read is read as it is; had the question failed, nobody
\* will be asked.
LEMMA ReadExchangersTells == FailureInv /\ ReadExchangers /\ NotBack /\ MailInv' => FailureInv'
<1> SUFFICES ASSUME FailureInv, ReadExchangers, NotBack, MailInv' PROVE FailureInv'
  OBVIOUS
<1>0. /\ MailInv /\ Formed(facts) /\ Formed(entire) /\ SpfPart /\ DmarcPart /\ ReportingPart /\ MxPart
      /\ PolicyPart /\ HostsPart /\ DkimTold
  BY InParts
<1>a. PICK hosts \in MxAnswers :
        /\ entire' = [entire EXCEPT !.mx = Mx(hosts)]
        /\ Ask("mx", [facts EXCEPT !.mx = Mx(hosts)], [facts EXCEPT !.mx.reason = "unread"], "sts-record")
  BY Zenon DEF ReadExchangers
<1> DEFINE found == Mx(hosts)
<1>1. /\ entire' = [entire EXCEPT !.mx = found]
      /\ Ask("mx", [facts EXCEPT !.mx = found], [facts EXCEPT !.mx.reason = "unread"], "sts-record")
  BY <1>a
<1>b. found # UnreadMx
  <2>1. found.reason = Nothing
    BY Zenon DEF Mx, Nothing
  <2> QED
    BY <2>1, UnreadIs, Signs, Zenon
<1> HIDE DEF found
<1>2. /\ mailStage = "mx" /\ mailStage' = "sts-record" /\ OneMayFail
      /\ \/ facts' = [facts EXCEPT !.mx = found] /\ failures' = failures
         \/ facts' = [facts EXCEPT !.mx.reason = "unread"]
  BY <1>1, AskOneMayFail
<1>3. RecordsLeft /\ PolicyLeft /\ RecordsOfHostsLeft /\ ResultsLeft /\ KeysLeft
  BY <1>0, <1>1, <1>2 DEF MailInv, Shaped, RecordsLeft, PolicyLeft, RecordsOfHostsLeft, ResultsLeft, KeysLeft
<1>4. mailStage \in NoExchangersYet /\ mailStage' \notin NoExchangersYet
  BY <1>2 DEF BeforeSpf, BeforeDmarc, BeforeReporting, NoExchangersYet
<1>5. entire'.mx = found /\ "mx" \notin failures /\ facts.mx = NoFacts.mx
  BY <1>0, <1>1, <1>4 DEF MailInv, Shaped, MxPart
<1>6. (facts'.mx = entire'.mx /\ "mx" \notin failures') \/ facts'.mx = UnreadMx
  BY <1>0, <1>2, <1>5 DEF MailInv, Shaped, UnreadMx
<1>7. MxPart'
  BY <1>4, <1>5, <1>6, <1>b DEF MxPart, MxTold
<1>8. facts.mx # UnreadMx
  <2>1. NoFacts.mx.reason = Nothing
    BY NoFactsAre
  <2> QED
    BY <1>5, <2>1, UnreadIs, Signs, Zenon
<1>9. HostsPart'
  <2>1. DaneTold'
    BY <1>0, <1>2, <1>3, <1>8 DEF HostsPart, DaneTold, SameRecords, RecordsOfHostsLeft, OneMayFail
  <2>2. ReachedTold'
    BY <1>0, <1>3, <1>4, <1>6 DEF HostsPart, NobodyAsked, ReachedTold, RecordsOfHostsLeft, ResultsLeft
  <2>3. NobodyAsked'
    BY <1>4 DEF NobodyAsked
  <2> QED
    BY <2>1, <2>2, <2>3 DEF HostsPart
<1>10. SpfPart' /\ DmarcPart' /\ ReportingPart' /\ PolicyPart' /\ DkimTold'
       /\ Formed(facts)' /\ Formed(entire)'
  BY <1>0, <1>2, <1>3, <1>8, SpfStays, DmarcStays, ReportingStays, PolicyStays, KeysStay, FormStays DEF RecordsLeft
<1> QED
  BY <1>7, <1>9, <1>10, InParts, PTL

\* Of a record that could not be asked for the scan says what it says of none.
LEMMA ReadRecordTells == FailureInv /\ ReadRecord /\ NotBack /\ MailInv' => FailureInv'
<1> SUFFICES ASSUME FailureInv, ReadRecord, NotBack, MailInv' PROVE FailureInv'
  OBVIOUS
<1>0. /\ MailInv /\ Formed(facts) /\ Formed(entire) /\ SpfPart /\ DmarcPart /\ ReportingPart /\ MxPart
      /\ PolicyPart /\ HostsPart /\ DkimTold
  BY InParts
<1>1. PICK n \in 0..1 :
        /\ entire' = [entire EXCEPT !.sts.records = n]
        /\ Ask("sts-record", [facts EXCEPT !.sts.records = n], facts, "sts-policy")
  BY Zenon DEF ReadRecord
<1>2. /\ mailStage = "sts-record" /\ mailStage' = "sts-policy" /\ OneMayFail
      /\ \/ facts' = [facts EXCEPT !.sts.records = n]
         \/ facts' = facts /\ "sts-record" \in failures'
  BY <1>1 DEF Ask, Fails, OneMayFail
<1>3. RecordsLeft /\ MxLeft /\ RecordsOfHostsLeft /\ ResultsLeft /\ KeysLeft
  BY <1>0, <1>1, <1>2 DEF MailInv, Shaped, RecordsLeft, MxLeft, RecordsOfHostsLeft, ResultsLeft, KeysLeft
<1>4. mailStage \in NoRecordYet /\ mailStage \in Early /\ mailStage' \notin NoRecordYet
  BY <1>2 DEF BeforeSpf, BeforeDmarc, BeforeReporting, NoExchangersYet, NoRecordYet, Early
<1>5. /\ facts.sts = entire.sts /\ facts.sts.read = FALSE /\ facts.sts.uncovered = {} /\ facts.sts.records = 0
  BY <1>0, <1>4 DEF PolicyPart, PolicyNotAsked, MailInv
<1>6. /\ facts'.sts.read = FALSE /\ facts'.sts.uncovered = {}
      /\ facts'.sts = entire'.sts \/ (facts'.sts.records = 0 /\ "sts-record" \in failures')
  <2>1. CASE facts' = [facts EXCEPT !.sts.records = n]
    BY <1>0, <1>1, <1>5, <2>1 DEF MailInv, Shaped, Formed
  <2>2. CASE facts' = facts /\ "sts-record" \in failures'
    BY <1>5, <2>2
  <2> QED
    BY <1>2, <2>1, <2>2
<1>7. PolicyPart'
  BY <1>4, <1>6 DEF PolicyPart, PolicyNotAsked, StsTold
<1>8. Formed(facts)' /\ Formed(entire)'
  BY <1>0, <1>1, <1>2, <1>3 DEF MailInv, Shaped, Formed, RecordsOfHostsLeft, ResultsLeft, KeysLeft
<1>9. SpfPart' /\ DmarcPart' /\ ReportingPart' /\ MxPart' /\ HostsPart' /\ DkimTold'
  BY <1>0, <1>2, <1>3, SpfStays, DmarcStays, ReportingStays, MxStays, HostsStay, KeysStay DEF RecordsLeft
<1> QED
  BY <1>7, <1>8, <1>9, InParts, PTL

\* Two readings of one policy, of which one knows of no exchanger.
LEMMA PolicyWithoutHosts ==
  ASSUME NEW sts, {"records", "read", "reason", "invalid", "mode", "maxAge", "mx", "truncated", "uncovered"} \subseteq DOMAIN sts,
         sts.records \in {0, 1}, sts.uncovered = {}, NEW got, got.fetched \in Ends, NEW hosts
  PROVE  /\ PolicyOf(sts, <<>>, got).read = PolicyOf(sts, hosts, got).read
         /\ PolicyOf(sts, <<>>, got).invalid = PolicyOf(sts, hosts, got).invalid
         /\ PolicyOf(sts, <<>>, got).mode = PolicyOf(sts, hosts, got).mode
         /\ PolicyOf(sts, <<>>, got).mx = PolicyOf(sts, hosts, got).mx
         /\ PolicyOf(sts, <<>>, got).uncovered = {}
<1> DEFINE a == PolicyOf(sts, <<>>, got)
           b == PolicyOf(sts, hosts, got)
<1>1. PolicyEnds(sts, <<>>, got, a) /\ PolicyEnds(sts, hosts, got, b)
  BY PolicyIs
<1>2. got.fetched \in {"not-fetched", "invalid", "policy"} /\ ReadsPolicy \in BOOLEAN
  BY MailAssumption DEF Ends, MailAssumption
<1>3. ToSet(<<>>) = {}
  BY DEF ToSet
<1> HIDE DEF a, b
<1>4. CASE sts.records = 0
  BY <1>1, <1>4 DEF PolicyEnds, a, b
<1>5. CASE sts.records = 1 /\ ~ReadsPolicy
  BY <1>1, <1>5 DEF PolicyEnds, a, b
<1>6. CASE sts.records = 1 /\ ReadsPolicy
  <2>1. CASE got.fetched = "not-fetched"
    BY <1>1, <1>6, <2>1 DEF PolicyEnds, a, b
  <2>2. CASE got.fetched = "invalid"
    BY <1>1, <1>6, <2>2 DEF PolicyEnds, a, b
  <2>3. CASE got.fetched = "policy"
    <3> DEFINE left(H) == {h \in ToSet(H) : ~got.truncated /\ ~Covers(got.mx, h)}
               is(u) == [sts EXCEPT !.read = TRUE, !.mode = got.mode, !.maxAge = got.maxAge, !.mx = got.mx,
                                    !.truncated = got.truncated, !.uncovered = u]
    <3>1. a = is(left(<<>>)) /\ b = is(left(hosts))
      BY <1>1, <1>6, <2>3, Zenon DEF PolicyEnds
    <3>2. left(<<>>) = {}
      BY <1>3
    <3> HIDE DEF left
    <3>3. \A u : /\ is(u).read = TRUE /\ is(u).invalid = sts.invalid /\ is(u).mode = got.mode
                /\ is(u).mx = got.mx /\ is(u).uncovered = u
      OBVIOUS
    <3> HIDE DEF is
    <3> QED
      BY <3>1, <3>2, <3>3 DEF a, b
  <2> QED
    BY <1>2, <2>1, <2>2, <2>3
<1> QED
  BY <1>2, <1>4, <1>5, <1>6

\* A policy that was not fetched is not read.
LEMMA PolicyNotFetched ==
  ASSUME NEW sts, {"records", "read", "reason"} \subseteq DOMAIN sts, sts.records \in {0, 1}, sts.read = FALSE,
         NEW got, got.fetched = "not-fetched", NEW hosts
  PROVE  PolicyOf(sts, hosts, got).read = FALSE /\ PolicyOf(sts, hosts, got).records = sts.records
<1> DEFINE a == PolicyOf(sts, hosts, got)
<1>1. PolicyEnds(sts, hosts, got, a)
  BY PolicyIs DEF Ends
<1>2. ReadsPolicy \in BOOLEAN
  BY MailAssumption DEF MailAssumption
<1> HIDE DEF a
<1>3. a.read = FALSE /\ a.records = sts.records
  BY <1>1, <1>2 DEF PolicyEnds
<1> QED
  BY <1>3 DEF a

LEMMA PolicyKeepsForm ==
  ASSUME NEW sts, sts.records \in {0, 1}, NEW got, got.fetched \in Ends, NEW hosts
  PROVE  DOMAIN PolicyOf(sts, hosts, got) = DOMAIN sts
<1> DEFINE a == PolicyOf(sts, hosts, got)
<1>1. PolicyEnds(sts, hosts, got, a)
  BY PolicyIs
<1>2. ReadsPolicy \in BOOLEAN /\ got.fetched \in {"not-fetched", "invalid", "policy"}
  BY MailAssumption DEF MailAssumption, Ends
<1> HIDE DEF a
<1>3. DOMAIN a = DOMAIN sts
  BY <1>1, <1>2 DEF PolicyEnds
<1> QED
  BY <1>3 DEF a

\* What is fetched is fetched for both; a policy that this scan could not fetch it does
\* not read, and one it reads without the exchangers leaves none of them out.
LEMMA ReadSTSPolicyTells == FailureInv /\ ReadSTSPolicy /\ NotBack /\ MailInv' => FailureInv'
<1> SUFFICES ASSUME FailureInv, ReadSTSPolicy, NotBack, MailInv' PROVE FailureInv'
  OBVIOUS
<1>0. /\ MailInv /\ Formed(facts) /\ Formed(entire) /\ SpfPart /\ DmarcPart /\ ReportingPart /\ MxPart
      /\ PolicyPart /\ HostsPart /\ DkimTold
  BY InParts
<1> DEFINE outcomes == IF Fetches(entire) THEN Policies ELSE {[fetched |-> "not-fetched"]}
           none == [fetched |-> "not-fetched"]
           of(f, got) == PolicyOf(f.sts, f.mx.hosts, got)
<1>1. PICK got \in outcomes :
        /\ entire' = AddSTSPolicy(entire, got)
        /\ \/ facts' = AddSTSPolicy(facts, got) /\ failures' = failures
           \/ Fetches(facts) /\ Fails /\ facts' = AddSTSPolicy(facts, none)
  BY Zenon DEF ReadSTSPolicy
<1>2. got.fetched \in Ends /\ none.fetched = "not-fetched" /\ none.fetched \in Ends
  <2>1. got = none \/ got \in Policies
    BY <1>1, Zenon
  <2> QED
    BY <2>1, MailAssumption DEF MailAssumption, Ends
<1> HIDE DEF outcomes, none
<1>3. mailStage = "sts-policy" /\ mailStage' = "tlsa" /\ OneMayFail
  BY <1>1 DEF ReadSTSPolicy, Fails, OneMayFail
<1>4. /\ entire' = [entire EXCEPT !.sts = of(entire, got)]
      /\ \/ facts' = [facts EXCEPT !.sts = of(facts, got)] /\ failures' = failures
         \/ Fetches(facts) /\ Fails /\ facts' = [facts EXCEPT !.sts = of(facts, none)]
  BY <1>1 DEF AddSTSPolicy
<1>5. /\ facts.sts.records \in {0, 1} /\ entire.sts.records \in {0, 1}
      /\ facts.sts.read = FALSE /\ facts.sts.uncovered = {}
      /\ facts.sts = entire.sts \/ (facts.sts.records = 0 /\ "sts-record" \in failures)
  <2>1. mailStage \in Early
    BY <1>3, Zenon DEF BeforeSpf, BeforeDmarc, BeforeReporting, NoExchangersYet, NoRecordYet, Early
  <2> QED
    BY <1>0, <2>1 DEF PolicyPart, PolicyNotAsked, MailInv
<1>6. PolicyOf(facts.sts, facts.mx.hosts, none).read = FALSE /\ PolicyOf(facts.sts, facts.mx.hosts, none).records = facts.sts.records
  BY <1>0, <1>2, <1>5, PolicyNotFetched DEF Formed
<1>7. facts.sts.records = 0 => of(facts, got) = facts.sts
  <2>1. PolicyEnds(facts.sts, facts.mx.hosts, got, of(facts, got))
    BY <1>2, <1>5, PolicyIs
  <2> QED
    BY <2>1 DEF PolicyEnds
<1>8. DOMAIN of(facts, got) = DOMAIN facts.sts /\ DOMAIN of(facts, none) = DOMAIN facts.sts
      /\ DOMAIN of(entire, got) = DOMAIN entire.sts
  BY <1>2, <1>5, PolicyKeepsForm
<1>9. facts.sts = entire.sts =>
        \/ facts.mx = entire.mx /\ of(facts, got) = of(entire, got)
        \/ /\ facts.mx = UnreadMx
           /\ of(facts, got).read = of(entire, got).read /\ of(facts, got).invalid = of(entire, got).invalid
           /\ of(facts, got).mode = of(entire, got).mode /\ of(facts, got).mx = of(entire, got).mx
           /\ of(facts, got).uncovered = {}
  <2>1. CASE facts.mx = entire.mx
    BY <2>1
  <2>2. CASE facts.mx = UnreadMx
    <3>1. facts.mx.hosts = <<>>
      BY <2>2, UnreadIs
    <3>2. {"records", "read", "reason", "invalid", "mode", "maxAge", "mx", "truncated", "uncovered"} \subseteq DOMAIN facts.sts
      BY <1>0 DEF Formed
    <3> QED
      BY <1>2, <1>5, <2>2, <3>1, <3>2, PolicyWithoutHosts
  <2> QED
    BY <1>0, <2>1, <2>2 DEF MxPart, MxTold
<1> HIDE DEF of
<1>10. RecordsLeft /\ MxLeft /\ RecordsOfHostsLeft /\ ResultsLeft /\ KeysLeft
  BY <1>0, <1>4 DEF MailInv, Shaped, RecordsLeft, MxLeft, RecordsOfHostsLeft, ResultsLeft, KeysLeft
<1>11. /\ entire'.sts = of(entire, got)
       /\ \/ facts'.sts = of(facts, got)
          \/ Fetches(facts) /\ facts'.sts = of(facts, none)
  BY <1>0, <1>4 DEF MailInv, Shaped
<1>12. StsTold'
  <2>1. CASE facts.sts.records = 0 /\ "sts-record" \in failures /\ facts'.sts = of(facts, got)
    BY <1>3, <1>5, <1>7, <2>1 DEF StsTold, OneMayFail
  <2>2. CASE Fetches(facts) /\ facts'.sts = of(facts, none)
    <3>1. facts.sts.records # 0
      BY <1>5, <2>2 DEF Fetches
    <3> QED
      BY <1>6, <2>2, <3>1 DEF StsTold, of
  <2>3. CASE facts.sts = entire.sts /\ facts'.sts = of(facts, got)
    BY <1>9, <1>10, <1>11, <2>3 DEF StsTold, SamePolicy, MxLeft
  <2> QED
    BY <1>5, <1>11, <2>1, <2>2, <2>3
<1>13. PolicyPart'
  <2>1. mailStage' \notin Early /\ mailStage' \notin NoRecordYet
    BY <1>3, Zenon DEF BeforeSpf, BeforeDmarc, BeforeReporting, NoExchangersYet, NoRecordYet, Early
  <2> QED
    BY <1>12, <2>1 DEF PolicyPart, PolicyNotAsked
<1>14. Formed(facts)' /\ Formed(entire)'
  BY <1>0, <1>8, <1>10, <1>11 DEF Formed, RecordsOfHostsLeft, ResultsLeft, KeysLeft
<1>15. SpfPart' /\ DmarcPart' /\ ReportingPart' /\ MxPart' /\ HostsPart' /\ DkimTold'
  BY <1>0, <1>3, <1>10, SpfStays, DmarcStays, ReportingStays, MxStays, HostsStay, KeysStay DEF RecordsLeft
<1> QED
  BY <1>13, <1>14, <1>15, InParts, PTL

\* What is written of the records of the hosts, and what is left of it.
TlsaWritten(g, f, published, answered) ==
  /\ g.dane.partial = Partial(f)
  /\ g.dane.asked = Cardinality(DOMAIN FirstHosts(f) \cap answered)
  /\ g.dane.unread = Cardinality(DOMAIN FirstHosts(f) \ answered)
  /\ g.dane.hosts =
       Restrict(f.mx.hosts, {i \in DOMAIN FirstHosts(f) \cap answered : f.mx.hosts[i] \in published})
  /\ g.dane.bindings = f.dane.bindings /\ DOMAIN g.dane = DOMAIN f.dane
  /\ g.spf = f.spf /\ g.dmarc = f.dmarc /\ g.tlsReporting = f.tlsReporting /\ g.mx = f.mx /\ g.sts = f.sts
  /\ g.exchangers = f.exchangers /\ g.dkim = f.dkim

LEMMA TlsaWrites ==
  ASSUME NEW f, Shaped(f), Formed(f), NEW published, NEW answered
  PROVE  TlsaWritten(TlsaOf(f, published, answered), f, published, answered)
<1> DEFINE asked == DOMAIN FirstHosts(f) \cap answered
           partial == Partial(f)
           many == Cardinality(asked)
           few == Cardinality(DOMAIN FirstHosts(f) \ answered)
           hosts == Restrict(f.mx.hosts, {i \in asked : f.mx.hosts[i] \in published})
           g == TlsaOf(f, published, answered)
<1>1. g = [f EXCEPT !.dane = [f.dane EXCEPT !.partial = partial, !.asked = many, !.unread = few, !.hosts = hosts]]
  BY DEF TlsaOf
<1> HIDE DEF g, partial, many, few, hosts
<1>2. /\ g.dane.partial = partial /\ g.dane.asked = many /\ g.dane.unread = few /\ g.dane.hosts = hosts
      /\ g.dane.bindings = f.dane.bindings /\ DOMAIN g.dane = DOMAIN f.dane
      /\ g.spf = f.spf /\ g.dmarc = f.dmarc /\ g.tlsReporting = f.tlsReporting /\ g.mx = f.mx /\ g.sts = f.sts
      /\ g.exchangers = f.exchangers /\ g.dkim = f.dkim
  BY <1>1 DEF Shaped, Formed
<1> QED
  BY <1>2 DEF TlsaWritten, g, partial, many, few, hosts

LEMMA ReadTLSATells == FailureInv /\ ReadTLSA /\ NotBack /\ MailInv' => FailureInv'
<1> SUFFICES ASSUME FailureInv, ReadTLSA, NotBack, MailInv' PROVE FailureInv'
  OBVIOUS
<1>0. /\ MailInv /\ Formed(facts) /\ Formed(entire) /\ SpfPart /\ DmarcPart /\ ReportingPart /\ MxPart
      /\ PolicyPart /\ HostsPart /\ DkimTold
  BY InParts
<1>a. Shaped(facts) /\ Shaped(entire)
  BY <1>0 DEF MailInv
<1> DEFINE places == DOMAIN FirstHosts(entire)
<1>1. PICK published, answered :
        /\ entire' = TlsaOf(entire, published, places)
        /\ Ask("tlsa", TlsaOf(facts, published, places), TlsaOf(facts, published, answered), "exchangers")
  BY Zenon DEF ReadTLSA
<1>2. /\ mailStage = "tlsa" /\ mailStage' = "exchangers" /\ OneMayFail
      /\ \/ facts' = TlsaOf(facts, published, places)
         \/ facts' = TlsaOf(facts, published, answered) /\ "tlsa" \in failures'
  BY <1>1 DEF Ask, Fails, OneMayFail
<1>3. PICK replied : /\ facts' = TlsaOf(facts, published, replied)
                     /\ replied = places \/ "tlsa" \in failures'
  BY <1>2
<1> DEFINE F == DOMAIN FirstHosts(facts)
           had(S) == {i \in S : entire.mx.hosts[i] \in published}
           has(S) == {i \in S : facts.mx.hosts[i] \in published}
<1>4. /\ facts'.dane.partial = Partial(facts)
      /\ facts'.dane.asked = Cardinality(F \cap replied)
      /\ facts'.dane.unread = Cardinality(F \ replied)
      /\ facts'.dane.hosts = Restrict(facts.mx.hosts, has(F \cap replied))
      /\ facts'.dane.bindings = facts.dane.bindings /\ DOMAIN facts'.dane = DOMAIN facts.dane
      /\ facts'.spf = facts.spf /\ facts'.dmarc = facts.dmarc /\ facts'.tlsReporting = facts.tlsReporting
      /\ facts'.mx = facts.mx /\ facts'.sts = facts.sts /\ facts'.exchangers = facts.exchangers /\ facts'.dkim = facts.dkim
  <2>1. TlsaWritten(facts', facts, published, replied)
    BY <1>0, <1>a, <1>3, TlsaWrites
  <2> QED
    BY <2>1 DEF TlsaWritten
<1>5. /\ entire'.dane.partial = Partial(entire)
      /\ entire'.dane.asked = Cardinality(places \cap places)
      /\ entire'.dane.unread = Cardinality(places \ places)
      /\ entire'.dane.hosts = Restrict(entire.mx.hosts, had(places \cap places))
      /\ entire'.dane.bindings = entire.dane.bindings /\ DOMAIN entire'.dane = DOMAIN entire.dane
      /\ entire'.spf = entire.spf /\ entire'.dmarc = entire.dmarc /\ entire'.tlsReporting = entire.tlsReporting
      /\ entire'.mx = entire.mx /\ entire'.sts = entire.sts /\ entire'.exchangers = entire.exchangers
      /\ entire'.dkim = entire.dkim
  <2>1. TlsaWritten(entire', entire, published, places)
    BY <1>0, <1>a, <1>1, TlsaWrites
  <2> QED
    BY <2>1 DEF TlsaWritten
<1>6. DaneTold'
  <2>1. CASE facts.mx = UnreadMx
    BY <1>4, <2>1 DEF DaneTold
  <2>2. CASE facts.mx = entire.mx
    <3>1. F = places /\ Partial(facts) = Partial(entire) /\ \A S : has(S) = had(S)
      BY <2>2, Zenon DEF FirstHosts, Partial
    <3>2. places \subseteq 1..MaxExchangers
      BY DEF FirstHosts, Restrict
    <3> HIDE DEF places, F
    <3>3. CASE places \subseteq replied
      <4>1. F \cap replied = places \cap places /\ F \ replied = places \ places
        BY <3>1, <3>3
      <4> HIDE DEF has, had
      <4>2. SameRecords'
        BY <1>4, <1>5, <2>2, <3>1, <4>1 DEF SameRecords
      <4> QED
        BY <4>2 DEF DaneTold, SameRecords
    <3>4. CASE ~(places \subseteq replied)
      <4>1. "tlsa" \in failures'
        BY <1>3, <3>4
      <4>2. facts'.dane.unread > 0
        <5>1. IsFiniteSet(1..MaxExchangers)
          BY FS_Interval, MailAssumption DEF MailAssumption
        <5>2. IsFiniteSet(F \ replied)
          BY <3>1, <3>2, <5>1, FS_Subset
        <5>3. F \ replied # {}
          BY <3>1, <3>4
        <5>4. Cardinality(F \ replied) \in Nat /\ Cardinality(F \ replied) # 0
          BY <5>2, <5>3, FS_CardinalityType, FS_EmptySet
        <5> QED
          BY <1>4, <5>4
      <4>3. ToSet(facts'.dane.hosts) \subseteq ToSet(entire'.dane.hosts)
        <5>1. has(F \cap replied) \subseteq had(places \cap places)
          BY <3>1
        <5> HIDE DEF has, had
        <5> QED
          BY <1>4, <1>5, <2>2, <5>1, SMTT(30) DEF ToSet, Restrict
      <4> QED
        BY <4>1, <4>2, <4>3 DEF DaneTold
    <3> QED
      BY <3>3, <3>4
  <2> QED
    BY <1>0, <2>1, <2>2 DEF MxPart, MxTold
<1> HIDE DEF F, places, has, had
<1>7. MxLeft /\ RecordsLeft /\ PolicyLeft /\ ResultsLeft /\ KeysLeft
  BY <1>4, <1>5 DEF MxLeft, RecordsLeft, PolicyLeft, ResultsLeft, KeysLeft
<1>8. HostsPart'
  <2>1. ReachedTold'
    BY <1>0, <1>4, <1>5 DEF HostsPart, ReachedTold
  <2>2. mailStage' \notin NoExchangersYet
    BY <1>2 DEF BeforeSpf, BeforeDmarc, BeforeReporting, NoExchangersYet
  <2> QED
    BY <1>6, <2>1, <2>2 DEF HostsPart, NobodyAsked
<1>9. Formed(facts)' /\ Formed(entire)'
  BY <1>0, <1>4, <1>5 DEF Formed
<1>10. SpfPart' /\ DmarcPart' /\ ReportingPart' /\ MxPart' /\ PolicyPart' /\ DkimTold'
  BY <1>0, <1>2, <1>7, SpfStays, DmarcStays, ReportingStays, MxStays, PolicyStays, KeysStay DEF RecordsLeft, MxLeft
<1> QED
  BY <1>8, <1>9, <1>10, InParts, PTL

\* What is written of an exchanger that was asked.
BindingOf(f, host, found, r) == IF host \in ToSet(f.dane.hosts) THEN {DaneBinding(host, found, r)} ELSE {}
OthersKept(g, f) ==
  /\ g.spf = f.spf /\ g.dmarc = f.dmarc /\ g.tlsReporting = f.tlsReporting /\ g.mx = f.mx /\ g.sts = f.sts
  /\ g.dane.hosts = f.dane.hosts /\ g.dane.asked = f.dane.asked /\ g.dane.unread = f.dane.unread
  /\ g.dane.partial = f.dane.partial /\ g.dkim = f.dkim
  /\ DOMAIN g.dane = DOMAIN f.dane /\ DOMAIN g.exchangers = DOMAIN f.exchangers
ResultWritten(g, f, host, found, r) ==
  /\ OthersKept(g, f)
  /\ g.exchangers.contacted = TRUE
  /\ g.exchangers.results = f.exchangers.results \cup {r}
  /\ g.dane.bindings = f.dane.bindings \cup BindingOf(f, host, found, r)
MayAsk(f, host) == MayContact(f) /\ host \in ToSet(FirstHosts(f))

LEMMA ResultWrites ==
  ASSUME NEW f, Shaped(f), Formed(f), NEW host, NEW found, NEW r
  PROVE  /\ ~MayAsk(f, host) => AddResult(f, host, found, r) = f
         /\ MayAsk(f, host) => ResultWritten(AddResult(f, host, found, r), f, host, found, r)
<1>1. ~MayAsk(f, host) => AddResult(f, host, found, r) = f
  BY Zenon DEF AddResult, MayAsk
<1> DEFINE partial == Partial(f)
           results == f.exchangers.results \cup {r}
           bindings == f.dane.bindings \cup BindingOf(f, host, found, r)
           g == [f EXCEPT !.exchangers.contacted = TRUE, !.exchangers.partial = partial, !.exchangers.results = results,
                          !.dane.bindings = bindings]
<1>2. MayAsk(f, host) => AddResult(f, host, found, r) = g
  <2> SUFFICES ASSUME MayAsk(f, host) PROVE AddResult(f, host, found, r) = g
    OBVIOUS
  <2>1. AddResult(f, host, found, r) =
          [f EXCEPT !.exchangers.contacted = TRUE, !.exchangers.partial = Partial(f), !.exchangers.results = @ \cup {r},
                    !.dane.bindings = @ \cup IF host \in ToSet(f.dane.hosts) THEN {DaneBinding(host, found, r)} ELSE {}]
    BY Zenon DEF AddResult, MayAsk
  <2> DEFINE b == IF host \in ToSet(f.dane.hosts) THEN {DaneBinding(host, found, r)} ELSE {}
  <2>2. b = BindingOf(f, host, found, r)
    BY DEF BindingOf
  <2> HIDE DEF b
  <2>3. [f EXCEPT !.exchangers.contacted = TRUE, !.exchangers.partial = Partial(f), !.exchangers.results = @ \cup {r},
                    !.dane.bindings = @ \cup b] = g
    BY <2>2 DEF Shaped, Formed
  <2> QED
    BY <2>1, <2>3 DEF b
<1>3. ResultWritten(g, f, host, found, r)
  <2> HIDE DEF partial, results, bindings
  <2>1. /\ OthersKept(g, f) /\ g.exchangers.contacted = TRUE /\ g.exchangers.results = results
        /\ g.dane.bindings = bindings
    BY DEF Shaped, Formed, OthersKept
  <2> QED
    BY <2>1 DEF ResultWritten, results, bindings
<1> QED
  BY <1>1, <1>2, <1>3

\* Of an exchanger that was not reached nothing is measured, and its binding is not
\* checked, or is what it would have been.
LEMMA NotReached ==
  ASSUME NEW host, NEW found, found.usable \in Nat, NEW r
  PROVE  /\ Unreached(host).measured = FALSE
         /\ \/ DaneBinding(host, found, Unreached(host)) = DaneBinding(host, found, r)
            \/ DaneBinding(host, found, Unreached(host)).outcome = "not-checked"
<1> DEFINE u == Unreached(host)
<1>1. u.measured = FALSE
  BY DEF Unreached
<1> HIDE DEF u
<1>2. CASE found.usable = 0
  <2>1. ~(found.usable > 0)
    BY <1>2
  <2>2. DaneBinding(host, found, u) = DaneBinding(host, found, r)
    BY <1>2, <2>1, Zenon DEF DaneBinding
  <2> QED
    BY <1>1, <2>2 DEF u
<1>3. CASE found.usable # 0
  <2>1. found.usable > 0
    BY <1>3
  <2> DEFINE says == CASE found.usable = 0 -> "no-usable-records"
                       [] found.usable > 0 /\ (~u.measured \/ (u.offered /\ ~u.upgraded)) -> "not-checked"
                       [] found.usable > 0 /\ u.measured /\ ~u.offered -> "no-starttls"
                       [] OTHER -> found.outcome
  <2>2. says = "not-checked"
    BY <1>1, <1>3, <2>1, Zenon
  <2>3. DaneBinding(host, found, u) =
          [host |-> host, validated |-> found.validated, usable |-> found.usable, outcome |-> says]
    BY DEF DaneBinding
  <2> HIDE DEF says
  <2>4. DaneBinding(host, found, u).outcome = "not-checked"
    BY <2>2, <2>3
  <2> QED
    BY <1>1, <2>4 DEF u
<1> QED
  BY <1>2, <1>3

LEMMA ProbeExchangerTells == FailureInv /\ ProbeExchanger /\ NotBack /\ MailInv' => FailureInv'
<1> SUFFICES ASSUME FailureInv, ProbeExchanger, NotBack, MailInv' PROVE FailureInv'
  OBVIOUS
<1>0. /\ MailInv /\ Formed(facts) /\ Formed(entire) /\ SpfPart /\ DmarcPart /\ ReportingPart /\ MxPart
      /\ PolicyPart /\ HostsPart /\ DkimTold
  BY InParts
<1>a. Shaped(facts) /\ Shaped(entire)
  BY <1>0 DEF MailInv
<1>1. PICK host, found, r :
        /\ found \in TlsaOutcomes
        /\ entire' = AddResult(entire, host, found, r)
        /\ \/ facts' = AddResult(facts, host, found, r) /\ failures' = failures
           \/ Fails /\ facts' = AddResult(facts, host, found, Unreached(host))
  BY Zenon DEF ProbeExchanger
<1>2. mailStage = "exchangers" /\ mailStage' = "exchangers" /\ OneMayFail
  BY <1>1 DEF ProbeExchanger, Fails, OneMayFail
<1>3. PICK said : /\ facts' = AddResult(facts, host, found, said)
                  /\ said = r \/ said = Unreached(host)
  BY <1>1
<1>4. /\ said = r \/ said.measured = FALSE
      /\ \/ DaneBinding(host, found, said) = DaneBinding(host, found, r)
         \/ DaneBinding(host, found, said).outcome = "not-checked"
  <2>1. found.usable \in Nat
    BY <1>1, MailAssumption DEF MailAssumption
  <2> QED
    BY <1>3, <2>1, NotReached
<1>5. /\ ~MayAsk(facts, host) => facts' = facts
      /\ MayAsk(facts, host) => ResultWritten(facts', facts, host, found, said)
      /\ ~MayAsk(entire, host) => entire' = entire
      /\ MayAsk(entire, host) => ResultWritten(entire', entire, host, found, r)
  BY <1>0, <1>1, <1>3, <1>a, ResultWrites
<1>6. OthersKept(facts', facts) /\ OthersKept(entire', entire)
  BY <1>5 DEF ResultWritten, OthersKept
<1>7. mailStage' \notin NoExchangersYet
  BY <1>2 DEF BeforeSpf, BeforeDmarc, BeforeReporting, NoExchangersYet
<1>8. DaneTold'
  BY <1>0, <1>2, <1>6 DEF HostsPart, DaneTold, SameRecords, OthersKept, OneMayFail
<1>9. ReachedTold'
  <2>1. CASE facts.mx = UnreadMx
    <3>1. ~MayAsk(facts, host)
      BY <2>1, UnreadIs DEF MayAsk, MayContact
    <3> QED
      BY <1>0, <1>5, <2>1, <3>1 DEF HostsPart, ReachedTold, MxPart, MxTold
  <2>2. CASE facts.mx = entire.mx /\ ~MayAsk(facts, host)
    <3>1. ~MayAsk(entire, host)
      BY <2>2, Zenon DEF MayAsk, MayContact, FirstHosts
    <3> QED
      BY <1>0, <1>5, <2>2, <3>1 DEF HostsPart, ReachedTold
  <2>3. CASE facts.mx = entire.mx /\ MayAsk(facts, host)
    <3>1. MayAsk(entire, host)
      BY <2>3, Zenon DEF MayAsk, MayContact, FirstHosts
    <3>2. ResultWritten(facts', facts, host, found, said) /\ ResultWritten(entire', entire, host, found, r)
      BY <1>5, <2>3, <3>1
    <3>3. facts.mx # UnreadMx
      BY <1>0, <2>3, Zenon DEF MxPart, MxTold
    <3>4. facts'.mx = entire'.mx
      BY <1>6, <2>3 DEF OthersKept
    <3>5. \A x \in facts'.exchangers.results : x \in entire'.exchangers.results \/ x.measured = FALSE
      BY <1>0, <1>4, <3>2, <3>3 DEF HostsPart, ReachedTold, ResultWritten
    <3>6. \A b \in facts'.dane.bindings : b \in entire'.dane.bindings \/ b.outcome = "not-checked"
      <4>1. ToSet(facts.dane.hosts) \subseteq ToSet(entire.dane.hosts)
        BY <1>0, <3>3 DEF HostsPart, DaneTold, SameRecords
      <4>2. \A b \in BindingOf(facts, host, found, said) :
              b \in BindingOf(entire, host, found, r) \/ b.outcome = "not-checked"
        BY <1>4, <4>1 DEF BindingOf
      <4> QED
        BY <1>0, <3>2, <3>3, <4>2 DEF HostsPart, ReachedTold, ResultWritten
    <3> QED
      BY <3>2, <3>4, <3>5, <3>6 DEF ReachedTold, ResultWritten
  <2> QED
    BY <1>0, <2>1, <2>2, <2>3, Zenon DEF MxPart, MxTold
<1>10. HostsPart'
  BY <1>7, <1>8, <1>9 DEF HostsPart, NobodyAsked
<1>11. RecordsLeft /\ MxLeft /\ PolicyLeft /\ KeysLeft
  BY <1>6 DEF OthersKept, RecordsLeft, MxLeft, PolicyLeft, KeysLeft
<1>12. Formed(facts)' /\ Formed(entire)'
  BY <1>0, <1>6 DEF Formed, OthersKept
<1>13. SpfPart' /\ DmarcPart' /\ ReportingPart' /\ MxPart' /\ PolicyPart' /\ DkimTold'
  BY <1>0, <1>2, <1>11, SpfStays, DmarcStays, ReportingStays, MxStays, PolicyStays, KeysStay DEF RecordsLeft, MxLeft
<1> QED
  BY <1>10, <1>12, <1>13, InParts, PTL

LEMMA ExchangersDoneTells == FailureInv /\ ExchangersDone /\ NotBack /\ MailInv' => FailureInv'
<1> SUFFICES ASSUME FailureInv, ExchangersDone, NotBack, MailInv' PROVE FailureInv'
  OBVIOUS
<1>0. /\ MailInv /\ Formed(facts) /\ Formed(entire) /\ SpfPart /\ DmarcPart /\ ReportingPart /\ MxPart
      /\ PolicyPart /\ HostsPart /\ DkimTold
  BY InParts
<1>1. \E v : facts' = [facts EXCEPT !.dkim.looked = v] /\ entire' = [entire EXCEPT !.dkim.looked = v]
  BY Zenon DEF ExchangersDone
<1>2. mailStage = "exchangers" /\ OneMayFail
  BY DEF ExchangersDone, OneMayFail
<1>3. RecordsLeft /\ MxLeft /\ PolicyLeft /\ RecordsOfHostsLeft /\ ResultsLeft
  BY <1>0, <1>1 DEF MailInv, Shaped, RecordsLeft, MxLeft, PolicyLeft, RecordsOfHostsLeft, ResultsLeft
<1>4. DkimTold' /\ DOMAIN facts'.dkim = DOMAIN facts.dkim /\ DOMAIN entire'.dkim = DOMAIN entire.dkim
  BY <1>0, <1>1 DEF MailInv, Shaped, Formed, DkimTold
<1>5. Formed(facts)' /\ Formed(entire)'
  BY <1>0, <1>3, <1>4 DEF Formed, PolicyLeft, RecordsOfHostsLeft, ResultsLeft
<1>6. SpfPart' /\ DmarcPart' /\ ReportingPart' /\ MxPart' /\ PolicyPart' /\ HostsPart'
  BY <1>0, <1>2, <1>3, SpfStays, DmarcStays, ReportingStays, MxStays, PolicyStays, HostsStay DEF RecordsLeft, MxLeft
<1> QED
  BY <1>4, <1>5, <1>6, InParts, PTL

LEMMA KeyUnread == \A selector :
  Unread(selector).reason = "unread" /\ Unread(selector).found = FALSE /\ Unread(selector).weak = FALSE
<1> TAKE selector
<1>1. NoKeyAt(selector) =
        [name |-> selector.name, named |-> selector.named, reason |-> Nothing, found |-> FALSE, revoked |-> FALSE,
         testing |-> FALSE, bits |-> 0, weak |-> FALSE]
  BY Zenon DEF NoKeyAt, Nothing
<1> QED
  BY <1>1 DEF Unread

LEMMA ReadDKIMTells == FailureInv /\ ReadDKIM /\ NotBack /\ MailInv' => FailureInv'
<1> SUFFICES ASSUME FailureInv, ReadDKIM, NotBack, MailInv' PROVE FailureInv'
  OBVIOUS
<1>0. /\ MailInv /\ Formed(facts) /\ Formed(entire) /\ SpfPart /\ DmarcPart /\ ReportingPart /\ MxPart
      /\ PolicyPart /\ HostsPart /\ DkimTold
  BY InParts
<1>1. PICK key, selector :
        /\ entire' = [entire EXCEPT !.dkim.keys = @ \cup {key}]
        /\ \/ facts' = [facts EXCEPT !.dkim.keys = @ \cup {key}] /\ failures' = failures
           \/ Fails /\ facts' = [facts EXCEPT !.dkim.keys = @ \cup {Unread(selector)}]
  BY Zenon DEF ReadDKIM
<1>2. mailStage = "dkim" /\ OneMayFail
  BY <1>1 DEF ReadDKIM, Fails, OneMayFail
<1> DEFINE unread == Unread(selector)
<1>3. unread.reason = "unread" /\ unread.found = FALSE /\ unread.weak = FALSE
  BY KeyUnread
<1> HIDE DEF unread
<1>4. PICK added : /\ facts' = [facts EXCEPT !.dkim.keys = @ \cup {added}]
                   /\ added = key \/ added = unread
  BY <1>1 DEF unread
<1>5. RecordsLeft /\ MxLeft /\ PolicyLeft /\ RecordsOfHostsLeft /\ ResultsLeft
  BY <1>0, <1>1, <1>4 DEF MailInv, Shaped, RecordsLeft, MxLeft, PolicyLeft, RecordsOfHostsLeft, ResultsLeft
<1>6. /\ facts'.dkim.keys = facts.dkim.keys \cup {added} /\ entire'.dkim.keys = entire.dkim.keys \cup {key}
      /\ facts'.dkim.looked = facts.dkim.looked /\ entire'.dkim.looked = entire.dkim.looked
      /\ DOMAIN facts'.dkim = DOMAIN facts.dkim /\ DOMAIN entire'.dkim = DOMAIN entire.dkim
  BY <1>0, <1>1, <1>4 DEF MailInv, Shaped, Formed
<1>7. DkimTold'
  BY <1>0, <1>3, <1>4, <1>6 DEF DkimTold
<1>8. Formed(facts)' /\ Formed(entire)'
  BY <1>0, <1>5, <1>6 DEF Formed, PolicyLeft, RecordsOfHostsLeft, ResultsLeft
<1>9. SpfPart' /\ DmarcPart' /\ ReportingPart' /\ MxPart' /\ PolicyPart' /\ HostsPart'
  BY <1>0, <1>2, <1>5, SpfStays, DmarcStays, ReportingStays, MxStays, PolicyStays, HostsStay DEF RecordsLeft, MxLeft
<1> QED
  BY <1>7, <1>8, <1>9, InParts, PTL

\* Nothing is asked: who is refused, the grade, and a step that is none.
LEMMA NothingAsked ==
  ASSUME FailureInv, NotBack, MailInv', UNCHANGED <<facts, entire, failures>>
  PROVE  FailureInv'
<1>1. PolicyNotAsked' /\ NotAsked' /\ NobodyAsked'
  BY DEF FailureInv, NotBack, PolicyNotAsked, NotAsked, NobodyAsked
<1>2. Told'
  BY DEF FailureInv, Told, SpfTold, PolicyMissed, DmarcTold, ReportingTold, MxTold, StsTold, SamePolicy, DaneTold,
         SameRecords, ReachedTold, DkimTold
<1>3. Formed(facts)' /\ Formed(entire)'
  BY DEF FailureInv, Formed
<1> QED
  BY <1>1, <1>2, <1>3 DEF FailureInv

LEMMA FailureStep == FailureInv /\ [MailNext]_mailVars => FailureInv'
<1> SUFFICES ASSUME FailureInv, [MailNext]_mailVars PROVE FailureInv'
  OBVIOUS
<1>1. MailInv'
  BY MailStep DEF FailureInv
<1>2. CASE MailNext
  <2>1. NotBack
    BY <1>2, StagesInOrder
  <2>2. CASE CheckTarget \/ MailGraded
    <3>1. UNCHANGED <<facts, entire, failures>>
      BY <2>2, Zenon DEF CheckTarget, MailGraded
    <3> QED
      BY <1>1, <2>1, <3>1, NothingAsked
  <2> QED
    BY <1>1, <1>2, <2>1, <2>2, ReadSPFTells, ReadDMARCTells, ReadTLSReportingTells, ReadExchangersTells, ReadRecordTells,
       ReadSTSPolicyTells, ReadTLSATells, ProbeExchangerTells, ExchangersDoneTells, ReadDKIMTells, Zenon DEF MailNext
<1>3. CASE UNCHANGED mailVars
  <2>1. UNCHANGED <<facts, entire, failures>> /\ mailStage' = mailStage
    BY <1>3 DEF mailVars
  <2>2. NotBack
    BY <2>1 DEF NotBack, FailureInv, MailInv
  <2> QED
    BY <1>1, <2>1, <2>2, NothingAsked
<1> QED
  BY <1>2, <1>3

\* Whatever fails, and in whatever order the exchangers answer: a domain is graded no
\* worse for it; nothing is found against it that a scan without failures would not have
\* found, but for the void lookups of a sender policy whose walk a failed lookup kept
\* under the limit (WentFurther), which the other scan grades Insecure; nothing is said
\* to have been seen that it would not have said, but for that walk and for the absences
\* TakenForAbsence names; and the domain is called Strong only where the policy, the
\* DMARC record and the MX records were read (GradeMail and the notes over what Scan
\* found). What a walk finds beside a failure is MailAssumption's; TLC holds it against
\* the walk itself (FailedLookupsAddNothing).
THEOREM FailuresCondemnNobody == MailSpec => []FailureNeverCondemns
<1>1. FailureInv => FailureNeverCondemns
  BY ToldIsEnough DEF FailureInv
<1> QED
  BY <1>1, InitiallyFailureInv, FailureStep, PTL DEF MailSpec

-----------------------------------------------------------------------------
(***************************************************************************)
(* The walk over sender policies (spf.go). What is counted is kept beside  *)
(* what is asked; and the record of the domain itself, at the bottom of    *)
(* the walk, is read from its first term on, whatever is walked above it.  *)
(***************************************************************************)

Qualifiers == {"", "+", "-", "~", "?"}
NoQualifier == ""
MaybeDomain == SpfDomains \cup {""}
Frames == [domain : SpfDomains, terms : Seq(Terms), read : Nat, redirect : MaybeDomain]
Tallies == [records : Nat, all : Qualifiers, lookups : Nat, void : Nat, unread : Nat, atLeast : BOOLEAN,
            ptr : BOOLEAN, includes : Seq(SpfDomains), reason : SpfReasons]

\* What is counted, of q queries.
Counts(t, q) ==
  /\ q <= MaxLookups + 1 /\ q <= t.lookups + 1
  /\ t.unread > 0 => t.atLeast
  /\ t.void + t.unread <= t.lookups
  /\ t.atLeast => t.lookups > MaxLookups \/ t.unread > 0

\* all is that of the first n terms of the policy.
IsAll(t) == t.mechanism = "all"
AllOf(all, policy, n) ==
  \/ all = NoQualifier /\ \A i \in 1..n : ~IsAll(policy[i])
  \/ \E i \in 1..n : IsAll(policy[i]) /\ all = Qualifier(policy[i]) /\ \A j \in 1..(i - 1) : ~IsAll(policy[j])

\* The bottom of the walk: the domain's own record, read up to some term.
Bottom(f, policy, all) ==
  /\ f.read <= MaxTerms /\ f.read <= Len(policy)
  /\ f.terms = SubSeq(policy, f.read + 1, Len(policy))
  /\ AllOf(all, policy, f.read)

SpfInv ==
  /\ txt \in SpfZones /\ frames \in Seq(Frames) /\ queries \in Nat /\ tally \in Tallies
  /\ walking \in {"start", "walk", "done"}
  /\ Counts(tally, queries)
  /\ walking = "start" => tally.lookups = 0 /\ tally.all = NoQualifier /\ tally.records = 0
  /\ walking = "walk" => /\ One(Root) /\ frames # <<>>
                         /\ Bottom(frames[1], txt[Root].policies[1], tally.all)
  /\ walking = "done" /\ tally.records = 1 => tally.all = OwnAll

LEMMA InitiallySpfInv == SpfInit => SpfInv
<1> SUFFICES ASSUME SpfInit PROVE SpfInv
  OBVIOUS
<1>1. tally \in Tallies /\ tally.lookups = 0 /\ tally.all = NoQualifier /\ tally.records = 0 /\ tally.void = 0
      /\ tally.unread = 0 /\ ~tally.atLeast
  <2>1. NoQualifier \in Qualifiers /\ NoQualifier \in SpfReasons
    BY Zenon DEF NoQualifier, Qualifiers, SpfReasons
  <2>2. tally = [records |-> 0, all |-> NoQualifier, lookups |-> 0, void |-> 0, unread |-> 0, atLeast |-> FALSE,
                 ptr |-> FALSE, includes |-> <<>>, reason |-> NoQualifier]
    BY Zenon DEF SpfInit, NothingFound, NoQualifier
  <2> QED
    BY <2>1, <2>2 DEF Tallies
<1>2. queries = 0 /\ MaxLookups \in Nat /\ txt \in SpfZones /\ frames = <<>> /\ walking = "start"
  <2>1. queries = 0 /\ txt \in SpfZones /\ frames = <<>> /\ walking = "start"
    BY Zenon DEF SpfInit
  <2> QED
    BY <2>1, SpfAssumption DEF SpfAssumption
<1>3. Counts(tally, queries)
  BY <1>1, <1>2 DEF Counts
<1> QED
  BY <1>1, <1>2, <1>3 DEF SpfInv

\* A zone's policies are sequences of terms.
LEMMA ZoneShape ==
  ASSUME txt \in SpfZones, NEW d \in SpfDomains
  PROVE  txt[d].policies \in Seq(Seq(Terms)) /\ txt[d].existed \in BOOLEAN
BY SpfAssumption DEF SpfAssumption

LEMMA FrameShape ==
  ASSUME txt \in SpfZones, NEW d \in SpfDomains, One(d)
  PROVE  Frame(d) \in Frames /\ Frame(d).terms = txt[d].policies[1] /\ Frame(d).read = 0 /\ txt[d].policies[1] \in Seq(Terms)
<1>1. txt[d].policies \in Seq(Seq(Terms)) /\ Len(txt[d].policies) = 1
  BY ZoneShape DEF One
<1>2. Head(txt[d].policies) = txt[d].policies[1] /\ txt[d].policies[1] \in Seq(Terms)
  BY <1>1
<1>3. Frame(d).redirect \in MaybeDomain
  BY Zenon DEF Frame, MaybeDomain
<1>4. Frame(d) = [domain |-> d, terms |-> txt[d].policies[1], read |-> 0, redirect |-> Frame(d).redirect]
  BY <1>2, Zenon DEF Frame
<1> QED
  BY <1>2, <1>3, <1>4 DEF Frames

\* What a sequence begins with.
LEMMA Beginning ==
  ASSUME NEW S, NEW s, NEW m \in Nat, \A i \in 1..m : s[i] \in S
  PROVE  SubSeq(s, 1, m) \in Seq(S) /\ Len(SubSeq(s, 1, m)) = m /\ \A i \in 1..m : SubSeq(s, 1, m)[i] = s[i]
<1>1. /\ SubSeq(s, 1, m) \in Seq(S)
      /\ Len(SubSeq(s, 1, m)) = IF 1 <= m THEN m - 1 + 1 ELSE 0
      /\ \A i \in 1..(m - 1 + 1) : SubSeq(s, 1, m)[i] = s[1 + i - 1]
  <2>1. 1 \in Int /\ m \in Int
    OBVIOUS
  <2> QED
    BY ONLY <2>1, \A i \in 1..m : s[i] \in S, SubSeqProperties
<1>2. m - 1 + 1 = m /\ (IF 1 <= m THEN m ELSE 0) = m /\ \A i \in 1..m : 1 + i - 1 = i
  BY ONLY m \in Nat
<1>3. ASSUME NEW i \in 1..m PROVE SubSeq(s, 1, m)[i] = s[i]
  BY <1>1, <1>2, Zenon
<1> QED
  BY <1>1, <1>2, <1>3

LEMMA WithTopShape ==
  ASSUME frames \in Seq(Frames), frames # <<>>, NEW f \in Frames
  PROVE  /\ WithTop(f) \in Seq(Frames) /\ WithTop(f) # <<>>
         /\ Len(frames) = 1 => WithTop(f)[1] = f
         /\ Len(frames) # 1 => WithTop(f)[1] = frames[1]
         /\ Top \in Frames /\ (Len(frames) = 1 => Top = frames[1])
<1> DEFINE m == Len(frames) - 1
<1>1. /\ Front(frames) \in Seq(Frames) /\ Len(Front(frames)) = m /\ \A i \in 1..m : Front(frames)[i] = frames[i]
  <2>0. Len(frames) \in Nat \ {0} /\ \A i \in 1..Len(frames) : frames[i] \in Frames
    OBVIOUS
  <2>1. m \in Nat /\ \A i \in 1..m : i \in 1..Len(frames)
    BY <2>0
  <2>2. m \in Nat /\ \A i \in 1..m : frames[i] \in Frames
    BY ONLY <2>0, <2>1, Zenon
  <2>3. Front(frames) = SubSeq(frames, 1, m)
    BY DEF Front
  <2> HIDE DEF m
  <2> QED
    BY ONLY <2>2, <2>3, Beginning
<1>2. Len(frames) \in Nat \ {0} /\ frames[Len(frames)] \in Frames
  OBVIOUS
<1>3. /\ WithTop(f) \in Seq(Frames) /\ Len(WithTop(f)) = Len(frames) /\ WithTop(f)[Len(frames)] = f
      /\ \A i \in 1..(Len(frames) - 1) : WithTop(f)[i] = frames[i]
  BY <1>1, <1>2 DEF WithTop
<1> QED
  BY <1>2, <1>3 DEF Top, Last

LEMMA FrontShape ==
  ASSUME frames \in Seq(Frames), frames # <<>>, Len(frames) # 1
  PROVE  Front(frames) \in Seq(Frames) /\ Front(frames) # <<>> /\ Front(frames)[1] = frames[1]
<1> DEFINE m == Len(frames) - 1
<1>1. m \in Nat \ {0} /\ \A i \in 1..m : frames[i] \in Frames
  OBVIOUS
<1>2. Front(frames) = SubSeq(frames, 1, m)
  BY DEF Front
<1> HIDE DEF m
<1> QED
  BY ONLY <1>1, <1>2, Beginning, frames # <<>>

\* A lookup that is counted, whether it is made, fails or finds nothing.
LEMMA FollowKeeps ==
  ASSUME SpfInv, NEW name \in SpfDomains, NEW stack \in Seq(Frames), stack # <<>>, NEW counted \in Tallies,
         counted.lookups = tally.lookups + 1, counted.all = tally.all, counted.records = tally.records,
         counted.void = tally.void, counted.unread = tally.unread, counted.atLeast = tally.atLeast,
         FollowTerm(name, counted, stack)
  PROVE  /\ frames' \in Seq(Frames) /\ frames' # <<>> /\ frames'[1] = stack[1]
         /\ tally' \in Tallies /\ tally'.all = tally.all /\ tally'.records = tally.records
         /\ queries' \in Nat /\ Counts(tally', queries')
<1>0. MaxLookups \in Nat /\ MaxDepth \in Nat /\ queries \in Nat /\ Counts(tally, queries) /\ txt \in SpfZones
  BY SpfAssumption DEF SpfAssumption, SpfInv
<1>1. tally \in Tallies
  BY DEF SpfInv
<1>2. /\ counted.lookups = tally.lookups + 1 /\ counted.all = tally.all /\ counted.records = tally.records
      /\ counted.void = tally.void /\ counted.unread = tally.unread /\ counted.atLeast = tally.atLeast
  BY <1>1 DEF Tallies
<1>3. /\ tally.lookups \in Nat /\ tally.void \in Nat /\ tally.unread \in Nat /\ tally.atLeast \in BOOLEAN
  BY <1>1 DEF Tallies
<1>4. CASE counted.lookups > MaxLookups /\ tally' = [counted EXCEPT !.atLeast = TRUE] /\ frames' = stack /\ queries' = queries
  <2>1. /\ tally' \in Tallies /\ tally'.all = tally.all /\ tally'.records = tally.records
        /\ tally'.lookups = tally.lookups + 1 /\ tally'.void = tally.void /\ tally'.unread = tally.unread /\ tally'.atLeast
    BY <1>2, <1>4 DEF Tallies
  <2>2. Counts(tally', queries')
    BY <1>0, <1>2, <1>3, <1>4, <2>1, SMTT(30) DEF Counts
  <2> QED
    BY <1>0, <1>4, <2>1, <2>2
<1>5. CASE counted.lookups <= MaxLookups /\ FollowTermOn(name, counted, stack)
  <2>1. queries' = queries + 1 /\ queries' <= MaxLookups + 1 /\ queries' <= tally.lookups + 2
    BY <1>0, <1>2, <1>3, <1>5 DEF FollowTermOn, Counts
  <2>2. CASE tally' = [counted EXCEPT !.unread = @ + 1, !.atLeast = TRUE] /\ frames' = stack
    <3> DEFINE n == counted.unread + 1
    <3>0. tally' = [counted EXCEPT !.unread = n, !.atLeast = TRUE] /\ n \in Nat /\ n = tally.unread + 1
      BY <1>2, <1>3, <2>2
    <3> HIDE DEF n
    <3>1. /\ tally' \in Tallies /\ tally'.all = tally.all /\ tally'.records = tally.records
          /\ tally'.lookups = tally.lookups + 1 /\ tally'.void = tally.void /\ tally'.unread = tally.unread + 1
          /\ tally'.atLeast
      BY <1>2, <3>0 DEF Tallies
    <3>2. Counts(tally', queries')
      <4>1. tally.void + tally.unread <= tally.lookups
        BY <1>0 DEF Counts
      <4>2. /\ queries' <= tally'.lookups + 1 /\ tally'.void + tally'.unread <= tally'.lookups
            /\ tally'.unread > 0
        BY <1>3, <2>1, <3>1, <4>1, SMTT(30)
      <4> QED
        BY <2>1, <3>1, <4>2, Zenon DEF Counts
    <3> QED
      BY <1>0, <2>1, <2>2, <3>1, <3>2
  <2>3. CASE tally' = [counted EXCEPT !.void = @ + 1] /\ frames' = stack
    <3> DEFINE n == counted.void + 1
    <3>0. tally' = [counted EXCEPT !.void = n] /\ n \in Nat /\ n = tally.void + 1
      BY <1>2, <1>3, <2>3
    <3> HIDE DEF n
    <3>1. /\ tally' \in Tallies /\ tally'.all = tally.all /\ tally'.records = tally.records
          /\ tally'.lookups = tally.lookups + 1 /\ tally'.void = tally.void + 1 /\ tally'.unread = tally.unread
          /\ tally'.atLeast = tally.atLeast
      BY <1>2, <3>0 DEF Tallies
    <3>2. Counts(tally', queries')
      BY <1>0, <1>3, <2>1, <3>1, SMTT(30) DEF Counts
    <3> QED
      BY <1>0, <2>1, <2>3, <3>1, <3>2
  <2>4. CASE One(name) /\ tally' = counted /\ frames' = Enter(stack, name)
    <3>1. Counts(tally', queries')
      BY <1>0, <1>2, <1>3, <2>1, <2>4, SMTT(30) DEF Counts
    <3>2. Frame(name) \in Frames
      BY <1>0, <2>4, FrameShape
    <3>3. frames' \in {stack, Append(stack, Frame(name))}
      BY <2>4 DEF Enter
    <3>4. frames' \in Seq(Frames) /\ frames' # <<>> /\ frames'[1] = stack[1]
      BY <3>2, <3>3
    <3> QED
      BY <1>0, <1>2, <2>1, <2>4, <3>1, <3>4
  <2> QED
    BY <1>5, <2>2, <2>3, <2>4 DEF FollowTermOn
<1> QED
  BY <1>4, <1>5 DEF FollowTerm

LEMMA CountedShape ==
  ASSUME SpfInv, NEW name \in SpfDomains
  PROVE  /\ Counted(name) \in Tallies
         /\ Counted(name).lookups = tally.lookups + 1
         /\ Counted(name).all = tally.all
         /\ Counted(name).records = tally.records /\ Counted(name).void = tally.void
         /\ Counted(name).unread = tally.unread /\ Counted(name).atLeast = tally.atLeast
<1> DEFINE list == Remember(tally.includes, name)
<1>1. tally \in Tallies
  BY DEF SpfInv
<1>2. list \in Seq(SpfDomains)
  BY <1>1 DEF Remember, Tallies
<1> DEFINE n == tally.lookups + 1
<1>3. Counted(name) = [tally EXCEPT !.lookups = n, !.includes = list]
  BY Zenon DEF Counted
<1>4. n \in Nat
  BY <1>1 DEF Tallies
<1> HIDE DEF list
<1>5. Counted(name).lookups = n
  BY <1>1, <1>3 DEF Tallies
<1>6. Counted(name).lookups = tally.lookups + 1
  BY <1>5
<1> HIDE DEF n
<1> QED
  BY <1>1, <1>2, <1>3, <1>4, <1>6 DEF Tallies

LEMMA QualifierIsSome ==
  ASSUME NEW t \in Terms PROVE Qualifier(t) \in Qualifiers /\ Qualifier(t) # NoQualifier
<1>1. t.written \in Qualifiers
  BY DEF Terms, Qualifiers
<1>2. CASE t.written = NoQualifier
  BY <1>2, Zenon DEF Qualifier, Qualifiers, NoQualifier
<1>3. CASE t.written # NoQualifier
  BY <1>1, <1>3, Zenon DEF Qualifier, NoQualifier
<1> QED
  BY <1>2, <1>3

\* One term more: an all counts if it is the first.
LEMMA OneMoreTerm ==
  ASSUME NEW policy \in Seq(Terms), NEW n \in Nat, n < Len(policy), NEW all, AllOf(all, policy, n)
  PROVE  /\ ~IsAll(policy[n + 1]) => AllOf(all, policy, n + 1)
         /\ all # NoQualifier => AllOf(all, policy, n + 1)
         /\ IsAll(policy[n + 1]) /\ all = NoQualifier => AllOf(Qualifier(policy[n + 1]), policy, n + 1)
<1>1. \A i \in 1..(n + 1) : i \in 1..n \/ i = n + 1
  OBVIOUS
<1>2. 1..n \subseteq 1..(n + 1) /\ n + 1 \in 1..(n + 1) /\ (n + 1) - 1 = n
  OBVIOUS
<1>3. \A i \in 1..n : policy[i] \in Terms
  OBVIOUS
<1>4. all = NoQualifier => \A i \in 1..n : ~IsAll(policy[i])
  BY <1>3, QualifierIsSome, Zenon DEF AllOf
<1>5. all # NoQualifier => AllOf(all, policy, n + 1)
  BY <1>2, Zenon DEF AllOf
<1>6. ~IsAll(policy[n + 1]) /\ all = NoQualifier => AllOf(all, policy, n + 1)
  BY <1>1, <1>4, Zenon DEF AllOf
<1>7. IsAll(policy[n + 1]) /\ all = NoQualifier => AllOf(Qualifier(policy[n + 1]), policy, n + 1)
  BY <1>2, <1>4 DEF AllOf
<1> QED
  BY <1>5, <1>6, <1>7

\* At the end of the record, or where it is left as too long, that is the domain's all.
LEMMA AllIsOwn ==
  ASSUME NEW n \in Nat, NEW all, txt[Root].policies[1] \in Seq(Terms), AllOf(all, txt[Root].policies[1], n),
         n <= MaxTerms, n <= Len(txt[Root].policies[1]),
         n = Len(txt[Root].policies[1]) \/ n >= MaxTerms
  PROVE  all = OwnAll
<1> DEFINE policy == txt[Root].policies[1]
           alls == {i \in DOMAIN policy \cap 1..MaxTerms : IsAll(policy[i])}
<1>0. OwnAll = IF alls = {} THEN NoQualifier ELSE Qualifier(policy[Min(alls)])
  BY Zenon DEF OwnAll, IsAll, NoQualifier
<1>1. MaxTerms \in Nat
  BY SpfAssumption DEF SpfAssumption
<1>2. DOMAIN policy \cap 1..MaxTerms = 1..n
  BY <1>1
<1>3. CASE all = NoQualifier /\ \A i \in 1..n : ~IsAll(policy[i])
  <2>1. alls = {}
    BY <1>2, <1>3
  <2> QED
    BY <1>0, <1>3, <2>1
<1>4. ASSUME NEW i \in 1..n, IsAll(policy[i]), all = Qualifier(policy[i]), \A j \in 1..(i - 1) : ~IsAll(policy[j])
      PROVE  all = OwnAll
  <2>1. i \in alls /\ \A j \in alls : j >= i
    BY <1>2, <1>4
  <2>2. alls \subseteq Nat
    BY <1>2
  <2>3. Min(alls) = i
    <3> HIDE DEF alls
    <3>0. \E x \in alls : \A y \in alls : x =< y
      BY <2>1, <2>2
    <3>1. Min(alls) = CHOOSE x \in alls : \A y \in alls : x =< y
      BY DEF Min
    <3>2. Min(alls) \in alls /\ \A y \in alls : Min(alls) =< y
      BY <3>0, <3>1
    <3>3. i \in Nat /\ Min(alls) \in Nat /\ Min(alls) =< i /\ Min(alls) >= i
      BY <2>1, <2>2, <3>2
    <3> QED
      BY <3>3
  <2>4. alls # {}
    BY <2>1
  <2> QED
    BY <1>0, <1>4, <2>3, <2>4
<1> QED
  BY <1>3, <1>4 DEF AllOf

\* The frame on top with one term less to read, whatever its redirect is then.
Onward(f) == f \in Frames /\ f.terms = Tail(Top.terms) /\ f.read = Top.read + 1

LEMMA TopIsAFrame ==
  ASSUME SpfInv, walking = "walk"
  PROVE  /\ frames # <<>> /\ Top \in Frames /\ Depth \in Nat /\ (Depth = 0 <=> Len(frames) = 1)
         /\ One(Root) /\ txt[Root].policies[1] \in Seq(Terms)
         /\ Bottom(frames[1], txt[Root].policies[1], tally.all)
         /\ Depth = 0 => Top = frames[1]
<1>1. /\ frames \in Seq(Frames) /\ frames # <<>> /\ One(Root) /\ txt \in SpfZones
      /\ Bottom(frames[1], txt[Root].policies[1], tally.all)
  BY DEF SpfInv
<1>2. Root \in SpfDomains
  BY SpfAssumption DEF SpfAssumption
<1>3. Len(frames) \in Nat \ {0} /\ frames[Len(frames)] \in Frames
  BY <1>1
<1> QED
  BY <1>1, <1>2, <1>3, FrameShape DEF Top, Last, Depth

LEMMA FrameRead ==
  ASSUME NEW f \in Frames, NEW s \in Seq(Terms), NEW n \in Nat
  PROVE  /\ [f EXCEPT !.terms = s, !.read = n] \in Frames
         /\ [f EXCEPT !.terms = s, !.read = n].terms = s
         /\ [f EXCEPT !.terms = s, !.read = n].read = n
BY DEF Frames

LEMMA FrameRedirected ==
  ASSUME NEW f \in Frames, NEW r \in MaybeDomain
  PROVE  /\ [f EXCEPT !.redirect = r] \in Frames
         /\ [f EXCEPT !.redirect = r].terms = f.terms
         /\ [f EXCEPT !.redirect = r].read = f.read
BY DEF Frames

\* A term is followed, or noted; an all is noted only of the domain's own record.
TermFollowed(t) ==
  /\ t.name \in SpfDomains /\ ~IsAll(t)
  /\ \E f : Onward(f) /\ FollowTerm(t.name, Counted(t.name), WithTop(f))
TermNoted(t) ==
  /\ \E f : Onward(f) /\ frames' = WithTop(f)
  /\ queries' = queries
  /\ \/ IsAll(t) /\ Depth = 0 /\ tally.all = NoQualifier /\ tally' = [tally EXCEPT !.all = Qualifier(t)]
     \/ /\ ~(IsAll(t) /\ Depth = 0 /\ tally.all = NoQualifier)
        /\ tally' \in {tally, [tally EXCEPT !.lookups = @ + 1], [tally EXCEPT !.lookups = @ + 1, !.ptr = TRUE]}

LEMMA TermReads ==
  ASSUME SpfInv, Term
  PROVE  /\ walking = "walk" /\ Top.terms # <<>> /\ Top.read < MaxTerms /\ walking' = walking
         /\ TermFollowed(Head(Top.terms)) \/ TermNoted(Head(Top.terms))
<1> DEFINE t == Head(Top.terms)
           rest == [Top EXCEPT !.terms = Tail(@), !.read = @ + 1]
<1>1. walking = "walk" /\ Top.terms # <<>> /\ Top.read < MaxTerms /\ walking' = walking
  BY Zenon DEF Term
<1>2. Top \in Frames /\ Top.terms \in Seq(Terms)
  BY <1>1, TopIsAFrame DEF Frames
<1>3. t \in Terms
  BY <1>1, <1>2
<1>4. t.name \in MaybeDomain
  BY <1>3, Zenon DEF Terms, MaybeDomain
<1>5. Onward(rest) /\ (t.name \in MaybeDomain => Onward([rest EXCEPT !.redirect = t.name]))
  <2> DEFINE s == Tail(Top.terms)
             n == Top.read + 1
             is == [Top EXCEPT !.terms = s, !.read = n]
  <2>1. s \in Seq(Terms) /\ n \in Nat
    BY <1>1, <1>2 DEF Frames
  <2>2. is = rest
    BY Zenon
  <2> HIDE DEF is, s, n
  <2>3. is \in Frames /\ is.terms = s /\ is.read = n
    <3>1. Top \in Frames
      BY <1>2
    <3> QED
      BY <2>1, <3>1 DEF is, Frames
  <2>4. ASSUME t.name \in MaybeDomain
        PROVE  Onward([is EXCEPT !.redirect = t.name])
    BY <2>3, <2>4, FrameRedirected DEF Onward, s, n
  <2> QED
    BY <2>2, <2>3, <2>4, Zenon DEF Onward, s, n
<1>6. CASE t.mechanism = "include" /\ t.name # ""
  <2>1. t.name \in SpfDomains /\ ~IsAll(t)
    BY <1>4, <1>6, Zenon DEF MaybeDomain, IsAll
  <2>2. FollowTerm(t.name, Counted(t.name), WithTop(rest))
    BY <1>6, Zenon DEF Term
  <2>3. TermFollowed(t)
    BY <1>5, <2>1, <2>2, Zenon DEF TermFollowed
  <2> QED
    BY <1>1, <2>3
<1>7. CASE ~(t.mechanism = "include" /\ t.name # "")
  <2> DEFINE first == t.mechanism = "all" /\ Depth = 0 /\ tally.all = ""
             lookup == t.mechanism \in {"a", "include"}
             ptr == t.mechanism = "ptr"
             to1 == [tally EXCEPT !.all = Qualifier(t)]
             to2 == [tally EXCEPT !.lookups = @ + 1]
             to3 == [tally EXCEPT !.lookups = @ + 1, !.ptr = TRUE]
             is == CASE first -> to1 [] lookup -> to2 [] ptr -> to3 [] OTHER -> tally
  <2>1. /\ frames' = WithTop(IF t.mechanism = "redirect" /\ t.name # "" THEN [rest EXCEPT !.redirect = t.name] ELSE rest)
        /\ tally' = is /\ queries' = queries
    BY <1>7, Zenon DEF Term
  <2>2. \E f : Onward(f) /\ frames' = WithTop(f)
    <3> HIDE DEF is, rest
    <3> QED
      BY <1>4, <1>5, <2>1, Zenon
  <2>3. (first => ~lookup /\ ~ptr) /\ (lookup => ~ptr)
    BY Zenon
  <2>4. first <=> IsAll(t) /\ Depth = 0 /\ tally.all = NoQualifier
    BY Zenon DEF IsAll, NoQualifier
  <2> HIDE DEF first, lookup, ptr, to1, to2, to3
  <2>5. CASE first
    <3>1. is = to1
      BY <2>3, <2>5, Zenon
    <3> QED
      BY <1>1, <2>1, <2>2, <2>4, <2>5, <3>1, Zenon DEF TermNoted, to1
  <2>6. CASE ~first
    <3>1. is \in {tally, to2, to3}
      <4>1. CASE lookup
        <5>1. is = to2
          BY <2>3, <2>6, <4>1, Zenon
        <5> QED
          BY <5>1, Zenon
      <4>2. CASE ptr
        <5>1. is = to3
          BY <2>3, <2>6, <4>2, Zenon
        <5> QED
          BY <5>1, Zenon
      <4>3. CASE ~lookup /\ ~ptr
        <5>1. is = tally
          BY <2>6, <4>3, Zenon
        <5> QED
          BY <5>1, Zenon
      <4> QED
        BY <4>1, <4>2, <4>3, Zenon
    <3> QED
      BY <1>1, <2>1, <2>2, <2>4, <2>6, <3>1, Zenon DEF TermNoted, to2, to3
  <2> QED
    BY <2>5, <2>6
<1> QED
  BY <1>6, <1>7, Zenon

LEMMA TermKeeps == SpfInv /\ Term /\ UNCHANGED txt => SpfInv'
<1> SUFFICES ASSUME SpfInv, Term, UNCHANGED txt PROVE SpfInv'
  OBVIOUS
<1> DEFINE t == Head(Top.terms)
           policy == txt[Root].policies[1]
<1>1. /\ walking = "walk" /\ Top.terms # <<>> /\ Top.read < MaxTerms /\ walking' = walking
      /\ TermFollowed(t) \/ TermNoted(t)
  BY TermReads
<1>2. /\ frames \in Seq(Frames) /\ frames # <<>> /\ Top \in Frames /\ Depth \in Nat /\ (Depth = 0 <=> Len(frames) = 1)
      /\ One(Root) /\ policy \in Seq(Terms) /\ Bottom(frames[1], policy, tally.all)
      /\ (Depth = 0 => Top = frames[1])
  BY <1>1, TopIsAFrame DEF SpfInv
<1>3. MaxTerms \in Nat /\ tally \in Tallies /\ queries \in Nat /\ Counts(tally, queries) /\ txt \in SpfZones
  BY SpfAssumption DEF SpfAssumption, SpfInv
<1>4. One(Root)'
  BY <1>2 DEF One
<1>5. ASSUME Depth = 0, NEW f, Onward(f), NEW all,
             ~IsAll(t) \/ tally.all # NoQualifier => all = tally.all,
             IsAll(t) /\ tally.all = NoQualifier => all = Qualifier(t)
      PROVE  Bottom(f, policy, all)
  <2> DEFINE n == Top.read
             L == Len(policy)
  <2>1. n \in Nat /\ L \in Nat /\ n <= L /\ Top.terms = SubSeq(policy, n + 1, L) /\ AllOf(tally.all, policy, n)
    BY <1>2, <1>5, SMTT(30) DEF Bottom, Frames
  <2>7. n < MaxTerms /\ MaxTerms \in Nat /\ policy \in Seq(Terms)
    BY <1>1, <1>2, <1>3
  <2> HIDE DEF n, L
  <2>2. n < L
    <3>1. n + 1 \in Int /\ L \in Int /\ (L < n + 1 => SubSeq(policy, n + 1, L) = <<>>)
      BY <2>1, SubSeqEmpty
    <3> QED
      BY <1>1, <2>1, <3>1
  <2>3. t = policy[n + 1] /\ Tail(Top.terms) = SubSeq(policy, (n + 1) + 1, L)
    <3>1. n + 1 \in 1..L /\ L \in (n + 1)..L
      BY <2>1, <2>2
    <3>2. L = Len(policy)
      BY DEF L
    <3>3. Head(SubSeq(policy, n + 1, L)) = policy[n + 1] /\ Tail(SubSeq(policy, n + 1, L)) = SubSeq(policy, (n + 1) + 1, L)
      BY <2>7, <3>1, <3>2, HeadTailOfSubSeq
    <3> QED
      BY <2>1, <3>3
  <2>4. AllOf(all, policy, n + 1)
    BY <1>5, <2>1, <2>2, <2>3, <2>7, OneMoreTerm DEF L
  <2>5. f.read = n + 1 /\ f.terms = SubSeq(policy, (n + 1) + 1, L)
    BY <1>5, <2>3 DEF Onward, n
  <2>6. n + 1 <= MaxTerms /\ n + 1 <= L
    BY <2>1, <2>2, <2>7
  <2> QED
    BY <2>4, <2>5, <2>6 DEF Bottom, L
<1>6. CASE TermFollowed(t)
  <2>1. PICK f : Onward(f) /\ FollowTerm(t.name, Counted(t.name), WithTop(f)) /\ t.name \in SpfDomains /\ ~IsAll(t)
    BY <1>6 DEF TermFollowed
  <2>2. /\ WithTop(f) \in Seq(Frames) /\ WithTop(f) # <<>>
        /\ Len(frames) = 1 => WithTop(f)[1] = f
        /\ Len(frames) # 1 => WithTop(f)[1] = frames[1]
    BY <1>2, <2>1, WithTopShape DEF Onward
  <2>3. /\ Counted(t.name) \in Tallies
        /\ Counted(t.name).lookups = tally.lookups + 1
        /\ Counted(t.name).all = tally.all
        /\ Counted(t.name).records = tally.records /\ Counted(t.name).void = tally.void
        /\ Counted(t.name).unread = tally.unread /\ Counted(t.name).atLeast = tally.atLeast
    BY <2>1, CountedShape
  <2>4. /\ frames' \in Seq(Frames) /\ frames' # <<>> /\ frames'[1] = WithTop(f)[1]
        /\ tally' \in Tallies /\ tally'.all = tally.all /\ tally'.records = tally.records
        /\ queries' \in Nat /\ Counts(tally', queries')
    BY <2>1, <2>2, <2>3, FollowKeeps
  <2>5. Bottom(frames'[1], policy, tally'.all)
    <3>1. CASE Depth = 0
      BY <1>2, <1>5, <2>1, <2>2, <2>4, <3>1
    <3>2. CASE Depth # 0
      BY <1>2, <2>2, <2>4, <3>2
    <3> QED
      BY <3>1, <3>2
  <2> QED
    BY <1>1, <1>3, <1>4, <2>4, <2>5 DEF SpfInv
<1>7. CASE TermNoted(t)
  <2>1. PICK f : Onward(f) /\ frames' = WithTop(f)
    BY <1>7 DEF TermNoted
  <2>2. /\ frames' \in Seq(Frames) /\ frames' # <<>>
        /\ Len(frames) = 1 => frames'[1] = f
        /\ Len(frames) # 1 => frames'[1] = frames[1]
    BY <1>2, <2>1, WithTopShape DEF Onward
  <2>3. /\ tally' \in Tallies /\ Counts(tally', queries')
        /\ Depth = 0 /\ IsAll(t) /\ tally.all = NoQualifier => tally'.all = Qualifier(t)
        /\ ~(Depth = 0 /\ IsAll(t) /\ tally.all = NoQualifier) => tally'.all = tally.all
    <3>0. queries' = queries
      BY <1>7 DEF TermNoted
    <3>1. CASE IsAll(t) /\ Depth = 0 /\ tally.all = NoQualifier
      <4>1. t \in Terms
        BY <1>1, <1>2 DEF Frames
      <4>2. Qualifier(t) \in Qualifiers
        BY <4>1, QualifierIsSome
      <4>3. tally' = [tally EXCEPT !.all = Qualifier(t)]
        BY <1>7, <3>1 DEF TermNoted
      <4>4. /\ tally' \in Tallies /\ tally'.all = Qualifier(t)
            /\ tally'.lookups = tally.lookups /\ tally'.void = tally.void /\ tally'.unread = tally.unread
            /\ tally'.atLeast = tally.atLeast
        BY <1>3, <4>2, <4>3 DEF Tallies
      <4>5. Counts(tally', queries')
        BY <1>3, <3>0, <4>4, Zenon DEF Counts
      <4> QED
        BY <3>1, <4>4, <4>5
    <3>2. CASE ~(IsAll(t) /\ Depth = 0 /\ tally.all = NoQualifier)
      <4> DEFINE more == tally.lookups + 1
      <4>1. more \in Nat
        BY <1>3 DEF Tallies
      <4>2. tally' \in {tally, [tally EXCEPT !.lookups = more], [tally EXCEPT !.lookups = more, !.ptr = TRUE]}
        BY <1>7, <3>2, Zenon DEF TermNoted
      <4> HIDE DEF more
      <4>3. /\ tally' \in Tallies /\ tally'.all = tally.all /\ tally'.void = tally.void /\ tally'.unread = tally.unread
            /\ tally'.atLeast = tally.atLeast /\ tally'.lookups \in {tally.lookups, more}
        BY <1>3, <4>1, <4>2 DEF Tallies
      <4>4. Counts(tally', queries')
        <5>1. /\ queries <= MaxLookups + 1 /\ queries <= tally.lookups + 1
              /\ tally.void + tally.unread <= tally.lookups
          BY <1>3 DEF Counts
        <5>2. tally.lookups \in Nat /\ tally.void \in Nat /\ tally.unread \in Nat /\ MaxLookups \in Nat
          BY <1>3, SpfAssumption DEF Tallies, SpfAssumption
        <5>3. /\ queries <= tally'.lookups + 1 /\ tally.void + tally.unread <= tally'.lookups
              /\ tally.lookups > MaxLookups => tally'.lookups > MaxLookups
          BY <1>3, <4>3, <5>1, <5>2 DEF more
        <5> QED
          BY <1>3, <3>0, <4>3, <5>1, <5>3, Zenon DEF Counts
      <4> QED
        BY <3>2, <4>3, <4>4
    <3> QED
      BY <3>1, <3>2
  <2>4. Bottom(frames'[1], policy, tally'.all)
    <3>1. CASE Depth = 0
      BY <1>2, <1>5, <2>1, <2>2, <2>3, <3>1
    <3>2. CASE Depth # 0
      BY <1>2, <2>2, <2>3, <3>2
    <3> QED
      BY <3>1, <3>2
  <2>5. queries' = queries
    BY <1>7 DEF TermNoted
  <2> QED
    BY <1>1, <1>3, <1>4, <2>2, <2>3, <2>4, <2>5 DEF SpfInv
<1> QED
  BY <1>1, <1>6, <1>7

\* A record is left: the one below it is gone on with, or the walk is done.
LEMMA RecordLeft ==
  ASSUME SpfInv, UNCHANGED txt, walking = "walk", frames' = Front(frames), tally' = tally, queries' = queries,
         walking' = IF Depth = 0 THEN "done" ELSE walking,
         Top.terms = <<>> \/ Top.read >= MaxTerms
  PROVE  SpfInv'
<1> DEFINE policy == txt[Root].policies[1]
<1>1. /\ frames \in Seq(Frames) /\ frames # <<>> /\ Top \in Frames /\ Depth \in Nat /\ (Depth = 0 <=> Len(frames) = 1)
      /\ One(Root) /\ policy \in Seq(Terms) /\ Bottom(frames[1], policy, tally.all)
      /\ (Depth = 0 => Top = frames[1])
  BY TopIsAFrame DEF SpfInv
<1>2. /\ txt' \in SpfZones /\ tally' \in Tallies /\ queries' \in Nat /\ Counts(tally', queries') /\ One(Root)'
  BY <1>1 DEF SpfInv, One
<1>3. CASE Depth # 0
  <2>1. Front(frames) \in Seq(Frames) /\ Front(frames) # <<>> /\ Front(frames)[1] = frames[1]
    BY <1>1, <1>3, FrontShape
  <2> QED
    BY <1>1, <1>2, <1>3, <2>1 DEF SpfInv
<1>4. CASE Depth = 0
  <2> DEFINE n == Top.read
  <2>1. n \in Nat /\ n <= MaxTerms /\ n <= Len(policy) /\ Top.terms = SubSeq(policy, n + 1, Len(policy))
        /\ AllOf(tally.all, policy, n)
    BY <1>1, <1>4 DEF Bottom, Frames
  <2>2. n = Len(policy) \/ n >= MaxTerms
    <3>1. CASE Top.terms = <<>>
      <4> DEFINE L == Len(policy)
                 rest == SubSeq(policy, n + 1, L)
      <4>0. rest = <<>>
        BY <2>1, <3>1
      <4>1. L \in Nat /\ n \in Nat /\ n <= L
        BY <1>1, <2>1
      <4>2. \A i \in (n + 1)..L : policy[i] \in Terms
        <5>1. \A i \in 1..L : policy[i] \in Terms
          BY <1>1
        <5> HIDE DEF n, L
        <5> QED
          BY <4>1, <5>1
      <4>3. Len(rest) = IF n + 1 <= L THEN L - (n + 1) + 1 ELSE 0
        <5> HIDE DEF n, L
        <5> QED
          BY <4>1, <4>2, SubSeqProperties
      <4>4. Len(rest) = 0
        <5> HIDE DEF rest
        <5> QED
          BY <4>0
      <4>5. n = L
        <5> HIDE DEF rest, n, L
        <5> QED
          BY <4>1, <4>3, <4>4
      <4> QED
        BY <4>5
    <3>2. CASE Top.read >= MaxTerms
      BY <3>2
    <3> QED
      BY <3>1, <3>2
  <2>3. tally.all = OwnAll
    <3> HIDE DEF n
    <3> QED
      BY <1>1, <2>1, <2>2, AllIsOwn
  <2>4. OwnAll' = OwnAll
    BY Zenon DEF OwnAll
  <2>5. Front(frames) = <<>>
    <3> DEFINE m == Len(frames) - 1
    <3>1. m \in Int /\ m < 1
      <4>1. Len(frames) = 1
        BY <1>1, <1>4, Zenon
      <4> QED
        BY <4>1
    <3>2. Front(frames) = SubSeq(frames, 1, m)
      BY DEF Front
    <3> HIDE DEF m
    <3> QED
      BY <3>1, <3>2, SubSeqEmpty
  <2>6. walking' = "done" /\ frames' \in Seq(Frames)
    BY <1>4, <2>5
  <2> QED
    BY <1>2, <2>3, <2>4, <2>6 DEF SpfInv
<1> QED
  BY <1>3, <1>4

LEMMA EndOfRecordKeeps == SpfInv /\ EndOfRecord /\ UNCHANGED txt => SpfInv'
<1> SUFFICES ASSUME SpfInv, EndOfRecord, UNCHANGED txt PROVE SpfInv'
  OBVIOUS
<1> DEFINE policy == txt[Root].policies[1]
           name == Top.redirect
           top == [Top EXCEPT !.redirect = ""]
<1>1. walking = "walk" /\ Top.terms = <<>>
  BY Zenon DEF EndOfRecord
<1>2. /\ frames \in Seq(Frames) /\ frames # <<>> /\ Top \in Frames /\ Depth \in Nat /\ (Depth = 0 <=> Len(frames) = 1)
      /\ One(Root) /\ Bottom(frames[1], policy, tally.all) /\ (Depth = 0 => Top = frames[1])
  BY <1>1, TopIsAFrame DEF SpfInv
<1>3. CASE ~(Top.redirect # "" /\ tally.all = "")
  <2>1. frames' = Front(frames) /\ walking' = (IF Depth = 0 THEN "done" ELSE walking) /\ tally' = tally /\ queries' = queries
    BY <1>3, Zenon DEF EndOfRecord
  <2> QED
    BY <1>1, <2>1, RecordLeft
<1>4. CASE Top.redirect # "" /\ tally.all = ""
  <2>1. FollowTerm(name, Counted(name), WithTop(top)) /\ walking' = walking
    BY <1>4, Zenon DEF EndOfRecord
  <2>2. name \in SpfDomains
    <3>1. name \in MaybeDomain
      BY <1>2 DEF Frames
    <3> QED
      BY <1>4, <3>1, Zenon DEF MaybeDomain
  <2>3. top \in Frames /\ top.terms = Top.terms /\ top.read = Top.read
    <3>1. "" \in MaybeDomain
      BY Zenon DEF MaybeDomain
    <3> DEFINE empty == ""
    <3> HIDE DEF empty
    <3>2. [Top EXCEPT !.redirect = empty] \in Frames /\ [Top EXCEPT !.redirect = empty].terms = Top.terms
          /\ [Top EXCEPT !.redirect = empty].read = Top.read
      BY <1>2, <3>1, FrameRedirected DEF empty
    <3> QED
      BY <3>2, Zenon DEF empty
  <2> HIDE DEF top, name
  <2>4. /\ WithTop(top) \in Seq(Frames) /\ WithTop(top) # <<>>
        /\ Len(frames) = 1 => WithTop(top)[1] = top
        /\ Len(frames) # 1 => WithTop(top)[1] = frames[1]
    BY <1>2, <2>3, WithTopShape
  <2>5. /\ Counted(name) \in Tallies
        /\ Counted(name).lookups = tally.lookups + 1
        /\ Counted(name).all = tally.all
        /\ Counted(name).records = tally.records /\ Counted(name).void = tally.void
        /\ Counted(name).unread = tally.unread /\ Counted(name).atLeast = tally.atLeast
    BY <2>2, CountedShape
  <2>6. /\ frames' \in Seq(Frames) /\ frames' # <<>> /\ frames'[1] = WithTop(top)[1]
        /\ tally' \in Tallies /\ tally'.all = tally.all /\ tally'.records = tally.records
        /\ queries' \in Nat /\ Counts(tally', queries')
    BY <2>1, <2>2, <2>4, <2>5, FollowKeeps
  <2>7. Bottom(frames'[1], policy, tally'.all)
    <3>1. CASE Depth = 0
      BY <1>2, <2>3, <2>4, <2>6, <3>1 DEF Bottom
    <3>2. CASE Depth # 0
      BY <1>2, <2>4, <2>6, <3>2
    <3> QED
      BY <3>1, <3>2
  <2>8. One(Root)' /\ txt' \in SpfZones
    BY <1>2 DEF One, SpfInv
  <2> QED
    BY <1>1, <2>1, <2>6, <2>7, <2>8 DEF SpfInv
<1> QED
  BY <1>3, <1>4

\* The record of the domain is asked for.
LEMMA CheckKeeps == SpfInv /\ Check /\ UNCHANGED txt => SpfInv'
<1> SUFFICES ASSUME SpfInv, Check, UNCHANGED txt PROVE SpfInv'
  OBVIOUS
<1> DEFINE policies == txt[Root].policies
           policy == policies[1]
<1>1. walking = "start" /\ queries' = 1 /\ tally \in Tallies /\ tally.lookups = 0 /\ tally.all = NoQualifier
      /\ tally.records = 0 /\ Counts(tally, queries) /\ txt \in SpfZones /\ frames \in Seq(Frames)
  BY DEF Check, SpfInv
<1>2. Root \in SpfDomains /\ MaxTerms \in Nat /\ MaxLookups \in Nat
  BY SpfAssumption DEF SpfAssumption
<1>3. policies \in Seq(Seq(Terms)) /\ Len(policies) \in Nat
  BY <1>1, <1>2, ZoneShape
<1>4. CASE \E reason \in SpfReasons : tally' = [tally EXCEPT !.reason = reason] /\ walking' = "done" /\ frames' = frames
  <2>1. /\ tally' \in Tallies /\ tally'.lookups = 0 /\ tally'.records = 0 /\ tally'.void = tally.void
        /\ tally'.unread = tally.unread /\ tally'.atLeast = tally.atLeast
    BY <1>1, <1>4 DEF Tallies
  <2>2. Counts(tally', 1)
    BY <1>1, <1>2, <2>1 DEF Counts
  <2> QED
    BY <1>1, <1>4, <2>1, <2>2 DEF SpfInv
<1>5. CASE /\ tally' = [tally EXCEPT !.records = Len(policies)]
           /\ IF One(Root) THEN frames' = <<Frame(Root)>> /\ walking' = "walk"
                           ELSE walking' = "done" /\ UNCHANGED <<frames, seen>>
           /\ txt[Root].existed
  <2> DEFINE n == Len(policies)
  <2>0. tally' = [tally EXCEPT !.records = n] /\ n \in Nat
    BY <1>3, <1>5
  <2> HIDE DEF n
  <2>1. /\ tally' \in Tallies /\ tally'.lookups = 0 /\ tally'.records = n /\ tally'.void = tally.void
        /\ tally'.unread = tally.unread /\ tally'.atLeast = tally.atLeast /\ tally'.all = NoQualifier
    BY <1>1, <2>0 DEF Tallies
  <2>2. Counts(tally', 1)
    BY <1>1, <1>2, <2>1 DEF Counts
  <2>3. CASE One(Root)
    <3>1. Frame(Root) \in Frames /\ Frame(Root).terms = policy /\ Frame(Root).read = 0 /\ policy \in Seq(Terms)
      BY <1>1, <1>2, <2>3, FrameShape
    <3>2. policy = SubSeq(policy, 1, Len(policy))
      BY <3>1, SubSeqFull
    <3>3. AllOf(NoQualifier, policy, 0)
      BY DEF AllOf
    <3>4. Bottom(Frame(Root), policy, NoQualifier)
      <4>1. Len(policy) \in Nat /\ 0 + 1 = 1
        BY <3>1
      <4> QED
        BY <1>2, <3>1, <3>2, <3>3, <4>1 DEF Bottom
    <3>5. frames' = <<Frame(Root)>> /\ walking' = "walk"
      BY <1>5, <2>3
    <3>6. frames' \in Seq(Frames) /\ frames' # <<>> /\ frames'[1] = Frame(Root)
      BY <3>1, <3>5
    <3>7. One(Root)'
      BY <2>3 DEF One
    <3> QED
      BY <1>1, <2>1, <2>2, <3>4, <3>5, <3>6, <3>7 DEF SpfInv
  <2>4. CASE ~One(Root)
    <3>1. n # 1
      BY <1>5, <2>4 DEF One, n
    <3>2. walking' = "done" /\ frames' = frames
      BY <1>5, <2>4
    <3> QED
      BY <1>1, <2>1, <2>2, <3>1, <3>2 DEF SpfInv
  <2> QED
    BY <2>3, <2>4
<1>6. "failed" \in SpfReasons /\ "absent" \in SpfReasons
  BY Zenon DEF SpfReasons
<1> QED
  BY <1>4, <1>5, <1>6, Zenon DEF Check

LEMMA SpfStep == SpfInv /\ [SpfNext]_spfVars => SpfInv'
<1> SUFFICES ASSUME SpfInv, [SpfNext]_spfVars PROVE SpfInv'
  OBVIOUS
<1>1. CASE SpfNext
  <2>1. CASE TooLong
    <3>1. /\ walking = "walk" /\ frames' = Front(frames) /\ walking' = IF Depth = 0 THEN "done" ELSE walking
          /\ tally' = tally /\ queries' = queries /\ Top.read >= MaxTerms
      BY <2>1 DEF TooLong
    <3>2. UNCHANGED txt
      BY <1>1 DEF SpfNext
    <3> QED
      BY <3>1, <3>2, RecordLeft
  <2> QED
    BY <1>1, <2>1, CheckKeeps, TermKeeps, EndOfRecordKeeps DEF SpfNext
<1>2. CASE UNCHANGED spfVars
  <2>1. txt' = txt /\ frames' = frames /\ queries' = queries /\ tally' = tally /\ walking' = walking
    BY <1>2 DEF spfVars
  <2>2. OwnAll' = OwnAll /\ (One(Root)' <=> One(Root))
    BY <2>1, Zenon DEF OwnAll, One
  <2> QED
    BY <2>1, <2>2 DEF SpfInv
<1> QED
  BY <1>1, <1>2

\* However the policies of strangers pull one another in and whichever lookups fail, a
\* walk makes no more queries than a receiver would lookups, and one for the record
\* itself, and what it reports as the domain's all is the first of the domain's own
\* record (follow, evaluate).
THEOREM LookupsAreFew == SpfSpec => []WalkIsBounded
<1>1. SpfSpec => []SpfInv
  BY InitiallySpfInv, SpfStep, PTL DEF SpfSpec
<1>2. SpfInv => WalkIsBounded
  BY DEF SpfInv, Counts, WalkIsBounded, LookupLimit
<1> QED
  BY <1>1, <1>2, PTL
=============================================================================
