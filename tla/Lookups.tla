------------------------------ MODULE Lookups ------------------------------
(***************************************************************************)
(* One lookup of the DNS client (dnsclient.go, parse.go): the resolvers of   *)
(* the machine asked in turn, over UDP and then TCP, each reply checked     *)
(* against the question before anything in it is believed; for CAA, once   *)
(* for every label on the way to the root.                                 *)
(*                                                                         *)
(* The names are what their zones say, the resolvers repeat it or fail, and *)
(* anybody may send a datagram that gets there first.                      *)
(***************************************************************************)
EXTENDS Integers, SequencesExt, FiniteSetsExt

CONSTANTS
  Configurations, \* what a platform may list: addresses in order, repeats and all
  Dialable,     \* those that parse and name a host
  MaxResolvers, MaxQueries, MaxChain, \* maxResolvers, Client.maxQueries, maxChain
  AskedNames,    \* the names asked about, each with those above it, to the last label
  Unencodable,  \* those encodeName refuses
  Aliases,      \* names outside labels that an alias leads to
  Zones         \* what a name may hold, of ZoneKinds

\* A record set of its own, or at the end of an alias, of one that is too long or
\* of one that goes round; a record that does not parse; nothing; no such name;
\* a section with somebody else's record.
ZoneKinds == {"set", "alias", "long", "loop", "malformed", "nothing", "absent", "stray"}

ASSUME LookupsAssumption ==
  /\ IsFiniteSet(Dialable) /\ Zones \subseteq ZoneKinds
  /\ MaxResolvers \in Nat \ {0} /\ MaxQueries \in Nat \ {0}
  /\ MaxChain \in Nat \ {0} /\ Cardinality(Aliases) > MaxChain
  /\ \A q \in AskedNames : q # <<>> /\ ToSet(q) \cap Aliases = {}

VARIABLES
  labels,    \* the name asked about and those above it
  zone,      \* of each name: what it holds
  signed,    \* the resolvers set the AD bit
  qtype,     \* which of the four lookups it is
  set,       \* resolverSet: the servers, and which last answered
  askedServers,     \* how many were asked this question
  firstError, \* the first of their errors
  waiting,   \* what for: "nothing", a "datagram", a "stream", or the lookup is "over"
  label,     \* the question's place in labels
  answer,    \* Answer
  error      \* what the lookup returned beside it

lookupsVars == <<labels, zone, signed, qtype, set, askedServers, firstError, waiting, label, answer, error>>

AllNames == UNION {ToSet(q) : q \in AskedNames}
Errors == {"no resolver", "unencodable", "unreached", "silent", "short", "unasked", "failed", "refused", "malformed"}
NoError == "none"
Types == {"CAA", "TXT", "MX", "TLSA"}
Record(name) == <<"record", name>>

LookupsTypeOK ==
  /\ labels \in AskedNames /\ zone \in [AllNames -> Zones] /\ signed \in BOOLEAN /\ qtype \in Types
  /\ set.servers \in Seq(Dialable) /\ Len(set.servers) <= MaxResolvers
  /\ set.chosen \in 0..MaxResolvers /\ askedServers \in 0..Len(set.servers)
  /\ firstError \in Errors \cup {NoError} /\ error \in Errors \cup {NoError}
  /\ waiting \in {"nothing", "datagram", "stream", "over"}
  /\ label \in 1..Len(labels)
  /\ answer.queries \in 0..MaxQueries /\ Cardinality(answer.records) <= 1

\* CAA is inherited, and nothing else is.
Walks == qtype = "CAA"

\* resolverList: what cannot be dialled and what repeats is left out, up to the bound.
ResolverList(addrs) ==
  FoldLeft(LAMBDA out, a : IF Len(out) < MaxResolvers /\ a \in Dialable /\ ~Contains(out, a)
                           THEN Append(out, a) ELSE out, <<>>, addrs)

LookupsInit ==
  /\ labels \in AskedNames
  /\ zone \in [AllNames -> Zones]
  /\ signed \in BOOLEAN
  /\ qtype \in Types
  /\ \A n \in AllNames \ IF Walks THEN ToSet(labels) ELSE {labels[1]} : zone[n] = "nothing"
  /\ \E listed \in Configurations : set = [servers |-> ResolverList(listed), chosen |-> 0]
  /\ askedServers = 0 /\ firstError = NoError
  /\ waiting = "nothing"
  /\ label = 1
  /\ answer = [records |-> {}, name |-> labels[1], existed |-> TRUE, validated |-> FALSE, queries |-> 0,
               complete |-> ~Walks \/ Len(labels) <= MaxQueries]
  /\ error = NoError
-----------------------------------------------------------------------------
\* What is on the wire.

\* A reply as parseReply sees it: whether it is to this query (identifier, flags,
\* the question byte for byte), its code, and its answer section in order.
Reply(asked, rcode, section) == [asked |-> asked, rcode |-> rcode, validated |-> signed /\ asked, section |-> section]
RR(owner, type, data) == [owner |-> owner, type |-> type, data |-> data]

\* The data of a record: its length, the length of the part it announces (the tag
\* of CAA, a string of TXT), and whether its text is printable or its name is read.
Shapes == [length : {1, 3, 5}, part : {0, 2, 4}, sound : BOOLEAN]
Parses(d) ==
  CASE qtype = "CAA" -> d.length >= 2 /\ d.part # 0 /\ 2 + d.part <= d.length /\ d.sound
    [] qtype = "TXT" -> 1 + d.part <= d.length
    [] qtype = "MX" -> d.length >= 3 /\ d.sound
    [] qtype = "TLSA" -> d.length >= 4

\* The aliases from a name on, in either order of the section.
Step(i) == SetToSeq(Aliases)[i]
ChainOf(name, n) ==
  [i \in 1..n |-> RR(IF i = 1 THEN name ELSE Step(i - 1), "CNAME", Step(i))]

Section(name, d) ==
  LET of(owner, about) == <<RR(owner, qtype, [shape |-> d, of |-> about])>>
  IN  CASE zone[name] \in {"set", "malformed"} -> <<RR(name, "RRSIG", "")>> \o of(name, name)
        [] zone[name] = "alias" -> of(Step(MaxChain), name) \o Reverse(ChainOf(name, MaxChain))
        [] zone[name] = "long" -> ChainOf(name, MaxChain + 1) \o of(Step(MaxChain + 1), name)
        [] zone[name] = "loop" -> <<RR(name, "CNAME", Step(1)), RR(Step(1), "CNAME", name)>>
        [] zone[name] = "stray" -> of(Step(1), Step(1))
        [] OTHER -> <<>>

\* What a resolver that works says of a name, or that it cannot say.
Honest(name) ==
  {Reply(TRUE, IF zone[name] = "absent" THEN "nxdomain" ELSE "noerror", Section(name, d)) :
     d \in {d \in Shapes : Parses(d) = (zone[name] # "malformed")}}
  \cup {Reply(TRUE, rcode, <<>>) : rcode \in {"servfail", "refused"}}
\* What somebody else sends who did not see the question.
Forged(name) ==
  {Reply(FALSE, "nxdomain", <<>>),
   Reply(FALSE, "noerror", <<RR(name, qtype, [shape |-> CHOOSE d \in Shapes : Parses(d), of |-> "forged"])>>)}
-----------------------------------------------------------------------------
\* Reading a reply.

\* chainFrom: the question, and each name the first alias of the last one leads to.
NextName(at, section) ==
  LET from == SelectSeq(section, LAMBDA r : r.type = "CNAME" /\ r.owner = at)
  IN  IF from = <<>> THEN at ELSE Head(from).data
ChainFrom(name, section) ==
  LET at[n \in 0..MaxChain] == IF n = 0 THEN name ELSE NextName(at[n - 1], section)
  IN  {at[n] : n \in 0..MaxChain}

\* parseAnswers: the records asked for, of the names that answer the question.
AnswersTo(name, section) ==
  {r.data : r \in ToSet(SelectSeq(section, LAMBDA r : r.type = qtype /\ r.owner \in ChainFrom(name, section)))}

\* parseReply: the error of a reply, and what it says if there is none.
ReplyError(name, r) ==
  CASE ~r.asked -> "unasked"
    [] r.rcode = "servfail" -> "failed"
    [] r.rcode = "refused" -> "refused"
    [] r.rcode = "noerror" /\ \E a \in AnswersTo(name, r.section) : ~Parses(a.shape) -> "malformed"
    [] OTHER -> NoError
Existed(r) == r.rcode # "nxdomain"
FoundRecords(name, r) == IF Existed(r) THEN {Record(a.of) : a \in AnswersTo(name, r.section)} ELSE {}
-----------------------------------------------------------------------------
\* Asking.

Asked == labels[label]
Finish(e) == waiting' = "over" /\ error' = e

\* exchange: the question is built for every resolver; one that cannot be fails at each.
NoServers ==
  /\ waiting = "nothing" /\ set.servers = <<>>
  /\ Finish("no resolver")
  /\ answer' = [answer EXCEPT !.existed = FALSE, !.complete = FALSE]
  /\ UNCHANGED <<set, askedServers, firstError, label>>
Send ==
  /\ waiting = "nothing" /\ set.servers # <<>>
  /\ Asked \notin Unencodable
  /\ waiting' = "datagram"
  /\ UNCHANGED <<set, askedServers, firstError, label, answer, error>>

\* An error is not an answer about the name: the next resolver is asked, and when
\* there is none the first error is the one returned.
ExchangeFails(e) ==
  LET first == IF firstError = NoError THEN e ELSE firstError
  IN  /\ askedServers' = askedServers + 1
      /\ firstError' = first
      /\ IF askedServers + 1 < Len(set.servers)
         THEN waiting' = "nothing" /\ UNCHANGED <<answer, error>>
         ELSE /\ Finish(first)
              /\ answer' = IF Walks THEN [answer EXCEPT !.queries = @ + 1] ELSE [answer EXCEPT !.existed = FALSE]
      /\ UNCHANGED <<set, label>>

\* The walk of LookupCAA stops at the first record set, at the last label, or when
\* its queries are spent. (Fault: a name that does not exist ends it too.)
StopsAtAbsent(r, found, queries) ==
  ~Walks \/ found # {} \/ ~Existed(r) \/ label = Len(labels) \/ queries = MaxQueries
Stops(r, found, queries) ==
  ~Walks \/ found # {} \/ label = Len(labels) \/ queries = MaxQueries
BelieveReply(r) ==
  LET found == FoundRecords(Asked, r)
      queries == answer.queries + 1
  IN  /\ answer' = [answer EXCEPT !.records = found, !.name = Asked, !.validated = r.validated, !.queries = queries,
                                  !.existed = IF label = 1 THEN Existed(r) ELSE @]
      /\ set' = [set EXCEPT !.chosen = (@ + askedServers) % Len(set.servers)]
      /\ askedServers' = 0 /\ firstError' = NoError
      /\ IF Stops(r, found, queries)
         THEN Finish(NoError) /\ UNCHANGED label
         ELSE waiting' = "nothing" /\ label' = label + 1 /\ UNCHANGED error

Parse(r) ==
  LET e == ReplyError(Asked, r) IN IF e = NoError THEN BelieveReply(r) ELSE ExchangeFails(e)

Unsent == waiting = "nothing" /\ set.servers # <<>> /\ Asked \in Unencodable /\ ExchangeFails("unencodable")

\* One datagram, the first to come; the truncation bit is looked at before
\* anything else is, and only leads to the same question over TCP.
HearDatagram ==
  /\ waiting = "datagram"
  /\ \/ \E e \in {"unreached", "silent", "short"} : ExchangeFails(e)
     \/ waiting' = "stream" /\ UNCHANGED <<set, askedServers, firstError, label, answer, error>>
     \/ \E r \in Honest(Asked) \cup Forged(Asked) : Parse(r)

\* The stream is the resolver's own; the length it announces is checked.
HearStream ==
  /\ waiting = "stream"
  /\ \/ \E e \in {"unreached", "silent", "short"} : ExchangeFails(e)
     \/ \E r \in Honest(Asked) : Parse(r)

LookupsNext ==
  /\ NoServers \/ Unsent \/ Send \/ HearDatagram \/ HearStream
  /\ UNCHANGED <<labels, zone, signed, qtype>>
-----------------------------------------------------------------------------

\* (An alias of more than MaxChain steps is not followed to its end.)
Holds(name) == zone[name] \in {"set", "alias"}
\* Whoever gets a datagram in first, and whichever resolvers fail: a lookup that
\* returns no error returns what the zones say. A record set is that of the
\* nearest name that has one; none at all, with the walk complete, means that no
\* name up to the last label has one ("a caller that cannot tell them apart will
\* publish the first sentence in both cases"); and whether the name existed is
\* said of the name asked about.
AnswerIsOfTheZones ==
  waiting = "over" /\ error = NoError =>
    /\ answer.existed = (zone[labels[1]] # "absent")
    /\ answer.validated => signed
    /\ answer.records # {} =>
         /\ answer.records = {Record(answer.name)} /\ Holds(answer.name)
         /\ \A i \in 1..(label - 1) : ~Holds(labels[i])
    /\ answer.records = {} /\ answer.complete =>
         \A i \in 1..Len(labels) : (Walks \/ i = 1) => ~Holds(labels[i])
=============================================================================
