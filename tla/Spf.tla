-------------------------------- MODULE Spf --------------------------------
(***************************************************************************)
(* Reading a sender policy (spf.go): the record of the domain, and those it *)
(* pulls in, walked as a receiver would to count what that costs. A lookup  *)
(* of any of them may fail.                                                *)
(***************************************************************************)
EXTENDS Integers, SequencesExt, FiniteSetsExt

CONSTANTS
  SpfDomains,   \* names that may hold a policy
  Root,         \* the one that is asked about
  SpfZones,     \* what the names may hold: functions to [existed, policies]
  MaxLookups, MaxVoid, MaxDepth, MaxTerms \* maxLookups, maxVoidLookups, maxDepth, maxTerms

\* A term: the qualifier as written, the mechanism, and the name after it ("": none).
Mechanisms == {"all", "include", "redirect", "a", "ptr", "ip4"}
Terms == [written : {"", "+", "-", "~", "?"}, mechanism : Mechanisms, name : SpfDomains \cup {""}]

ASSUME SpfAssumption ==
  /\ Root \in SpfDomains
  /\ \A z \in SpfZones : \A d \in SpfDomains : z[d].existed \in BOOLEAN /\ z[d].policies \in Seq(Seq(Terms))
  /\ {MaxLookups, MaxVoid, MaxDepth, MaxTerms} \subseteq Nat

VARIABLES
  txt,         \* what the names hold
  frames,      \* the records being walked, outermost first
  seen,        \* walk.seen
  queries,     \* how many lookups this program made
  tally,       \* Facts
  walking      \* "start", "walk" or "done"

spfVars == <<txt, frames, seen, queries, tally, walking>>

SpfReasons == {"", "failed", "absent"}
SpfTypeOK ==
  /\ seen \subseteq SpfDomains /\ walking \in {"start", "walk", "done"}
  /\ \A i \in DOMAIN frames : frames[i].domain \in SpfDomains /\ frames[i].terms \in Seq(Terms) /\ Len(frames) <= MaxDepth + 1
  /\ tally.all \in {"", "+", "-", "~", "?"} /\ tally.reason \in SpfReasons
  /\ tally.records \in 0..2 /\ tally.lookups \in Nat /\ tally.void \in Nat /\ tally.unread \in Nat
  /\ tally.atLeast \in BOOLEAN /\ tally.ptr \in BOOLEAN /\ tally.includes \in Seq(SpfDomains)

NothingFound ==
  [records |-> 0, all |-> "", lookups |-> 0, void |-> 0, unread |-> 0, atLeast |-> FALSE, ptr |-> FALSE,
   includes |-> <<>>, reason |-> ""]
SpfInit ==
  /\ txt \in SpfZones
  /\ frames = <<>> /\ seen = {} /\ queries = 0
  /\ tally = NothingFound
  /\ walking = "start"

\* What recordFor makes of a name that answered.
One(d) == txt[d].existed /\ Len(txt[d].policies) = 1
Frame(d) == [domain |-> d, terms |-> Head(txt[d].policies), read |-> 0, redirect |-> ""]
\* evaluate returns at once for a record it has walked, and below MaxDepth.
Enter(stack, d) == IF d \in seen \/ Len(stack) > MaxDepth THEN stack ELSE Append(stack, Frame(d))

\* Check
Check ==
  /\ walking = "start"
  /\ queries' = 1
  /\ \/ tally' = [tally EXCEPT !.reason = "failed"] /\ walking' = "done" /\ UNCHANGED <<frames, seen>>
     \/ /\ ~txt[Root].existed
        /\ tally' = [tally EXCEPT !.reason = "absent"] /\ walking' = "done" /\ UNCHANGED <<frames, seen>>
     \/ /\ txt[Root].existed
        /\ tally' = [tally EXCEPT !.records = Len(txt[Root].policies)]
        /\ IF One(Root) THEN frames' = <<Frame(Root)>> /\ seen' = {Root} /\ walking' = "walk"
                        ELSE walking' = "done" /\ UNCHANGED <<frames, seen>>

Top == Last(frames)
Depth == Len(frames) - 1
WithTop(f) == Append(Front(frames), f)

\* follow: past the limit nothing more is resolved; a failed lookup is not a void one.
\* `counted` are the facts once the term was counted, `stack` the walk after it.
\* (Fault: a failed lookup is a void one as well.)
FollowTermVoid(name, counted, stack) ==
  /\ queries' = queries + 1
  /\ \/ /\ tally' = [counted EXCEPT !.unread = @ + 1, !.void = @ + 1, !.atLeast = TRUE]
        /\ frames' = stack /\ UNCHANGED seen
     \/ /\ ~One(name)
        /\ tally' = [counted EXCEPT !.void = @ + 1]
        /\ frames' = stack /\ UNCHANGED seen
     \/ /\ One(name)
        /\ tally' = counted
        /\ frames' = Enter(stack, name) /\ seen' = seen \cup {name}
\* (Fault: only what is reported stops at the limit.)
FollowTermOn(name, counted, stack) ==
  /\ queries' = queries + 1
  /\ \/ /\ tally' = [counted EXCEPT !.unread = @ + 1, !.atLeast = TRUE]
        /\ frames' = stack /\ UNCHANGED seen
     \/ /\ ~One(name)
        /\ tally' = [counted EXCEPT !.void = @ + 1]
        /\ frames' = stack /\ UNCHANGED seen
     \/ /\ One(name)
        /\ tally' = counted
        /\ frames' = Enter(stack, name) /\ seen' = IF Len(stack) > MaxDepth THEN seen ELSE seen \cup {name}
FollowTerm(name, counted, stack) ==
  \/ /\ counted.lookups > MaxLookups
     /\ tally' = [counted EXCEPT !.atLeast = TRUE]
     /\ frames' = stack /\ UNCHANGED <<seen, queries>>
  \/ counted.lookups <= MaxLookups /\ FollowTermOn(name, counted, stack)

Remember(list, name) == IF Len(list) >= MaxTerms \/ Contains(list, name) THEN list ELSE Append(list, name)
Counted(name) == [tally EXCEPT !.lookups = @ + 1, !.includes = Remember(@, name)]

\* split: no qualifier means pass, so a bare "all" lets everybody send.
Qualifier(t) == IF t.written = "" THEN "+" ELSE t.written

\* One term of the record on top.
Term ==
  /\ walking = "walk" /\ Top.terms # <<>> /\ Top.read < MaxTerms
  /\ LET t == Head(Top.terms)
         rest == [Top EXCEPT !.terms = Tail(@), !.read = @ + 1]
     IN  IF t.mechanism = "include" /\ t.name # "" THEN FollowTerm(t.name, Counted(t.name), WithTop(rest))
         ELSE /\ frames' = WithTop(IF t.mechanism = "redirect" /\ t.name # "" THEN [rest EXCEPT !.redirect = t.name] ELSE rest)
              /\ tally' = CASE t.mechanism = "all" /\ Depth = 0 /\ tally.all = "" -> [tally EXCEPT !.all = Qualifier(t)]
                            [] t.mechanism \in {"a", "include"} -> [tally EXCEPT !.lookups = @ + 1]
                            [] t.mechanism = "ptr" -> [tally EXCEPT !.lookups = @ + 1, !.ptr = TRUE]
                            [] OTHER -> tally
              /\ UNCHANGED <<seen, queries>>
  /\ UNCHANGED walking

\* A record too long to be read to its end is left there, its redirect too.
TooLong == /\ walking = "walk" /\ Top.terms # <<>> /\ Top.read >= MaxTerms
           /\ frames' = Front(frames) /\ walking' = IF Depth = 0 THEN "done" ELSE walking
           /\ UNCHANGED <<seen, queries, tally>>

\* The end of a record: its redirect, if the domain's own record had no all so far.
EndOfRecord ==
  /\ walking = "walk" /\ Top.terms = <<>>
  /\ IF Top.redirect # "" /\ tally.all = ""
     THEN FollowTerm(Top.redirect, Counted(Top.redirect), WithTop([Top EXCEPT !.redirect = ""])) /\ UNCHANGED walking
     ELSE /\ frames' = Front(frames)
          /\ walking' = IF Depth = 0 THEN "done" ELSE walking
          /\ UNCHANGED <<seen, queries, tally>>

SpfNext == (Check \/ Term \/ TooLong \/ EndOfRecord) /\ UNCHANGED txt

SpfSpec == SpfInit /\ [][SpfNext]_spfVars
-----------------------------------------------------------------------------

LookupLimit == tally.lookups > MaxLookups
VoidLimit == tally.void > MaxVoid

\* What the records say is the domain's all: the first of its own record.
OwnAll ==
  LET policy == txt[Root].policies[1]
      alls == {i \in DOMAIN policy \cap 1..MaxTerms : policy[i].mechanism = "all"}
  IN  IF alls = {} THEN "" ELSE Qualifier(policy[Min(alls)])

\* However the policies of strangers pull one another in, a walk makes "at most
\* one query for each of the lookups a receiver would make, and one more for the
\* record itself" (follow), within the limit; a policy that could not be read is
\* never counted as one that is not there, and leaves the count a lower bound; and
\* the all that is reported is the domain's own, whatever it includes.
WalkIsBounded ==
  /\ queries <= MaxLookups + 1
  /\ queries <= tally.lookups + 1
  /\ tally.unread > 0 => tally.atLeast
  /\ tally.void + tally.unread <= tally.lookups
  /\ walking = "done" /\ tally.records = 1 => tally.all = OwnAll
  /\ walking = "done" /\ tally.reason = "" /\ tally.atLeast => LookupLimit \/ tally.unread > 0
=============================================================================
