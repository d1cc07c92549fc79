-------------------------------- MODULE Dial --------------------------------
(***************************************************************************)
(* One call of the dialler every scan connects through (safedial.go):      *)
(* resolve the name, order and cut the list of its addresses, judge each   *)
(* and dial those that may be dialled, within one budget of time.          *)
(***************************************************************************)
EXTENDS Integers, SequencesExt

CONSTANTS
  Addresses,   \* records with a family and with what checkAddr says: public or not
  Limit,       \* maxAddrs
  MaxAnswer    \* bound: how many addresses a name has

Families == {"IPv4", "IPv6"}

ASSUME DialAssumption ==
  /\ \A a \in Addresses : a.family \in Families /\ a.public \in BOOLEAN
  /\ Limit \in Nat \ {0}
  /\ MaxAnswer \in Nat

VARIABLES
  resolved,    \* what the resolver returned
  candidates,  \* the addresses not looked at yet
  blocked, dialErr, \* whether either is set
  attempted,   \* the addresses dialled, in order
  result       \* what the call returned

dialVars == <<resolved, candidates, blocked, dialErr, attempted, result>>

\* SingleFamilyError is the result that names a family.
Results == {"unbegun", "looking", "connected", "blocked", "unresolved", "late", "failed"} \cup Families

DialTypeOK ==
  /\ resolved \in Seq(Addresses) /\ candidates \in Seq(Addresses) /\ attempted \in Seq(Addresses)
  /\ Len(resolved) <= MaxAnswer /\ Len(candidates) <= Limit
  /\ blocked \in BOOLEAN /\ dialErr \in BOOLEAN
  /\ result \in Results

DialInit ==
  /\ resolved = <<>>
  /\ candidates = <<>>
  /\ blocked = FALSE
  /\ dialErr = FALSE
  /\ attempted = <<>>
  /\ result = "unbegun"

\* Of a list, the addresses of a set in their order: read one after another.
Chosen(addrs, S) ==
  LET chosen[n \in 0 .. Len(addrs)] ==
        IF n = 0 THEN <<>> ELSE IF addrs[n] \in S THEN Append(chosen[n - 1], addrs[n]) ELSE chosen[n - 1]
  IN  chosen
Only(addrs, S) == Chosen(addrs, S)[Len(addrs)]

Public == {a \in Addresses : a.public}
OfFamily(f, addrs) == Only(addrs, {a \in Addresses : a.family = f})
FirstOf(addrs, n) == SubSeq(addrs, 1, IF Len(addrs) < n THEN Len(addrs) ELSE n)
After(addrs, n) == SubSeq(addrs, n + 1, Len(addrs))

\* A list within the limit stands as it is; a longer one is cut after its
\* families were made to alternate.
\* (Fault: cut as the resolver ordered it.)
CutAsResolved(addrs) == FirstOf(addrs, Limit)
InterleaveFamilies(addrs) ==
  LET v4 == OfFamily("IPv4", addrs)
      v6 == OfFamily("IPv6", addrs)
      pairs == IF Len(v4) < Len(v6) THEN Len(v4) ELSE Len(v6)
      alternating == [i \in 1 .. 2 * pairs |-> IF i % 2 = 1 THEN v4[(i + 1) \div 2] ELSE v6[i \div 2]]
  IN  IF Len(addrs) <= Limit THEN addrs ELSE FirstOf(alternating \o After(v4, pairs) \o After(v6, pairs), Limit)

\* What is wrong with the host or the port is said before anything is resolved.
Begin ==
  /\ result = "unbegun"
  /\ \/ result' = "blocked" /\ UNCHANGED <<resolved, candidates>>
     \/ result' = "unresolved" /\ UNCHANGED <<resolved, candidates>>
     \/ \E addrs \in BoundedSeq(Addresses, MaxAnswer) \ {<<>>} :
          /\ resolved' = addrs
          /\ candidates' = InterleaveFamilies(addrs)
          /\ result' = "looking"
  /\ UNCHANGED <<blocked, dialErr, attempted>>

\* The time for all of it is over: no attempt is started.
OutOfTime ==
  /\ result = "looking"
  /\ candidates # <<>>
  /\ result' = "late"
  /\ UNCHANGED <<resolved, candidates, blocked, dialErr, attempted>>

\* One turn of the loop. What is judged is what is dialled.
Turn ==
  /\ result = "looking"
  /\ candidates # <<>>
  /\ candidates' = Tail(candidates)
  /\ \/ /\ ~Head(candidates).public
        /\ blocked' = TRUE
        /\ UNCHANGED <<dialErr, attempted, result>>
     \/ /\ Head(candidates).public
        /\ attempted' = Append(attempted, Head(candidates))
        /\ UNCHANGED blocked
        /\ \/ dialErr' = TRUE /\ UNCHANGED result
           \/ result' = "connected" /\ UNCHANGED dialErr
  /\ UNCHANGED resolved

\* soleFamily: the one family of everything that was attempted.
Sole(addrs, f) == addrs # <<>> /\ OfFamily(f, addrs) = addrs

\* Every candidate was refused, or none answered. (Nothing is left for the error
\* at the very end of the code: one of the two is set once an address was seen.)
GiveUp ==
  /\ result = "looking"
  /\ candidates = <<>>
  /\ \/ ~dialErr /\ blocked /\ result' = "blocked"
     \/ dialErr /\ \E f \in Families : Sole(attempted, f) /\ result' = f
     \/ dialErr /\ ~(\E f \in Families : Sole(attempted, f)) /\ result' = "failed"
  /\ UNCHANGED <<resolved, candidates, blocked, dialErr, attempted>>

DialNext == Begin \/ OutOfTime \/ Turn \/ GiveUp

DialSpec == DialInit /\ [][DialNext]_dialVars
-----------------------------------------------------------------------------

\* What the call says is what happened. An error that blames the destination
\* means that nothing was dialled and nothing could have been; one that blames a
\* family means that no candidate of the other could have been dialled ("an
\* address refused by policy was never given the chance to answer"); and nothing
\* that is not public is ever dialled.
ErrorIsWhatHappened ==
  LET usable == Only(InterleaveFamilies(resolved), Public)
  IN  /\ \A i \in DOMAIN attempted : attempted[i].public
      /\ result = "blocked" => attempted = <<>> /\ usable = <<>>
      /\ result \in Families => attempted = usable /\ Sole(usable, result)
      /\ result = "failed" => attempted = usable /\ \A f \in Families : ~Sole(usable, f)

\* "A budget of eight always carries at least four of each, wherever the resolver
\* put them" (interleaveFamilies): a call that gives up has tried, of either
\* family, whatever may be dialled among its first Limit \div 2 addresses, and
\* everything if the name has no more addresses than that.
BothFamiliesAreTried ==
  result \in Families \cup {"failed"} =>
    LET due == IF Len(resolved) <= Limit THEN ToSet(resolved)
               ELSE UNION {ToSet(FirstOf(OfFamily(f, resolved), Limit \div 2)) : f \in Families}
    IN  \A a \in due : a.public => a \in ToSet(attempted)

\* A call that gives up tried what it owes either family, and blames what failed.
GivesUpForAReason == ErrorIsWhatHappened /\ BothFamiliesAreTried
=============================================================================
