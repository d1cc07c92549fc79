------------------------------ MODULE StsPolicy ------------------------------
(***************************************************************************)
(* One fetch of an MTA-STS policy file (mtasts.go): the request, the reading *)
(* of its body line by line, and which exchangers the policy covers. A name *)
(* is a sequence of labels, as cleanName leaves it.                          *)
(***************************************************************************)
EXTENDS Integers, SequencesExt, FiniteSetsExt

CONSTANTS
  PolicyLines,  \* lines of a body: records of a key and a value; a line without a key is none
  MaxBody,      \* bound on the lines of a body
  MaxNames      \* maxNames: how many mx lines are kept

PolicyModes == {"enforce", "testing", "none"}
Once == {"version", "mode", "max_age"}

ASSUME StsAssumption ==
  /\ MaxBody \in Nat /\ MaxNames \in Nat \ {0}
  /\ \A l \in PolicyLines : l.key \in Once \cup {"mx"}

VARIABLES
  body,     \* the lines read so far
  given,    \* seen: the keys that may be given only once, as found
  declared, \* the value of each of them
  allowed,  \* out.MX
  overlong, \* out.MXTruncated
  fetched   \* what Fetch says

stsVars == <<body, given, declared, allowed, overlong, fetched>>

FetchOutcomes == {"not-begun", "reading", "not-fetched", "invalid", "policy"}

StsTypeOK ==
  /\ body \in Seq(PolicyLines) /\ Len(body) <= MaxBody
  /\ given \in SUBSET Once /\ DOMAIN declared = given
  /\ Len(allowed) <= MaxNames
  /\ overlong \in BOOLEAN /\ fetched \in FetchOutcomes

StsInit ==
  /\ body = <<>>
  /\ given = {}
  /\ declared = <<>>
  /\ allowed = <<>>
  /\ overlong = FALSE
  /\ fetched = "not-begun"

\* Fetch, client: over TLS that is trusted, no redirect followed, status 200 and a
\* body that can be read; one longer than maxBody is not looked at.
FetchPolicy ==
  /\ fetched = "not-begun"
  /\ fetched' \in {"not-fetched", "invalid", "reading"}
  /\ UNCHANGED <<body, given, declared, allowed, overlong>>

\* One turn of the loop in parse. The mx lines beyond the limit are dropped, and
\* that they were is kept; a name of which nothing is left is no name.
\* (Fault: the last of two lines is believed.)
Valid(line) ==
  CASE line.key = "mode" -> line.value \in PolicyModes
    [] line.key = "max_age" -> line.value \in Nat
    [] OTHER -> TRUE
Take(line) ==
  \/ /\ line.key = "mx"
     /\ overlong' = (overlong \/ Len(allowed) >= MaxNames)
     /\ allowed' = IF Len(allowed) >= MaxNames \/ line.value = <<>> THEN allowed ELSE Append(allowed, line.value)
     /\ UNCHANGED <<given, declared, fetched>>
  \/ /\ line.key # "mx"
     /\ Valid(line)
     /\ given' = given \cup {line.key}
     /\ declared' = [k \in given' |-> IF k = line.key THEN line.value ELSE declared[k]]
     /\ UNCHANGED <<allowed, overlong, fetched>>
  \/ /\ line.key # "mx"
     /\ ~Valid(line)
     /\ fetched' = "invalid"
     /\ UNCHANGED <<given, declared, allowed, overlong>>
ReadLineTwice ==
  /\ fetched = "reading" /\ Len(body) < MaxBody
  /\ \E line \in PolicyLines : body' = Append(body, line) /\ Take(line)
ReadLine ==
  /\ fetched = "reading" /\ Len(body) < MaxBody
  /\ \E line \in PolicyLines :
       /\ body' = Append(body, line)
       /\ \/ line.key \notin given /\ Take(line)
          \/ line.key \in given /\ fetched' = "invalid" /\ UNCHANGED <<given, declared, allowed, overlong>>

\* The last rules of parse, over the whole body.
EndOfBody ==
  /\ fetched = "reading"
  /\ fetched' = IF /\ given = Once
                   /\ declared["version"] = "STSv1"
                   /\ declared["mode"] = "none" \/ allowed # <<>> \/ overlong
                THEN "policy" ELSE "invalid"
  /\ UNCHANGED <<body, given, declared, allowed, overlong>>

StsNext == FetchPolicy \/ ReadLine \/ EndOfBody

StsSpec == StsInit /\ [][StsNext]_stsVars

\* Covers: the name itself, or one label under a wildcard.
Covers(patterns, host) ==
  host # <<>> /\ \E p \in patterns : p = host \/ (Head(p) = "*" /\ Len(p) > 1 /\ Tail(host) = Tail(p))
-----------------------------------------------------------------------------

\* A policy is one that every sender reads alike: however its lines are ordered,
\* each of the three is there exactly once, and says what is graded ("a file that
\* says two things about one of them says nothing a sender can act on"); and every
\* name it gives is kept unless it says that some were not.
PolicyReadsOneWay ==
  LET of(key) == {i \in DOMAIN body : body[i].key = key}
      names == {body[i].value : i \in of("mx")} \ {<<>>}
  IN  fetched = "policy" =>
        /\ \A key \in Once : \E i \in of(key) : of(key) = {i} /\ declared[key] = body[i].value
        /\ declared["version"] = "STSv1"
        /\ declared["mode"] # "none" => allowed # <<>> \/ overlong
        /\ ToSet(allowed) \subseteq names
        /\ overlong \/ ToSet(allowed) = names
=============================================================================
