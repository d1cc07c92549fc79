-------------------------------- MODULE Dkim --------------------------------
(***************************************************************************)
(* The DKIM keys at the selectors a deployment asks about (dkim.go and       *)
(* selectors.go). A record is what its tags come to.                          *)
(***************************************************************************)
EXTENDS Integers, SequencesExt

CONSTANTS
  Selectors,     \* [name, named]: the operator's, then the documented ones
  MaxSelectors   \* maxSelectors

ASSUME DkimAssumption ==
  /\ MaxSelectors \in Nat \ {0}
  /\ \A i \in DOMAIN Selectors : Selectors[i].named \in BOOLEAN

WeakKeyBits == 1024

\* Check: the list is cut first, and a name asked once, as it stood first.
SelectorsAsked ==
  LET cut == SubSeq(Selectors, 1, IF Len(Selectors) < MaxSelectors THEN Len(Selectors) ELSE MaxSelectors)
  IN  {cut[i] : i \in {j \in DOMAIN cut : cut[j].name # "" /\ \A k \in 1..(j - 1) : cut[k].name # cut[j].name}}

\* parseTags, isKey: what says it is a key is one; what says nothing is one if it has
\* a key in it. p is absent, empty, or the key; rsa says whether that is an RSA key.
IsKey(record) == IF record.version = "" THEN record.p # "absent" ELSE record.version = "DKIM1"

RsaBits(record) == IF record.rsa THEN record.bits ELSE 0

\* read: the first record that is a key decides; Weak.
NoKeyAt(selector) ==
  [name |-> selector.name, named |-> selector.named, reason |-> "", found |-> FALSE, revoked |-> FALSE,
   testing |-> FALSE, bits |-> 0, weak |-> FALSE]
Unread(selector) == [NoKeyAt(selector) EXCEPT !.reason = "unread"]
ReadKey(selector, records) ==
  LET keys == SelectSeq(records, IsKey)
      key == Head(keys)
      bits == IF key.p = "key" THEN RsaBits(key) ELSE 0
  IN  IF keys = <<>> THEN NoKeyAt(selector)
      ELSE [NoKeyAt(selector) EXCEPT !.found = TRUE, !.revoked = (key.p = "empty"), !.testing = key.testing,
                                   !.bits = bits, !.weak = (key.p # "empty" /\ bits \in 1..(WeakKeyBits - 1))]
=============================================================================
