------------------------------- MODULE Names -------------------------------
(***************************************************************************)
(* Reading one name out of a reply (parse.go, readName): a name may point   *)
(* back into the message, every byte of which somebody else chose.          *)
(***************************************************************************)
EXTENDS Integers, SequencesExt, FiniteSets

CONSTANTS
  Bytes,        \* the bytes a message is made of here
  MessageLength, \* bound: how long a message is
  MaxLabel, MaxName, MaxPointers \* maxLabel, maxName, maxPointers

\* The two high bits of a byte mark a pointer; one alone is no length at all.
Pointer == 192
IsPointer(b) == b >= Pointer

ASSUME NamesAssumption ==
  /\ Bytes \subseteq 0..255
  /\ MessageLength \in Nat /\ MaxLabel \in 1..63 /\ MaxName \in Nat /\ MaxPointers \in Nat

VARIABLES
  raw,      \* the message
  began,    \* where the name starts
  offset,   \* where the reader is
  start,    \* where the record continues, once a pointer was followed
  pointers, length, name,
  reading,  \* "reading", "read" or "refused"
  next      \* where readName says the record continues

namesVars == <<raw, began, offset, start, pointers, length, name, reading, next>>

NamesTypeOK ==
  /\ raw \in [0..(MessageLength - 1) -> Bytes]
  /\ began \in 0..MessageLength /\ offset \in 0..MessageLength
  /\ start \in 0..MessageLength /\ next \in 0..MessageLength
  /\ pointers \in 0..MaxPointers /\ length \in 0..MaxName
  /\ Len(name) <= MaxName + 1
  /\ reading \in {"reading", "read", "refused"}

NamesInit ==
  /\ raw \in [0..(MessageLength - 1) -> Bytes]
  /\ began \in 0..MessageLength
  /\ offset = began /\ start = began
  /\ pointers = 0 /\ length = 0 /\ name = <<>>
  /\ reading = "reading"
  /\ next = 0

Byte == raw[offset]
InMessage(n) == n <= MessageLength

RefuseName ==
  /\ reading' = "refused"
  /\ UNCHANGED <<offset, start, pointers, length, name, next>>

\* The root label: the name in the record ended at the first pointer, if any.
EndName ==
  /\ Byte = 0
  /\ name' = Append(name, 0)
  /\ next' = IF pointers > 0 THEN start ELSE offset + 1
  /\ reading' = "read"
  /\ UNCHANGED <<offset, start, pointers, length>>

Target == (Byte - Pointer) * 256 + raw[offset + 1]
FollowPointer ==
  /\ IsPointer(Byte)
  /\ IF InMessage(offset + 2) /\ Target < offset /\ pointers < MaxPointers
     THEN /\ pointers' = pointers + 1
          /\ start' = IF pointers = 0 THEN offset + 2 ELSE start
          /\ offset' = Target
          /\ UNCHANGED <<length, name, reading, next>>
     ELSE RefuseName

ReadLabel ==
  /\ Byte \in 1..MaxLabel
  /\ IF length + Byte + 1 <= MaxName /\ InMessage(offset + 1 + Byte)
     THEN /\ length' = length + Byte + 1
          /\ name' = name \o [i \in 1..(Byte + 1) |-> raw[offset + i - 1]]
          /\ offset' = offset + 1 + Byte
          /\ UNCHANGED <<start, pointers, reading, next>>
     ELSE RefuseName

NamesNext ==
  /\ reading = "reading"
  /\ \/ ~InMessage(offset + 1) /\ RefuseName
     \/ InMessage(offset + 1) /\ (EndName \/ FollowPointer \/ ReadLabel)
     \/ InMessage(offset + 1) /\ Byte \in (MaxLabel + 1)..(Pointer - 1) /\ RefuseName
  /\ UNCHANGED <<raw, began>>
-----------------------------------------------------------------------------

\* The bytes a name takes up where it stands, read on without following
\* anything: up to its first pointer or its root label.
RECURSIVE Ends(_)
Ends(at) ==
  CASE at >= MessageLength -> {}
    [] raw[at] = 0 -> {at + 1}
    [] IsPointer(raw[at]) -> {at + 2}
    [] OTHER -> Ends(at + 1 + raw[at])

\* Wherever its pointers lead, a name is read to the end, and the record goes on
\* exactly where the name stops standing in it: a reader that goes on elsewhere
\* takes one field for another (parseReply: "how a parser is made to read one
\* field as another").
RecordGoesOnAfterIt == reading = "read" => Ends(began) = {next} /\ Last(name) = 0 /\ Len(name) = length + 1
=============================================================================
