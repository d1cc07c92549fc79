----------------------------- MODULE GateProofs -----------------------------
(***************************************************************************)
(* Proofs about an installation behind a password: its gate, for every      *)
(* number of handlers, passwords, tokens and keys, every session life and  *)
(* table size, and what it keeps on disk, for any bounds.                  *)
(*                                                                         *)
(* The gate: the slot belongs to exactly the handler that is between   *)
(* TakeSlot and its answer (SlotDiscipline), so the access file cannot     *)
(* change between a handler's read of it and its use of what it read       *)
(* (ReadIsCurrent). A session is therefore added under the seal in force,  *)
(* and a change is the only step that makes older sessions; it is followed *)
(* by the step that ends them before anyone else gets the slot.            *)
(***************************************************************************)
EXTENDS Gate, Installation, FiniteSetTheorems, WellFoundedInduction, TLAPS

\* A handler is between TakeSlot and its answer exactly when the slot is its.
SlotDiscipline == \A h \in Handlers : pc[h] \in Holding <=> slot = h

\* What a handler read is what the file still holds, until it replaces it.
ReadIsCurrent ==
  \A h \in Handlers :
    /\ pc[h] = "unlocked" => read[h] = file
    /\ pc[h] = "saved" => changer = req[h].cookie

\* A process that does not run holds nothing.
DownIsEmpty ==
  ~up => /\ key = NoKey
         /\ Open = {}
         /\ \A h \in Handlers : pc[h] = "idle"

SealsAreOld == \A t \in Open : sessions[t].seal <= file.seal

IInv ==
  /\ TypeOK
  /\ SlotDiscipline
  /\ ReadIsCurrent
  /\ DownIsEmpty
  /\ SealsAreOld
  /\ KeyIsTheFiles
  /\ OldPasswordSessionsEnd

-----------------------------------------------------------------------------

\* Every step keeps the types: the state of Gate stays within TypeOK.
LEMMA TypeStep == TypeOK /\ [Next]_vars => TypeOK'
  <1> SUFFICES ASSUME TypeOK, [Next]_vars PROVE TypeOK'
    OBVIOUS
  <1> USE GateAssumption DEF TypeOK, AccessFile, Request, Session, Holding, Open, Only
  <1>1. ASSUME NEW t \in Tokens, ExpireOnUse(t) PROVE TypeOK'
    BY <1>1 DEF ExpireOnUse
  <1>2. ASSUME NEW t \in Tokens, SignOut(t) PROVE TypeOK'
    BY <1>2 DEF SignOut
  <1>3. ASSUME NEW h \in Handlers, NEW p \in Passwords, ReceiveSignIn(h, p) PROVE TypeOK'
    BY <1>3 DEF ReceiveSignIn
  <1>4. ASSUME NEW h \in Handlers, NEW t \in Tokens, NEW p \in Passwords, NEW n \in Passwords,
               ReceiveChange(h, t, p, n) PROVE TypeOK'
    BY <1>4 DEF ReceiveChange, Live
  <1>5. ASSUME NEW h \in Handlers, TakeSlot(h) PROVE TypeOK'
    BY <1>5 DEF TakeSlot
  <1>6. ASSUME NEW h \in Handlers, Busy(h) PROVE TypeOK'
    BY <1>6 DEF Busy, Answer
  <1>7. ASSUME NEW h \in Handlers, Unlock(h) PROVE TypeOK'
    BY <1>7 DEF Unlock
  <1>8. ASSUME NEW h \in Handlers, Refuse(h) PROVE TypeOK'
    BY <1>8 DEF Refuse, Answer
  <1>9. ASSUME NEW h \in Handlers, SaveFile(h) PROVE TypeOK'
    BY <1>9 DEF SaveFile
  <1>10. ASSUME NEW h \in Handlers, KeepOnly(h) PROVE TypeOK'
    BY <1>10 DEF KeepOnly, Answer
  <1>11. ASSUME NEW h \in Handlers, NEW t \in Tokens, OpenSession(h, t) PROVE TypeOK'
    BY <1>11 DEF OpenSession, Answer, KeptForOneMore, Unexpired, Live
  <1>12. CASE Tick
    BY <1>12 DEF Tick
  <1>13. CASE Stop
    BY <1>13 DEF Stop
  <1>14. CASE Start
    BY <1>14 DEF Start
  <1>15. ASSUME NEW p \in Passwords, NEW k \in Keys, Recreate(p, k) PROVE TypeOK'
    BY <1>15 DEF Recreate
  <1>16. CASE UNCHANGED vars
    BY <1>16 DEF vars
  <1>17. QED
    BY <1>1, <1>2, <1>3, <1>4, <1>5, <1>6, <1>7, <1>8, <1>9, <1>10, <1>11, <1>12,
       <1>13, <1>14, <1>15, <1>16 DEF Next, Work

LEMMA TypeInit == Init => TypeOK
  BY GateAssumption DEF Init, TypeOK, AccessFile, Session, Open, Holding

\* Every reachable state of the gate is well typed: in particular a handler that
\* opens a session or saves a file holds what it read from the access file.
THEOREM TypeCorrect == Spec => []TypeOK
  BY TypeInit, TypeStep, PTL DEF Spec

-----------------------------------------------------------------------------

LEMMA InvInit == Init => IInv
  <1> SUFFICES ASSUME Init PROVE IInv
    OBVIOUS
  <1>1. TypeOK
    BY TypeInit
  <1>2. Open = {}
    BY DEF Init, Open
  <1>3. QED
    BY <1>1, <1>2, GateAssumption
    DEF Init, IInv, SlotDiscipline, ReadIsCurrent, DownIsEmpty, SealsAreOld,
        KeyIsTheFiles, OldPasswordSessionsEnd, Holding

\* The parts of IInv that do not mention the session table, one step at a time.
LEMMA HandlerStep ==
  ASSUME IInv, [Next]_vars
  PROVE  SlotDiscipline' /\ ReadIsCurrent' /\ KeyIsTheFiles'
  <1> USE GateAssumption
      DEF IInv, TypeOK, SlotDiscipline, ReadIsCurrent, DownIsEmpty, KeyIsTheFiles, Holding, AccessFile
  <1>1. ASSUME NEW t \in Tokens, ExpireOnUse(t) \/ SignOut(t)
        PROVE  SlotDiscipline' /\ ReadIsCurrent' /\ KeyIsTheFiles'
    BY <1>1 DEF ExpireOnUse, SignOut
  <1>2. ASSUME NEW h \in Handlers, NEW p \in Passwords, ReceiveSignIn(h, p)
        PROVE  SlotDiscipline' /\ ReadIsCurrent' /\ KeyIsTheFiles'
    BY <1>2 DEF ReceiveSignIn
  <1>3. ASSUME NEW h \in Handlers, NEW t \in Tokens, NEW p \in Passwords, NEW n \in Passwords,
               ReceiveChange(h, t, p, n)
        PROVE  SlotDiscipline' /\ ReadIsCurrent' /\ KeyIsTheFiles'
    BY <1>3 DEF ReceiveChange
  <1>4. ASSUME NEW h \in Handlers, TakeSlot(h)
        PROVE  SlotDiscipline' /\ ReadIsCurrent' /\ KeyIsTheFiles'
    BY <1>4 DEF TakeSlot
  <1>5. ASSUME NEW h \in Handlers, Busy(h) \/ Refuse(h) \/ KeepOnly(h)
        PROVE  SlotDiscipline' /\ ReadIsCurrent' /\ KeyIsTheFiles'
    BY <1>5 DEF Busy, Refuse, KeepOnly, Answer
  <1>6. ASSUME NEW h \in Handlers, Unlock(h)
        PROVE  SlotDiscipline' /\ ReadIsCurrent' /\ KeyIsTheFiles'
    BY <1>6 DEF Unlock
  <1>7. ASSUME NEW h \in Handlers, SaveFile(h)
        PROVE  SlotDiscipline' /\ ReadIsCurrent' /\ KeyIsTheFiles'
    BY <1>7 DEF SaveFile
  <1>8. ASSUME NEW h \in Handlers, NEW t \in Tokens, OpenSession(h, t)
        PROVE  SlotDiscipline' /\ ReadIsCurrent' /\ KeyIsTheFiles'
    BY <1>8 DEF OpenSession, Answer
  <1>9. CASE Tick \/ Start \/ Stop
    BY <1>9 DEF Tick, Start, Stop
  <1>10. ASSUME NEW p \in Passwords, NEW k \in Keys, Recreate(p, k)
         PROVE  SlotDiscipline' /\ ReadIsCurrent' /\ KeyIsTheFiles'
    BY <1>10 DEF Recreate
  <1>11. CASE UNCHANGED vars
    BY <1>11 DEF vars
  <1>12. QED
    BY <1>1, <1>2, <1>3, <1>4, <1>5, <1>6, <1>7, <1>8, <1>9, <1>10, <1>11 DEF Next, Work

\* The parts of IInv about the session table.
LEMMA TableStep ==
  ASSUME IInv, [Next]_vars
  PROVE  DownIsEmpty' /\ SealsAreOld' /\ OldPasswordSessionsEnd'
  <1> USE GateAssumption
      DEF IInv, TypeOK, SlotDiscipline, ReadIsCurrent, DownIsEmpty, SealsAreOld,
          OldPasswordSessionsEnd, Holding, AccessFile, Session, Open, Only
  <1>1. ASSUME NEW t \in Tokens, ExpireOnUse(t) \/ SignOut(t)
        PROVE  DownIsEmpty' /\ SealsAreOld' /\ OldPasswordSessionsEnd'
    BY <1>1 DEF ExpireOnUse, SignOut
  <1>2. ASSUME NEW h \in Handlers, NEW p \in Passwords, ReceiveSignIn(h, p)
        PROVE  DownIsEmpty' /\ SealsAreOld' /\ OldPasswordSessionsEnd'
    BY <1>2 DEF ReceiveSignIn
  <1>3. ASSUME NEW h \in Handlers, NEW t \in Tokens, NEW p \in Passwords, NEW n \in Passwords,
               ReceiveChange(h, t, p, n)
        PROVE  DownIsEmpty' /\ SealsAreOld' /\ OldPasswordSessionsEnd'
    BY <1>3 DEF ReceiveChange
  <1>4. ASSUME NEW h \in Handlers, TakeSlot(h) \/ Busy(h) \/ Unlock(h) \/ Refuse(h)
        PROVE  DownIsEmpty' /\ SealsAreOld' /\ OldPasswordSessionsEnd'
    BY <1>4 DEF TakeSlot, Busy, Unlock, Refuse, Answer
  <1>5. ASSUME NEW h \in Handlers, SaveFile(h)
        PROVE  DownIsEmpty' /\ SealsAreOld' /\ OldPasswordSessionsEnd'
    BY <1>5 DEF SaveFile
  <1>6. ASSUME NEW h \in Handlers, KeepOnly(h)
        PROVE  DownIsEmpty' /\ SealsAreOld' /\ OldPasswordSessionsEnd'
    BY <1>6 DEF KeepOnly, Answer
  <1>7. ASSUME NEW h \in Handlers, NEW t \in Tokens, OpenSession(h, t)
        PROVE  DownIsEmpty' /\ SealsAreOld' /\ OldPasswordSessionsEnd'
    BY <1>7 DEF OpenSession, Answer, KeptForOneMore, Unexpired, Live
  <1>8. CASE Tick \/ Start \/ Stop
    BY <1>8 DEF Tick, Start, Stop
  <1>9. ASSUME NEW p \in Passwords, NEW k \in Keys, Recreate(p, k)
        PROVE  DownIsEmpty' /\ SealsAreOld' /\ OldPasswordSessionsEnd'
    BY <1>9 DEF Recreate
  <1>10. CASE UNCHANGED vars
    BY <1>10 DEF vars
  <1>11. QED
    BY <1>1, <1>2, <1>3, <1>4, <1>5, <1>6, <1>7, <1>8, <1>9, <1>10 DEF Next, Work

LEMMA InvStep == IInv /\ [Next]_vars => IInv'
  BY TypeStep, HandlerStep, TableStep DEF IInv

LEMMA Invariant == Spec => []IInv
  BY InvInit, InvStep, PTL DEF Spec

\* After a completed password change no session opened under an earlier password
\* is left, nor can one be added later, but for the session that made the change.
THEOREM OldPasswordsOpenNothing == Spec => []OldPasswordSessionsEnd
  <1>1. IInv => OldPasswordSessionsEnd
    BY DEF IInv
  <1>2. QED
    BY <1>1, Invariant, PTL

\* The key in memory is the one in the access file, across password changes,
\* restarts and re-creations of the file.
THEOREM KeyOpensWhatWasKept == Spec => []KeyIsTheFiles
  <1>1. IInv => KeyIsTheFiles
    BY DEF IInv
  <1>2. QED
    BY <1>1, Invariant, PTL

\* The derivation slot is never left behind by a handler that has answered.
THEOREM SlotNeverOrphaned == Spec => []SlotIsNotOrphaned
  <1>1. IInv => SlotIsNotOrphaned
    BY GateAssumption DEF IInv, TypeOK, SlotDiscipline, SlotIsNotOrphaned
  <1>2. QED
    BY <1>1, Invariant, PTL

-----------------------------------------------------------------------------

\* What a sign-in leaves has room for one more session.
LEMMA RoomForOneMore ==
  ASSUME TypeOK, NEW kept, KeptForOneMore(kept)
  PROVE  IsFiniteSet(kept) /\ Cardinality(kept) \in Nat /\ Cardinality(kept) < MaxSessions
  <1>1. kept \subseteq Tokens /\ Unexpired \subseteq Tokens
    BY DEF KeptForOneMore, Unexpired, TypeOK
  <1>2. IsFiniteSet(kept) /\ IsFiniteSet(Unexpired)
    BY <1>1, FS_Subset, GateAssumption
  <1>3. Cardinality(kept) \in Nat /\ Cardinality(Unexpired) \in Nat
    BY <1>2, FS_CardinalityType
  <1>4. QED
    BY <1>2, <1>3, GateAssumption DEF KeptForOneMore

\* Removing sessions does not make the table larger.
LEMMA FewerSessions ==
  ASSUME TypeOK, SessionsBounded, NEW S, S \subseteq Open
  PROVE  Cardinality(S) <= MaxSessions
  <1>1. IsFiniteSet(Open)
    BY FS_Subset, GateAssumption DEF TypeOK
  <1>2. Cardinality(Open) \in Nat /\ Cardinality(S) \in Nat /\ Cardinality(S) <= Cardinality(Open)
    BY <1>1, FS_Subset, FS_CardinalityType
  <1>3. QED
    BY <1>2, GateAssumption DEF SessionsBounded

LEMMA BoundStep == TypeOK /\ SessionsBounded /\ [Next]_vars => SessionsBounded'
  <1> SUFFICES ASSUME TypeOK, SessionsBounded, [Next]_vars PROVE SessionsBounded'
    OBVIOUS
  <1>1. CASE Open' \subseteq Open
    BY <1>1, FewerSessions DEF SessionsBounded
  <1>2. ASSUME NEW h \in Handlers, NEW t \in Tokens, OpenSession(h, t)
        PROVE  SessionsBounded'
    <2>1. PICK kept \in SUBSET Unexpired : KeptForOneMore(kept) /\ Open' = kept \cup {t}
      BY <1>2 DEF OpenSession, Open
    <2>2. IsFiniteSet(kept) /\ Cardinality(kept) \in Nat /\ Cardinality(kept) < MaxSessions
      BY <2>1, RoomForOneMore
    <2>3. Cardinality(kept \cup {t}) <= Cardinality(kept) + 1
      <3>1. Cardinality(kept \cup {t}) = IF t \in kept THEN Cardinality(kept)
                                                       ELSE Cardinality(kept) + 1
        BY <2>2, FS_AddElement
      <3>2. QED
        BY <3>1, <2>2
    <2>4. Cardinality(kept \cup {t}) \in Nat
      BY <2>2, FS_AddElement, FS_CardinalityType
    <2>5. QED
      BY <2>1, <2>2, <2>3, <2>4, GateAssumption DEF SessionsBounded
  <1>3. Open' \subseteq Open \/ \E h \in Handlers, t \in Tokens : OpenSession(h, t)
    BY DEF Next, Work, vars, Open, Only, ExpireOnUse, SignOut, ReceiveSignIn, ReceiveChange,
       TakeSlot, Busy, Unlock, Refuse, SaveFile, KeepOnly, Tick, Stop, Start, Recreate
  <1>4. QED
    BY <1>1, <1>2, <1>3

\* Every variable has its type, and the session table never holds more than
\* MaxSessions sessions.
THEOREM TableIsBounded == Spec => []GateTypeOK
  <1>1. Init => SessionsBounded
    BY FS_EmptySet, GateAssumption DEF Init, SessionsBounded, Open
  <1>2. Spec => []SessionsBounded
    BY <1>1, BoundStep, TypeCorrect, PTL DEF Spec
  <1>3. QED
    BY <1>2, TypeCorrect, PTL DEF GateTypeOK

-----------------------------------------------------------------------------

\* The sessions a sign-in ends for the one it adds: run out, or the first to end
\* in a full table.
LEMMA SignInEndsTheOldest ==
  ASSUME TypeOK, NEW h \in Handlers, NEW t \in Tokens, OpenSession(h, t),
         NEW s \in Open \ Open', ~(sessions[s].until <= now)
  PROVE  /\ Cardinality(Open) >= MaxSessions
         /\ \A u \in Open \cap Open' : sessions[s].until <= sessions[u].until
  <1>1. PICK kept \in SUBSET Unexpired : KeptForOneMore(kept) /\ Open' = kept \cup {t}
    BY DEF OpenSession, Open
  <1>2. t \notin Open
    BY DEF OpenSession, Fresh
  <1>3. s \in Unexpired \ kept
    <2>1. sessions[s] \in Session /\ now \in Nat /\ s \in Open /\ s \notin kept
      BY <1>1 DEF TypeOK
    <2>2. now < sessions[s].until
      BY <2>1 DEF Session
    <2>3. QED
      BY <2>1, <2>2 DEF Unexpired, Live
  <1>4. /\ Cardinality(Unexpired) >= MaxSessions
        /\ \A u \in kept : sessions[s].until <= sessions[u].until
    BY <1>1, <1>3 DEF KeptForOneMore
  <1>5. Cardinality(Open) >= Cardinality(Unexpired) /\ Cardinality(Open) \in Nat /\ Cardinality(Unexpired) \in Nat
    <2>1. Unexpired \subseteq Open /\ IsFiniteSet(Open)
      BY FS_Subset, GateAssumption DEF TypeOK, Unexpired
    <2>2. QED
      BY <2>1, FS_Subset, FS_CardinalityType
  <1>6. QED
    BY <1>1, <1>2, <1>4, <1>5, GateAssumption

\* Whatever happens to the table, a session makes room for another only when it has
\* run out, or when the table is full and it is among the first to end.
THEOREM OldestSessionFirst == Spec => OldestGoesFirst
  <1> DEFINE Goes ==
        Open' \ Open # {} =>
          \A s \in Open \ Open' :
            \/ sessions[s].until <= now
            \/ /\ Cardinality(Open) >= MaxSessions
               /\ \A t \in Open \cap Open' : sessions[s].until <= sessions[t].until
  <1>1. TypeOK /\ [Next]_vars => [Goes]_vars
    <2> SUFFICES ASSUME TypeOK, Next PROVE Goes
      BY DEF Goes
    <2>1. CASE Open' \subseteq Open
      BY <2>1
    <2>2. ASSUME NEW h \in Handlers, NEW t \in Tokens, OpenSession(h, t) PROVE Goes
      BY <2>2, SignInEndsTheOldest
    <2>3. Open' \subseteq Open \/ \E h \in Handlers, t \in Tokens : OpenSession(h, t)
      BY DEF Next, Work, Open, Only, ExpireOnUse, SignOut, ReceiveSignIn, ReceiveChange,
         TakeSlot, Busy, Unlock, Refuse, SaveFile, KeepOnly, Tick, Stop, Start, Recreate
    <2>4. QED
      BY <2>1, <2>2, <2>3
  <1>2. QED
    BY <1>1, TypeCorrect, PTL DEF Spec, OldestGoesFirst

(***************************************************************************)
(* Keeping. One key is in use at a time, and what another sealed is aside   *)
(* before it exists; so what is in place opens, and what a step removes is  *)
(* in place. The reports of the one key are in the order of their numbers,  *)
(* so that past the newest that the bound takes are those it leaves.        *)
(***************************************************************************)

\* A set of numbers up to n that is not empty has a last one.
LEMMA TheLast ==
  ASSUME NEW n \in Nat, NEW S, S \subseteq 1 .. n, S # {}
  PROVE  \E m \in S : \A k \in S : k <= m
<1> DEFINE T == {n - k : k \in S}
           R == OpToRel(<, Nat)
<1>1. T \subseteq Nat /\ T # {}
  <2>1. ASSUME NEW k \in S PROVE n - k \in Nat
    <3>1. k \in 1 .. n
      BY ONLY S \subseteq 1 .. n, k \in S
    <3> QED
      BY ONLY <3>1, n \in Nat
  <2> QED
    BY <2>1
<1>2. IsWellFoundedOn(R, Nat)
  BY NatLessThanWellFounded
<1>3. \A x, y \in Nat : x < y => <<x, y>> \in R
  BY DEF OpToRel
<1>4. \E x \in T : \A y \in T : <<y, x>> \notin R
  <2> HIDE DEF T, R
  <2> QED
    BY <1>1, <1>2, WFMin
<1>5. PICK x \in T : \A y \in T : ~(y < x)
  <2> HIDE DEF R
  <2> QED
    BY <1>1, <1>3, <1>4
<1>6. PICK m \in S : x = n - m
  OBVIOUS
<1>7. ASSUME NEW k \in S PROVE k <= m
  <2>1. n - k \in T
    OBVIOUS
  <2>2. k \in Int /\ m \in Int
    BY ONLY S \subseteq 1 .. n, k \in S, m \in S
  <2>3. ~(n - k < n - m)
    BY <1>5, <1>6, <2>1
  <2> QED
    BY ONLY <2>2, <2>3, n \in Nat
<1> QED
  BY <1>7

\* The keys that what a directory and a list hold is sealed under.
KeysIn(h, d) == {h[r].key : r \in ReportsIn(h)} \cup (IF d = Absent THEN {} ELSE {d.key})
PlaceKeys == KeysIn(history, domains)
FolderKeys(f) == KeysIn(retired[f].history, retired[f].domains)
RetiredKeys == UNION {FolderKeys(f) : f \in DOMAIN retired}
RetiredSealed == UNION {SealedIn(retired[f].history, retired[f].domains) : f \in DOMAIN retired}

DiskTypes ==
  /\ day \in 0 .. MaxDay /\ keys \in Nat /\ made \in 0 .. MaxReports
  /\ access \in {Absent} \cup [key : 1 .. keys, usable : BOOLEAN]
  /\ history # Absent => DOMAIN history \subseteq 1 .. made /\ history \in [DOMAIN history -> Report]
  /\ domains \in {Absent} \cup DomainList
  /\ retired = [f \in DOMAIN retired |-> [history |-> retired[f].history, domains |-> retired[f].domains]]

\* One key is in use: of the access file, in memory, and of what is in place. The
\* keys of what was put aside are never used again.
OneKeyInUse ==
  /\ PlaceKeys \cup RetiredKeys \subseteq 0 .. keys
  /\ access # Absent => PlaceKeys \subseteq {access.key} /\ access.key \notin RetiredKeys
  /\ vaultKey # NoVaultKey => /\ phase = "up" /\ vaultKey \in 1 .. keys
                              /\ PlaceKeys \subseteq {vaultKey} /\ vaultKey \notin RetiredKeys
                              /\ access # Absent => access.key = vaultKey
  /\ removing # {} => vaultKey # NoVaultKey

\* A new key is made only when nothing is left in place, and what is moved has a
\* folder of its own.
AsideFirst ==
  /\ phase \in {"down", "retire", "create", "write", "up"}
  /\ phase \in {"retire", "create"} => access = Absent
  /\ phase \in {"create", "write"} => history = Absent /\ domains = Absent
  /\ phase = "retire" => found = InPlace
  /\ phase \in {"down", "up"} => to = NoFolder
  /\ phase = "retire" /\ to # NoFolder =>
       /\ to \in DOMAIN retired
       /\ "history" \in found => retired[to].history = Absent
       /\ "domains" \in found => retired[to].domains = Absent

SealedWhole == owed = SealedIn(history, domains) \cup RetiredSealed

\* The reports that the bound takes have Limit newer ones that it does not.
OldestFirst ==
  /\ \A r, s \in Kept : r < s => history[r].date <= history[s].date /\ history[r].seq < history[s].seq
  /\ \A r \in Kept : history[r].date <= day /\ history[r].seq \in 1 .. made
  /\ removing \subseteq Kept
  /\ \A r \in removing : Cardinality({s \in Kept \ removing : s > r}) >= Limit

InstallationInv == DiskTypes /\ OneKeyInUse /\ AsideFirst /\ SealedWhole /\ OldestFirst

\* At first there is nothing.
LEMMA InitiallyInstallationInv == InstallationInit => InstallationInv
<1> SUFFICES ASSUME InstallationInit PROVE InstallationInv
  OBVIOUS
<1>1. /\ history = Absent /\ domains = Absent /\ access = Absent /\ DOMAIN retired = {}
      /\ phase = "down" /\ to = NoFolder /\ vaultKey = NoVaultKey /\ removing = {} /\ owed = {}
      /\ retired = [f \in {} |-> Absent]
  BY DEF InstallationInit
<1>2. Kept = {} /\ PlaceKeys = {} /\ RetiredKeys = {} /\ RetiredSealed = {} /\ SealedIn(history, domains) = {}
  BY <1>1 DEF Kept, PlaceKeys, RetiredKeys, RetiredSealed, KeysIn, SealedIn, ReportsIn
<1>3. DiskTypes
  <2>1. day \in 0 .. MaxDay /\ keys \in Nat /\ made \in 0 .. MaxReports
    BY InstallationAssumption DEF InstallationInit
  <2>2. retired = [f \in DOMAIN retired |-> [history |-> retired[f].history, domains |-> retired[f].domains]]
    BY <1>1
  <2> QED
    BY <1>1, <2>1, <2>2 DEF DiskTypes
<1>4. OneKeyInUse
  BY <1>1, <1>2 DEF OneKeyInUse
<1>5. AsideFirst
  BY <1>1 DEF AsideFirst
<1>6. SealedWhole
  BY <1>1, <1>2 DEF SealedWhole
<1>7. OldestFirst
  BY <1>1, <1>2 DEF OldestFirst
<1> QED
  BY <1>3, <1>4, <1>5, <1>6, <1>7 DEF InstallationInv

\* A step that leaves the directory, the list and the folders alone.
LEMMA LeavingTheDisk ==
  ASSUME InstallationInv, UNCHANGED <<history, domains, retired, owed, made>>,
         day' \in {day, day + 1} \cap 0 .. MaxDay, removing' \in {removing, {}},
         keys' \in {keys, keys + 1},
         access' \in {Absent} \cup [key : 1 .. keys', usable : BOOLEAN]
  PROVE  /\ DiskTypes' /\ SealedWhole' /\ OldestFirst'
         /\ PlaceKeys' = PlaceKeys /\ RetiredKeys' = RetiredKeys
         /\ PlaceKeys \cup RetiredKeys \subseteq 0 .. keys /\ keys \in Nat
<1>0. PlaceKeys \cup RetiredKeys \subseteq 0 .. keys /\ keys \in Nat /\ day \in Nat
  BY DEF InstallationInv, DiskTypes, OneKeyInUse
<1>1. PlaceKeys' = PlaceKeys /\ RetiredKeys' = RetiredKeys
  BY DEF PlaceKeys, RetiredKeys, FolderKeys
<1>2. SealedWhole'
  <2>1. SealedWhole
    BY DEF InstallationInv
  <2> QED
    BY <2>1 DEF SealedWhole, RetiredSealed
<1>3. DiskTypes'
  <2>1. keys' \in Nat
    BY <1>0
  <2> QED
    BY <2>1 DEF InstallationInv, DiskTypes
<1>4. OldestFirst'
  <2>1. Kept' = Kept /\ OldestFirst
    BY DEF Kept, InstallationInv
  <2>2. ASSUME NEW r \in Kept PROVE history[r].date <= day'
    <3>1. history[r].date <= day /\ history[r].date \in Int
      <4>1. history # Absent /\ r \in DOMAIN history
        BY DEF Kept, ReportsIn
      <4>2. history[r] \in Report
        BY <4>1 DEF InstallationInv, DiskTypes
      <4> QED
        BY <2>1, <4>2 DEF OldestFirst, Report
    <3> QED
      BY <1>0, <3>1
  <2>3. CASE removing' = removing
    BY <2>1, <2>2, <2>3 DEF OldestFirst
  <2>4. CASE removing' = {}
    BY <2>1, <2>2, <2>4 DEF OldestFirst
  <2> QED
    BY <2>3, <2>4
<1> QED
  BY <1>0, <1>1, <1>2, <1>3, <1>4

\* Starting, stopping and signing in, the operator and the clock.
LEMMA LeavingKeepsInstallationInv ==
  ASSUME InstallationInv,
         \/ StartAgain \/ StartNew \/ ShowPassword \/ CreateFails \/ StopProcess
         \/ SignIn \/ RemoveAccess \/ NextDay
  PROVE  InstallationInv'
<1>0. /\ keys \in Nat /\ day \in 0 .. MaxDay /\ MaxDay \in Nat
      /\ access \in {Absent} \cup [key : 1 .. keys, usable : BOOLEAN]
      /\ OneKeyInUse /\ AsideFirst
  BY InstallationAssumption DEF InstallationInv, DiskTypes
<1>1. /\ UNCHANGED <<history, domains, retired, owed, made, keys>>
      /\ day' \in {day, day + 1} \cap 0 .. MaxDay /\ removing' \in {removing, {}}
  <2>1. UNCHANGED <<history, domains, retired, owed, made, keys>>
    BY DEF StartAgain, StartNew, ShowPassword, CreateFails, StopProcess, SignIn, RemoveAccess, NextDay,
           disk, ghosts
  <2>2. day' = day \/ NextDay
    BY DEF StartAgain, StartNew, ShowPassword, CreateFails, StopProcess, SignIn, RemoveAccess
  <2>3. day' \in {day, day + 1} \cap 0 .. MaxDay
    BY <1>0, <2>2 DEF NextDay
  <2>4. removing' \in {removing, {}}
    BY DEF StartAgain, StartNew, ShowPassword, CreateFails, StopProcess, SignIn, RemoveAccess, NextDay
  <2> QED
    BY <2>1, <2>3, <2>4
<1>2. access' \in {access, Absent} \/ (access # Absent /\ access' = [access EXCEPT !.usable = TRUE])
  BY DEF StartAgain, StartNew, ShowPassword, CreateFails, StopProcess, SignIn, RemoveAccess, NextDay,
         disk
<1>3. access' \in {Absent} \cup [key : 1 .. keys', usable : BOOLEAN]
  BY <1>0, <1>1, <1>2
<1>4. access' # Absent => access # Absent /\ access'.key = access.key
  BY <1>0, <1>2
<1>5. /\ DiskTypes' /\ SealedWhole' /\ OldestFirst'
      /\ PlaceKeys' = PlaceKeys /\ RetiredKeys' = RetiredKeys
  BY <1>1, <1>3, LeavingTheDisk
<1>6. /\ vaultKey' # NoVaultKey => (vaultKey' = vaultKey /\ phase' = phase) \/ SignIn
      /\ removing' # {} => vaultKey' = vaultKey /\ removing' = removing
  BY <1>0 DEF StartAgain, StartNew, ShowPassword, CreateFails, StopProcess, SignIn, RemoveAccess, NextDay,
              OneKeyInUse
<1>7. OneKeyInUse'
  <2>1. ASSUME vaultKey' # NoVaultKey
        PROVE  /\ phase' = "up" /\ vaultKey' \in 1 .. keys
               /\ PlaceKeys \subseteq {vaultKey'} /\ vaultKey' \notin RetiredKeys
               /\ access' # Absent => access'.key = vaultKey'
    <3>1. CASE vaultKey' = vaultKey /\ phase' = phase
      BY <1>0, <1>4, <2>1, <3>1 DEF OneKeyInUse
    <3>2. CASE SignIn
      <4>1. /\ phase' = "up" /\ vaultKey' = access.key /\ access' = access /\ access # Absent
        BY <3>2 DEF SignIn, disk
      <4> QED
        BY <1>0, <4>1 DEF OneKeyInUse
    <3> QED
      BY <1>6, <2>1, <3>1, <3>2
  <2>2. access' # Absent => PlaceKeys \subseteq {access'.key} /\ access'.key \notin RetiredKeys
    BY <1>0, <1>4 DEF OneKeyInUse
  <2>3. removing' # {} => vaultKey' # NoVaultKey
    BY <1>0, <1>6 DEF OneKeyInUse
  <2> QED
    BY <1>0, <1>1, <1>5, <2>1, <2>2, <2>3 DEF OneKeyInUse
<1>8. AsideFirst'
  <2>1. InPlace' = InPlace
    BY <1>1 DEF InPlace
  <2>2. CASE StartNew
    <3>1. /\ found' = InPlace /\ to' = to /\ to = NoFolder /\ access' = access /\ access = Absent
          /\ phase' = IF InPlace = {} THEN "create" ELSE "retire"
      BY <1>0, <2>2 DEF StartNew, disk, AsideFirst
    <3>2. InPlace = {} => history = Absent /\ domains = Absent
      BY DEF InPlace, Sealed
    <3> QED
      BY <1>1, <2>1, <3>1, <3>2 DEF AsideFirst
  <2>3. CASE StartAgain \/ SignIn
    BY <1>0, <2>3 DEF StartAgain, SignIn, AsideFirst, underWay
  <2>4. CASE ShowPassword \/ CreateFails \/ StopProcess
    BY <2>4 DEF ShowPassword, CreateFails, StopProcess, AsideFirst
  <2>5. CASE RemoveAccess \/ NextDay
    BY <1>0, <1>1, <2>1, <2>5 DEF RemoveAccess, NextDay, AsideFirst, underWay
  <2> QED
    BY <2>2, <2>3, <2>4, <2>5
<1> QED
  BY <1>5, <1>7, <1>8 DEF InstallationInv

\* A new key, when nothing is in place.
LEMMA CreatingKeepsInstallationInv ==
  ASSUME InstallationInv, CreateFile
  PROVE  InstallationInv'
<1>0. /\ keys \in Nat /\ day \in 0 .. MaxDay /\ OneKeyInUse /\ AsideFirst
  BY DEF InstallationInv, DiskTypes
<1>1. /\ UNCHANGED <<history, domains, retired, owed, made, day, to, found, vaultKey, removing>>
      /\ keys' = keys + 1 /\ access' = [key |-> keys + 1, usable |-> FALSE]
      /\ phase = "create" /\ phase' = "write"
  BY DEF CreateFile, underWay
<1>2. access' \in [key : 1 .. keys', usable : BOOLEAN]
  BY <1>0, <1>1
<1>3. /\ DiskTypes' /\ SealedWhole' /\ OldestFirst'
      /\ PlaceKeys' = PlaceKeys /\ RetiredKeys' = RetiredKeys
  BY <1>0, <1>1, <1>2, LeavingTheDisk
<1>4. history = Absent /\ domains = Absent
  BY <1>0, <1>1 DEF AsideFirst
<1>5. PlaceKeys = {} /\ keys + 1 \notin RetiredKeys
  BY <1>0, <1>4 DEF PlaceKeys, KeysIn, ReportsIn, OneKeyInUse
<1>6. vaultKey = NoVaultKey
  BY <1>0, <1>1 DEF OneKeyInUse
<1>7. OneKeyInUse'
  <2>1. RetiredKeys \subseteq 0 .. keys + 1
    BY <1>0 DEF OneKeyInUse
  <2>2. access'.key = keys + 1
    BY <1>1
  <2>3. removing' = {}
    BY <1>0, <1>1, <1>6 DEF OneKeyInUse
  <2> QED
    BY <1>1, <1>3, <1>5, <1>6, <2>1, <2>2, <2>3 DEF OneKeyInUse
<1>8. AsideFirst'
  BY <1>1, <1>4 DEF AsideFirst
<1> QED
  BY <1>3, <1>7, <1>8 DEF InstallationInv

\* What a directory and a list hold, one by one.
LEMMA HoldingBoth ==
  ASSUME NEW h, NEW d
  PROVE  /\ SealedIn(h, d) = SealedIn(h, Absent) \cup SealedIn(Absent, d)
         /\ KeysIn(h, d) = KeysIn(h, Absent) \cup KeysIn(Absent, d)
         /\ SealedIn(Absent, Absent) = {} /\ KeysIn(Absent, Absent) = {}
BY DEF SealedIn, KeysIn, ReportsIn

\* A folder of its own, for what has to go aside.
LEMMA MakingAFolder ==
  ASSUME InstallationInv, MakeFolder
  PROVE  InstallationInv'
<1>0. /\ keys \in Nat /\ day \in 0 .. MaxDay /\ OneKeyInUse /\ AsideFirst /\ DiskTypes
      /\ SealedWhole /\ OldestFirst
  BY DEF InstallationInv, DiskTypes
<1>1. /\ UNCHANGED <<history, domains, owed, made, day, keys, access, found, vaultKey, removing, phase>>
      /\ phase = "retire" /\ to' \notin DOMAIN retired
      /\ retired' = [f \in DOMAIN retired \cup {to'} |->
                       IF f = to' THEN [history |-> Absent, domains |-> Absent] ELSE retired[f]]
  BY DEF MakeFolder, ghosts
<1>2. /\ DOMAIN retired' = DOMAIN retired \cup {to'}
      /\ retired'[to'].history = Absent /\ retired'[to'].domains = Absent
      /\ \A f \in DOMAIN retired : retired'[f] = retired[f]
  BY <1>1
<1>3. RetiredKeys' = RetiredKeys
  BY <1>2, HoldingBoth DEF RetiredKeys, FolderKeys
<1>4. RetiredSealed' = RetiredSealed
  BY <1>2, HoldingBoth DEF RetiredSealed
<1>5. DiskTypes'
  <2>1. retired' = [f \in DOMAIN retired' |-> [history |-> retired'[f].history, domains |-> retired'[f].domains]]
    BY <1>0, <1>1, <1>2 DEF DiskTypes
  <2> QED
    BY <1>0, <1>1, <2>1 DEF DiskTypes
<1>6. OneKeyInUse' /\ SealedWhole' /\ OldestFirst'
  <2>1. PlaceKeys' = PlaceKeys /\ Kept' = Kept
    BY <1>1 DEF PlaceKeys, Kept
  <2>2. OneKeyInUse'
    BY <1>0, <1>1, <1>3, <2>1 DEF OneKeyInUse
  <2>3. SealedWhole'
    BY <1>0, <1>1, <1>4 DEF SealedWhole
  <2>4. OldestFirst'
    BY <1>0, <1>1, <2>1 DEF OldestFirst
  <2> QED
    BY <2>2, <2>3, <2>4
<1>7. AsideFirst'
  <2>1. InPlace' = InPlace
    BY <1>1 DEF InPlace
  <2> QED
    BY <1>0, <1>1, <1>2, <2>1 DEF AsideFirst
<1> QED
  BY <1>5, <1>6, <1>7 DEF InstallationInv

\* What is moved aside is moved, and nothing else is.
LEMMA MovingAside ==
  ASSUME InstallationInv, MoveHistory \/ MoveDomains
  PROVE  InstallationInv'
<1>0. /\ OneKeyInUse /\ AsideFirst /\ DiskTypes /\ SealedWhole /\ OldestFirst
  BY DEF InstallationInv
<1>1. /\ UNCHANGED <<day, to, vaultKey, access, removing, made, keys, owed>>
      /\ phase = "retire" /\ to # NoFolder
  BY DEF MoveHistory, MoveDomains, ghosts
<1>2. /\ to \in DOMAIN retired /\ found = InPlace /\ access = Absent /\ vaultKey = NoVaultKey /\ removing = {}
  BY <1>0, <1>1 DEF AsideFirst, OneKeyInUse
<1>3. ASSUME NEW h, NEW d, retired' = [f \in DOMAIN retired |->
               IF f = to THEN [history |-> h, domains |-> d] ELSE retired[f]],
             SealedIn(h, d) \cup SealedIn(history', domains')
               = SealedIn(retired[to].history, retired[to].domains) \cup SealedIn(history, domains),
             KeysIn(h, d) \cup KeysIn(history', domains') = FolderKeys(to) \cup PlaceKeys
      PROVE  SealedWhole' /\ PlaceKeys' \cup RetiredKeys' = PlaceKeys \cup RetiredKeys
  <2>1. DOMAIN retired' = DOMAIN retired
    BY <1>3
  <2>2. RetiredSealed' \cup SealedIn(history, domains)' = RetiredSealed \cup SealedIn(history, domains)
    <3>1. \A f \in DOMAIN retired : f # to => retired'[f] = retired[f]
      BY <1>3
    <3>2. retired'[to].history = h /\ retired'[to].domains = d
      BY <1>2, <1>3
    <3> QED
      BY <1>2, <1>3, <2>1, <3>1, <3>2 DEF RetiredSealed
  <2>3. RetiredKeys' \cup PlaceKeys' = RetiredKeys \cup PlaceKeys
    <3>1. \A f \in DOMAIN retired : f # to => FolderKeys(f)' = FolderKeys(f)
      BY <1>3 DEF FolderKeys
    <3>2. \A f \in DOMAIN retired : f = to => FolderKeys(f)' = KeysIn(h, d)
      <4>1. retired'[to].history = h /\ retired'[to].domains = d
        BY <1>2, <1>3
      <4> QED
        BY <4>1 DEF FolderKeys
    <3> QED
      BY <1>2, <1>3, <2>1, <3>1, <3>2 DEF RetiredKeys, PlaceKeys
  <2> QED
    BY <1>0, <1>1, <2>2, <2>3 DEF SealedWhole
<1>4. ASSUME NEW h, NEW d, retired' = [f \in DOMAIN retired |->
               IF f = to THEN [history |-> h, domains |-> d] ELSE retired[f]]
      PROVE  retired' = [f \in DOMAIN retired' |-> [history |-> retired'[f].history, domains |-> retired'[f].domains]]
  BY <1>0, <1>2, <1>4 DEF DiskTypes
<1>5. CASE MoveHistory
  <2>1. /\ "history" \in found /\ retired' = [retired EXCEPT ![to].history = history]
        /\ history' = Absent /\ domains' = domains /\ found' = found \ {"history"}
        /\ phase' = IF found' = {} THEN "create" ELSE phase
    BY <1>5 DEF MoveHistory
  <2>2. retired[to].history = Absent
    BY <1>0, <1>1, <2>1 DEF AsideFirst
  <2>3. retired' = [f \in DOMAIN retired |->
                      IF f = to THEN [history |-> history, domains |-> retired[to].domains] ELSE retired[f]]
    <3>1. retired[to] = [history |-> retired[to].history, domains |-> retired[to].domains]
      BY <1>0, <1>2 DEF DiskTypes
    <3>2. retired = [f \in DOMAIN retired |-> retired[f]]
      BY <1>0 DEF DiskTypes
    <3>3. [retired[to] EXCEPT !.history = history] = [history |-> history, domains |-> retired[to].domains]
      BY ONLY <3>1
    <3>4. retired' = [f \in DOMAIN retired |-> IF f = to THEN [retired[to] EXCEPT !.history = history] ELSE retired[f]]
      BY ONLY <1>2, <2>1, <3>2
    <3> QED
      BY ONLY <3>3, <3>4
  <2>4. /\ SealedIn(history, retired[to].domains) \cup SealedIn(history', domains')
             = SealedIn(retired[to].history, retired[to].domains) \cup SealedIn(history, domains)
        /\ KeysIn(history, retired[to].domains) \cup KeysIn(history', domains') = FolderKeys(to) \cup PlaceKeys
    <3>1. /\ SealedIn(history, retired[to].domains) = SealedIn(history, Absent) \cup SealedIn(Absent, retired[to].domains)
          /\ SealedIn(history, domains) = SealedIn(history, Absent) \cup SealedIn(Absent, domains)
          /\ KeysIn(history, retired[to].domains) = KeysIn(history, Absent) \cup KeysIn(Absent, retired[to].domains)
          /\ KeysIn(history, domains) = KeysIn(history, Absent) \cup KeysIn(Absent, domains)
      BY HoldingBoth
    <3> QED
      BY <2>1, <2>2, <3>1 DEF FolderKeys, PlaceKeys
  <2>5. SealedWhole' /\ PlaceKeys' \cup RetiredKeys' = PlaceKeys \cup RetiredKeys
    BY <1>3, <2>3, <2>4
  <2>6. DiskTypes'
    <3>1. retired' = [f \in DOMAIN retired' |-> [history |-> retired'[f].history, domains |-> retired'[f].domains]]
      BY <1>4, <2>3
    <3> QED
      BY <1>0, <1>1, <2>1, <3>1 DEF DiskTypes
  <2>7. OneKeyInUse'
    BY <1>0, <1>1, <1>2, <2>5 DEF OneKeyInUse
  <2>8. OldestFirst'
    <3>1. Kept' = {}
      BY <2>1 DEF Kept, ReportsIn
    <3> QED
      BY <1>1, <1>2, <3>1 DEF OldestFirst
  <2>9. AsideFirst'
    <3>1. InPlace' = found'
      BY <1>2, <2>1 DEF InPlace, Sealed
    <3>2. found' = {} => domains = Absent
      BY <1>2, <2>1 DEF InPlace, Sealed
    <3>3. "domains" \in found => retired[to].domains = Absent
      BY <1>0, <1>1 DEF AsideFirst
    <3>4. to \in DOMAIN retired' /\ retired'[to].domains = retired[to].domains
      BY <1>2, <2>3
    <3> QED
      BY <1>1, <1>2, <2>1, <3>1, <3>2, <3>3, <3>4 DEF AsideFirst
  <2> QED
    BY <2>5, <2>6, <2>7, <2>8, <2>9 DEF InstallationInv
<1>6. CASE MoveDomains
  <2>1. /\ found = {"domains"} /\ retired' = [retired EXCEPT ![to].domains = domains]
        /\ domains' = Absent /\ history' = history /\ found' = {} /\ phase' = "create"
    BY <1>6 DEF MoveDomains
  <2>2. retired[to].domains = Absent /\ history = Absent
    BY <1>0, <1>1, <1>2, <2>1 DEF AsideFirst, InPlace, Sealed
  <2>3. retired' = [f \in DOMAIN retired |->
                      IF f = to THEN [history |-> retired[to].history, domains |-> domains] ELSE retired[f]]
    <3>1. retired[to] = [history |-> retired[to].history, domains |-> retired[to].domains]
      BY <1>0, <1>2 DEF DiskTypes
    <3>2. retired = [f \in DOMAIN retired |-> retired[f]]
      BY <1>0 DEF DiskTypes
    <3>3. [retired[to] EXCEPT !.domains = domains] = [history |-> retired[to].history, domains |-> domains]
      BY ONLY <3>1
    <3>4. retired' = [f \in DOMAIN retired |-> IF f = to THEN [retired[to] EXCEPT !.domains = domains] ELSE retired[f]]
      BY ONLY <1>2, <2>1, <3>2
    <3> QED
      BY ONLY <3>3, <3>4
  <2>4. /\ SealedIn(retired[to].history, domains) \cup SealedIn(history', domains')
             = SealedIn(retired[to].history, retired[to].domains) \cup SealedIn(history, domains)
        /\ KeysIn(retired[to].history, domains) \cup KeysIn(history', domains') = FolderKeys(to) \cup PlaceKeys
    <3>1. /\ SealedIn(retired[to].history, domains) = SealedIn(retired[to].history, Absent) \cup SealedIn(Absent, domains)
          /\ KeysIn(retired[to].history, domains) = KeysIn(retired[to].history, Absent) \cup KeysIn(Absent, domains)
          /\ SealedIn(Absent, Absent) = {} /\ KeysIn(Absent, Absent) = {}
      BY HoldingBoth
    <3> QED
      BY <2>1, <2>2, <3>1 DEF FolderKeys, PlaceKeys
  <2>5. SealedWhole' /\ PlaceKeys' \cup RetiredKeys' = PlaceKeys \cup RetiredKeys
    BY <1>3, <2>3, <2>4
  <2>6. DiskTypes'
    <3>1. retired' = [f \in DOMAIN retired' |-> [history |-> retired'[f].history, domains |-> retired'[f].domains]]
      BY <1>4, <2>3
    <3> QED
      BY <1>0, <1>1, <2>1, <3>1 DEF DiskTypes
  <2>7. OneKeyInUse'
    BY <1>0, <1>1, <1>2, <2>5 DEF OneKeyInUse
  <2>8. OldestFirst'
    <3>1. Kept' = {}
      BY <2>1, <2>2 DEF Kept, ReportsIn
    <3> QED
      BY <1>1, <1>2, <3>1 DEF OldestFirst
  <2>9. AsideFirst'
    BY <1>1, <1>2, <2>1, <2>2 DEF AsideFirst
  <2> QED
    BY <2>5, <2>6, <2>7, <2>8, <2>9 DEF InstallationInv
<1> QED
  BY <1>5, <1>6

\* With a key in memory everything in place opens under it, the reports are in the
\* order in which they were kept, and the next Seq is past all of theirs.
LEMMA ReportsInOrder ==
  ASSUME InstallationInv, vaultKey # NoVaultKey
  PROVE  /\ Opened = Kept /\ Kept \subseteq 1 .. made /\ made \in Nat /\ vaultKey \in Nat
         /\ \A r \in Kept : history[r] \in Report /\ history[r].key = vaultKey
         /\ \A r, s \in Kept : Newer(s, r) <=> s > r
         /\ NextSeq \in 1 .. made + 1 /\ \A r \in Kept : history[r].seq < NextSeq
<1>0. DiskTypes /\ OneKeyInUse /\ OldestFirst /\ PlaceKeys \subseteq {vaultKey} /\ made \in Nat /\ vaultKey \in Nat
  BY InstallationAssumption DEF InstallationInv, OneKeyInUse, DiskTypes
<1>1. Kept \subseteq 1 .. made /\ \A r \in Kept : history[r] \in Report
  BY <1>0 DEF DiskTypes, Kept, ReportsIn
<1>2. \A r \in Kept : history[r].key = vaultKey
  BY <1>0 DEF PlaceKeys, KeysIn, Kept
<1>3. Opened = Kept
  BY <1>2 DEF Opened
<1>4. ASSUME NEW r \in Kept, NEW s \in Kept PROVE Newer(s, r) <=> s > r
  <2>1. /\ r \in Int /\ s \in Int
        /\ history[r].date \in Int /\ history[s].date \in Int /\ history[r].seq \in Int /\ history[s].seq \in Int
    BY <1>0, <1>1 DEF Report
  <2>2. CASE s > r
    <3>1. r < s
      BY <2>1, <2>2
    <3>2. history[r].date <= history[s].date /\ history[r].seq < history[s].seq
      BY <1>0, <3>1 DEF OldestFirst
    <3> QED
      BY <2>1, <2>2, <3>2 DEF Newer
  <2>3. CASE s < r
    <3>1. history[s].date <= history[r].date /\ history[s].seq < history[r].seq
      BY <1>0, <2>3 DEF OldestFirst
    <3> QED
      BY <2>1, <2>3, <3>1 DEF Newer
  <2>4. CASE s = r
    BY <2>1, <2>4 DEF Newer
  <2> QED
    BY <2>1, <2>2, <2>3, <2>4
<1>5. NextSeq \in 1 .. made + 1 /\ \A r \in Kept : history[r].seq < NextSeq
  <2>1. CASE Opened = {}
    BY <1>0, <1>3, <2>1 DEF NextSeq
  <2>2. CASE Opened # {}
    <3> DEFINE Seqs == {history[r].seq : r \in Opened}
    <3>1. Seqs \subseteq 1 .. made /\ Seqs # {}
      BY <1>0, <1>3, <2>2 DEF OldestFirst
    <3>2. \E m \in Seqs : \A k \in Seqs : k <= m
      <4> HIDE DEF Seqs
      <4> QED
        BY <1>0, <3>1, TheLast
    <3>3. \E m \in Seqs : \A r \in Opened : history[r].seq <= m
      BY <3>2
    <3>4. PICK m \in Seqs : /\ \A r \in Opened : history[r].seq <= m
                            /\ m = CHOOSE n \in Seqs : \A r \in Opened : history[r].seq <= n
      BY <3>3
    <3>5. NextSeq = 1 + m
      BY <2>2, <3>4 DEF NextSeq
    <3>6. m \in 1 .. made
      BY <3>1, <3>4
    <3>7. \A r \in Kept : history[r].seq \in 1 .. made
      BY <1>0 DEF OldestFirst
    <3>8. \A r \in Kept : history[r].seq < 1 + m
      <4> SUFFICES ASSUME NEW r \in Kept PROVE history[r].seq < 1 + m
        OBVIOUS
      <4>1. history[r].seq \in 1 .. made
        BY <3>7
      <4>2. history[r].seq <= m
        BY <1>3, <3>4
      <4> QED
        BY ONLY <3>6, <4>1, <4>2, <1>0
    <3>9. 1 + m \in 1 .. made + 1
      BY ONLY <1>0, <3>6
    <3> QED
      BY <3>5, <3>8, <3>9
  <2> QED
    BY <2>1, <2>2
<1> QED
  BY <1>0, <1>1, <1>2, <1>3, <1>4, <1>5

\* What is sealed under the key in memory is in place and not aside.
LEMMA NotAside ==
  ASSUME InstallationInv, vaultKey # NoVaultKey, NEW x
  PROVE  <<vaultKey, x>> \notin RetiredSealed
<1>1. vaultKey \notin RetiredKeys
  BY DEF InstallationInv, OneKeyInUse
<1>2. ASSUME NEW f \in DOMAIN retired, <<vaultKey, x>> \in SealedIn(retired[f].history, retired[f].domains)
      PROVE  vaultKey \in FolderKeys(f)
  BY <1>2 DEF SealedIn, FolderKeys, KeysIn
<1> QED
  BY <1>1, <1>2 DEF RetiredSealed, RetiredKeys

\* A step of a process that has a key, and changes only what that key seals.
LEMMA ServingKeepsKeys ==
  ASSUME InstallationInv, phase = "up", vaultKey # NoVaultKey,
         UNCHANGED <<phase, found, to, vaultKey, access, retired, keys>>,
         PlaceKeys' \subseteq PlaceKeys \cup {vaultKey}
  PROVE  OneKeyInUse' /\ AsideFirst'
<1>1. RetiredKeys' = RetiredKeys
  BY DEF RetiredKeys, FolderKeys
<1>2. OneKeyInUse /\ AsideFirst /\ keys \in Nat
  BY DEF InstallationInv, DiskTypes
<1>3. PlaceKeys' \subseteq {vaultKey} /\ vaultKey \in 1 .. keys
  BY <1>2 DEF OneKeyInUse
<1>4. OneKeyInUse'
  <2>1. PlaceKeys' \cup RetiredKeys' \subseteq 0 .. keys
    <3>1. RetiredKeys \subseteq 0 .. keys
      BY <1>2 DEF OneKeyInUse
    <3>2. vaultKey \in 0 .. keys
      BY ONLY <1>2, <1>3
    <3> QED
      BY <1>1, <1>3, <3>1, <3>2
  <2>2. access # Absent => access.key = vaultKey
    BY <1>2 DEF OneKeyInUse
  <2>3. vaultKey \notin RetiredKeys
    BY <1>2 DEF OneKeyInUse
  <2> QED
    BY <1>1, <1>3, <2>1, <2>2, <2>3 DEF OneKeyInUse
<1>5. AsideFirst'
  BY <1>2 DEF AsideFirst
<1> QED
  BY <1>4, <1>5

\* A report that goes leaves the others as they were, and is owed no longer.
LEMMA RemovingAReport ==
  ASSUME InstallationInv, phase = "up", vaultKey # NoVaultKey, NEW r \in Kept, RemoveReport(r),
         owed' = owed \ {<<history[r].key, r>>},
         UNCHANGED <<day, phase, found, to, vaultKey, access, domains, retired, made, keys>>
  PROVE  /\ DiskTypes' /\ OneKeyInUse' /\ AsideFirst' /\ SealedWhole'
         /\ Kept' = Kept \ {r} /\ \A s \in Kept' : history'[s] = history[s]
<1>0. DiskTypes /\ SealedWhole /\ Kept \subseteq 1 .. made /\ made \in 0 .. MaxReports /\ MaxReports \in Nat
      /\ \A s \in Kept : history[s] \in Report /\ history[s].key = vaultKey
  BY ReportsInOrder, InstallationAssumption DEF InstallationInv, DiskTypes
<1>1. history' = [s \in Kept \ {r} |-> history[s]]
  BY DEF RemoveReport
<1>2. history' # Absent
  <2>1. Kept \ {r} \in SUBSET (1 .. MaxReports)
    BY <1>0
  <2>2. history' \in [Kept \ {r} -> [key : Nat, date : 0 .. MaxDay, seq : Nat]]
    BY <1>0, <1>1 DEF Report
  <2> QED
    BY <2>1, <2>2, InstallationAssumption
<1>3. Kept' = Kept \ {r} /\ \A s \in Kept' : history'[s] = history[s]
  BY <1>1, <1>2 DEF Kept, ReportsIn
<1>4. DiskTypes'
  <2>1. DOMAIN history' \subseteq 1 .. made /\ history' \in [DOMAIN history' -> Report]
    BY <1>0, <1>1
  <2> QED
    BY <1>0, <2>1 DEF DiskTypes
<1>5. OneKeyInUse' /\ AsideFirst'
  <2>1. PlaceKeys' \subseteq PlaceKeys
    BY <1>3 DEF PlaceKeys, KeysIn, Kept
  <2> QED
    BY <2>1, ServingKeepsKeys
<1>6. SealedWhole'
  <2>1. <<vaultKey, r>> \notin RetiredSealed
    BY NotAside
  <2>2. SealedIn(history, domains)' = SealedIn(history, domains) \ {<<vaultKey, r>>}
    <3>1. r \in Nat
      BY <1>0
    <3>2. domains # Absent => \A name \in domains.names : name # r
      BY <1>0, <3>1, InstallationAssumption DEF DiskTypes, DomainList
    <3>3. \A s \in ReportsIn(history') : history'[s].key = vaultKey
      BY <1>0, <1>3 DEF Kept
    <3>4. \A s \in ReportsIn(history) : history[s].key = vaultKey
      BY <1>0 DEF Kept
    <3>5. {<<history'[s].key, s>> : s \in ReportsIn(history')}
            = {<<history[s].key, s>> : s \in ReportsIn(history)} \ {<<vaultKey, r>>}
      BY <1>3, <3>3, <3>4 DEF Kept
    <3> QED
      BY <3>2, <3>5 DEF SealedIn
  <2>3. RetiredSealed' = RetiredSealed
    BY DEF RetiredSealed
  <2> QED
    BY <1>0, <2>1, <2>2, <2>3 DEF SealedWhole
<1> QED
  BY <1>3, <1>4, <1>5, <1>6

\* The reports kept are finitely many.
LEMMA NewerAreFinite ==
  ASSUME NEW n \in Nat, NEW S, S \subseteq 1 .. n, NEW T, T \subseteq S
  PROVE  IsFiniteSet(T) /\ Cardinality(T) \in Nat /\ Cardinality(T) <= Cardinality(S) /\ Cardinality(S) \in Nat
<1>0. IsFiniteSet(1 .. n)
  <2>1. n \in Int /\ 1 \in Int
    OBVIOUS
  <2> QED
    BY <2>1, FS_Interval
<1>1. IsFiniteSet(S)
  BY <1>0, FS_Subset
<1> QED
  BY <1>1, FS_Subset, FS_CardinalityType

\* Deleting, and taking what the bound takes.
LEMMA DeletingKeepsInstallationInv ==
  ASSUME InstallationInv, RemoveNext \/ \E r \in Kept : Delete(r)
  PROVE  InstallationInv'
<1>0. OneKeyInUse /\ OldestFirst /\ Limit \in Nat
  BY InstallationAssumption DEF InstallationInv, OneKeyInUse
<1>1. /\ UNCHANGED <<day, phase, found, to, vaultKey, access, domains, retired, made, keys>>
      /\ vaultKey # NoVaultKey /\ phase = "up"
  BY <1>0 DEF RemoveNext, Delete, Idle, OneKeyInUse, underWay
<1>2. Kept \subseteq 1 .. made /\ made \in Nat
  BY <1>1, ReportsInOrder
<1>3. ASSUME NEW r \in Kept, RemoveReport(r), owed' = owed \ {<<history[r].key, r>>},
             removing' = removing \ {r}
      PROVE  InstallationInv'
  <2>1. /\ DiskTypes' /\ OneKeyInUse' /\ AsideFirst' /\ SealedWhole'
        /\ Kept' = Kept \ {r} /\ \A s \in Kept' : history'[s] = history[s]
    BY <1>1, <1>3, RemovingAReport
  <2>2. Kept' \ removing' = (Kept \ removing) \ {r}
    BY <1>3, <2>1
  <2>3. r \in removing \/ removing = {}
    BY <1>3, <1>0 DEF RemoveNext, Delete, Idle
  <2>4. /\ removing' \subseteq Kept'
        /\ \A x \in removing' : Cardinality({s \in Kept' \ removing' : s > x}) >= Limit
    <3>1. CASE removing = {}
      BY <1>3, <3>1
    <3>2. CASE r \in removing
      <4>1. Kept' \ removing' = Kept \ removing
        BY <2>2, <3>2
      <4> QED
        BY <1>0, <1>3, <2>1, <4>1 DEF OldestFirst
    <3> QED
      BY <2>3, <3>1, <3>2
  <2>5. \A s \in Kept' : s \in Kept /\ history'[s] = history[s]
    BY <2>1
  <2>6. /\ \A q, s \in Kept' : q < s => history'[q].date <= history'[s].date /\ history'[q].seq < history'[s].seq
        /\ \A q \in Kept' : history'[q].date <= day' /\ history'[q].seq \in 1 .. made'
    BY <1>0, <1>1, <2>5 DEF OldestFirst
  <2>7. OldestFirst'
    BY <2>4, <2>6 DEF OldestFirst
  <2> QED
    BY <2>1, <2>7 DEF InstallationInv
<1>4. ASSUME NEW r \in removing, removing' = removing \ {r}, UNCHANGED <<history, owed>>
      PROVE  InstallationInv'
  <2>1. Kept' = Kept /\ PlaceKeys' = PlaceKeys /\ RetiredSealed' = RetiredSealed
    BY <1>1, <1>4 DEF Kept, PlaceKeys, RetiredSealed
  <2>2. OneKeyInUse' /\ AsideFirst'
    BY <1>1, <2>1, ServingKeepsKeys
  <2>3. DiskTypes' /\ SealedWhole'
    BY <1>1, <1>4, <2>1 DEF InstallationInv, DiskTypes, SealedWhole
  <2>4. ASSUME NEW x \in removing'
        PROVE  Cardinality({s \in Kept \ removing' : s > x}) >= Limit
    <3>1. {s \in Kept \ removing : s > x} \subseteq {s \in Kept \ removing' : s > x}
      BY <1>4
    <3>2. Cardinality({s \in Kept \ removing : s > x}) >= Limit
      BY <1>0, <1>4, <2>4 DEF OldestFirst
    <3>3. {s \in Kept \ removing' : s > x} \subseteq 1 .. made
      BY <1>2
    <3> QED
      BY <1>0, <1>2, <3>1, <3>2, <3>3, NewerAreFinite
  <2>5. OldestFirst'
    BY <1>0, <1>1, <1>4, <2>1, <2>4 DEF OldestFirst
  <2> QED
    BY <2>2, <2>3, <2>5 DEF InstallationInv
<1>5. CASE RemoveNext
  <2>1. PICK r \in removing : /\ removing' = removing \ {r}
                              /\ \/ RemoveReport(r) /\ owed' = owed \ {<<history[r].key, r>>}
                                 \/ UNCHANGED <<history, owed>>
    BY <1>5 DEF RemoveNext
  <2>2. r \in Kept
    BY <1>0 DEF OldestFirst
  <2> QED
    BY <1>3, <1>4, <2>1, <2>2
<1>6. CASE \E r \in Kept : Delete(r)
  <2>1. PICK r \in Kept : RemoveReport(r) /\ owed' = owed \ {<<history[r].key, r>>}
                          /\ removing' = removing /\ removing = {}
    BY <1>6 DEF Delete, Idle
  <2> QED
    BY <1>3, <2>1
<1> QED
  BY <1>5, <1>6

\* What the bound takes has Limit newer reports that it leaves, the new one among
\* them: past the newest that it takes are Limit - 1 at the least.
LEMMA WhatTheBoundTakes ==
  ASSUME InstallationInv, vaultKey # NoVaultKey, NEW r \in Extra
  PROVE  /\ Extra \subseteq Kept
         /\ Cardinality({s \in (Kept \cup {made + 1}) \ Extra : s > r}) >= Limit
<1>0. /\ Opened = Kept /\ Kept \subseteq 1 .. made /\ made \in Nat /\ Limit \in Nat \ {0}
      /\ \A q, s \in Kept : Newer(s, q) <=> s > q
  BY ReportsInOrder, InstallationAssumption
<1>1. Extra \subseteq Kept
  BY <1>0 DEF Extra
<1>2. PICK t \in Extra : \A x \in Extra : x <= t
  <2>1. Extra \subseteq 1 .. made /\ Extra # {}
    BY <1>0, <1>1
  <2> QED
    BY <1>0, <2>1, TheLast
<1> DEFINE A == {s \in Kept : s > t}
           B == {s \in (Kept \cup {made + 1}) \ Extra : s > r}
<1>3. Cardinality(A) >= Limit - 1
  <2>1. Cardinality({s \in Opened : Newer(s, t)}) >= Limit - 1
    BY <1>2 DEF Extra
  <2>2. {s \in Opened : Newer(s, t)} = A
    BY <1>0, <1>1, <1>2
  <2> QED
    BY <2>1, <2>2
<1>4. t \in 1 .. made /\ r \in 1 .. made /\ r <= t
  BY <1>0, <1>1, <1>2
<1>5. A \cup {made + 1} \subseteq B /\ made + 1 \notin A
  <2>1. ASSUME NEW s \in A PROVE s \in B /\ s # made + 1
    <3>1. s \in Kept /\ s > t /\ s \in 1 .. made
      BY <1>0
    <3>2. s > r /\ s # made + 1 /\ ~(s <= t)
      BY ONLY <1>0, <1>4, <3>1
    <3>3. s \notin Extra
      BY <1>2, <3>2
    <3> QED
      BY <3>1, <3>2, <3>3
  <2>2. made + 1 > r /\ made + 1 \notin 1 .. made
    BY ONLY <1>0, <1>4
  <2>3. made + 1 \in B
    BY <1>0, <1>1, <2>2
  <2> QED
    BY <2>1, <2>3
<1>6. B \subseteq 1 .. made + 1
  <2>1. Kept \cup {made + 1} \subseteq 1 .. made + 1
    <3>1. 1 .. made \subseteq 1 .. made + 1 /\ made + 1 \in 1 .. made + 1
      BY ONLY <1>0
    <3> QED
      BY <1>0, <3>1
  <2> QED
    BY <2>1
<1>7. IsFiniteSet(A) /\ Cardinality(A) \in Nat
  BY <1>0, NewerAreFinite
<1> HIDE DEF A, B
<1>8. Cardinality(A \cup {made + 1}) = Cardinality(A) + 1
  BY <1>5, <1>7, FS_AddElement
<1>9. made + 1 \in Nat
  BY <1>0
<1>10. Cardinality(A \cup {made + 1}) <= Cardinality(B) /\ Cardinality(B) \in Nat
  BY <1>5, <1>6, <1>9, NewerAreFinite
<1>11. Cardinality(B) >= Limit
  BY ONLY <1>0, <1>3, <1>7, <1>8, <1>10
<1> QED
  BY <1>1, <1>11 DEF B

\* A report that is kept is the newest, and opens under the key in memory.
LEMMA KeepingKeepsInstallationInv ==
  ASSUME InstallationInv, Keep
  PROVE  InstallationInv'
<1>1. /\ vaultKey # NoVaultKey /\ phase = "up" /\ made < MaxReports /\ made' = made + 1
      /\ history' = [r \in Kept \cup {made + 1} |->
                       IF r = made + 1 THEN [key |-> vaultKey, date |-> day, seq |-> NextSeq] ELSE history[r]]
      /\ removing' = Extra /\ owed' = owed \cup {<<vaultKey, made + 1>>}
      /\ UNCHANGED <<day, phase, found, to, vaultKey, access, domains, retired, keys>>
  BY DEF Keep, Idle, underWay
<1>2. /\ Opened = Kept /\ Kept \subseteq 1 .. made /\ made \in Nat /\ vaultKey \in Nat
      /\ \A r \in Kept : history[r] \in Report /\ history[r].key = vaultKey
      /\ NextSeq \in 1 .. made + 1 /\ \A r \in Kept : history[r].seq < NextSeq
      /\ day \in 0 .. MaxDay /\ MaxReports \in Nat
      /\ DiskTypes /\ OldestFirst /\ SealedWhole /\ OneKeyInUse
  BY <1>1, ReportsInOrder, InstallationAssumption DEF InstallationInv, DiskTypes
<1>3. made + 1 \in 1 .. MaxReports /\ 1 .. made \subseteq 1 .. made + 1 /\ made + 1 \notin 1 .. made
      /\ 1 .. made + 1 \subseteq 1 .. MaxReports /\ made + 1 \in 1 .. made + 1
  BY <1>1, <1>2
<1>4. [key |-> vaultKey, date |-> day, seq |-> NextSeq] \in Report
  BY <1>2 DEF Report
<1>5. history' \in [Kept \cup {made + 1} -> Report]
  BY <1>1, <1>2, <1>4
<1>6. history' # Absent
  <2>1. Kept \cup {made + 1} \in SUBSET (1 .. MaxReports)
    BY <1>2, <1>3
  <2> QED
    BY <1>5, <2>1, InstallationAssumption DEF Report
<1>7. /\ Kept' = Kept \cup {made + 1} /\ made + 1 \notin Kept
      /\ \A r \in Kept : history'[r] = history[r]
      /\ history'[made + 1] = [key |-> vaultKey, date |-> day, seq |-> NextSeq]
  BY <1>1, <1>2, <1>3, <1>6 DEF Kept, ReportsIn
<1>8. DiskTypes'
  <2>1. DOMAIN history' \subseteq 1 .. made' /\ history' \in [DOMAIN history' -> Report]
    BY <1>1, <1>2, <1>3, <1>5
  <2>2. made' \in 0 .. MaxReports
    BY <1>1, <1>2
  <2> QED
    BY <1>1, <1>2, <2>1, <2>2 DEF DiskTypes
<1>9. OneKeyInUse' /\ AsideFirst'
  <2>1. \A r \in Kept' : history'[r].key = vaultKey
    BY <1>2, <1>7
  <2>2. PlaceKeys' \subseteq PlaceKeys \cup {vaultKey}
    BY <1>1, <2>1 DEF PlaceKeys, KeysIn, Kept
  <2> QED
    BY <1>1, <2>2, ServingKeepsKeys
<1>10. SealedWhole'
  <2>1. SealedIn(history, domains)' = SealedIn(history, domains) \cup {<<vaultKey, made + 1>>}
    <3>1. ReportsIn(history') = ReportsIn(history) \cup {made + 1}
      BY <1>7 DEF Kept
    <3>2. {<<history'[s].key, s>> : s \in ReportsIn(history')}
            = {<<history[s].key, s>> : s \in ReportsIn(history)} \cup {<<vaultKey, made + 1>>}
      BY <1>7, <3>1 DEF Kept
    <3> QED
      BY <1>1, <3>2 DEF SealedIn
  <2>2. RetiredSealed' = RetiredSealed
    BY <1>1 DEF RetiredSealed
  <2> QED
    BY <1>1, <1>2, <2>1, <2>2 DEF SealedWhole
<1>11. ASSUME NEW r \in Kept', NEW s \in Kept', r < s
       PROVE  history'[r].date <= history'[s].date /\ history'[r].seq < history'[s].seq
  <2>1. r \in Kept
    <3>1. CASE r = made + 1
      BY <1>2, <1>7, <1>11, <3>1
    <3> QED
      BY <1>7, <3>1
  <2>2. CASE s \in Kept
    BY <1>2, <1>7, <1>11, <2>1, <2>2 DEF OldestFirst
  <2>3. CASE s = made + 1
    BY <1>2, <1>7, <2>1, <2>3 DEF OldestFirst
  <2> QED
    BY <1>7, <2>2, <2>3
<1>12. ASSUME NEW r \in Kept' PROVE history'[r].date <= day' /\ history'[r].seq \in 1 .. made'
  <2>1. CASE r \in Kept
    <3>1. history'[r].date <= day /\ history'[r].seq \in 1 .. made
      BY <1>2, <1>7, <2>1 DEF OldestFirst
    <3> QED
      BY <1>1, <1>3, <3>1
  <2>2. CASE r = made + 1
    BY <1>1, <1>2, <1>7, <2>2
  <2> QED
    BY <1>7, <2>1, <2>2
<1>13. removing' \subseteq Kept' /\ \A r \in removing' : Cardinality({s \in Kept' \ removing' : s > r}) >= Limit
  BY <1>1, <1>7, WhatTheBoundTakes
<1>14. OldestFirst'
  BY <1>11, <1>12, <1>13 DEF OldestFirst
<1> QED
  BY <1>8, <1>9, <1>10, <1>14 DEF InstallationInv

\* A domain is added to, or removed from, a list that the key in memory opens.
LEMMA ListingKeepsInstallationInv ==
  ASSUME InstallationInv, NEW name \in Names, AddDomain(name) \/ RemoveDomain(name)
  PROVE  InstallationInv'
<1>1. /\ UNCHANGED <<day, phase, found, to, vaultKey, access, history, retired, removing, made, keys>>
      /\ vaultKey # NoVaultKey /\ phase = "up" /\ (domains # Absent => domains.key = vaultKey)
  BY DEF AddDomain, RemoveDomain, Readable, underWay
<1>2. /\ DiskTypes /\ SealedWhole /\ OldestFirst /\ vaultKey \in Nat /\ Kept \subseteq 1 .. made
      /\ \A r \in Kept : history[r].key = vaultKey
      /\ Listed \subseteq Names
  <2>1. Listed \subseteq Names
    BY DEF InstallationInv, DiskTypes, DomainList, Listed
  <2> QED
    BY <1>1, <2>1, ReportsInOrder DEF InstallationInv
<1>3. PICK ns \in SUBSET Names : domains' = [key |-> vaultKey, names |-> ns]
  BY <1>2 DEF AddDomain, RemoveDomain
<1>4. domains' \in DomainList /\ domains' # Absent
  BY <1>2, <1>3, InstallationAssumption DEF DomainList
<1>5. DiskTypes'
  BY <1>1, <1>2, <1>4 DEF DiskTypes
<1>6. OneKeyInUse' /\ AsideFirst'
  <2>1. PlaceKeys' \subseteq PlaceKeys \cup {vaultKey}
    BY <1>1, <1>3, <1>4 DEF PlaceKeys, KeysIn
  <2> QED
    BY <1>1, <2>1, ServingKeepsKeys
<1>7. OldestFirst'
  <2>1. Kept' = Kept
    BY <1>1 DEF Kept
  <2> QED
    BY <1>1, <1>2, <2>1 DEF OldestFirst
<1>8. RetiredSealed' = RetiredSealed /\ <<vaultKey, name>> \notin RetiredSealed
  BY <1>1, NotAside DEF RetiredSealed
<1> DEFINE Reps == {<<history[r].key, r>> : r \in ReportsIn(history)}
<1>9. /\ SealedIn(history, domains) = Reps \cup {<<vaultKey, x>> : x \in Listed}
      /\ SealedIn(history, domains)' = Reps \cup {<<vaultKey, x>> : x \in domains'.names}
  BY <1>1, <1>3, <1>4 DEF SealedIn, Listed
<1>10. SealedWhole'
  <2>1. CASE AddDomain(name)
    <3>1. domains'.names = Listed \cup {name} /\ owed' = owed \cup {<<vaultKey, name>>}
      BY <2>1 DEF AddDomain
    <3> QED
      BY <1>2, <1>8, <1>9, <3>1 DEF SealedWhole
  <2>2. CASE RemoveDomain(name)
    <3>1. domains'.names = Listed \ {name} /\ owed' = owed \ {<<vaultKey, name>>}
      BY <2>2 DEF RemoveDomain
    <3>2. <<vaultKey, name>> \notin Reps
      <4>1. \A r \in ReportsIn(history) : r # name
        BY <1>2, InstallationAssumption DEF Kept, DiskTypes
      <4> QED
        BY <4>1
    <3>3. {<<vaultKey, x>> : x \in Listed \ {name}} = {<<vaultKey, x>> : x \in Listed} \ {<<vaultKey, name>>}
      OBVIOUS
    <3> HIDE DEF Reps
    <3> QED
      BY <1>2, <1>8, <1>9, <3>1, <3>2, <3>3 DEF SealedWhole
  <2> QED
    BY <2>1, <2>2
<1> QED
  BY <1>5, <1>6, <1>7, <1>10 DEF InstallationInv

\* Every step of the process, the operator and the clock.
LEMMA StepKeepsInstallationInv ==
  InstallationInv /\ [InstallationNext]_installationVars => InstallationInv'
<1> SUFFICES ASSUME InstallationInv, [InstallationNext]_installationVars PROVE InstallationInv'
  OBVIOUS
<1>1. CASE UNCHANGED installationVars
  BY <1>1 DEF installationVars, InstallationInv, DiskTypes, OneKeyInUse, AsideFirst, SealedWhole, OldestFirst,
              PlaceKeys, RetiredKeys, FolderKeys, RetiredSealed, Kept, InPlace
<1> QED
  BY <1>1, LeavingKeepsInstallationInv, CreatingKeepsInstallationInv, MakingAFolder, MovingAside,
     DeletingKeepsInstallationInv, KeepingKeepsInstallationInv, ListingKeepsInstallationInv DEF InstallationNext

\* Whatever crashes, lost passwords and failed starts there are, and for any bounds:
\* a report or a domain that nobody removed is in place or in a retired folder under
\* its own key, and an access file is the key to everything in place (createAccess
\* and retireSealed, cmd/porchd/main.go; vault.go, domains.go).
THEOREM NothingIsEverLost == InstallationSpec => []NothingIsLost
<1>1. InstallationInv => NothingIsLost
  <2> SUFFICES ASSUME InstallationInv PROVE NothingIsLost
    OBVIOUS
  <2>1. ASSUME access # Absent
        PROVE  /\ \A r \in Kept : history[r].key = access.key
               /\ domains # Absent => domains.key = access.key
    BY <2>1 DEF InstallationInv, OneKeyInUse, PlaceKeys, KeysIn, Kept
  <2> QED
    BY <2>1 DEF InstallationInv, SealedWhole, RetiredSealed, NothingIsLost
<1> QED
  BY <1>1, InitiallyInstallationInv, StepKeepsInstallationInv, PTL DEF InstallationSpec

\* The bound takes a report only when Limit newer ones are still there, for any
\* bound, whatever was deleted or could not be removed before (Keep, vault.go).
THEOREM OldestReportsGoFirst == InstallationSpec => OldestGo
<1>1. ASSUME InstallationInv, NEW r \in removing
      PROVE  Cardinality({s \in Opened : s > r}) >= Limit
  <2>1. vaultKey # NoVaultKey
    BY <1>1 DEF InstallationInv, OneKeyInUse
  <2>2. Opened = Kept /\ Kept \subseteq 1 .. made /\ made \in Nat /\ Limit \in Nat
    BY <1>1, <2>1, ReportsInOrder, InstallationAssumption
  <2>3. Cardinality({s \in Kept \ removing : s > r}) >= Limit
    BY <1>1 DEF InstallationInv, OldestFirst
  <2>4. /\ {s \in Kept : s > r} \subseteq 1 .. made
        /\ {s \in Kept \ removing : s > r} \subseteq {s \in Kept : s > r}
    BY <2>2
  <2> QED
    BY <2>2, <2>3, <2>4, NewerAreFinite
<1>2. InstallationInv => [\A r \in removing \cap (Kept \ Kept') :
                            Cardinality({s \in Opened : s > r}) >= Limit]_installationVars
  BY <1>1
<1> QED
  BY <1>2, InitiallyInstallationInv, StepKeepsInstallationInv, PTL DEF InstallationSpec, OldestGo
=============================================================================
