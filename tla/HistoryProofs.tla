--------------------------- MODULE HistoryProofs ---------------------------
(***************************************************************************)
(* Proofs about one history file, for any processes, writers and limits:   *)
(* its types; that one writer at a time is past the lock file; and that no *)
(* record whose Put answered nil is lost but to the faults the code names. *)
(***************************************************************************)
EXTENDS History, FiniteSetTheorems, FunctionTheorems, SequenceTheorems, TLAPS

(***************************************************************************)
(* The histories. Two writers can meet at a stale lock only if two         *)
(* processes are alive beside the one that left it; where no process has   *)
(* such company, the lock does what it is for. (With one more process it   *)
(* does not: the run history_lock.)                                        *)
(***************************************************************************)

\* Beside a process that may die, one other at the most writes this history.
StealersAreAlone == \A m \in Mortal : \A p, q \in Procs \ {m} : p = q

Waiting == {"trying", "blocked", "stealing"}
SomebodyWrites == \E w \in Writers : pc[w] \in Writing

\* Whose the two locks are: the mutex is the writer's from TakeMutex on; a lock
\* file that nobody writes under was left by a process that died, and only such
\* a one grows old enough to be removed.
LocksAreHeld ==
  /\ \A w \in Writers : /\ pc[w] # "idle" => Proc[w] \notin dead
                        /\ pc[w] \in Waiting \cup Writing => mutex[Proc[w]] = w
                        /\ pc[w] \in Writing => lockAge \in 0 .. LockStale
                        /\ pc[w] = "stealing" => lockAge > LockStale
  /\ \A v, w \in Writers : pc[v] \in Writing /\ pc[w] \in Writing => v = w
  /\ lockAge # NoLock => SomebodyWrites \/ dead # {}

LockTypeOK ==
  /\ lockAge \in {NoLock} \cup 0 .. LockStale + 1
  /\ mutex \in [Procs -> Writers \cup {Nobody}]
  /\ pc \in [Writers -> {"idle", "mutex"} \cup Waiting \cup Writing]
  /\ dead \subseteq Mortal

LockInv == LockTypeOK /\ LocksAreHeld

\* Whoever is about to remove a stale lock is the only writer past the mutex of
\* its process: nobody writes, and nobody else removes it too.
LEMMA ThiefIsAlone ==
  ASSUME StealersAreAlone, LockInv, NEW w \in Writers, pc[w] = "stealing"
  PROVE  /\ ~SomebodyWrites
         /\ \A v \in Writers : pc[v] = "stealing" => v = w
<1>1. lockAge > LockStale /\ lockAge \in Int /\ LockStale \in Nat
  BY HistoryAssumption DEF LockInv, LocksAreHeld, LockTypeOK, NoLock
<1>2. ~SomebodyWrites
  BY <1>1 DEF LockInv, LocksAreHeld, SomebodyWrites
<1>3. PICK m \in dead : TRUE
  BY <1>1, <1>2 DEF LockInv, LocksAreHeld, NoLock
<1>4. ASSUME NEW v \in Writers, pc[v] = "stealing" PROVE v = w
  <2>1. Proc[v] \in Procs \ {m} /\ Proc[w] \in Procs \ {m} /\ m \in Mortal
    BY <1>3, <1>4, HistoryAssumption DEF LockInv, LocksAreHeld, LockTypeOK
  <2>2. Proc[v] = Proc[w]
    BY <2>1 DEF StealersAreAlone
  <2>3. mutex[Proc[v]] = v /\ mutex[Proc[w]] = w
    BY <1>4 DEF LockInv, LocksAreHeld, Waiting
  <2> QED
    BY <2>2, <2>3
<1> QED
  BY <1>2, <1>4

\* A step that moves one writer within what it holds, and leaves the locks as
\* they are, keeps them held.
LEMMA MovingKeepsLocks ==
  ASSUME LockInv, NEW w \in Writers, NEW place, Goto(w, place),
         UNCHANGED <<lockAge, mutex, dead>>,
         \/ place \in Writing /\ pc[w] \in Writing
         \/ place \in {"trying", "blocked"} /\ pc[w] \in Waiting
         \/ place = "stealing" /\ pc[w] \in Waiting /\ lockAge > LockStale
         \/ place = "mutex" /\ pc[w] = "idle" /\ Proc[w] \notin dead
  PROVE  LockInv'
<1>1. LockTypeOK'
  <2>1. place \in {"idle", "mutex"} \cup Waiting \cup Writing
    BY DEF Waiting
  <2> QED
    BY <2>1 DEF LockInv, LockTypeOK, Goto
<1>2. /\ pc' = [pc EXCEPT ![w] = place] /\ w \in DOMAIN pc
      /\ UNCHANGED <<lockAge, mutex, dead>>
  BY DEF Goto, LockInv, LockTypeOK
<1>3. \A v \in Writers : pc'[v] \in Writing <=> pc[v] \in Writing
  BY <1>2 DEF Writing, Waiting
<1>4. SomebodyWrites' <=> SomebodyWrites
  BY <1>3 DEF SomebodyWrites
<1>5. ASSUME NEW v \in Writers
      PROVE  /\ pc'[v] # "idle" => Proc[v] \notin dead
             /\ pc'[v] \in Waiting \cup Writing => mutex[Proc[v]] = v
             /\ pc'[v] = "stealing" => lockAge > LockStale
  <2>1. CASE v # w
    <3>1. pc'[v] = pc[v]
      BY <1>2, <2>1
    <3> QED
      BY <3>1 DEF LockInv, LocksAreHeld
  <2>2. CASE v = w
    <3>1. pc'[v] = place
      BY <1>2, <2>2
    <3> QED
      BY <2>2, <3>1 DEF LockInv, LocksAreHeld, Writing, Waiting
  <2> QED
    BY <2>1, <2>2
<1> QED
  BY <1>1, <1>2, <1>3, <1>4, <1>5 DEF LockInv, LocksAreHeld

\* A step that gives both locks back keeps those of the others held.
LEMMA ReleaseKeepsLocks ==
  ASSUME LockInv, NEW w \in Writers, pc[w] \in Writing, Release(w), dead' = dead
  PROVE  LockInv'
<1>1. /\ pc' = [pc EXCEPT ![w] = "idle"] /\ lockAge' = NoLock
      /\ mutex' = [mutex EXCEPT ![Proc[w]] = Nobody] /\ Proc[w] \in Procs
      /\ pc \in [Writers -> {"idle", "mutex"} \cup Waiting \cup Writing]
      /\ mutex \in [Procs -> Writers \cup {Nobody}]
  BY HistoryAssumption DEF Release, Goto, LockInv, LockTypeOK
<1>2. LockTypeOK'
  BY <1>1 DEF LockInv, LockTypeOK
<1>3. mutex[Proc[w]] = w /\ lockAge \in 0 .. LockStale /\ LockStale \in Nat
  BY HistoryAssumption DEF LockInv, LocksAreHeld
<1>4. ASSUME NEW v \in Writers
      PROVE  /\ pc'[v] # "idle" => Proc[v] \notin dead'
             /\ pc'[v] \in Waiting \cup Writing => mutex'[Proc[v]] = v
             /\ pc'[v] \notin Writing /\ pc'[v] # "stealing"
  <2>1. CASE v # w
    <3>1. pc'[v] = pc[v]
      BY <1>1, <2>1
    <3>2. pc[v] \notin Writing
      BY <2>1 DEF LockInv, LocksAreHeld
    <3>3. pc[v] # "stealing"
      BY <1>3 DEF LockInv, LocksAreHeld
    <3>4. pc[v] \in Waiting \cup Writing => mutex[Proc[v]] = v /\ Proc[v] # Proc[w]
      BY <1>3, <2>1 DEF LockInv, LocksAreHeld
    <3>5. pc[v] # "idle" => Proc[v] \notin dead
      BY DEF LockInv, LocksAreHeld
    <3>6. Proc[v] \in Procs
      BY HistoryAssumption
    <3> QED
      BY <1>1, <3>1, <3>2, <3>3, <3>4, <3>5, <3>6
  <2>2. CASE v = w
    <3>1. pc'[v] = "idle"
      BY <1>1, <2>2
    <3> QED
      BY <3>1 DEF Waiting, Writing
  <2> QED
    BY <2>1, <2>2
<1> QED
  BY <1>1, <1>2, <1>4 DEF LockInv, LocksAreHeld

\* Taking and giving up the locks: the steps of lock (results/lock.go).
LEMMA LockingKeepsLocks ==
  ASSUME StealersAreAlone, LockInv, NEW w \in Writers, Put(w) \/ TakeMutex(w) \/ Locking(w)
  PROVE  LockInv'
<1>0. /\ pc \in [Writers -> {"idle", "mutex"} \cup Waiting \cup Writing]
      /\ mutex \in [Procs -> Writers \cup {Nobody}] /\ Proc \in [Writers -> Procs]
      /\ Nobody \notin Writers /\ LockStale \in Nat
  BY HistoryAssumption DEF LockInv, LockTypeOK
<1>1. CASE Put(w)
  BY <1>1, MovingKeepsLocks DEF Put
<1>2. CASE FindLocked(w)
  BY <1>2, MovingKeepsLocks DEF FindLocked, Waiting
<1>3. CASE FindStale(w)
  BY <1>3, MovingKeepsLocks DEF FindStale, Waiting
<1>4. CASE TakeMutex(w)
  <2>1. /\ pc[w] = "mutex" /\ mutex[Proc[w]] = Nobody /\ pc' = [pc EXCEPT ![w] = "trying"]
        /\ mutex' = [mutex EXCEPT ![Proc[w]] = w] /\ UNCHANGED <<lockAge, dead>>
    BY <1>4 DEF TakeMutex, Goto
  <2>2. LockTypeOK'
    BY <1>0, <2>1 DEF LockInv, LockTypeOK, Waiting
  <2>3. \A v \in Writers : pc'[v] \in Writing <=> pc[v] \in Writing
    BY <1>0, <2>1 DEF Writing
  <2>4. ASSUME NEW v \in Writers
        PROVE  /\ pc'[v] # "idle" => Proc[v] \notin dead
               /\ pc'[v] \in Waiting \cup Writing => mutex'[Proc[v]] = v
               /\ pc'[v] = "stealing" => lockAge > LockStale
    <3>1. CASE v = w
      <4>1. pc'[v] = "trying" /\ mutex'[Proc[v]] = v
        BY <1>0, <2>1, <3>1
      <4> QED
        BY <2>1, <3>1, <4>1 DEF LockInv, LocksAreHeld
    <3>2. CASE v # w
      <4>1. pc'[v] = pc[v]
        BY <1>0, <2>1, <3>2
      <4>2. pc[v] \in Waiting \cup Writing => mutex[Proc[v]] = v /\ Proc[v] # Proc[w]
        BY <1>0, <2>1 DEF LockInv, LocksAreHeld
      <4>3. pc[v] \in Waiting \cup Writing => mutex'[Proc[v]] = v
        BY <1>0, <2>1, <4>2
      <4> QED
        BY <4>1, <4>3 DEF LockInv, LocksAreHeld
    <3> QED
      BY <3>1, <3>2
  <2>5. SomebodyWrites' <=> SomebodyWrites
    BY <2>3 DEF SomebodyWrites
  <2> QED
    BY <2>1, <2>2, <2>3, <2>4, <2>5 DEF LockInv, LocksAreHeld
<1>5. CASE CreateLock(w)
  <2>1. /\ pc[w] = "trying" /\ lockAge = NoLock /\ lockAge' = 0
        /\ pc' = [pc EXCEPT ![w] = "locked"] /\ UNCHANGED <<mutex, dead>>
    BY <1>5 DEF CreateLock, Goto
  <2>2. LockTypeOK'
    BY <1>0, <2>1 DEF LockInv, LockTypeOK, Writing
  <2>3. \A v \in Writers : pc[v] \notin Writing /\ pc[v] # "stealing"
    BY <1>0, <2>1 DEF LockInv, LocksAreHeld, NoLock
  <2>4. \A v \in Writers : v # w => pc'[v] = pc[v]
    BY <1>0, <2>1
  <2>5. pc'[w] = "locked" /\ "locked" \in Writing /\ pc[w] \in Waiting
    BY <1>0, <2>1 DEF Writing, Waiting
  <2>6. SomebodyWrites'
    BY <2>5 DEF SomebodyWrites
  <2>7. ASSUME NEW v \in Writers
        PROVE  /\ pc'[v] # "idle" => Proc[v] \notin dead'
               /\ pc'[v] \in Waiting \cup Writing => mutex'[Proc[v]] = v
               /\ pc'[v] # "stealing"
               /\ pc'[v] \in Writing => v = w
    BY <2>1, <2>3, <2>4, <2>5 DEF LockInv, LocksAreHeld
  <2> QED
    BY <1>0, <2>1, <2>2, <2>6, <2>7 DEF LockInv, LocksAreHeld
<1>6. CASE RemoveStale(w)
  <2>1. /\ pc[w] = "stealing" /\ lockAge' = NoLock
        /\ pc' = [pc EXCEPT ![w] = "trying"] /\ UNCHANGED <<mutex, dead>>
    BY <1>6 DEF RemoveStale, Goto
  <2>2. LockTypeOK'
    BY <1>0, <2>1 DEF LockInv, LockTypeOK, Waiting
  <2>3. /\ \A v \in Writers : pc[v] \notin Writing
        /\ \A v \in Writers : pc[v] = "stealing" => v = w
    BY <2>1, ThiefIsAlone DEF SomebodyWrites
  <2>4. pc'[w] = "trying" /\ pc[w] \in Waiting /\ \A v \in Writers : v # w => pc'[v] = pc[v]
    BY <1>0, <2>1 DEF Waiting
  <2>5. ASSUME NEW v \in Writers
        PROVE  /\ pc'[v] # "idle" => Proc[v] \notin dead'
               /\ pc'[v] \in Waiting \cup Writing => mutex'[Proc[v]] = v
               /\ pc'[v] # "stealing"
               /\ pc'[v] \notin Writing
    BY <2>1, <2>3, <2>4 DEF LockInv, LocksAreHeld, Writing
  <2> QED
    BY <2>1, <2>2, <2>5 DEF LockInv, LocksAreHeld
<1>7. CASE PollOrGiveUp(w)
  <2>1. pc[w] = "blocked" /\ UNCHANGED <<lockAge, dead>>
    BY <1>7 DEF PollOrGiveUp
  <2>2. CASE Goto(w, "trying") /\ UNCHANGED mutex
    BY <2>1, <2>2, MovingKeepsLocks DEF Waiting
  <2>3. CASE Goto(w, "idle") /\ mutex' = [mutex EXCEPT ![Proc[w]] = Nobody]
    <3>1. pc' = [pc EXCEPT ![w] = "idle"]
      BY <2>3 DEF Goto
    <3>2. LockTypeOK'
      BY <1>0, <2>1, <2>3, <3>1 DEF LockInv, LockTypeOK
    <3>3. \A v \in Writers : pc'[v] \in Writing <=> pc[v] \in Writing
      BY <1>0, <2>1, <3>1 DEF Writing
    <3>4. mutex[Proc[w]] = w
      BY <2>1 DEF LockInv, LocksAreHeld, Waiting
    <3>5. ASSUME NEW v \in Writers
          PROVE  /\ pc'[v] # "idle" => Proc[v] \notin dead
                 /\ pc'[v] \in Waiting \cup Writing => mutex'[Proc[v]] = v
                 /\ pc'[v] = "stealing" => lockAge > LockStale
      <4>1. CASE v = w
        <5>1. pc'[v] = "idle"
          BY <1>0, <3>1, <4>1
        <5> QED
          BY <5>1 DEF Waiting, Writing
      <4>2. CASE v # w
        <5>1. pc'[v] = pc[v]
          BY <1>0, <3>1, <4>2
        <5>2. pc[v] \in Waiting \cup Writing => mutex[Proc[v]] = v /\ Proc[v] # Proc[w]
          BY <3>4, <4>2 DEF LockInv, LocksAreHeld
        <5>3. pc[v] \in Waiting \cup Writing => mutex'[Proc[v]] = v
          BY <1>0, <2>3, <5>2
        <5> QED
          BY <5>1, <5>3 DEF LockInv, LocksAreHeld
      <4> QED
        BY <4>1, <4>2
    <3>6. SomebodyWrites' <=> SomebodyWrites
      BY <3>3 DEF SomebodyWrites
    <3> QED
      BY <2>1, <3>2, <3>3, <3>5, <3>6 DEF LockInv, LocksAreHeld
  <2> QED
    BY <1>7, <2>2, <2>3 DEF PollOrGiveUp
<1> QED
  BY <1>1, <1>2, <1>3, <1>4, <1>5, <1>6, <1>7 DEF Locking

\* Putting, under both locks, and giving them back.
LEMMA StoringKeepsLocks ==
  ASSUME LockInv, NEW w \in Writers, Storing(w)
  PROVE  LockInv'
<1>1. CASE AppendRecord(w) \/ Trim(w) \/ Rename(w) \/ Truncate(w) \/ Rewrite(w)
  <2>1. /\ pc[w] \in Writing /\ UNCHANGED <<lockAge, mutex, dead>>
        /\ \E place \in Writing : Goto(w, place)
    BY <1>1 DEF AppendRecord, Trim, Rename, Truncate, Rewrite, Writing
  <2> QED
    BY <2>1, MovingKeepsLocks
<1>2. CASE AppendFails(w) \/ RewriteFails(w) \/ TrimFails(w) \/ PutAnswers(w)
  <2>1. pc[w] \in Writing /\ Release(w) /\ dead' = dead
    BY <1>2 DEF AppendFails, RewriteFails, TrimFails, PutAnswers, Writing
  <2> QED
    BY <2>1, ReleaseKeepsLocks
<1> QED
  BY <1>1, <1>2 DEF Storing

\* A process that dies leaves the lock file, and nobody of it anywhere.
LEMMA DyingKeepsLocks ==
  ASSUME LockInv, NEW p \in Procs, Die(p)
  PROVE  LockInv'
<1>1. /\ p \in Mortal /\ dead' = dead \cup {p} /\ lockAge' = lockAge
      /\ mutex' = [mutex EXCEPT ![p] = Nobody]
      /\ pc' = [w \in Writers |-> IF Proc[w] = p THEN "idle" ELSE pc[w]]
  BY DEF Die
<1>2. /\ pc \in [Writers -> {"idle", "mutex"} \cup Waiting \cup Writing]
      /\ mutex \in [Procs -> Writers \cup {Nobody}] /\ Proc \in [Writers -> Procs]
  BY HistoryAssumption DEF LockInv, LockTypeOK
<1>3. LockTypeOK'
  BY <1>1, <1>2 DEF LockInv, LockTypeOK
<1>4. ASSUME NEW v \in Writers
      PROVE  /\ pc'[v] # "idle" => pc'[v] = pc[v] /\ Proc[v] # p
             /\ pc'[v] # "idle" => Proc[v] \notin dead'
             /\ pc'[v] \in Waiting \cup Writing => mutex'[Proc[v]] = v
             /\ pc'[v] \in Writing => pc[v] \in Writing
  <2>1. CASE Proc[v] = p
    <3>1. pc'[v] = "idle"
      BY <1>1, <2>1
    <3> QED
      BY <3>1 DEF Waiting, Writing
  <2>2. CASE Proc[v] # p
    <3>1. pc'[v] = pc[v] /\ mutex'[Proc[v]] = mutex[Proc[v]]
      BY <1>1, <1>2, <2>2
    <3> QED
      BY <1>1, <2>2, <3>1 DEF LockInv, LocksAreHeld
  <2> QED
    BY <2>1, <2>2
<1>5. dead' # {}
  BY <1>1
<1> QED
  BY <1>1, <1>3, <1>4, <1>5 DEF LockInv, LocksAreHeld

\* Time passes: a lock grows old only while nobody writes under it.
LEMMA TickKeepsLocks ==
  ASSUME LockInv, HistoryTick
  PROVE  LockInv'
<1>1. /\ UNCHANGED <<mutex, pc, dead>>
      /\ \A w \in Writers : pc[w] \in Writing => lockAge < LockStale
      /\ lockAge' = IF lockAge = NoLock THEN NoLock ELSE Older(lockAge, LockStale)
  BY DEF HistoryTick
<1>2. lockAge \in {NoLock} \cup 0 .. LockStale + 1 /\ LockStale \in Nat
  BY HistoryAssumption DEF LockInv, LockTypeOK
<1>3. /\ lockAge' \in {NoLock} \cup 0 .. LockStale + 1
      /\ lockAge' = NoLock <=> lockAge = NoLock
      /\ lockAge \in 0 .. LockStale /\ lockAge < LockStale => lockAge' \in 0 .. LockStale
      /\ lockAge > LockStale => lockAge' > LockStale
  BY <1>1, <1>2 DEF Older, NoLock
<1>4. LockTypeOK'
  BY <1>1, <1>3 DEF LockInv, LockTypeOK
<1>5. SomebodyWrites' <=> SomebodyWrites
  BY <1>1 DEF SomebodyWrites
<1> QED
  BY <1>1, <1>3, <1>4, <1>5 DEF LockInv, LocksAreHeld

\* Every step keeps the locks held.
LEMMA StepKeepsLockInv ==
  ASSUME StealersAreAlone
  PROVE  LockInv /\ [HistoryNext]_historyVars => LockInv'
<1> SUFFICES ASSUME LockInv, [HistoryNext]_historyVars PROVE LockInv'
  OBVIOUS
<1>1. CASE UNCHANGED historyVars
  BY <1>1 DEF historyVars, LockInv, LockTypeOK, LocksAreHeld, SomebodyWrites
<1> QED
  BY <1>1, LockingKeepsLocks, StoringKeepsLocks, DyingKeepsLocks, TickKeepsLocks DEF HistoryNext

\* Nobody holds anything at first.
LEMMA InitiallyLockInv == HistoryInit => LockInv
BY HistoryAssumption DEF HistoryInit, LockInv, LockTypeOK, LocksAreHeld, Waiting, Writing, NoLock

\* At most one writer is past the lock file at any time, whatever the processes
\* and their writers, if none that may die has two others beside it (lock.go).
THEOREM OneWriterUnlessTwoSteal ==
  ASSUME StealersAreAlone
  PROVE  HistorySpec => []OneWriterAtATime
<1>1. LockInv => OneWriterAtATime
  <2> SUFFICES ASSUME LockInv PROVE OneWriterAtATime
    OBVIOUS
  <2> DEFINE Ws == {w \in Writers : pc[w] \in Writing}
  <2>1. \A v, w \in Ws : v = w
    BY DEF LockInv, LocksAreHeld
  <2>2. CASE Ws = {}
    BY <2>2, FS_EmptySet DEF OneWriterAtATime
  <2>3. CASE Ws # {}
    <3>1. PICK w \in Ws : TRUE
      BY <2>3
    <3>2. Ws = {w}
      BY <2>1, <3>1
    <3>3. Cardinality({w}) = 1
      BY FS_Singleton
    <3> QED
      BY <3>2, <3>3 DEF OneWriterAtATime
  <2> QED
    BY <2>2, <2>3
<1>2. LockInv /\ [HistoryNext]_historyVars => LockInv'
  BY StepKeepsLockInv
<1> QED
  BY <1>1, <1>2, InitiallyLockInv, PTL DEF HistorySpec

-----------------------------------------------------------------------------
(* What a file of records holds. *)

\* The records of the file are in the order in which they were appended.
Ascending(ls, n) ==
  /\ ls \in Seq(1 .. n)
  /\ \A i, j \in 1 .. Len(ls) : i < j => ls[i] < ls[j]

\* A file in order holds as many records as it is long.
LEMMA AsManyAsItIsLong ==
  ASSUME NEW n \in Nat, NEW ls, Ascending(ls, n)
  PROVE  /\ IsFiniteSet(Range(ls)) /\ Cardinality(Range(ls)) = Len(ls)
         /\ Len(ls) \in Nat /\ Range(ls) \subseteq 1 .. n
         /\ Range(ls) = {ls[i] : i \in 1 .. Len(ls)}
<1>1. /\ ls \in Seq(1 .. n) /\ Len(ls) \in Nat /\ DOMAIN ls = 1 .. Len(ls)
      /\ \A i \in 1 .. Len(ls) : ls[i] \in 1 .. n
      /\ \A i, j \in 1 .. Len(ls) : i < j => ls[i] < ls[j]
  BY DEF Ascending
<1>2. Range(ls) = {ls[i] : i \in 1 .. Len(ls)}
  BY <1>1 DEF Range
<1>3. ls \in [1 .. Len(ls) -> Range(ls)]
  BY <1>1, <1>2
<1>4. \A i, j \in 1 .. Len(ls) : ls[i] = ls[j] => i = j
  <2> SUFFICES ASSUME NEW i \in 1 .. Len(ls), NEW j \in 1 .. Len(ls), ls[i] = ls[j], i # j
               PROVE  FALSE
    OBVIOUS
  <2>1. ls[i] \in Int /\ ls[j] \in Int /\ i \in Int /\ j \in Int
    BY <1>1
  <2>2. i < j \/ j < i
    BY <2>1
  <2> QED
    BY <1>1, <2>1, <2>2
<1>5. ls \in Bijection(1 .. Len(ls), Range(ls))
  <2>1. \A t \in Range(ls) : \E i \in 1 .. Len(ls) : ls[i] = t
    BY <1>2
  <2> QED
    BY ONLY <1>3, <1>4, <2>1, Fun_IsBij
<1>6. IsFiniteSet(1 .. Len(ls)) /\ Cardinality(1 .. Len(ls)) = Len(ls)
  <2> DEFINE m == Len(ls)
  <2>1. m \in Nat
    BY <1>1
  <2> HIDE DEF m
  <2>2. IsFiniteSet(1 .. m) /\ Cardinality(1 .. m) = m
    BY <2>1, FS_Interval
  <2> QED
    BY <2>2 DEF m
<1>7. IsFiniteSet(Range(ls)) /\ Cardinality(Range(ls)) = Len(ls)
  BY <1>5, <1>6, FS_Bijection DEF ExistsBijection
<1> QED
  BY <1>1, <1>2, <1>7

\* A trim to the newest k leaves a file in order, and takes no record of which
\* there were not k newer ones (trim, results.go).
LEMMA TrimTakesTheOldest ==
  ASSUME NEW n \in Nat, NEW ls, Ascending(ls, n), NEW k \in Nat \ {0}, k < Len(ls)
  PROVE  /\ Ascending(NewestOf(ls, k), n)
         /\ \A r \in Range(ls) : IsDue(r, ls, k) => r \in Range(NewestOf(ls, k))
<1> DEFINE b == NewestOf(ls, k)
           gap == Len(ls) - k
<1>1. /\ ls \in Seq(1 .. n) /\ Len(ls) \in Nat
      /\ \A i \in 1 .. Len(ls) : ls[i] \in 1 .. n
      /\ \A i, j \in 1 .. Len(ls) : i < j => ls[i] < ls[j]
  BY DEF Ascending
<1>2. k \in Nat \ {0} /\ k < Len(ls) /\ gap \in Nat
  BY <1>1
<1>3. b = SubSeq(ls, gap + 1, Len(ls))
  BY <1>1, <1>2 DEF NewestOf
<1>4. /\ b \in Seq(1 .. n) /\ Len(b) = k
      /\ \A i \in 1 .. k : b[i] = ls[gap + i]
  <2>1. /\ gap + 1 \in Int /\ Len(ls) \in Int /\ gap + 1 <= Len(ls)
        /\ Len(ls) - (gap + 1) + 1 = k
        /\ \A i \in gap + 1 .. Len(ls) : ls[i] \in 1 .. n
        /\ \A i \in 1 .. k : gap + 1 + i - 1 = gap + i
    BY <1>1, <1>2
  <2>2. /\ SubSeq(ls, gap + 1, Len(ls)) \in Seq(1 .. n)
        /\ Len(SubSeq(ls, gap + 1, Len(ls))) = IF gap + 1 <= Len(ls) THEN Len(ls) - (gap + 1) + 1 ELSE 0
        /\ \A i \in 1 .. Len(ls) - (gap + 1) + 1 : SubSeq(ls, gap + 1, Len(ls))[i] = ls[gap + 1 + i - 1]
    <3> HIDE DEF gap
    <3> QED
      BY <2>1, SubSeqProperties
  <2> HIDE DEF gap, b
  <2>3. b \in Seq(1 .. n) /\ Len(b) = k
    BY <1>3, <2>1, <2>2
  <2>4. ASSUME NEW i \in 1 .. k PROVE b[i] = ls[gap + i]
    <3>1. b[i] = ls[gap + 1 + i - 1]
      BY <1>3, <2>1, <2>2
    <3>2. gap + 1 + i - 1 = gap + i
      BY <2>1
    <3> QED
      BY <3>1, <3>2
  <2> QED
    BY <2>3, <2>4
<1> HIDE DEF b
<1>5. Ascending(b, n)
  <2> SUFFICES ASSUME NEW i \in 1 .. k, NEW j \in 1 .. k, i < j PROVE b[i] < b[j]
    BY <1>4 DEF Ascending
  <2>1. gap + i \in 1 .. Len(ls) /\ gap + j \in 1 .. Len(ls) /\ gap + i < gap + j
    BY <1>1, <1>2
  <2>2. ls[gap + i] < ls[gap + j]
    BY <1>1, <2>1
  <2> QED
    BY <1>4, <2>2
<1>6. /\ IsFiniteSet(Range(b)) /\ Cardinality(Range(b)) = k
      /\ Range(b) = {b[i] : i \in 1 .. k}
  BY <1>4, <1>5, AsManyAsItIsLong
<1>7. /\ IsFiniteSet(Range(ls))
      /\ Range(ls) = {ls[i] : i \in 1 .. Len(ls)}
  BY AsManyAsItIsLong
<1>8. Range(b) \subseteq Range(ls)
  <2> SUFFICES ASSUME NEW i \in 1 .. k PROVE b[i] \in Range(ls)
    BY <1>6
  <2>1. gap + i \in 1 .. Len(ls)
    BY <1>1, <1>2
  <2> QED
    BY <1>4, <1>7, <2>1
\* All of what is left is newer than anything that was taken.
<1>9. ASSUME NEW x \in Range(ls), x \notin Range(b), NEW y \in Range(b)
      PROVE  x < y
  <2>1. PICK i \in 1 .. Len(ls) : x = ls[i]
    BY <1>7
  <2>2. PICK j \in 1 .. k : y = b[j]
    BY <1>6
  <2>3. i <= gap
    <3> SUFFICES ASSUME i > gap PROVE FALSE
      BY <1>2
    <3>1. i - gap \in 1 .. k /\ gap + (i - gap) = i
      BY <1>1, <1>2
    <3>2. b[i - gap] = ls[i]
      BY <1>4, <3>1
    <3> QED
      BY <1>6, <1>9, <2>1, <3>1, <3>2
  <2>4. gap + j \in 1 .. Len(ls) /\ i < gap + j
    BY <1>1, <1>2, <2>3
  <2> QED
    BY <1>1, <1>4, <2>1, <2>2, <2>4
<1>10. ASSUME NEW r \in Range(ls), IsDue(r, ls, k), r \notin Range(b) PROVE FALSE
  <2> DEFINE above == {x \in Range(ls) : x > r}
  <2>1. Range(b) \subseteq above
    <3> SUFFICES ASSUME NEW y \in Range(b) PROVE y > r
      BY <1>8
    <3>1. r < y
      BY <1>9, <1>10
    <3> QED
      BY <3>1
  <2>2. IsFiniteSet(above)
    BY <1>7, FS_Subset
  <2>3. Cardinality(Range(b)) <= Cardinality(above) /\ Cardinality(above) \in Nat
    BY <2>1, <2>2, FS_Subset, FS_CardinalityType
  <2>4. Cardinality(above) < k
    BY <1>2, <1>10 DEF IsDue
  <2> QED
    BY <1>2, <1>6, <2>3, <2>4
<1> QED
  BY <1>5, <1>10 DEF b

\* A record that is appended is the newest, and takes nothing away.
LEMMA AppendingAddsTheNewest ==
  ASSUME NEW n \in Nat, NEW ls, Ascending(ls, n), Len(ls) <= n
  PROVE  /\ Ascending(Append(ls, n + 1), n + 1)
         /\ Range(Append(ls, n + 1)) = Range(ls) \cup {n + 1}
<1> DEFINE a == Append(ls, n + 1)
<1>1. /\ ls \in Seq(1 .. n) /\ Len(ls) \in Nat
      /\ \A i \in 1 .. Len(ls) : ls[i] \in 1 .. n
      /\ \A i, j \in 1 .. Len(ls) : i < j => ls[i] < ls[j]
  BY DEF Ascending
<1>2. ls \in Seq(1 .. n + 1)
  <2>1. 1 .. n \subseteq 1 .. n + 1
    OBVIOUS
  <2> QED
    BY <1>1, <2>1, SeqMonotonic
<1>3. /\ a \in Seq(1 .. n + 1) /\ Len(a) = Len(ls) + 1
      /\ \A i \in 1 .. Len(ls) : a[i] = ls[i]
      /\ a[Len(ls) + 1] = n + 1
  <2>1. n + 1 \in 1 .. n + 1
    OBVIOUS
  <2> QED
    BY <1>2, <2>1, AppendProperties
<1> HIDE DEF a
<1>4. Ascending(a, n + 1)
  <2> SUFFICES ASSUME NEW i \in 1 .. Len(a), NEW j \in 1 .. Len(a), i < j PROVE a[i] < a[j]
    BY <1>3 DEF Ascending
  <2>0. i \in Int /\ j \in Int /\ 1 <= i /\ i < j /\ j <= Len(ls) + 1
    BY <1>1, <1>3
  <2>1. Len(ls) \in Int
    BY <1>1
  <2>2. i \in 1 .. Len(ls) /\ (j \in 1 .. Len(ls) \/ j = Len(ls) + 1)
    BY ONLY <2>0, <2>1
  <2>3. a[i] = ls[i] /\ ls[i] \in 1 .. n
    BY <1>1, <1>3, <2>2
  <2>4. CASE j \in 1 .. Len(ls)
    <3>1. a[j] = ls[j] /\ ls[i] < ls[j]
      BY <1>1, <1>3, <2>0, <2>2, <2>4
    <3> QED
      BY <2>3, <3>1
  <2>5. CASE j = Len(ls) + 1
    <3>1. a[j] = n + 1
      BY <1>3, <2>5
    <3>2. a[i] \in 1 .. n
      BY <2>3
    <3> QED
      BY ONLY <3>1, <3>2, n \in Nat
  <2> QED
    BY <2>2, <2>4, <2>5
<1>5. /\ IsFiniteSet(Range(a)) /\ Range(a) = {a[i] : i \in 1 .. Len(a)}
      /\ Range(ls) = {ls[i] : i \in 1 .. Len(ls)}
  BY <1>4, AsManyAsItIsLong
<1>6. Range(ls) \subseteq Range(a) /\ n + 1 \in Range(a)
  <2>1. ASSUME NEW i \in 1 .. Len(ls) PROVE ls[i] \in Range(a)
    <3>1. i \in 1 .. Len(a)
      BY <1>1, <1>3
    <3> QED
      BY <1>3, <1>5, <3>1
  <2>2. Len(ls) + 1 \in 1 .. Len(a)
    BY <1>1, <1>3
  <2> QED
    BY <1>3, <1>5, <2>1, <2>2
<1>7. ASSUME NEW x \in Range(a) PROVE x \in Range(ls) \cup {n + 1}
  <2>1. PICK i \in 1 .. Len(a) : x = a[i]
    BY <1>5
  <2>2. i \in 1 .. Len(ls) \/ i = Len(ls) + 1
    BY <1>1, <1>3
  <2> QED
    BY <1>3, <1>5, <2>1, <2>2
<1> QED
  BY <1>4, <1>6, <1>7 DEF a

\* A file of which only the first m lines were written is in order, and lacks no
\* other line (WriteFile, lock.go).
LEMMA PrefixIsInOrder ==
  ASSUME NEW n \in Nat, NEW ls, Ascending(ls, n), NEW m \in 0 .. Len(ls)
  PROVE  /\ Ascending(SubSeq(ls, 1, m), n)
         /\ Range(ls) \subseteq Range(SubSeq(ls, 1, m)) \cup {ls[i] : i \in m + 1 .. Len(ls)}
<1> DEFINE b == SubSeq(ls, 1, m)
<1>1. /\ ls \in Seq(1 .. n) /\ Len(ls) \in Nat /\ m \in Nat /\ m <= Len(ls)
      /\ \A i \in 1 .. Len(ls) : ls[i] \in 1 .. n
      /\ \A i, j \in 1 .. Len(ls) : i < j => ls[i] < ls[j]
  BY DEF Ascending
<1>2. b \in Seq(1 .. n) /\ Len(b) = m /\ \A i \in 1 .. m : b[i] = ls[i]
  <2>1. /\ 1 \in Int /\ m \in Int /\ \A i \in 1 .. m : ls[i] \in 1 .. n
        /\ \A i \in 1 .. m : 1 + i - 1 = i
        /\ m - 1 + 1 = m /\ (~(1 <= m) => m = 0)
    BY <1>1
  <2>2. /\ SubSeq(ls, 1, m) \in Seq(1 .. n)
        /\ Len(SubSeq(ls, 1, m)) = IF 1 <= m THEN m - 1 + 1 ELSE 0
        /\ \A i \in 1 .. m - 1 + 1 : SubSeq(ls, 1, m)[i] = ls[1 + i - 1]
    BY <2>1, SubSeqProperties
  <2>3. b \in Seq(1 .. n) /\ Len(b) = m
    BY <2>1, <2>2
  <2>4. ASSUME NEW i \in 1 .. m PROVE b[i] = ls[i]
    <3>1. b[i] = ls[1 + i - 1]
      BY <2>1, <2>2
    <3> QED
      BY <2>1, <3>1
  <2> QED
    BY <2>3, <2>4
<1> HIDE DEF b
<1>3. Ascending(b, n)
  <2> SUFFICES ASSUME NEW i \in 1 .. m, NEW j \in 1 .. m, i < j PROVE b[i] < b[j]
    BY <1>2 DEF Ascending
  <2>1. i \in 1 .. Len(ls) /\ j \in 1 .. Len(ls)
    BY <1>1
  <2> QED
    BY <1>1, <1>2, <2>1
<1>4. Range(ls) = {ls[i] : i \in 1 .. Len(ls)} /\ Range(b) = {b[i] : i \in 1 .. m}
  BY <1>2, <1>3, AsManyAsItIsLong
<1>5. ASSUME NEW i \in 1 .. Len(ls) PROVE ls[i] \in Range(b) \cup {ls[k] : k \in m + 1 .. Len(ls)}
  <2>1. i \in 1 .. m \/ i \in m + 1 .. Len(ls)
    BY <1>1
  <2> QED
    BY <1>2, <1>4, <2>1
<1> QED
  BY <1>3, <1>4, <1>5 DEF b

-----------------------------------------------------------------------------
(* What is stored, whoever writes it. *)

\* The writers that have a record still to append.
ToAppend == {"mutex", "trying", "blocked", "stealing", "locked"}
Pending == {w \in Writers : pc[w] \in ToAppend}
Appended == {"appended", "replacing", "rewriting", "done"}

NotTooMany ==
  /\ IsFiniteSet(Busy)
  /\ appended \in Nat
  /\ appended + Cardinality(Pending) <= MaxPuts

\* The file and what a writer will leave of it are in order, and of what was
\* appended; so is the record of a writer that has appended one.
InOrder ==
  /\ Ascending(lines, appended)
  /\ \A w \in Writers : Ascending(body[w], appended)
  /\ mine \in [Writers -> 0 .. appended]
  /\ \A w \in Writers : pc[w] \in Appended => mine[w] # NoRecord
  /\ kept \subseteq 1 .. appended

OtherTypes ==
  /\ torn \in BOOLEAN
  /\ cost \in Nat
  /\ waited \in [Writers -> 0 .. LockWait + 1]
  /\ body = [w \in Writers |-> body[w]]

StoreInv == LockTypeOK /\ NotTooMany /\ InOrder /\ OtherTypes

\* The locks keep their types at every step, stolen or not.
LEMMA StepKeepsLockTypes == LockTypeOK /\ [HistoryNext]_historyVars => LockTypeOK'
<1> SUFFICES ASSUME LockTypeOK, [HistoryNext]_historyVars PROVE LockTypeOK'
  OBVIOUS
<1> DEFINE Place == {"idle", "mutex"} \cup Waiting \cup Writing
<1>0. /\ Proc \in [Writers -> Procs] /\ LockStale \in Nat /\ 0 \in 0 .. LockStale + 1
      /\ pc \in [Writers -> Place] /\ mutex \in [Procs -> Writers \cup {Nobody}]
      /\ lockAge \in {NoLock} \cup 0 .. LockStale + 1 /\ dead \subseteq Mortal
  BY HistoryAssumption DEF LockTypeOK
<1>1. ASSUME NEW w \in Writers, NEW q \in Place, Goto(w, q) PROVE pc' \in [Writers -> Place]
  BY <1>0, <1>1 DEF Goto
<1>2. ASSUME NEW w \in Writers, Put(w) \/ TakeMutex(w) \/ Locking(w) \/ Storing(w)
      PROVE  /\ \E q \in Place : Goto(w, q)
             /\ \/ mutex' = mutex
                \/ mutex' = [mutex EXCEPT ![Proc[w]] = w]
                \/ mutex' = [mutex EXCEPT ![Proc[w]] = Nobody]
             /\ lockAge' \in {lockAge, 0, NoLock}
             /\ dead' = dead
  <2>1. CASE Put(w) \/ TakeMutex(w)
    BY <2>1 DEF Put, TakeMutex, Waiting
  <2>2. CASE Locking(w)
    BY <2>2 DEF Locking, CreateLock, FindLocked, FindStale, RemoveStale, PollOrGiveUp, Waiting, Writing
  <2>3. CASE AppendFails(w) \/ RewriteFails(w) \/ TrimFails(w) \/ PutAnswers(w)
    BY <2>3 DEF AppendFails, RewriteFails, TrimFails, PutAnswers, Release
  <2>4. CASE AppendRecord(w) \/ Trim(w) \/ Rename(w) \/ Truncate(w) \/ Rewrite(w)
    BY <2>4 DEF AppendRecord, Trim, Rename, Truncate, Rewrite, Writing
  <2> QED
    BY <1>2, <2>1, <2>2, <2>3, <2>4 DEF Storing
<1>3. ASSUME NEW w \in Writers, Put(w) \/ TakeMutex(w) \/ Locking(w) \/ Storing(w)
      PROVE  LockTypeOK'
  <2>1. pc' \in [Writers -> Place]
    BY <1>1, <1>2, <1>3
  <2>2. mutex' \in [Procs -> Writers \cup {Nobody}]
    BY <1>0, <1>2, <1>3
  <2>3. lockAge' \in {NoLock} \cup 0 .. LockStale + 1 /\ dead' \subseteq Mortal
    BY <1>0, <1>2, <1>3
  <2> QED
    BY <2>1, <2>2, <2>3 DEF LockTypeOK
<1>4. ASSUME NEW p \in Procs, Die(p) PROVE LockTypeOK'
  <2>1. pc' \in [Writers -> Place]
    BY <1>0, <1>4 DEF Die
  <2>2. mutex' \in [Procs -> Writers \cup {Nobody}]
    BY <1>0, <1>4 DEF Die
  <2>3. lockAge' = lockAge /\ dead' \subseteq Mortal
    BY <1>0, <1>4 DEF Die
  <2> QED
    BY <1>0, <2>1, <2>2, <2>3 DEF LockTypeOK
<1>5. CASE HistoryTick
  <2>1. lockAge' \in {NoLock} \cup 0 .. LockStale + 1
    BY <1>0, <1>5 DEF HistoryTick, Older, NoLock
  <2>2. UNCHANGED <<pc, mutex, dead>>
    BY <1>5 DEF HistoryTick
  <2> QED
    BY <1>0, <2>1, <2>2 DEF LockTypeOK
<1>6. CASE UNCHANGED historyVars
  BY <1>6 DEF historyVars, LockTypeOK
<1> QED
  BY <1>3, <1>4, <1>5, <1>6 DEF HistoryNext

\* A writer's step leaves every other writer where it is.
LEMMA OthersStay ==
  ASSUME LockTypeOK, NEW w \in Writers, NEW q, Goto(w, q)
  PROVE  /\ pc'[w] = q
         /\ \A v \in Writers : v # w => pc'[v] = pc[v]
BY DEF LockTypeOK, Goto

\* Only Put makes another writer busy, and only a record that is appended makes
\* one writer fewer pending.
LEMMA StepKeepsCount ==
  StoreInv /\ [HistoryNext]_historyVars => NotTooMany'
<1> SUFFICES ASSUME StoreInv, [HistoryNext]_historyVars PROVE NotTooMany'
  OBVIOUS
<1>0. /\ LockTypeOK /\ IsFiniteSet(Busy) /\ appended \in Nat /\ MaxPuts \in Nat
      /\ appended + Cardinality(Pending) <= MaxPuts
  BY HistoryAssumption DEF StoreInv, NotTooMany
<1>1. /\ Pending \subseteq Busy /\ IsFiniteSet(Pending)
      /\ Cardinality(Pending) \in Nat /\ Cardinality(Busy) \in Nat
      /\ Cardinality(Pending) <= Cardinality(Busy)
  <2>1. Pending \subseteq Busy
    BY DEF Pending, Busy, ToAppend
  <2> QED
    BY <1>0, <2>1, FS_Subset, FS_CardinalityType
<1>2. ASSUME Busy' \subseteq Busy, Pending' \subseteq Pending, appended' = appended
      PROVE  NotTooMany'
  <2>1. IsFiniteSet(Busy') /\ IsFiniteSet(Pending') /\ Cardinality(Pending') <= Cardinality(Pending)
    BY <1>0, <1>1, <1>2, FS_Subset
  <2>2. Cardinality(Pending') \in Nat
    BY <2>1, FS_CardinalityType
  <2>3. appended' + Cardinality(Pending') <= MaxPuts
    BY <1>0, <1>1, <1>2, <2>1, <2>2
  <2> QED
    BY <1>0, <1>2, <2>1, <2>3 DEF NotTooMany
<1>3. ASSUME NEW w \in Writers, Put(w) PROVE NotTooMany'
  <2>1. Busy' = Busy \cup {w} /\ Pending' = Pending \cup {w} /\ w \notin Busy
    BY <1>0, <1>3, OthersStay DEF Put, Busy, Pending, ToAppend
  <2>2. /\ IsFiniteSet(Busy') /\ IsFiniteSet(Pending')
        /\ Cardinality(Pending') = Cardinality(Pending) + 1
    BY <1>0, <1>1, <2>1, FS_AddElement
  <2>3. appended' = appended /\ appended + Cardinality(Busy) < MaxPuts
    BY <1>3 DEF Put, fileVars
  <2>4. appended' + Cardinality(Pending') <= MaxPuts
    BY <1>0, <1>1, <2>2, <2>3
  <2> QED
    BY <1>0, <2>2, <2>3, <2>4 DEF NotTooMany
<1>4. ASSUME NEW w \in Writers, AppendRecord(w) PROVE NotTooMany'
  <2>1. Busy' = Busy /\ Pending' = Pending \ {w} /\ w \in Pending
    BY <1>0, <1>4, OthersStay DEF AppendRecord, Busy, Pending, ToAppend
  <2>2. IsFiniteSet(Pending') /\ Cardinality(Pending') = Cardinality(Pending) - 1
    BY <1>1, <2>1, FS_RemoveElement
  <2>3. appended' = appended + 1
    BY <1>4 DEF AppendRecord
  <2>4. appended' + Cardinality(Pending') <= MaxPuts
    BY <1>0, <1>1, <2>2, <2>3
  <2> QED
    BY <1>0, <2>1, <2>3, <2>4 DEF NotTooMany
<1>5. ASSUME NEW w \in Writers, TakeMutex(w) \/ Locking(w) PROVE NotTooMany'
  <2>1. /\ pc[w] \in ToAppend /\ appended' = appended
        /\ \E q \in ToAppend \cup {"idle"} : Goto(w, q)
    BY <1>5 DEF TakeMutex, Locking, CreateLock, FindLocked, FindStale, RemoveStale, PollOrGiveUp,
                fileVars, ToAppend
  <2>2. Busy' \subseteq Busy /\ Pending' \subseteq Pending
    BY <1>0, <2>1, OthersStay DEF Busy, Pending, ToAppend
  <2> QED
    BY <1>2, <2>1, <2>2
<1>6. ASSUME NEW w \in Writers, Storing(w), ~AppendRecord(w) PROVE NotTooMany'
  <2>1. /\ pc[w] # "idle" /\ appended' = appended
        /\ \E q \in Appended \cup {"idle"} : Goto(w, q)
    BY <1>6 DEF Storing, AppendFails, Trim, Rename, Truncate, Rewrite, RewriteFails, TrimFails,
                PutAnswers, Release, fileVars, Appended
  <2>2. Busy' \subseteq Busy /\ Pending' \subseteq Pending
    BY <1>0, <2>1, OthersStay DEF Busy, Pending, ToAppend, Appended
  <2> QED
    BY <1>2, <2>1, <2>2
<1>7. ASSUME NEW p \in Procs, Die(p) PROVE NotTooMany'
  <2>1. appended' = appended /\ \A w \in Writers : pc'[w] \in {pc[w], "idle"}
    BY <1>7 DEF Die
  <2>2. Busy' \subseteq Busy /\ Pending' \subseteq Pending
    BY <2>1 DEF Busy, Pending, ToAppend
  <2> QED
    BY <1>2, <2>1, <2>2
<1>8. CASE HistoryTick \/ UNCHANGED historyVars
  <2>1. appended' = appended /\ pc' = pc
    BY <1>8 DEF HistoryTick, fileVars, historyVars
  <2>2. Busy' \subseteq Busy /\ Pending' \subseteq Pending
    BY <2>1 DEF Busy, Pending
  <2> QED
    BY <1>2, <2>1, <2>2
<1> QED
  BY <1>3, <1>4, <1>5, <1>6, <1>7, <1>8 DEF HistoryNext

\* The empty file is in order, and one in order stays so when more are appended.
LEMMA EmptyIsInOrder == ASSUME NEW n \in Nat PROVE Ascending(<<>>, n)
<1>1. <<>> \in Seq(1 .. n) /\ Len(<<>>) = 0
  OBVIOUS
<1>2. 1 .. 0 = {}
  OBVIOUS
<1> QED
  BY <1>1, <1>2 DEF Ascending

LEMMA OrderIsKept ==
  ASSUME NEW n \in Nat, NEW ls, Ascending(ls, n)
  PROVE  Ascending(ls, n + 1)
<1>1. ls \in Seq(1 .. n) /\ 1 .. n \subseteq 1 .. n + 1
  BY DEF Ascending
<1>2. ls \in Seq(1 .. n + 1)
  BY <1>1, SeqMonotonic
<1> QED
  BY <1>2 DEF Ascending

\* A file in order is no longer than all that was ever appended.
LEMMA NoLongerThanAll ==
  ASSUME NEW n \in Nat, NEW ls, Ascending(ls, n)
  PROVE  Len(ls) \in Nat /\ Len(ls) <= n
<1>1. /\ IsFiniteSet(Range(ls)) /\ Cardinality(Range(ls)) = Len(ls)
      /\ Range(ls) \subseteq 1 .. n /\ Len(ls) \in Nat
  BY AsManyAsItIsLong
<1>2. IsFiniteSet(1 .. n) /\ Cardinality(1 .. n) = n
  BY FS_Interval
<1> QED
  BY <1>1, <1>2, FS_Subset

\* What a step other than an append may do to the files in hand.
Rearranged ==
  /\ appended' = appended
  /\ \/ lines' \in {lines, <<>>}
     \/ \E w \in Writers : lines' = body[w]
     \/ \E w \in Writers : \E n \in 0 .. Len(body[w]) : lines' = SubSeq(body[w], 1, n)
  /\ body' \in [Writers -> {body'[w] : w \in Writers}]
  /\ \A w \in Writers :
       \/ body'[w] \in {body[w], <<>>}
       \/ \E p \in Procs : /\ Keep[p] # 0 /\ ~(Len(lines) <= Keep[p])
                           /\ body'[w] = NewestOf(lines, Keep[p])

\* ... and to the records of the writers.
NothingNew ==
  /\ mine' \in [Writers -> {mine'[w] : w \in Writers}]
  /\ \A w \in Writers : /\ mine'[w] \in {mine[w], NoRecord}
                        /\ pc'[w] \in Appended => pc[w] \in Appended /\ mine'[w] = mine[w]
  /\ \/ kept' = kept
     \/ \E w \in Writers : pc[w] \in Appended /\ kept' = kept \cup {mine[w]}

LEMMA RearrangingKeepsOrder ==
  ASSUME StoreInv, Rearranged, NothingNew
  PROVE  InOrder'
<1>0. appended \in Nat /\ Ascending(lines, appended) /\ \A w \in Writers : Ascending(body[w], appended)
  BY DEF StoreInv, NotTooMany, InOrder
<1>1. Ascending(lines', appended)
  BY <1>0, EmptyIsInOrder, PrefixIsInOrder DEF Rearranged
<1>2. ASSUME NEW w \in Writers PROVE Ascending(body'[w], appended)
  <2>1. CASE body'[w] \in {body[w], <<>>}
    BY <1>0, <2>1, EmptyIsInOrder
  <2>2. CASE \E p \in Procs : /\ Keep[p] # 0 /\ ~(Len(lines) <= Keep[p])
                              /\ body'[w] = NewestOf(lines, Keep[p])
    <3>1. PICK p \in Procs : /\ Keep[p] # 0 /\ ~(Len(lines) <= Keep[p])
                             /\ body'[w] = NewestOf(lines, Keep[p])
      BY <2>2
    <3>2. Keep[p] \in Nat \ {0} /\ Len(lines) \in Nat
      BY <1>0, <3>1, HistoryAssumption, AsManyAsItIsLong
    <3>3. Keep[p] < Len(lines)
      BY <3>1, <3>2
    <3> QED
      BY <1>0, <3>1, <3>2, <3>3, TrimTakesTheOldest
  <2> QED
    BY <2>1, <2>2 DEF Rearranged
<1>3. /\ mine \in [Writers -> 0 .. appended] /\ kept \subseteq 1 .. appended
      /\ \A w \in Writers : pc[w] \in Appended => mine[w] # NoRecord
  BY DEF StoreInv, InOrder
<1>4. mine' \in [Writers -> 0 .. appended]
  BY <1>0, <1>3 DEF NothingNew, NoRecord
<1>5. ASSUME NEW w \in Writers, pc[w] \in Appended PROVE mine[w] \in 1 .. appended
  BY <1>0, <1>3, <1>5 DEF NoRecord
<1>6. kept' \subseteq 1 .. appended
  BY <1>3, <1>5 DEF NothingNew
<1>7. \A w \in Writers : pc'[w] \in Appended => mine'[w] # NoRecord
  BY <1>3 DEF NothingNew
<1>8. appended' = appended
  BY DEF Rearranged
<1> QED
  BY <1>1, <1>2, <1>4, <1>6, <1>7, <1>8 DEF InOrder

\* Every step but an append only rearranges what there is.
LEMMA StepRearranges ==
  ASSUME StoreInv, [HistoryNext]_historyVars, \A w \in Writers : ~AppendRecord(w)
  PROVE  Rearranged /\ NothingNew
<1>0. /\ LockTypeOK /\ mine \in [Writers -> 0 .. appended]
      /\ body = [w \in Writers |-> body[w]]
      /\ Proc \in [Writers -> Procs]
  BY HistoryAssumption DEF StoreInv, InOrder, OtherTypes
<1>1. ASSUME UNCHANGED <<lines, appended, mine, body, kept>>,
             \A w \in Writers : pc'[w] \in Appended => pc[w] \in Appended
      PROVE  Rearranged /\ NothingNew
  BY <1>0, <1>1 DEF Rearranged, NothingNew
<1>2. ASSUME NEW w \in Writers, Release(w), appended' = appended,
             \/ lines' = lines
             \/ \E n \in 0 .. Len(body[w]) : lines' = SubSeq(body[w], 1, n),
             \/ kept' = kept
             \/ pc[w] = "done" /\ kept' = kept \cup {mine[w]}
      PROVE  Rearranged /\ NothingNew
  <2>1. /\ mine' = [mine EXCEPT ![w] = NoRecord] /\ body' = [body EXCEPT ![w] = <<>>]
        /\ Goto(w, "idle")
    BY <1>2 DEF Release
  <2>2. Rearranged
    BY <1>0, <1>2, <2>1 DEF Rearranged
  <2>3. \A v \in Writers : /\ mine'[v] \in {mine[v], NoRecord}
                           /\ pc'[v] \in Appended => pc[v] \in Appended /\ mine'[v] = mine[v]
    <3> SUFFICES ASSUME NEW v \in Writers
                 PROVE  /\ mine'[v] \in {mine[v], NoRecord}
                        /\ pc'[v] \in Appended => pc[v] \in Appended /\ mine'[v] = mine[v]
      OBVIOUS
    <3>1. CASE v = w
      BY <1>0, <2>1, <3>1, OthersStay DEF Appended
    <3>2. CASE v # w
      BY <1>0, <2>1, <3>2, OthersStay
    <3> QED
      BY <3>1, <3>2
  <2>4. mine' \in [Writers -> {mine'[v] : v \in Writers}]
    BY <1>0, <2>1
  <2>5. kept' = kept \/ (pc[w] \in Appended /\ kept' = kept \cup {mine[w]})
    BY <1>2 DEF Appended
  <2> QED
    BY <2>2, <2>3, <2>4, <2>5 DEF NothingNew
<1>3. ASSUME NEW w \in Writers, Put(w) \/ TakeMutex(w) \/ Locking(w) PROVE Rearranged /\ NothingNew
  <2>1. /\ UNCHANGED <<lines, appended, mine, body, kept>>
        /\ \E q \in ToAppend \cup {"idle"} : Goto(w, q)
    BY <1>3 DEF Put, TakeMutex, Locking, CreateLock, FindLocked, FindStale, RemoveStale, PollOrGiveUp,
                fileVars, ToAppend
  <2>2. \A v \in Writers : pc'[v] \in Appended => pc[v] \in Appended
    BY <1>0, <2>1, OthersStay DEF ToAppend, Appended
  <2> QED
    BY <1>1, <2>1, <2>2
<1>4. ASSUME NEW w \in Writers, AppendFails(w) \/ RewriteFails(w) \/ TrimFails(w) \/ PutAnswers(w)
      PROVE  Rearranged /\ NothingNew
  <2>1. CASE AppendFails(w) \/ TrimFails(w) \/ PutAnswers(w)
    BY <1>2, <2>1 DEF AppendFails, TrimFails, PutAnswers, fileVars
  <2>2. CASE RewriteFails(w)
    BY <1>2, <2>2 DEF RewriteFails, RewriteCutShort
  <2> QED
    BY <1>4, <2>1, <2>2
<1>5. ASSUME NEW w \in Writers, Trim(w) PROVE Rearranged /\ NothingNew
  <2>1. /\ UNCHANGED <<lines, appended, mine, kept>> /\ pc[w] = "appended" /\ Proc[w] \in Procs
        /\ \/ body' = body
           \/ /\ Keep[Proc[w]] # 0 /\ ~(Len(lines) <= Keep[Proc[w]])
              /\ body' = [body EXCEPT ![w] = NewestOf(lines, Keep[Proc[w]])]
        /\ \E q \in Appended : Goto(w, q)
    BY <1>0, <1>5 DEF Trim, fileVars, Appended
  <2>2. Rearranged
    BY <1>0, <2>1 DEF Rearranged
  <2>3. \A v \in Writers : pc'[v] \in Appended => pc[v] \in Appended
    BY <1>0, <2>1, OthersStay DEF Appended
  <2> QED
    BY <1>0, <2>1, <2>2, <2>3 DEF NothingNew
<1>6. ASSUME NEW w \in Writers, Rename(w) \/ Truncate(w) \/ Rewrite(w) PROVE Rearranged /\ NothingNew
  <2>1. /\ UNCHANGED <<appended, mine, body, kept>> /\ pc[w] \in Appended
        /\ lines' = body[w] \/ lines' = <<>>
        /\ \E q \in Appended : Goto(w, q)
    BY <1>6 DEF Rename, Truncate, Rewrite, Appended
  <2>2. Rearranged
    BY <1>0, <2>1 DEF Rearranged
  <2>3. \A v \in Writers : pc'[v] \in Appended => pc[v] \in Appended
    BY <1>0, <2>1, OthersStay
  <2> QED
    BY <1>0, <2>1, <2>2, <2>3 DEF NothingNew
<1>7. ASSUME NEW p \in Procs, Die(p) PROVE Rearranged /\ NothingNew
  <2>1. /\ UNCHANGED <<appended, kept>>
        /\ \/ lines' = lines
           \/ \E w \in Writers : \E n \in 0 .. Len(body[w]) : lines' = SubSeq(body[w], 1, n)
        /\ mine' = [w \in Writers |-> IF Proc[w] = p THEN NoRecord ELSE mine[w]]
        /\ body' = [w \in Writers |-> IF Proc[w] = p THEN <<>> ELSE body[w]]
        /\ pc' = [w \in Writers |-> IF Proc[w] = p THEN "idle" ELSE pc[w]]
    BY <1>7 DEF Die, RewriteCutShort
  <2>2. Rearranged
    BY <2>1 DEF Rearranged
  <2>3. NothingNew
    BY <2>1 DEF NothingNew, Appended
  <2> QED
    BY <2>2, <2>3
<1>8. CASE HistoryTick \/ UNCHANGED historyVars
  BY <1>1, <1>8 DEF HistoryTick, fileVars, historyVars
<1> QED
  BY <1>3, <1>4, <1>5, <1>6, <1>7, <1>8 DEF HistoryNext, Storing

\* An append keeps everything in order, torn or not.
LEMMA AppendingKeepsOrder ==
  ASSUME StoreInv, NEW w \in Writers, AppendRecord(w)
  PROVE  InOrder'
<1>0. /\ appended \in Nat /\ Ascending(lines, appended) /\ LockTypeOK
      /\ \A v \in Writers : Ascending(body[v], appended)
      /\ mine \in [Writers -> 0 .. appended] /\ kept \subseteq 1 .. appended
      /\ \A v \in Writers : pc[v] \in Appended => mine[v] # NoRecord
  BY DEF StoreInv, NotTooMany, InOrder
<1>1. /\ appended' = appended + 1 /\ body' = body /\ kept' \subseteq kept
      /\ mine' = [mine EXCEPT ![w] = appended + 1]
      /\ lines' = lines \/ lines' = Append(lines, appended + 1)
      /\ Goto(w, "appended")
  BY DEF AppendRecord
<1>2. Ascending(lines', appended + 1)
  <2>1. Len(lines) \in Nat /\ Len(lines) <= appended
    BY <1>0, NoLongerThanAll
  <2> QED
    BY <1>0, <1>1, <2>1, OrderIsKept, AppendingAddsTheNewest
<1>3. \A v \in Writers : Ascending(body'[v], appended + 1)
  BY <1>0, <1>1, OrderIsKept
<1>4. mine' \in [Writers -> 0 .. appended + 1] /\ kept' \subseteq 1 .. appended + 1
  BY <1>0, <1>1
<1>5. ASSUME NEW v \in Writers, pc'[v] \in Appended PROVE mine'[v] # NoRecord
  <2>1. CASE v = w
    BY <1>0, <1>1, <2>1 DEF NoRecord
  <2>2. CASE v # w
    BY <1>0, <1>1, <1>5, <2>2, OthersStay
  <2> QED
    BY <2>1, <2>2
<1> QED
  BY <1>1, <1>2, <1>3, <1>4, <1>5 DEF InOrder

\* What is left of the types.
LEMMA StepKeepsOtherTypes == StoreInv /\ [HistoryNext]_historyVars => OtherTypes'
<1> SUFFICES ASSUME StoreInv, [HistoryNext]_historyVars PROVE OtherTypes'
  OBVIOUS
<1>0. /\ torn \in BOOLEAN /\ cost \in Nat /\ waited \in [Writers -> 0 .. LockWait + 1]
      /\ body = [w \in Writers |-> body[w]] /\ appended \in Nat
      /\ LockWait \in Nat /\ 0 \in 0 .. LockWait + 1
  BY HistoryAssumption DEF StoreInv, OtherTypes, NotTooMany
<1>1. /\ \A n \in Nat : Costing(n) => cost' \in Nat
      /\ AppendCutShort => cost' \in Nat /\ torn' = TRUE
  BY <1>0 DEF Costing, AppendCutShort
\* What a rewrite cut short costs is a number of lines.
<1>9. ASSUME NEW w \in Writers, RewriteCutShort(w) PROVE cost' \in Nat /\ torn' \in BOOLEAN
  <2>1. PICK n \in 0 .. Len(body[w]), half \in BOOLEAN :
          torn' = half /\ Costing(Cardinality(Unwritten(w, n)) + (IF half THEN 1 ELSE 0))
    BY <1>9 DEF RewriteCutShort
  <2>2. Len(body[w]) \in Nat
    BY NoLongerThanAll DEF StoreInv, NotTooMany, InOrder
  <2>3. Cardinality(Unwritten(w, n)) \in Nat
    <3> DEFINE line == [i \in n + 1 .. Len(body[w]) |-> body[w][i]]
    <3>1. n \in Int /\ Len(body[w]) \in Int
      BY <2>2
    <3>2. IsFiniteSet(n + 1 .. Len(body[w]))
      BY <3>1, FS_Interval
    <3>3. IsFiniteSet({body[w][i] : i \in n + 1 .. Len(body[w])})
      <4>1. line \in Surjection(n + 1 .. Len(body[w]), {body[w][i] : i \in n + 1 .. Len(body[w])})
        BY DEF Surjection
      <4> QED
        BY <3>2, <4>1, FS_Surjection
    <3>4. IsFiniteSet(Unwritten(w, n))
      BY <3>3, FS_Subset DEF Unwritten
    <3> QED
      BY <3>4, FS_CardinalityType
  <2> QED
    BY <1>1, <2>1, <2>3
<1>2. ASSUME NEW w \in Writers, Put(w) \/ TakeMutex(w) \/ Locking(w) \/ Storing(w)
      PROVE  /\ torn' \in BOOLEAN
             /\ waited' = waited \/ waited' = [waited EXCEPT ![w] = 0]
             /\ body' = body \/ \E b \in {body'[w]} : body' = [body EXCEPT ![w] = b]
             /\ cost' \in Nat
  <2>1. CASE Put(w) \/ TakeMutex(w) \/ Locking(w)
    BY <1>0, <2>1 DEF Put, TakeMutex, Locking, CreateLock, FindLocked, FindStale, RemoveStale,
                      PollOrGiveUp, fileVars
  <2>2. CASE AppendRecord(w) \/ Rename(w) \/ Truncate(w) \/ Rewrite(w)
    BY <1>0, <2>2 DEF AppendRecord, Rename, Truncate, Rewrite
  <2>3. CASE AppendFails(w) \/ RewriteFails(w) \/ TrimFails(w) \/ PutAnswers(w)
    <3>0. /\ waited' = waited /\ body' = [body EXCEPT ![w] = <<>>]
          /\ \/ torn' = torn /\ cost' = cost
             \/ AppendCutShort
             \/ RewriteCutShort(w)
      BY <2>3 DEF AppendFails, RewriteFails, TrimFails, PutAnswers, Release, fileVars
    <3>1. /\ torn' \in BOOLEAN /\ waited' = waited /\ body' = [body EXCEPT ![w] = <<>>]
          /\ cost' \in Nat
      BY <1>0, <1>1, <1>9, <3>0
    <3>2. body'[w] = <<>>
      BY <1>0, <3>1
    <3> QED
      BY <1>0, <3>1, <3>2
  <2>4. CASE Trim(w)
    <3>1. /\ torn' = torn /\ cost' = cost /\ waited' = waited
          /\ body' = body \/ body' = [body EXCEPT ![w] = NewestOf(lines, Keep[Proc[w]])]
      BY <2>4 DEF Trim, fileVars
    <3>2. ASSUME body' = [body EXCEPT ![w] = NewestOf(lines, Keep[Proc[w]])]
          PROVE  body'[w] = NewestOf(lines, Keep[Proc[w]])
      BY <1>0, <3>2
    <3> QED
      BY <1>0, <3>1, <3>2
  <2> QED
    BY <1>2, <2>1, <2>2, <2>3, <2>4 DEF Storing
<1>3. ASSUME NEW w \in Writers, Put(w) \/ TakeMutex(w) \/ Locking(w) \/ Storing(w)
      PROVE  OtherTypes'
  <2>1. cost' \in Nat
    BY <1>2, <1>3
  <2>2. waited' \in [Writers -> 0 .. LockWait + 1]
    BY <1>0, <1>2, <1>3
  <2>3. body' = [v \in Writers |-> body'[v]]
    BY <1>0, <1>2, <1>3
  <2> QED
    BY <1>2, <1>3, <2>1, <2>2, <2>3 DEF OtherTypes
<1>4. ASSUME NEW p \in Procs, Die(p) PROVE OtherTypes'
  <2>1. \/ torn' = torn /\ cost' = cost
        \/ AppendCutShort
        \/ \E w \in Writers : RewriteCutShort(w)
    BY <1>4 DEF Die
  <2>2. torn' \in BOOLEAN /\ cost' \in Nat
    BY <1>0, <1>1, <1>9, <2>1
  <2>3. waited' \in [Writers -> 0 .. LockWait + 1]
    BY <1>0, <1>4 DEF Die
  <2>4. body' = [v \in Writers |-> body'[v]]
    BY <1>4 DEF Die
  <2> QED
    BY <2>1, <2>2, <2>3, <2>4 DEF OtherTypes
<1>5. CASE HistoryTick
  <2>1. UNCHANGED <<torn, cost, body>>
    BY <1>5 DEF HistoryTick, fileVars
  <2>2. ASSUME NEW n \in 0 .. LockWait + 1 PROVE Older(n, LockWait) \in 0 .. LockWait + 1
    BY <1>0 DEF Older
  <2>3. waited' \in [Writers -> 0 .. LockWait + 1]
    BY <1>0, <1>5, <2>2 DEF HistoryTick
  <2> QED
    BY <1>0, <2>1, <2>3 DEF OtherTypes
<1>6. CASE UNCHANGED historyVars
  BY <1>0, <1>6 DEF historyVars, OtherTypes
<1> QED
  BY <1>3, <1>4, <1>5, <1>6 DEF HistoryNext

\* Every step of every writer keeps what is stored in order and counted.
LEMMA StepKeepsStoreInv == StoreInv /\ [HistoryNext]_historyVars => StoreInv'
<1> SUFFICES ASSUME StoreInv, [HistoryNext]_historyVars PROVE StoreInv'
  OBVIOUS
<1>1. InOrder'
  <2>1. CASE \A w \in Writers : ~AppendRecord(w)
    BY <2>1, StepRearranges, RearrangingKeepsOrder
  <2>2. CASE \E w \in Writers : AppendRecord(w)
    BY <2>2, AppendingKeepsOrder
  <2> QED
    BY <2>1, <2>2
<1> QED
  BY <1>1, StepKeepsLockTypes, StepKeepsCount, StepKeepsOtherTypes DEF StoreInv

\* An empty file is as good as any.
LEMMA InitiallyStoreInv == HistoryInit => StoreInv
<1> SUFFICES ASSUME HistoryInit PROVE StoreInv
  OBVIOUS
<1>1. LockTypeOK
  BY InitiallyLockInv DEF LockInv
<1>2. NotTooMany
  <2>1. Busy = {} /\ Pending = {} /\ appended = 0
    BY DEF HistoryInit, Busy, Pending, ToAppend
  <2>2. IsFiniteSet({}) /\ Cardinality({}) = 0
    BY FS_EmptySet
  <2> QED
    BY <2>1, <2>2, HistoryAssumption DEF NotTooMany
<1>3. InOrder
  <2>1. /\ appended = 0 /\ lines = <<>> /\ kept = {}
        /\ \A w \in Writers : body[w] = <<>> /\ pc[w] = "idle" /\ mine[w] = 0
        /\ mine \in [Writers -> 0 .. 0]
    <3>1. mine = [w \in Writers |-> 0]
      BY DEF HistoryInit, NoRecord
    <3>2. \A w \in Writers : body[w] = <<>>
      BY DEF HistoryInit
    <3>3. \A w \in Writers : pc[w] = "idle"
      BY DEF HistoryInit
    <3> QED
      BY <3>1, <3>2, <3>3 DEF HistoryInit
  <2>2. Ascending(<<>>, 0)
    BY EmptyIsInOrder
  <2>3. \A w \in Writers : pc[w] \notin Appended
    BY <2>1 DEF Appended
  <2> QED
    BY <2>1, <2>2, <2>3 DEF InOrder
<1>4. OtherTypes
  <2>1. /\ torn \in BOOLEAN /\ cost \in Nat
    <3>1. torn = FALSE /\ cost = 0
      BY DEF HistoryInit
    <3> QED
      BY <3>1
  <2>3. waited \in [Writers -> 0 .. LockWait + 1]
    <3>1. 0 \in 0 .. LockWait + 1 /\ waited = [w \in Writers |-> 0]
      BY HistoryAssumption DEF HistoryInit
    <3> QED
      BY <3>1
  <2>2. body = [w \in Writers |-> body[w]]
    BY DEF HistoryInit
  <2> QED
    BY <2>1, <2>2, <2>3 DEF OtherTypes
<1> QED
  BY <1>1, <1>2, <1>3, <1>4 DEF StoreInv

\* No more records are ever appended than were begun.
LEMMA NoMoreThanMaxPuts == StoreInv => appended \in 0 .. MaxPuts
<1> SUFFICES ASSUME StoreInv PROVE appended \in 0 .. MaxPuts
  OBVIOUS
<1>1. IsFiniteSet(Pending)
  <2>1. Pending \subseteq Busy /\ IsFiniteSet(Busy)
    BY DEF StoreInv, NotTooMany, Pending, Busy, ToAppend
  <2> QED
    BY <2>1, FS_Subset
<1>2. Cardinality(Pending) \in Nat
  BY <1>1, FS_CardinalityType
<1> QED
  BY <1>2, HistoryAssumption DEF StoreInv, NotTooMany

\* The types of the history store, whatever its processes, writers and limits.
THEOREM HistoryTypeCorrect == HistorySpec => []HistoryTypeOK
<1>1. StoreInv => HistoryTypeOK
  <2> SUFFICES ASSUME StoreInv PROVE HistoryTypeOK
    OBVIOUS
  <2>0. /\ appended \in 0 .. MaxPuts /\ appended \in Nat /\ MaxPuts \in Nat
        /\ Ascending(lines, appended) /\ \A w \in Writers : Ascending(body[w], appended)
    BY NoMoreThanMaxPuts, HistoryAssumption DEF StoreInv, NotTooMany, InOrder
  <2>1. 1 .. appended \subseteq Records
    BY <2>0 DEF Records
  <2>2. lines \in BoundedSeq(Records, MaxPuts)
    <3>1. Len(lines) \in Nat /\ Len(lines) <= appended
      BY <2>0, NoLongerThanAll
    <3>2. Len(lines) \in 0 .. MaxPuts
      BY <2>0, <3>1
    <3>3. lines \in Seq(1 .. appended)
      BY <2>0 DEF Ascending
    <3>4. lines \in [1 .. Len(lines) -> Records]
      <4>1. lines \in [1 .. Len(lines) -> 1 .. appended]
        BY <3>3, LenProperties
      <4>2. \A i \in 1 .. Len(lines) : lines[i] \in Records
        BY <2>1, <4>1
      <4> QED
        BY <4>1, <4>2
    <3> QED
      BY <3>2, <3>4 DEF BoundedSeq, SeqOf
  <2>3. ASSUME NEW w \in Writers PROVE Range(body[w]) \subseteq Records
    BY <2>0, <2>1, AsManyAsItIsLong
  <2>4. mine \in [Writers -> Records \cup {NoRecord}]
    <3>1. 0 .. appended \subseteq Records \cup {NoRecord}
      BY <2>0 DEF Records, NoRecord
    <3>2. mine \in [Writers -> 0 .. appended]
      BY DEF StoreInv, InOrder
    <3> QED
      BY <3>1, <3>2
  <2>5. pc \in [Writers -> {"idle", "mutex", "trying", "blocked", "stealing"} \cup Writing]
    <3>1. {"idle", "mutex"} \cup Waiting \cup Writing
            = {"idle", "mutex", "trying", "blocked", "stealing"} \cup Writing
      BY DEF Waiting
    <3> QED
      BY <3>1 DEF StoreInv, LockTypeOK
  <2> QED
    BY <2>0, <2>2, <2>3, <2>4, <2>5 DEF StoreInv, LockTypeOK, InOrder, OtherTypes, HistoryTypeOK
<1> QED
  BY <1>1, StepKeepsStoreInv, InitiallyStoreInv, PTL DEF HistorySpec

-----------------------------------------------------------------------------
(* What is lost is paid for. *)

\* The records a reader is owed: those whose Put answered nil, and the one a
\* writer has appended and will answer for.
OwedWith(k, places, ms) == k \cup {ms[w] : w \in {v \in Writers : places[v] \in Appended}}
Owed == OwedWith(kept, pc, mine)

\* At a cost of c, a file may lack so many of the records that are owed, and one
\* more if it ends in half a line.
Half(half) == IF half THEN 1 ELSE 0
Paid(c, owed, ls, half) == Cardinality(owed \ Range(ls)) + half <= c

\* The file ms lacks no more of what is due than ls of what was owed, but for more.
Lacking(due, ms, owed, ls, more) == due \ Range(ms) \subseteq (owed \ Range(ls)) \cup more

\* The file is paid for except while a writer rewrites it in place, and then what
\* the writer will leave is.
PaidFor ==
  /\ (\A w \in Writers : pc[w] # "rewriting") => Paid(cost, Owed, lines, Half(torn))
  /\ \A w \in Writers : pc[w] \in {"replacing", "rewriting"} => Paid(cost, Owed, body[w], 0)

\* The record in hand is the newest, and is not promised yet; and what was
\* promised is among the newest of the process that will trim.
InHand ==
  /\ \A w \in Writers : pc[w] \in Appended => mine[w] = appended /\ mine[w] \notin kept
  /\ \A w \in Writers : pc[w] = "appended" => \A r \in kept : IsDue(r, lines, Keep[Proc[w]])

LossInv == LockInv /\ StoreInv /\ PaidFor /\ InHand

\* A file that lacks what another lacks and some more is paid for by as much more.
LEMMA SpendingPays ==
  ASSUME NEW c \in Nat, NEW d \in Nat, NEW half \in 0 .. 1, NEW quarter \in 0 .. 1,
         NEW owed, NEW due, NEW ls, NEW ms, NEW more, IsFiniteSet(owed), IsFiniteSet(more),
         Paid(c, owed, ls, half),
         Lacking(due, ms, owed, ls, more),
         c + Cardinality(more) + quarter <= d + half
  PROVE  Paid(d, due, ms, quarter)
<1> DEFINE missing == owed \ Range(ls)
           lost == due \ Range(ms)
<1>1. IsFiniteSet(missing)
  BY FS_Subset
<1>2. /\ IsFiniteSet(missing \cup more) /\ Cardinality(missing) \in Nat /\ Cardinality(more) \in Nat
      /\ Cardinality(missing \cup more) = Cardinality(missing) + Cardinality(more) - Cardinality(missing \cap more)
      /\ Cardinality(missing \cap more) \in Nat
  <2>1. IsFiniteSet(missing \cap more)
    BY <1>1, FS_Subset
  <2> HIDE DEF missing
  <2> QED
    BY <1>1, <2>1, FS_Union, FS_CardinalityType
<1>3. IsFiniteSet(lost) /\ Cardinality(lost) <= Cardinality(missing \cup more) /\ Cardinality(lost) \in Nat
  <2>1. lost \subseteq missing \cup more
    BY DEF Lacking
  <2> HIDE DEF missing, lost
  <2> QED
    BY <1>2, <2>1, FS_Subset, FS_CardinalityType
<1>4. Cardinality(missing) + half <= c
  BY DEF Paid
<1> HIDE DEF missing, lost
<1>5. Cardinality(lost) + quarter <= d
  BY <1>2, <1>3, <1>4
<1> QED
  BY <1>5 DEF Paid, lost

\* A file that lacks no more costs no more.
LEMMA LessIsPaid ==
  ASSUME NEW c \in Nat, NEW half \in 0 .. 1, NEW quarter \in 0 .. 1, NEW owed, NEW due,
         NEW ls, NEW ms, IsFiniteSet(owed), Paid(c, owed, ls, half),
         Lacking(due, ms, owed, ls, {}), quarter <= half
  PROVE  Paid(c, due, ms, quarter)
<1>1. IsFiniteSet({}) /\ Cardinality({}) = 0
  BY FS_EmptySet
<1>2. c + Cardinality({}) + quarter <= c + half
  BY <1>1
<1> QED
  BY <1>1, <1>2, SpendingPays

\* Nobody is owed more than was ever appended.
LEMMA OwedIsFinite == StoreInv => IsFiniteSet(Owed) /\ IsFiniteSet(kept)
<1> SUFFICES ASSUME StoreInv PROVE IsFiniteSet(Owed) /\ IsFiniteSet(kept)
  OBVIOUS
<1>1. /\ appended \in Nat /\ kept \subseteq 1 .. appended /\ mine \in [Writers -> 0 .. appended]
  BY DEF StoreInv, NotTooMany, InOrder
<1>2. Owed \subseteq 0 .. appended /\ kept \subseteq 0 .. appended
  <2>1. kept \subseteq 0 .. appended
    BY <1>1
  <2>2. \A w \in Writers : mine[w] \in 0 .. appended
    BY <1>1
  <2> QED
    BY <2>1, <2>2 DEF Owed, OwedWith
<1>3. IsFiniteSet(0 .. appended)
  BY <1>1, FS_Interval
<1> QED
  BY <1>2, <1>3, FS_Subset

\* One writer alone adds the record it has in hand to what is owed.
LEMMA OwedWithOne ==
  ASSUME NEW k, NEW places, NEW ms, NEW w \in Writers,
         \A v \in Writers : v # w => places[v] \notin Appended
  PROVE  /\ places[w] \in Appended => OwedWith(k, places, ms) = k \cup {ms[w]}
         /\ places[w] \notin Appended => OwedWith(k, places, ms) = k
BY DEF OwedWith

\* A step that leaves the file, and the leavings of whoever replaces it, keeps
\* it paid for.
LEMMA LeavingKeepsPaid ==
  ASSUME LossInv, UNCHANGED <<lines, torn, appended, cost, kept>>,
         \A v \in Writers : /\ pc'[v] \in Appended => pc'[v] = pc[v] /\ body'[v] = body[v] /\ mine'[v] = mine[v]
                            /\ pc[v] = "rewriting" => pc'[v] = "rewriting"
  PROVE  PaidFor' /\ InHand'
<1>1. /\ IsFiniteSet(Owed) /\ cost \in Nat /\ PaidFor /\ InHand
      /\ Half(torn) \in 0 .. 1 /\ 0 \in 0 .. 1
  BY OwedIsFinite DEF LossInv, StoreInv, OtherTypes, Half
<1>2. Owed' \subseteq Owed
  BY DEF Owed, OwedWith
<1>3. ASSUME NEW ls, NEW half \in 0 .. 1, Paid(cost, Owed, ls, half)
      PROVE  Paid(cost, Owed', ls, half)
  <2>1. Lacking(Owed', ls, Owed, ls, {})
    BY <1>2 DEF Lacking
  <2>2. half <= half
    OBVIOUS
  <2> QED
    BY <1>1, <1>3, <2>1, <2>2, LessIsPaid
<1>4. PaidFor'
  <2>1. ASSUME \A w \in Writers : pc'[w] # "rewriting" PROVE Paid(cost', Owed', lines', Half(torn'))
    <3>1. Paid(cost, Owed, lines, Half(torn))
      BY <1>1, <2>1 DEF PaidFor
    <3> QED
      BY <1>1, <1>3, <3>1
  <2>2. ASSUME NEW w \in Writers, pc'[w] \in {"replacing", "rewriting"}
        PROVE  Paid(cost', Owed', body'[w], 0)
    <3>1. body'[w] = body[w] /\ pc[w] \in {"replacing", "rewriting"}
      BY <2>2 DEF Appended
    <3>2. Paid(cost, Owed, body[w], 0)
      BY <1>1, <3>1 DEF PaidFor
    <3> QED
      BY <1>3, <3>1, <3>2
  <2> QED
    BY <2>1, <2>2 DEF PaidFor
<1>5. InHand'
  BY <1>1 DEF InHand, Appended
<1> QED
  BY <1>4, <1>5

\* A step after which nobody writes, or only to look at what is there, need but
\* pay for the file.
LEMMA PayingForTheFile ==
  ASSUME Paid(cost', Owed', lines', Half(torn')),
         \A v \in Writers : pc'[v] \notin {"replacing", "rewriting"}
  PROVE  PaidFor'
BY DEF PaidFor

\* Whoever writes is alone, so its steps leave nobody else in the file.
LEMMA OnlyOneWrites ==
  ASSUME LossInv, NEW w \in Writers, pc[w] \in Writing, NEW q, Goto(w, q)
  PROVE  /\ pc'[w] = q
         /\ \A v \in Writers : v # w => pc'[v] = pc[v] /\ pc[v] \notin Writing
BY OthersStay DEF LossInv, LockInv, LocksAreHeld

\* What is owed before and after a step of whoever writes.
LEMMA OwedByOne ==
  ASSUME LossInv, NEW w \in Writers, pc[w] \in Writing, NEW q, Goto(w, q)
  PROVE  /\ pc[w] \in Appended => Owed = kept \cup {mine[w]}
         /\ pc[w] \notin Appended => Owed = kept
         /\ q \in Appended => Owed' = kept' \cup {mine'[w]}
         /\ q \notin Appended => Owed' = kept'
<1>1. /\ pc'[w] = q
      /\ \A v \in Writers : v # w => pc[v] \notin Appended
      /\ \A v \in Writers : v # w => pc'[v] \notin Appended
  BY OnlyOneWrites DEF Writing, Appended
<1>2. /\ pc[w] \in Appended => OwedWith(kept, pc, mine) = kept \cup {mine[w]}
      /\ pc[w] \notin Appended => OwedWith(kept, pc, mine) = kept
  BY <1>1, OwedWithOne
<1>3. /\ pc'[w] \in Appended => OwedWith(kept', pc', mine') = kept' \cup {mine'[w]}
      /\ pc'[w] \notin Appended => OwedWith(kept', pc', mine') = kept'
  BY <1>1, OwedWithOne
<1> QED
  BY <1>1, <1>2, <1>3 DEF Owed

\* A rewrite that was cut short owes nothing but what was promised, and pays for
\* what it did not write of that.
LEMMA CuttingShortIsPaid ==
  ASSUME LossInv, NEW w \in Writers, pc[w] = "rewriting", RewriteCutShort(w)
  PROVE  Paid(cost', kept, lines', Half(torn'))
<1>1. PICK n \in 0 .. Len(body[w]), half \in BOOLEAN :
        /\ lines' = SubSeq(body[w], 1, n) /\ torn' = half
        /\ cost' = cost + (Cardinality(Unwritten(w, n)) + Half(half))
  BY DEF RewriteCutShort, Costing, Half
<1> DEFINE rest == {body[w][i] : i \in n + 1 .. Len(body[w])}
           more == Unwritten(w, n)
<1>2. /\ appended \in Nat /\ Ascending(body[w], appended) /\ cost \in Nat
      /\ Paid(cost, Owed, body[w], 0) /\ mine[w] \notin kept /\ IsFiniteSet(Owed)
  BY OwedIsFinite DEF LossInv, StoreInv, NotTooMany, InOrder, OtherTypes, PaidFor, InHand, Appended
<1>3. Range(body[w]) \subseteq Range(lines') \cup rest
  BY <1>1, <1>2, PrefixIsInOrder
<1>4. IsFiniteSet(more) /\ Cardinality(more) \in Nat
  <2>1. /\ body[w] \in Seq(1 .. appended) /\ Len(body[w]) \in Nat
        /\ \A i \in 1 .. Len(body[w]) : body[w][i] \in 1 .. appended
    BY <1>2 DEF Ascending
  <2>2. n \in Nat
    BY <2>1
  <2>3. ASSUME NEW i \in n + 1 .. Len(body[w]) PROVE body[w][i] \in 1 .. appended
    <3>1. i \in 1 .. Len(body[w])
      BY <2>1, <2>2
    <3> QED
      BY <2>1, <3>1
  <2>4. more \subseteq 1 .. appended
    BY <2>3 DEF Unwritten
  <2>5. IsFiniteSet(1 .. appended)
    BY <1>2, FS_Interval
  <2> QED
    BY <2>4, <2>5, FS_Subset, FS_CardinalityType
<1>5. Lacking(kept, lines', Owed, body[w], more)
  <2>1. kept \subseteq Owed
    BY DEF Owed, OwedWith
  <2> QED
    BY <1>2, <1>3, <2>1 DEF Unwritten, Lacking
<1>6. Half(half) \in 0 .. 1 /\ 0 \in 0 .. 1 /\ Half(torn') = Half(half)
  BY <1>1 DEF Half
<1>7. cost' = cost + (Cardinality(more) + Half(half))
  BY <1>1
<1> HIDE DEF more
<1>8. cost \in Nat
  BY <1>2
<1>9. /\ cost' \in Nat
      /\ cost + Cardinality(more) + Half(half) <= cost' + 0
  BY ONLY <1>4, <1>6, <1>7, <1>8
<1> QED
  BY <1>2, <1>4, <1>5, <1>6, <1>9, SpendingPays

\* An append that was cut short pays for the record that will follow it.
LEMMA HalfALineIsPaid ==
  ASSUME StoreInv, NEW owed, IsFiniteSet(owed), AppendCutShort, Paid(cost, owed, lines, Half(torn))
  PROVE  Paid(cost', owed, lines, Half(torn'))
<1>1. /\ cost \in Nat /\ torn \in BOOLEAN /\ torn' = TRUE
      /\ cost' = cost + (IF torn THEN 0 ELSE 1)
  BY DEF StoreInv, OtherTypes, AppendCutShort, Costing
<1>2. IsFiniteSet({}) /\ Cardinality({}) = 0
  BY FS_EmptySet
<1>3. /\ cost' \in Nat /\ cost + Cardinality({}) + Half(torn') <= cost' + Half(torn)
      /\ Half(torn) \in 0 .. 1 /\ Half(torn') \in 0 .. 1
  BY <1>1, <1>2 DEF Half
<1>4. Lacking(owed, lines, owed, lines, {})
  BY DEF Lacking
<1> QED
  BY <1>1, <1>2, <1>3, <1>4, SpendingPays

\* A record appended to half a line is the one that was paid for; one appended
\* to a whole line costs nothing.
LEMMA AppendingIsPaid ==
  ASSUME LossInv, NEW w \in Writers, AppendRecord(w), Paid(cost, kept, lines, Half(torn))
  PROVE  Paid(cost, kept' \cup {appended + 1}, lines', 0)
<1>1. /\ appended \in Nat /\ cost \in Nat /\ torn \in BOOLEAN
      /\ Ascending(lines, appended) /\ IsFiniteSet(kept) /\ kept' \subseteq kept
      /\ lines' = IF torn THEN lines ELSE Append(lines, appended + 1)
  BY OwedIsFinite DEF LossInv, StoreInv, NotTooMany, InOrder, OtherTypes, AppendRecord
<1>2. CASE torn
  <2>1. IsFiniteSet({appended + 1}) /\ Cardinality({appended + 1}) = 1
    BY FS_Singleton
  <2>2. cost + Cardinality({appended + 1}) + 0 <= cost + 1
    BY <1>1, <2>1
  <2>3. Lacking(kept' \cup {appended + 1}, lines', kept, lines, {appended + 1})
    BY <1>1, <1>2 DEF Lacking
  <2>4. Paid(cost, kept, lines, 1) /\ 0 \in 0 .. 1 /\ 1 \in 0 .. 1
    BY <1>2 DEF Half
  <2> QED
    BY <1>1, <2>1, <2>2, <2>3, <2>4, SpendingPays
<1>3. CASE ~torn
  <2>1. Range(lines') = Range(lines) \cup {appended + 1}
    <3>1. Len(lines) <= appended
      BY <1>1, NoLongerThanAll
    <3> QED
      BY <1>1, <1>3, <3>1, AppendingAddsTheNewest
  <2>2. Lacking(kept' \cup {appended + 1}, lines', kept, lines, {})
    BY <1>1, <2>1 DEF Lacking
  <2>3. Paid(cost, kept, lines, 0) /\ 0 \in 0 .. 1
    BY <1>3 DEF Half
  <2>4. 0 <= 0
    OBVIOUS
  <2> QED
    BY <1>1, <2>2, <2>3, <2>4, LessIsPaid
<1> QED
  BY <1>1, <1>2, <1>3

\* What a put writes, it pays for.
LEMMA StoringIsPaid ==
  ASSUME LossInv, NEW w \in Writers, Storing(w)
  PROVE  PaidFor'
<1>0. /\ LockTypeOK /\ appended \in Nat /\ cost \in Nat /\ torn \in BOOLEAN
      /\ Ascending(lines, appended) /\ PaidFor /\ InHand /\ StoreInv
      /\ body = [v \in Writers |-> body[v]] /\ mine \in [Writers -> 0 .. appended]
      /\ Keep \in [Procs -> Nat] /\ Proc \in [Writers -> Procs]
      /\ IsFiniteSet(Owed) /\ IsFiniteSet(kept)
  BY HistoryAssumption, OwedIsFinite DEF LossInv, StoreInv, NotTooMany, InOrder, OtherTypes
<1>a. /\ Half(torn) \in 0 .. 1 /\ 0 \in 0 .. 1 /\ 0 <= Half(torn) /\ Half(torn) <= Half(torn)
      /\ torn' = FALSE => Half(torn') = 0
  BY <1>0 DEF Half
<1>1. ASSUME NEW q \in {"appended", "done", "idle"}, Goto(w, q), pc[w] \in Writing
      PROVE  \A v \in Writers : pc'[v] \notin {"replacing", "rewriting"}
  BY <1>1, OnlyOneWrites DEF Writing
<1>2. ASSUME pc[w] \in Writing, pc[w] # "rewriting"
      PROVE  Paid(cost, Owed, lines, Half(torn))
  <2>1. \A v \in Writers : pc[v] # "rewriting"
    BY <1>2 DEF LossInv, LockInv, LocksAreHeld, Writing
  <2> QED
    BY <1>0, <2>1 DEF PaidFor
<1>3. CASE AppendRecord(w)
  <2>1. /\ torn' = FALSE /\ cost' = cost /\ mine' = [mine EXCEPT ![w] = appended + 1]
        /\ pc[w] = "locked" /\ Goto(w, "appended")
    BY <1>3 DEF AppendRecord
  <2>2. Owed = kept /\ Owed' = kept' \cup {mine'[w]} /\ mine'[w] = appended + 1
    BY <1>0, <2>1, OwedByOne DEF Writing, Appended
  <2>3. Paid(cost, kept, lines, Half(torn))
    BY <1>2, <2>1, <2>2 DEF Writing
  <2>4. Paid(cost, kept' \cup {appended + 1}, lines', 0)
    BY <1>3, <2>3, AppendingIsPaid
  <2>5. \A v \in Writers : pc'[v] \notin {"replacing", "rewriting"}
    BY <1>1, <2>1 DEF Writing
  <2> QED
    BY <1>a, <2>1, <2>2, <2>4, <2>5, PayingForTheFile
<1>4. CASE AppendFails(w)
  <2>1. /\ lines' = lines /\ kept' = kept
        /\ (torn' = torn /\ cost' = cost) \/ AppendCutShort
        /\ pc[w] = "locked" /\ Goto(w, "idle")
    BY <1>4 DEF AppendFails, Release
  <2>2. Owed = kept /\ Owed' = kept
    BY <2>1, OwedByOne DEF Writing, Appended
  <2>3. Paid(cost, kept, lines, Half(torn))
    BY <1>2, <2>1, <2>2 DEF Writing
  <2>4. Paid(cost', kept, lines, Half(torn'))
    BY <1>0, <2>1, <2>3, HalfALineIsPaid
  <2>5. \A v \in Writers : pc'[v] \notin {"replacing", "rewriting"}
    BY <1>1, <2>1 DEF Writing
  <2> QED
    BY <2>1, <2>2, <2>4, <2>5, PayingForTheFile
<1>5. CASE TrimFails(w) \/ PutAnswers(w) \/ (Trim(w) /\ Goto(w, "done"))
  <2>1. /\ UNCHANGED <<appended, lines, torn, cost>>
        /\ pc[w] \in Appended /\ pc[w] # "rewriting" /\ pc[w] \in Writing
        /\ \/ Goto(w, "idle") /\ kept' \subseteq kept \cup {mine[w]}
           \/ Goto(w, "done") /\ kept' = kept /\ mine' = mine
    BY <1>5 DEF TrimFails, PutAnswers, Trim, Release, fileVars, Writing, Appended
  <2>2. Owed = kept \cup {mine[w]} /\ Owed' \subseteq kept \cup {mine[w]}
    BY <2>1, OwedByOne DEF Appended
  <2>3. Lacking(Owed', lines, Owed, lines, {})
    BY <2>2 DEF Lacking
  <2>4. Paid(cost, Owed, lines, Half(torn))
    BY <1>2, <2>1
  <2>5. Paid(cost', Owed', lines', Half(torn'))
    <3>1. Paid(cost, Owed', lines, Half(torn))
      BY <1>0, <1>a, <2>3, <2>4, LessIsPaid
    <3> QED
      BY <2>1, <3>1
  <2>6. \A v \in Writers : pc'[v] \notin {"replacing", "rewriting"}
    BY <1>1, <2>1
  <2> QED
    BY <2>5, <2>6, PayingForTheFile
<1>6. CASE Trim(w) /\ ~Goto(w, "done")
  <2> DEFINE n == Keep[Proc[w]]
             b == NewestOf(lines, n)
  <2>1. /\ UNCHANGED <<appended, lines, torn, cost, kept, mine>> /\ pc[w] = "appended"
        /\ Goto(w, "replacing") /\ body' = [body EXCEPT ![w] = b]
        /\ n # 0 /\ ~(Len(lines) <= n)
    BY <1>6 DEF Trim, fileVars
  <2>2. n \in Nat \ {0} /\ n < Len(lines)
    <3>1. n \in Nat /\ Len(lines) \in Nat
      BY <1>0, NoLongerThanAll
    <3> QED
      BY <2>1, <3>1
  <2>3. Owed = kept \cup {mine[w]} /\ Owed' = Owed /\ mine[w] = appended
    BY <1>0, <2>1, OwedByOne DEF Writing, Appended, InHand
  <2>4. \A r \in Owed : IsDue(r, lines, n)
    <3>1. \A r \in kept : IsDue(r, lines, n)
      BY <1>0, <2>1 DEF InHand
    <3>2. IsDue(appended, lines, n)
      <4>1. Range(lines) \subseteq 1 .. appended
        BY <1>0, AsManyAsItIsLong
      <4>2. {x \in Range(lines) : x > appended} = {}
        BY <1>0, <4>1
      <4>3. Cardinality({x \in Range(lines) : x > appended}) = 0
        BY <4>2, FS_EmptySet
      <4> HIDE DEF n
      <4> QED
        BY <2>2, <4>3 DEF IsDue
    <3> QED
      BY <2>3, <3>1, <3>2
  <2>5. \A r \in Range(lines) : IsDue(r, lines, n) => r \in Range(b)
    BY <1>0, <2>2, TrimTakesTheOldest
  <2>6. Lacking(Owed', b, Owed, lines, {})
    BY <2>3, <2>4, <2>5 DEF Lacking
  <2>7. Paid(cost, Owed, lines, Half(torn))
    BY <1>2, <2>1 DEF Writing
  <2>8. Paid(cost, Owed', b, 0)
    BY <1>0, <1>a, <2>6, <2>7, LessIsPaid
  <2>9. Paid(cost', Owed', lines', Half(torn'))
    BY <2>1, <2>3, <2>7
  <2>10. body'[w] = b
    BY <1>0, <2>1
  <2>11. /\ pc'[w] = "replacing"
         /\ \A v \in Writers : v # w => pc'[v] \notin {"replacing", "rewriting"}
    BY <2>1, OnlyOneWrites DEF Writing
  <2> HIDE DEF b
  <2> QED
    BY <2>1, <2>8, <2>9, <2>10, <2>11 DEF PaidFor
<1>7. CASE Rename(w) \/ Rewrite(w)
  <2>1. /\ lines' = body[w] /\ torn' = FALSE /\ UNCHANGED <<cost, kept, mine>>
        /\ pc[w] \in {"replacing", "rewriting"} /\ Goto(w, "done")
    BY <1>7 DEF Rename, Rewrite
  <2>2. Paid(cost, Owed, body[w], 0) /\ Owed' = Owed
    BY <1>0, <2>1, OwedByOne DEF PaidFor, Writing, Appended
  <2>3. \A v \in Writers : pc'[v] \notin {"replacing", "rewriting"}
    BY <1>1, <2>1 DEF Writing
  <2> QED
    BY <1>a, <2>1, <2>2, <2>3, PayingForTheFile
<1>8. CASE Truncate(w)
  <2>1. /\ torn' = FALSE /\ UNCHANGED <<cost, body, kept, mine>>
        /\ pc[w] = "replacing" /\ Goto(w, "rewriting")
    BY <1>8 DEF Truncate
  <2>2. Paid(cost, Owed, body[w], 0) /\ Owed' = Owed
    BY <1>0, <2>1, OwedByOne DEF PaidFor, Writing, Appended
  <2>3. /\ pc'[w] = "rewriting"
        /\ \A v \in Writers : v # w => pc'[v] \notin {"replacing", "rewriting"}
    BY <2>1, OnlyOneWrites DEF Writing
  <2> QED
    BY <2>1, <2>2, <2>3 DEF PaidFor
<1>9. CASE RewriteFails(w)
  <2>1. pc[w] = "rewriting" /\ RewriteCutShort(w) /\ Goto(w, "idle") /\ kept' = kept
    BY <1>9 DEF RewriteFails, Release
  <2>2. Owed' = kept
    BY <2>1, OwedByOne DEF Writing, Appended
  <2>3. Paid(cost', kept, lines', Half(torn'))
    BY <2>1, CuttingShortIsPaid
  <2>4. \A v \in Writers : pc'[v] \notin {"replacing", "rewriting"}
    BY <1>1, <2>1 DEF Writing
  <2> QED
    BY <2>2, <2>3, <2>4, PayingForTheFile
<1> QED
  BY <1>3, <1>4, <1>5, <1>6, <1>7, <1>8, <1>9 DEF Storing

\* A put has the newest record in hand, and what is due of the others.
LEMMA StoringKeepsInHand ==
  ASSUME LossInv, NEW w \in Writers, Storing(w)
  PROVE  InHand'
<1>0. /\ LockTypeOK /\ appended \in Nat /\ InHand /\ mine \in [Writers -> 0 .. appended]
      /\ kept \subseteq 1 .. appended
  BY DEF LossInv, StoreInv, NotTooMany, InOrder
<1>1. CASE AppendRecord(w)
  <2>1. /\ appended' = appended + 1 /\ mine' = [mine EXCEPT ![w] = appended + 1]
        /\ kept' = {r \in kept : IsDue(r, lines', Keep[Proc[w]])}
        /\ pc[w] = "locked" /\ Goto(w, "appended")
    BY <1>1 DEF AppendRecord
  <2>2. mine'[w] = appended' /\ mine'[w] \notin kept'
    BY <1>0, <2>1
  <2>3. \A r \in kept' : IsDue(r, lines', Keep[Proc[w]])
    BY <2>1
  <2>4. \A v \in Writers : v # w => pc'[v] \notin Appended
    BY <2>1, OnlyOneWrites DEF Writing, Appended
  <2>5. \A v \in Writers : v # w => pc'[v] # "appended"
    BY <2>4 DEF Appended
  <2> QED
    BY <2>2, <2>3, <2>4, <2>5 DEF InHand
<1>2. CASE Trim(w) \/ Rename(w) \/ Truncate(w) \/ Rewrite(w)
  <2>1. /\ UNCHANGED <<appended, mine, kept>> /\ pc[w] \in Appended /\ pc[w] \in Writing
        /\ \E q \in {"replacing", "rewriting", "done"} : Goto(w, q)
    BY <1>2 DEF Trim, Rename, Truncate, Rewrite, fileVars, Appended, Writing
  <2>2. /\ pc'[w] # "appended"
        /\ \A v \in Writers : v # w => pc'[v] \notin Appended
    BY <2>1, OnlyOneWrites DEF Appended, Writing
  <2>3. \A v \in Writers : pc'[v] # "appended"
    BY <2>2 DEF Appended
  <2> QED
    BY <1>0, <2>1, <2>2, <2>3 DEF InHand
<1>3. CASE AppendFails(w) \/ RewriteFails(w) \/ TrimFails(w) \/ PutAnswers(w)
  <2>1. pc[w] \in Writing /\ Goto(w, "idle")
    BY <1>3 DEF AppendFails, RewriteFails, TrimFails, PutAnswers, Release, Writing
  <2>2. \A v \in Writers : pc'[v] \notin Appended
    BY <2>1, OnlyOneWrites DEF Appended, Writing
  <2>3. \A v \in Writers : pc'[v] # "appended"
    BY <2>2 DEF Appended
  <2> QED
    BY <2>2, <2>3 DEF InHand
<1> QED
  BY <1>1, <1>2, <1>3 DEF Storing

\* A process that dies pays for what it leaves half done.
LEMMA DyingIsPaid ==
  ASSUME LossInv, NEW p \in Procs, Die(p)
  PROVE  PaidFor' /\ InHand'
<1>0. /\ LockTypeOK /\ cost \in Nat /\ torn \in BOOLEAN /\ PaidFor /\ StoreInv
      /\ IsFiniteSet(kept)
  BY OwedIsFinite DEF LossInv, StoreInv, OtherTypes
<1>1. /\ pc' = [w \in Writers |-> IF Proc[w] = p THEN "idle" ELSE pc[w]]
      /\ body' = [w \in Writers |-> IF Proc[w] = p THEN <<>> ELSE body[w]]
      /\ mine' = [w \in Writers |-> IF Proc[w] = p THEN NoRecord ELSE mine[w]]
      /\ UNCHANGED <<appended, kept>>
  BY DEF Die
<1>2. ASSUME NEW w \in Writers, Proc[w] = p, pc[w] \in Writing
      PROVE  \A v \in Writers : pc'[v] \notin Writing
  BY <1>1, <1>2 DEF LossInv, LockInv, LocksAreHeld, Writing
\* Where the only writer dies, nothing but what was promised need be paid for.
<1>3. ASSUME NEW w \in Writers, Proc[w] = p, pc[w] \in Writing, Paid(cost', kept, lines', Half(torn'))
      PROVE  PaidFor' /\ InHand'
  <2>1. \A v \in Writers : /\ pc'[v] \notin Appended
                           /\ pc'[v] \notin {"replacing", "rewriting"} /\ pc'[v] # "appended"
    BY <1>2, <1>3 DEF Writing, Appended
  <2>2. Owed' = kept
    BY <1>1, <2>1 DEF Owed, OwedWith
  <2>3. PaidFor'
    BY <1>3, <2>1, <2>2, PayingForTheFile
  <2>4. InHand'
    BY <2>1 DEF InHand
  <2> QED
    BY <2>3, <2>4
<1>4. ASSUME NEW w \in Writers, Proc[w] = p, pc[w] = "rewriting", RewriteCutShort(w)
      PROVE  PaidFor' /\ InHand'
  BY <1>3, <1>4, CuttingShortIsPaid DEF Writing
<1>5. ASSUME NEW w \in Writers, Proc[w] = p, pc[w] = "locked", AppendCutShort, lines' = lines
      PROVE  PaidFor' /\ InHand'
  <2>1. /\ \A v \in Writers : pc[v] # "rewriting"
        /\ \A v \in Writers : pc[v] \notin Appended
    BY <1>5 DEF LossInv, LockInv, LocksAreHeld, Writing, Appended
  <2>2. Owed = kept
    BY <2>1 DEF Owed, OwedWith
  <2>3. Paid(cost, kept, lines, Half(torn))
    BY <1>0, <2>1, <2>2 DEF PaidFor
  <2>4. Paid(cost', kept, lines', Half(torn'))
    BY <1>0, <1>5, <2>3, HalfALineIsPaid
  <2> QED
    BY <1>3, <1>5, <2>4 DEF Writing
<1>6. ASSUME \A w \in Writers : Proc[w] = p => pc[w] # "rewriting", UNCHANGED <<lines, torn, cost>>
      PROVE  PaidFor' /\ InHand'
  <2>1. \A v \in Writers :
          /\ pc'[v] \in Appended => pc'[v] = pc[v] /\ body'[v] = body[v] /\ mine'[v] = mine[v]
          /\ pc[v] = "rewriting" => pc'[v] = "rewriting"
    BY <1>1, <1>6 DEF Appended
  <2> QED
    BY <1>1, <1>6, <2>1, LeavingKeepsPaid
<1>7. \/ \E w \in Writers : Proc[w] = p /\ pc[w] = "rewriting" /\ RewriteCutShort(w)
      \/ (\A w \in Writers : Proc[w] = p => pc[w] # "rewriting") /\ UNCHANGED <<lines, torn, cost>>
      \/ \E w \in Writers : Proc[w] = p /\ pc[w] = "locked" /\ AppendCutShort /\ lines' = lines
  BY DEF Die
<1> QED
  BY <1>4, <1>5, <1>6, <1>7

\* At every step, what is lost is paid for.
LEMMA StepKeepsLossInv ==
  ASSUME StealersAreAlone
  PROVE  LossInv /\ [HistoryNext]_historyVars => LossInv'
<1> SUFFICES ASSUME LossInv, [HistoryNext]_historyVars PROVE PaidFor' /\ InHand'
  BY StepKeepsLockInv, StepKeepsStoreInv DEF LossInv
<1>0. LockTypeOK
  BY DEF LossInv, StoreInv
<1>1. ASSUME NEW w \in Writers, Put(w) \/ TakeMutex(w) \/ Locking(w) PROVE PaidFor' /\ InHand'
  <2>1. /\ UNCHANGED <<lines, torn, appended, cost, kept, body, mine>> /\ pc[w] # "rewriting"
        /\ \E q \in ToAppend \cup {"idle"} : Goto(w, q)
    BY <1>1 DEF Put, TakeMutex, Locking, CreateLock, FindLocked, FindStale, RemoveStale, PollOrGiveUp,
                fileVars, ToAppend
  <2>2. \A v \in Writers :
          /\ pc'[v] \in Appended => pc'[v] = pc[v] /\ body'[v] = body[v] /\ mine'[v] = mine[v]
          /\ pc[v] = "rewriting" => pc'[v] = "rewriting"
    BY <1>0, <2>1, OthersStay DEF ToAppend, Appended
  <2> QED
    BY <2>1, <2>2, LeavingKeepsPaid
<1>2. CASE HistoryTick \/ UNCHANGED historyVars
  <2>1. UNCHANGED <<lines, torn, appended, cost, kept, body, mine, pc>>
    BY <1>2 DEF HistoryTick, fileVars, historyVars
  <2> QED
    BY <2>1, LeavingKeepsPaid
<1> QED
  BY <1>1, <1>2, StoringIsPaid, StoringKeepsInHand, DyingIsPaid DEF HistoryNext

\* A record whose Put answered nil is lost only to half a line, or to a rewrite
\* in place that was cut short by a death or by the disk, and no more of them
\* than those did not write: for any processes, writers, limits and faults, where
\* nobody may steal a lock that another is about to steal (Put and trim,
\* results.go; lock.go).
THEOREM LossIsBoundedUnlessTwoSteal ==
  ASSUME StealersAreAlone
  PROVE  HistorySpec => []LossIsBounded
<1>1. HistoryInit => LossInv
  <2> SUFFICES ASSUME HistoryInit PROVE PaidFor /\ InHand
    BY InitiallyLockInv, InitiallyStoreInv DEF LossInv
  <2>1. /\ cost = 0 /\ torn = FALSE /\ kept = {}
        /\ \A w \in Writers : pc[w] = "idle"
    BY DEF HistoryInit
  <2>2. Owed = {}
    BY <2>1 DEF Owed, OwedWith, Appended
  <2>3. Cardinality({}) = 0
    BY FS_EmptySet
  <2>4. Owed \ Range(lines) = {}
    BY <2>2
  <2>5. Paid(cost, Owed, lines, Half(torn))
    BY <2>1, <2>3, <2>4 DEF Paid, Half
  <2> QED
    BY <2>1, <2>5 DEF PaidFor, InHand, Appended
<1>2. LossInv => LossIsBounded
  <2> SUFFICES ASSUME LossInv, \A w \in Writers : pc[w] # "rewriting"
               PROVE  Cardinality(Lost) <= cost
    BY DEF LossIsBounded
  <2>1. /\ cost \in Nat /\ Paid(cost, Owed, lines, Half(torn)) /\ IsFiniteSet(Owed)
        /\ Half(torn) \in 0 .. 1 /\ 0 \in 0 .. 1 /\ 0 <= Half(torn)
    BY OwedIsFinite DEF LossInv, StoreInv, OtherTypes, PaidFor, Half
  <2>2. Lacking(kept, lines, Owed, lines, {})
    BY DEF Owed, OwedWith, Lacking
  <2>3. Paid(cost, kept, lines, 0)
    BY <2>1, <2>2, LessIsPaid
  <2>4. IsFiniteSet(kept \ Range(lines))
    BY OwedIsFinite, FS_Subset DEF LossInv
  <2>5. Cardinality(kept \ Range(lines)) \in Nat
    BY <2>4, FS_CardinalityType
  <2> QED
    BY <2>1, <2>3, <2>5 DEF Paid, Lost
<1> QED
  BY <1>1, <1>2, StepKeepsLossInv, PTL DEF HistorySpec
=============================================================================
