------------------------------- MODULE History -------------------------------
(***************************************************************************)
(* One history file of internal/results (results.go, lock.go), written by  *)
(* goroutines of several processes: a service and the command line sharing *)
(* a directory. A writer holds its process's mutex, then the lock file, so *)
(* one that died leaves a lock behind and one that waits may take it.      *)
(*                                                                         *)
(* A record is the number of the append that wrote it. A line that is not  *)
(* a record is skipped on reading (parse) and so is not in `lines'.        *)
(***************************************************************************)
EXTENDS Integers, Sequences, FiniteSets, SequencesExt

CONSTANTS
  Procs, Writers,
  Proc,          \* the process of each writer
  Mortal,        \* the processes that may die; they do not come back
  Keep,          \* Store.Keep of each process, 0 to keep everything
  LockWait, LockStale, \* in ticks: 3 s and 30 s in the code
  RenameMayFail, \* a platform that refuses to rename over an open file
  WriteMayFail,  \* a write may stop half way: a full disk
  MaxPuts,       \* bound: how many records are ever begun
  Nobody

ASSUME HistoryAssumption ==
  /\ Proc \in [Writers -> Procs]
  /\ Mortal \subseteq Procs
  /\ Keep \in [Procs -> Nat]
  /\ LockWait \in Nat
  /\ LockStale \in Nat
  /\ LockWait < LockStale
  /\ RenameMayFail \in BOOLEAN
  /\ WriteMayFail \in BOOLEAN
  /\ MaxPuts \in Nat
  /\ Nobody \notin Writers

VARIABLES
  lines,     \* the records in the file, oldest first
  torn,      \* the file ends in half a line
  lockAge,   \* how old the lock file is, or NoLock
  mutex,     \* pathLock of each process: the writer that holds it, or Nobody
  pc, waited, mine, body, \* of each writer: where it is, how long it has waited
                          \* for the lock, its record, what it will leave
  dead,      \* the processes that have died
  appended,  \* how many records have been appended
  kept,      \* history: the records whose Put answered nil, until they may go
  cost       \* history: what writes cut short may have cost, in records

historyVars == <<lines, torn, lockAge, mutex, pc, waited, mine, body, dead, appended, kept, cost>>
fileVars == <<lines, torn, appended, cost>>

NoLock == -1
NoRecord == 0
Records == 1 .. MaxPuts
Writing == {"locked", "appended", "replacing", "rewriting", "done"}
Busy == {w \in Writers : pc[w] # "idle"}

Costing(n) == cost' = cost + n

\* An age that stops where nothing looks further.
Older(age, limit) == IF age > limit THEN age ELSE age + 1

HistoryTypeOK ==
  /\ lines \in BoundedSeq(Records, MaxPuts)
  /\ torn \in BOOLEAN
  /\ lockAge \in {NoLock} \cup 0 .. LockStale + 1
  /\ mutex \in [Procs -> Writers \cup {Nobody}]
  /\ pc \in [Writers -> {"idle", "mutex", "trying", "blocked", "stealing"} \cup Writing]
  /\ waited \in [Writers -> 0 .. LockWait + 1]
  /\ mine \in [Writers -> Records \cup {NoRecord}]
  /\ \A w \in Writers : Range(body[w]) \subseteq Records
  /\ dead \subseteq Mortal
  /\ appended \in 0 .. MaxPuts
  /\ kept \subseteq 1 .. appended

HistoryInit ==
  /\ lines = <<>>
  /\ torn = FALSE
  /\ lockAge = NoLock
  /\ mutex = [p \in Procs |-> Nobody]
  /\ pc = [w \in Writers |-> "idle"]
  /\ waited = [w \in Writers |-> 0]
  /\ mine = [w \in Writers |-> NoRecord]
  /\ body = [w \in Writers |-> <<>>]
  /\ dead = {}
  /\ appended = 0
  /\ kept = {}
  /\ cost = 0

-----------------------------------------------------------------------------
(* lock: the process's mutex, then the lock file. *)

Goto(w, place) == pc' = [pc EXCEPT ![w] = place]

Put(w) ==
  /\ pc[w] = "idle"
  /\ Proc[w] \notin dead
  /\ appended + Cardinality(Busy) < MaxPuts
  /\ Goto(w, "mutex")
  /\ UNCHANGED <<fileVars, lockAge, mutex, waited, mine, body, dead, kept>>

TakeMutex(w) ==
  /\ pc[w] = "mutex"
  /\ mutex[Proc[w]] = Nobody
  /\ mutex' = [mutex EXCEPT ![Proc[w]] = w]
  /\ Goto(w, "trying")
  /\ UNCHANGED <<fileVars, lockAge, waited, mine, body, dead, kept>>

\* O_EXCL: the file is made by one writer alone.
\* (Fault: without O_EXCL.)
CreateAnyway(w) ==
  /\ pc[w] = "trying"
  /\ lockAge' = 0
  /\ Goto(w, "locked")
  /\ waited' = [waited EXCEPT ![w] = 0]
  /\ UNCHANGED <<fileVars, mutex, mine, body, dead, kept>>
CreateLock(w) ==
  /\ pc[w] = "trying"
  /\ lockAge = NoLock
  /\ lockAge' = 0
  /\ Goto(w, "locked")
  /\ waited' = [waited EXCEPT ![w] = 0]
  /\ UNCHANGED <<fileVars, mutex, mine, body, dead, kept>>

FindLocked(w) ==
  /\ pc[w] = "trying"
  /\ lockAge # NoLock
  /\ Goto(w, "blocked")
  /\ UNCHANGED <<fileVars, lockAge, mutex, waited, mine, body, dead, kept>>

\* The lock is old, so its holder is taken to be dead; removing it is a step of
\* its own, and removes whichever lock is there by then.
FindStale(w) ==
  /\ pc[w] = "blocked"
  /\ lockAge > LockStale
  /\ Goto(w, "stealing")
  /\ UNCHANGED <<fileVars, lockAge, mutex, waited, mine, body, dead, kept>>

RemoveStale(w) ==
  /\ pc[w] = "stealing"
  /\ lockAge' = NoLock
  /\ Goto(w, "trying")
  /\ UNCHANGED <<fileVars, mutex, waited, mine, body, dead, kept>>

\* The lock is held, or was a moment ago: poll again until the deadline.
\* (Fault: no deadline.)
PollForEver(w) ==
  /\ pc[w] = "blocked"
  /\ lockAge <= LockStale
  /\ Goto(w, "trying")
  /\ UNCHANGED <<fileVars, lockAge, mutex, waited, mine, body, dead, kept>>
PollOrGiveUp(w) ==
  /\ pc[w] = "blocked"
  /\ lockAge <= LockStale
  /\ IF waited[w] > LockWait
       THEN /\ Goto(w, "idle")
            /\ mutex' = [mutex EXCEPT ![Proc[w]] = Nobody]
            /\ waited' = [waited EXCEPT ![w] = 0]
       ELSE Goto(w, "trying") /\ UNCHANGED <<mutex, waited>>
  /\ UNCHANGED <<fileVars, lockAge, mine, body, dead, kept>>

\* Both locks go, the lock file whoever made it.
Release(w) ==
  /\ lockAge' = NoLock
  /\ mutex' = [mutex EXCEPT ![Proc[w]] = Nobody]
  /\ Goto(w, "idle")
  /\ mine' = [mine EXCEPT ![w] = NoRecord]
  /\ body' = [body EXCEPT ![w] = <<>>]

-----------------------------------------------------------------------------
(* Put, under both locks: append, then trim. *)

\* Of the records of ls, the n newest are kept, and all of them if n is 0.
IsDue(r, ls, n) == n = 0 \/ Cardinality({x \in Range(ls) : x > r}) < n

\* A record that follows half a line is part of that line, and is not read back.
\* Those of which this process has Keep newer ones are promised no longer.
AppendRecord(w) ==
  /\ pc[w] = "locked"
  /\ appended' = appended + 1
  /\ mine' = [mine EXCEPT ![w] = appended + 1]
  /\ lines' = IF torn THEN lines ELSE Append(lines, appended + 1)
  /\ torn' = FALSE
  /\ kept' = {r \in kept : IsDue(r, lines', Keep[Proc[w]])}
  /\ Goto(w, "appended")
  /\ UNCHANGED <<lockAge, mutex, waited, body, dead, cost>>

\* Half a line costs the record that is written after it.
AppendCutShort ==
  /\ torn' = TRUE
  /\ Costing(IF torn THEN 0 ELSE 1)

\* (Fault: the error is dropped.)
AppendFailsSilently(w) ==
  /\ pc[w] = "locked"
  /\ \/ UNCHANGED <<torn, cost>>
     \/ WriteMayFail /\ AppendCutShort
  /\ Goto(w, "done")
  /\ UNCHANGED <<lines, lockAge, mutex, waited, mine, body, dead, appended, kept>>
\* The record could not be opened for, or encoded, or written whole.
AppendFails(w) ==
  /\ pc[w] = "locked"
  /\ \/ UNCHANGED <<torn, cost>>
     \/ WriteMayFail /\ AppendCutShort
  /\ Release(w)
  /\ UNCHANGED <<lines, appended, waited, dead, kept>>

\* trim reads the history back. Keep is of the process that writes.
\* (Fault: one too few.)
NewestButOne(s, n) == SubSeq(s, Len(s) - n + 2, Len(s))
NewestOf(s, n) == SubSeq(s, Len(s) - n + 1, Len(s))
Trim(w) ==
  LET n == Keep[Proc[w]]
  IN  /\ pc[w] = "appended"
      /\ IF n = 0 \/ Len(lines) <= n
           THEN Goto(w, "done") /\ UNCHANGED body
           ELSE Goto(w, "replacing") /\ body' = [body EXCEPT ![w] = NewestOf(lines, n)]
      /\ UNCHANGED <<fileVars, lockAge, mutex, waited, mine, dead, kept>>

Rename(w) ==
  /\ pc[w] = "replacing"
  /\ lines' = body[w]
  /\ torn' = FALSE
  /\ Goto(w, "done")
  /\ UNCHANGED <<lockAge, mutex, waited, mine, body, dead, appended, kept, cost>>

\* The fallback truncates the file and then writes it.
Truncate(w) ==
  /\ RenameMayFail
  /\ pc[w] = "replacing"
  /\ lines' = <<>>
  /\ torn' = FALSE
  /\ Goto(w, "rewriting")
  /\ UNCHANGED <<lockAge, mutex, waited, mine, body, dead, appended, kept, cost>>

Rewrite(w) ==
  /\ pc[w] = "rewriting"
  /\ lines' = body[w]
  /\ torn' = FALSE
  /\ Goto(w, "done")
  /\ UNCHANGED <<lockAge, mutex, waited, mine, body, dead, appended, kept, cost>>

\* As much of it as was written is in the file, and maybe half the next line. It
\* costs the others' records that are not there, and what is written after half a
\* line.
Unwritten(w, n) == {body[w][i] : i \in n + 1 .. Len(body[w])} \ {mine[w]}
RewriteCutShort(w) ==
  \E n \in 0 .. Len(body[w]), half \in BOOLEAN :
    /\ half => n < Len(body[w])
    /\ lines' = SubSeq(body[w], 1, n)
    /\ torn' = half
    /\ Costing(Cardinality(Unwritten(w, n)) + (IF half THEN 1 ELSE 0))

\* os.WriteFile has truncated the file and could not write all of it again: Put
\* answers the error, and the process goes on.
RewriteFails(w) ==
  /\ WriteMayFail
  /\ pc[w] = "rewriting"
  /\ RewriteCutShort(w)
  /\ Release(w)
  /\ UNCHANGED <<waited, dead, appended, kept>>

\* Reading back failed, or the temporary file, or opening the file for the
\* fallback: the record stays, untrimmed.
TrimFails(w) ==
  /\ pc[w] \in {"appended", "replacing"}
  /\ Release(w)
  /\ UNCHANGED <<fileVars, waited, dead, kept>>

PutAnswers(w) ==
  /\ pc[w] = "done"
  /\ kept' = kept \cup {mine[w]}
  /\ Release(w)
  /\ UNCHANGED <<fileVars, waited, dead>>

-----------------------------------------------------------------------------

\* A process dies where it is. The lock file stays, and what it was writing is
\* as far as it got.
Die(p) ==
  LET its == {w \in Writers : Proc[w] = p}
      At(place) == \E w \in its : pc[w] = place
  IN  /\ p \in Mortal \ dead
      /\ dead' = dead \cup {p}
      /\ mutex' = [mutex EXCEPT ![p] = Nobody]
      /\ pc' = [w \in Writers |-> IF w \in its THEN "idle" ELSE pc[w]]
      /\ mine' = [w \in Writers |-> IF w \in its THEN NoRecord ELSE mine[w]]
      /\ body' = [w \in Writers |-> IF w \in its THEN <<>> ELSE body[w]]
      /\ waited' = [w \in Writers |-> IF w \in its THEN 0 ELSE waited[w]]
      /\ \/ ~At("rewriting") /\ UNCHANGED <<lines, torn, cost>>
         \/ At("locked") /\ AppendCutShort /\ UNCHANGED lines
         \/ \E w \in its : pc[w] = "rewriting" /\ RewriteCutShort(w)
      /\ UNCHANGED <<lockAge, appended, kept>>

\* "A write takes milliseconds": no writer holds the lock for as long as
\* LockStale. One that has died may be gone for any time.
HistoryTick ==
  /\ \A w \in Writers : pc[w] \in Writing => lockAge < LockStale
  /\ lockAge' = IF lockAge = NoLock THEN NoLock ELSE Older(lockAge, LockStale)
  /\ waited' = [w \in Writers |->
                  IF pc[w] \in {"trying", "blocked", "stealing"}
                    THEN Older(waited[w], LockWait) ELSE waited[w]]
  /\ UNCHANGED <<fileVars, mutex, pc, mine, body, dead, kept>>

Locking(w) == CreateLock(w) \/ FindLocked(w) \/ FindStale(w) \/ RemoveStale(w) \/ PollOrGiveUp(w)
Storing(w) == \/ AppendRecord(w) \/ AppendFails(w) \/ Trim(w) \/ Rename(w) \/ Truncate(w)
              \/ Rewrite(w) \/ RewriteFails(w) \/ TrimFails(w) \/ PutAnswers(w)

HistoryNext ==
  \/ HistoryTick
  \/ \E p \in Procs : Die(p)
  \/ \E w \in Writers : Put(w) \/ TakeMutex(w) \/ Locking(w) \/ Storing(w)

\* Goroutines are scheduled, time passes, and a Go mutex is given in turn.
HistoryFairness ==
  /\ WF_historyVars(HistoryTick)
  /\ \A w \in Writers : /\ WF_historyVars(Locking(w))
                        /\ WF_historyVars(Storing(w))
                        /\ SF_historyVars(TakeMutex(w))

HistorySpec == HistoryInit /\ [][HistoryNext]_historyVars /\ HistoryFairness
-----------------------------------------------------------------------------

\* "One writer at a time per history file" (lock.go).
OneWriterAtATime == Cardinality({w \in Writers : pc[w] \in Writing}) <= 1

Lost == kept \ Range(lines)

\* A record whose Put answered nil is read back until a process that keeps Keep
\* has Keep newer ones, at whatever moment a reader may hold a process's mutex
\* (History; the reader of another process than the one that rewrites in place
\* is the exception the code names). Half a line costs the record written after
\* it; a rewrite in place that is cut short, by the death of the process or by
\* the disk, costs the records it did not write; nothing else is ever lost.
LossIsBounded ==
  (\A w \in Writers : pc[w] # "rewriting") => Cardinality(Lost) <= cost

\* "A failure here is reported" (Put): a record whose Put reported none is read
\* back until Keep newer ones are, whatever became of the writes before it.
KeptIsReadable ==
  (\A w \in Writers : pc[w] # "rewriting") => Lost = {}

\* "A scan's result is worth a short wait and not a stuck request" (lockWait):
\* every Put ends, also when a dead writer's lock is in the way.
PutEnds == \A w \in Writers : pc[w] = "mutex" ~> pc[w] = "idle"
=============================================================================
