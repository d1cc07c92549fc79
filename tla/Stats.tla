-------------------------------- MODULE Stats --------------------------------
(***************************************************************************)
(* What the service counts, and how the counts reach the disk and come     *)
(* back: counters.go of internal/httpapi, and loadStats, saveStats,        *)
(* persistStats and the end of run in cmd/porchd/main.go.                  *)
(*                                                                         *)
(* Scans record, the stats page reads, and a ticker writes the file, all   *)
(* concurrently; a signal starts a shutdown whose last write must be the   *)
(* only writer left. A check's columns (strong, weak, ...) are left out:   *)
(* each scan adds one to the total and one to a column.                    *)
(***************************************************************************)
EXTENDS Integers, FiniteSets

CONSTANTS
  Checks, Tls,   \* the names this build counts; Tls is one of them
  Codes,         \* refusalCodes
  Recorded,      \* the names callers record under: of Checks, or others
  Scans,         \* goroutines that finish scans
  DayLength,     \* ticks in a day
  PublishEvery,  \* ticks the published figures stand still
  FirstFiles,    \* what an earlier process may have left on disk
  MaxTime, MaxCount, \* bounds: the clock; scans and refusals together
  Nowhere        \* stands for a scan that is not there

NoFile == [file |-> "none"]

\* The file as the program reads and writes it: figures by name, those of the TLS check
\* at the top, refusals by code, and the day it is of.
Figures == [total : Nat, today : Nat]
IsFile(f) ==
  /\ f = [checks |-> f.checks, top |-> f.top, refused |-> f.refused, date |-> f.date]
  /\ f.checks \in [DOMAIN f.checks -> Figures]
  /\ f.top \in Figures
  /\ f.refused \in [DOMAIN f.refused -> Nat]
  /\ f.date \in Int

\* A file found at the start is from the past, and the field at the top is no larger than
\* the figure that took its place.
ASSUME StatsAssumption ==
  /\ Tls \in Checks
  /\ DayLength \in Nat \ {0}
  /\ PublishEvery \in Nat \ {0}
  /\ MaxTime \in Nat
  /\ MaxCount \in Nat
  /\ \A f \in FirstFiles \ {NoFile} :
       /\ IsFile(f) /\ f.date <= 0
       /\ Tls \in DOMAIN f.checks => f.top.total <= f.checks[Tls].total

VARIABLES
  now,
  phase,      \* of the process: "up", "draining", "waiting", "last", "exiting", "stopped"
  data,       \* c.data
  published, publishedAt, \* c.published, c.publishedAt
  reading,    \* of each scan: the check and the day it will be recorded under
  writer,     \* persistStats: "select", "saving" or "returned"
  writing,    \* the snapshot on its way to the disk
  last,       \* what persistStats wrote last
  file,       \* the file of the counters
  unread,     \* history: this process began at zero beside a file it could not
              \* read, and that file is still there
  counted,    \* how many scans and refusals were counted, for the bound
  todays,     \* history: the scans recorded on the current day
  clean       \* history: the process stopped by itself, having written the file

statsVars == <<now, phase, data, published, publishedAt, reading, writer, writing, last,
          file, unread, counted, todays, clean>>
memory == <<data, published, publishedAt, reading>>
disk == <<writer, writing, last, file, unread>>

Day(t) == t \div DayLength
Never == -1
Zero == [total |-> 0, today |-> 0]
NoChecks == [c \in {} |-> Zero]
Fresh(day) == [checks |-> NoChecks, top |-> Zero, refused |-> [c \in {} |-> 0], date |-> day]

\* The figures of check c in a snapshot, absent or not.
Of(s, c) == IF c \in DOMAIN s.checks THEN s.checks[c] ELSE Zero

NewDay(checks) == [c \in DOMAIN checks |-> [checks[c] EXCEPT !.today = 0]]

\* snapshotLocked: figures named today are today's, and the fields at the top
\* are those of the TLS check (project).
Snapshot ==
  LET checks == IF data.date = Day(now) THEN data.checks ELSE NewDay(data.checks)
  IN  [data EXCEPT !.checks = checks, !.date = Day(now),
                   !.top = Of([checks |-> checks], Tls)]

\* restore, on counters just made.
\* (Faults: the checks as they are in the file, whatever their name or date.)
RestoredAsItIs(s) ==
  [checks |-> s.checks, top |-> Zero, date |-> Day(now),
   refused |-> [c \in DOMAIN s.refused \cap Codes |-> s.refused[c]]]
Restored(s) ==
  LET known == [c \in DOMAIN s.checks \cap Checks |-> s.checks[c]]
      all   == IF Tls \notin DOMAIN known /\ s.top.total > 0
                 THEN [c \in DOMAIN known \cup {Tls} |-> IF c = Tls THEN s.top ELSE known[c]]
                 ELSE known
  IN  [checks  |-> IF s.date = Day(now) THEN all ELSE NewDay(all),
       top     |-> Zero,
       refused |-> [c \in DOMAIN s.refused \cap Codes |-> s.refused[c]],
       date    |-> Day(now)]

\* What a process starts with. A file that is there and cannot be read, or does not
\* parse, costs the counters and not the service: they start from zero beside it.
Loads(figures, missed) ==
  \/ /\ figures = IF file = NoFile THEN Fresh(Day(now)) ELSE Restored(file)
     /\ missed = FALSE
  \/ /\ file # NoFile
     /\ figures = Fresh(Day(now))
     /\ missed = TRUE

StatsTypeOK ==
  /\ now \in Nat
  /\ phase \in {"up", "draining", "waiting", "last", "exiting", "stopped"}
  /\ DOMAIN data.checks \subseteq Checks
  /\ DOMAIN data.refused \subseteq Codes
  /\ data.date \in 0 .. Day(now)
  /\ publishedAt \in -1 .. now
  /\ DOMAIN reading \subseteq Scans
  /\ writer \in {"select", "saving", "returned"}
  /\ clean \in BOOLEAN
  /\ unread \in BOOLEAN

StatsInit ==
  /\ now = 0
  /\ phase = "up"
  /\ file \in FirstFiles
  /\ Loads(data, unread)
  /\ published = Fresh(0)
  /\ publishedAt = Never
  /\ reading = [s \in {} |-> Nowhere]
  /\ writer = "select"
  /\ writing = Fresh(0)
  /\ last = NoFile
  /\ counted = 0
  /\ todays = [c \in Checks |-> IF file # NoFile /\ file.date = 0 THEN Of(Restored(file), c).today ELSE 0]
  /\ clean = FALSE

-----------------------------------------------------------------------------
(* Requests. They arrive until the shutdown. *)

Serving == phase # "stopped"
Reading(s) == s \in DOMAIN reading

\* A scan is accepted; it will be recorded under check c, if that is one.
Scan(s, c) ==
  /\ phase = "up"
  /\ ~Reading(s)
  /\ counted + Cardinality(DOMAIN reading) < MaxCount
  /\ reading' = [x \in DOMAIN reading \cup {s} |->
                  IF x = s THEN [check |-> c, day |-> Never] ELSE reading[x]]
  /\ UNCHANGED <<now, phase, data, published, publishedAt, disk, counted, todays, clean>>

\* record reads the clock, and takes the lock in a step of its own.
ReadToday(s) ==
  /\ Serving
  /\ Reading(s)
  /\ reading[s].day = Never
  /\ reading' = [reading EXCEPT ![s].day = Day(now)]
  /\ UNCHANGED <<now, phase, data, published, publishedAt, disk, counted, todays, clean>>

Record(s) ==
  LET c == reading[s].check
      d == reading[s].day
      checks == IF data.date = d THEN data.checks ELSE NewDay(data.checks)
      n == Of([checks |-> checks], c)
  IN  /\ Serving
      /\ Reading(s)
      /\ d # Never
      /\ IF c \in Checks
           THEN /\ data' = [data EXCEPT
                     !.date = d,
                     !.checks = [x \in DOMAIN checks \cup {c} |->
                       IF x = c THEN [total |-> n.total + 1, today |-> n.today + 1]
                                ELSE checks[x]]]
                /\ counted' = counted + 1
                /\ todays' = [todays EXCEPT ![c] = @ + 1]
           ELSE UNCHANGED <<data, counted, todays>>
      /\ reading' = [x \in DOMAIN reading \ {s} |-> reading[x]]
      /\ UNCHANGED <<now, phase, published, publishedAt, disk, clean>>

\* A request may end in a refusal instead, also while the shutdown waits for it.
Refuse(s, code) ==
  /\ Serving
  /\ Reading(s)
  /\ reading[s].day = Never
  /\ data' = [data EXCEPT !.refused = [x \in DOMAIN @ \cup {code} |->
                IF x \notin DOMAIN @ THEN 1 ELSE IF x = code THEN @[x] + 1 ELSE @[x]]]
  /\ counted' = counted + 1
  /\ reading' = [x \in DOMAIN reading \ {s} |-> reading[x]]
  /\ UNCHANGED <<now, phase, published, publishedAt, disk, todays, clean>>

\* publicSnapshot, for whoever asks.
Publish ==
  /\ phase \in {"up", "draining"}
  /\ publishedAt = Never \/ now - publishedAt >= PublishEvery
  /\ published' = Snapshot
  /\ publishedAt' = now
  /\ UNCHANGED <<now, phase, data, reading, disk, counted, todays, clean>>

-----------------------------------------------------------------------------
(* The file. *)

\* The ticker: figures that differ from the last written are written.
PersistTick ==
  /\ Serving
  /\ writer = "select"
  /\ Snapshot # last
  /\ writing' = Snapshot
  /\ writer' = "saving"
  /\ UNCHANGED <<now, phase, memory, last, file, unread, counted, todays, clean>>

\* saveStats: the temporary file is renamed, or nothing comes of it.
Save ==
  /\ Serving
  /\ writer = "saving"
  /\ writer' = "select"
  /\ \/ file' = writing /\ last' = writing /\ unread' = FALSE
     \/ UNCHANGED <<file, last, unread>>
  /\ UNCHANGED <<now, phase, memory, writing, counted, todays, clean>>

\* ctx is done, and the select has seen it.
\* (Fault: the loop does not look at the context.)
PersistStays ==
  /\ FALSE
  /\ UNCHANGED statsVars
PersistReturns ==
  /\ phase \in {"draining", "waiting"}
  /\ writer = "select"
  /\ writer' = "returned"
  /\ UNCHANGED <<now, phase, memory, writing, last, file, unread, counted, todays, clean>>

-----------------------------------------------------------------------------
(* The process. *)

Signal ==
  /\ phase = "up"
  /\ phase' = "draining"
  /\ UNCHANGED <<now, memory, disk, counted, todays, clean>>

\* srv.Shutdown: every request has ended, or the grace has.
ShutdownReturns ==
  /\ phase = "draining"
  /\ phase' = "waiting"
  /\ clean' = (DOMAIN reading = {})
  /\ UNCHANGED <<now, memory, disk, counted, todays>>

\* <-persistDone, and the figures for the last write.
\* (Fault: without waiting for the periodic writer.)
BeginLastWriteAtOnce ==
  /\ phase = "waiting"
  /\ phase' = "last"
  /\ UNCHANGED <<now, memory, disk, counted, todays, clean>>
BeginLastWrite ==
  /\ phase = "waiting"
  /\ writer = "returned"
  /\ phase' = "last"
  /\ UNCHANGED <<now, memory, disk, counted, todays, clean>>

\* The last write, of the figures as they are when it begins.
\* (Fault: of the figures the periodic writer took last.)
LastWriteOfOld ==
  /\ phase = "last"
  /\ phase' = "exiting"
  /\ file' = writing
  /\ unread' = FALSE
  /\ UNCHANGED <<now, memory, writer, writing, last, counted, todays, clean>>
LastWrite ==
  /\ phase = "last"
  /\ phase' = "exiting"
  /\ \/ file' = Snapshot /\ unread' = FALSE /\ UNCHANGED clean
     \/ clean' = FALSE /\ UNCHANGED <<file, unread>>
  /\ UNCHANGED <<now, memory, writer, writing, last, counted, todays>>

\* The memory of a process that has gone; of one that ended well, what it had
\* counted is kept to be compared with the file.
Gone(well) ==
  /\ phase' = "stopped"
  /\ clean' = well
  /\ data' = IF well THEN data ELSE Fresh(Day(now))
  /\ published' = Fresh(0)
  /\ publishedAt' = Never
  /\ reading' = [s \in {} |-> Nowhere]
  /\ writer' = "select"
  /\ writing' = Fresh(0)
  /\ last' = NoFile
  /\ unread' = FALSE
  /\ UNCHANGED <<now, file, counted, todays>>

Exit == phase = "exiting" /\ Gone(clean)

\* The process is killed, or leaves because the server failed.
Killed == Serving /\ Gone(FALSE)

Start ==
  /\ phase = "stopped"
  /\ phase' = "up"
  /\ Loads(data', unread')
  /\ clean' = FALSE
  /\ UNCHANGED <<now, published, publishedAt, reading, writer, writing, last, file, counted, todays>>

Tick ==
  /\ now < MaxTime
  /\ now' = now + 1
  /\ todays' = IF Day(now + 1) = Day(now) THEN todays ELSE [c \in Checks |-> 0]
  /\ UNCHANGED <<phase, memory, disk, counted, clean>>

Finishing == ShutdownReturns \/ BeginLastWrite \/ LastWrite \/ Exit

StatsNext ==
  \/ \E s \in Scans : \/ \E c \in Recorded : Scan(s, c)
                     \/ ReadToday(s) \/ Record(s)
                     \/ \E code \in Codes : Refuse(s, code)
  \/ Publish \/ PersistTick \/ Signal \/ PersistReturns \/ Save \/ Finishing
  \/ Killed \/ Start \/ Tick

StatsSpec == StatsInit /\ [][StatsNext]_statsVars

\* Both ends of the shutdown are scheduled, and a select whose context is done
\* chooses that case in the end although the ticker is ready too.
StatsFairness ==
  WF_statsVars(Save) /\ SF_statsVars(PersistReturns) /\ WF_statsVars(Finishing)
-----------------------------------------------------------------------------

\* "This makes the last write exact" (run): after a shutdown in which every
\* request ended, the file holds every scan and every refusal that was counted. And
\* "the one thing a figure named today must not do" (restore): what the process,
\* its page or the file calls today's is never more than was recorded on that day,
\* across midnights, restarts, and a record that read the clock before midnight.
FiguresAreKept ==
  /\ phase = "stopped" /\ clean =>
       /\ file # NoFile
       /\ \A c \in Checks : Of(file, c).total = Of(data, c).total
       /\ file.refused = data.refused
  /\ \A s \in {Snapshot, published, file} \ {NoFile} :
       s.date = Day(now) => \A c \in Checks : Of(s, c).today <= todays[c]

\* The total of c as a file gives it, of this build or an earlier one.
InFile(f, c) == IF c = Tls THEN f.top.total ELSE Of(f, c).total

\* A total going backwards is what one writer at a time rules out: no write, however
\* it is ordered with the shutdown and with the starts, leaves a smaller total in the
\* file than was there. The one exception is the one the code names, the first write
\* of a process that could not read the file and went on: "Starting from zero is wrong;
\* refusing to start is worse" (run).
FileNeverGoesBack ==
  [][file # NoFile /\ file' # NoFile /\ ~unread =>
       \A c \in Checks : InFile(file', c) >= InFile(file, c)]_statsVars

\* A process asked to stop does: the wait for the periodic writer ends.
StopsWhenAsked == phase = "draining" ~> phase = "stopped"
=============================================================================
