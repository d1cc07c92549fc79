---------------------------- MODULE Installation ----------------------------
(***************************************************************************)
(* What an installation behind a password keeps on disk, and which key      *)
(* opens it: the access file (cmd/porchd/main.go createAccess and           *)
(* retireSealed, internal/access Create), the history of sealed reports     *)
(* (internal/vault/vault.go) and the sealed list of domains (domains.go).   *)
(*                                                                         *)
(* The process may stop between any two steps that reach the disk, and the  *)
(* operator may remove the access file at any time. Signing in is module    *)
(* Gate: here it is the step that puts the key of the access file in memory.*)
(* Reports are numbered in the order in which they were kept; a data key is *)
(* random, so each new one is a new number.                                 *)
(***************************************************************************)
EXTENDS Integers, FiniteSets

CONSTANTS
  Limit,       \* Vault.Limit: how many reports are kept, 1000 in the code
  Names,       \* domains somebody may add
  DomainBound, \* domainBound, 500 in the code
  MaxReports, MaxKeys, MaxDay, MaxFolders, \* bounds: reports, keys, days, retired folders
  Absent,      \* a file or directory that is not there
  NoVaultKey

ASSUME InstallationAssumption ==
  /\ {Limit, DomainBound} \subseteq Nat \ {0}
  /\ {MaxReports, MaxKeys, MaxDay, MaxFolders} \subseteq Nat
  /\ Absent \notin [key : Nat, usable : BOOLEAN] \cup [key : Nat, names : SUBSET Names]
  /\ \A S \in SUBSET (1 .. MaxReports) : Absent \notin [S -> [key : Nat, date : 0 .. MaxDay, seq : Nat]]
  /\ NoVaultKey \notin Nat
  /\ Names \cap Nat = {} \* a domain is not the number of a report

VARIABLES
  day,
  phase,    \* of the process: not running, starting, or serving
  found, to, \* retireSealed: what is still to be moved, and the new folder
  vaultKey,      \* g.key
  access,   \* the access file: the key it seals, and whether anybody can open it
  history,  \* the directory of reports: the key, date and Seq of each
  domains,  \* domains.sealed: its key and its names
  retired,  \* the retired folders, by their names
  removing, \* v.mu is held while this is not empty: the reports Keep removes next
  made, keys, \* how many reports were kept and keys made
  owed      \* ghost: the reports and domains nobody removed, each with its key

installationVars == <<day, phase, found, to, vaultKey, access, history, domains, retired, removing, made, keys, owed>>
disk == <<access, history, domains, retired>>
underWay == <<found, to>>
ghosts == <<made, keys, owed>>

\* The folder `retired-<date>' is <<day, 1>>, `retired-<date>-2' is <<day, 2>>.
Folder == (0 .. MaxDay) \X (Nat \ {0})
NoFolder == <<>>
Sealed == {"history", "domains"}
Report == [key : Nat, date : 0 .. MaxDay, seq : Nat]
IsHistory(h) == h # Absent => DOMAIN h \subseteq 1 .. MaxReports /\ h \in [DOMAIN h -> Report]
DomainList == [key : Nat, names : SUBSET Names]

ReportsIn(h) == IF h = Absent THEN {} ELSE DOMAIN h
Kept == ReportsIn(history)

InstallationTypeOK ==
  /\ day \in 0 .. MaxDay
  /\ phase \in {"down", "retire", "create", "write", "up"}
  /\ found \subseteq Sealed
  /\ to \in {NoFolder} \cup DOMAIN retired
  /\ vaultKey \in {NoVaultKey} \cup 1 .. keys
  /\ access \in {Absent} \cup [key : 1 .. keys, usable : BOOLEAN]
  /\ IsHistory(history)
  /\ domains \in {Absent} \cup DomainList
  /\ DOMAIN retired \subseteq Folder
  /\ \A f \in DOMAIN retired : /\ IsHistory(retired[f].history)
                               /\ retired[f].domains \in {Absent} \cup DomainList
  /\ removing \subseteq Kept
  /\ removing # {} => phase = "up" /\ vaultKey # NoVaultKey
  /\ made \in 0 .. MaxReports /\ keys \in 0 .. MaxKeys

InstallationInit ==
  /\ day = 0 /\ phase = "down"
  /\ found = {} /\ to = NoFolder
  /\ vaultKey = NoVaultKey
  /\ access = Absent /\ history = Absent /\ domains = Absent
  /\ retired = [f \in {} |-> Absent]
  /\ removing = {}
  /\ made = 0 /\ keys = 0
  /\ owed = {}

-----------------------------------------------------------------------------
(* Starting. *)

InPlace == {s \in Sealed : IF s = "history" THEN history # Absent ELSE domains # Absent}

\* An access file that is there is left alone, whatever is in it.
StartAgain ==
  /\ phase = "down"
  /\ access # Absent
  /\ phase' = "up"
  /\ UNCHANGED <<day, underWay, vaultKey, disk, removing, ghosts>>

StartNew ==
  /\ phase = "down"
  /\ access = Absent
  /\ found' = InPlace
  /\ phase' = IF InPlace = {} THEN "create" ELSE "retire"
  /\ UNCHANGED <<day, to, vaultKey, disk, removing, ghosts>>

\* Mkdir with the first name of the day that is not taken.
\* (Fault: MkdirAll, which is content with a folder that is there.)
ReuseFolder ==
  /\ phase = "retire"
  /\ to = NoFolder /\ Cardinality(DOMAIN retired) < MaxFolders
  /\ to' = <<day, 1>>
  /\ retired' = [f \in DOMAIN retired \cup {to'} |->
                  IF f \in DOMAIN retired THEN retired[f] ELSE [history |-> Absent, domains |-> Absent]]
  /\ UNCHANGED <<day, phase, found, vaultKey, access, history, domains, removing, ghosts>>
MakeFolder ==
  /\ phase = "retire"
  /\ to = NoFolder /\ Cardinality(DOMAIN retired) < MaxFolders
  /\ \E i \in 1 .. Cardinality(DOMAIN retired) + 1 :
       /\ <<day, i>> \notin DOMAIN retired
       /\ \A j \in 1 .. i - 1 : <<day, j>> \in DOMAIN retired
       /\ to' = <<day, i>>
  /\ retired' = [f \in DOMAIN retired \cup {to'} |->
                  IF f = to' THEN [history |-> Absent, domains |-> Absent] ELSE retired[f]]
  /\ UNCHANGED <<day, phase, found, vaultKey, access, history, domains, removing, ghosts>>

MoveHistory ==
  /\ phase = "retire" /\ to # NoFolder
  /\ "history" \in found
  /\ retired' = [retired EXCEPT ![to].history = history]
  /\ history' = Absent
  /\ found' = found \ {"history"}
  /\ phase' = IF found' = {} THEN "create" ELSE phase
  /\ UNCHANGED <<day, to, vaultKey, access, domains, removing, ghosts>>

MoveDomains ==
  /\ phase = "retire" /\ to # NoFolder
  /\ found = {"domains"}
  /\ retired' = [retired EXCEPT ![to].domains = domains]
  /\ domains' = Absent
  /\ found' = {}
  /\ phase' = "create"
  /\ UNCHANGED <<day, to, vaultKey, access, history, removing, ghosts>>

\* The file is made first and written afterwards.
CreateFile ==
  /\ phase = "create"
  /\ keys < MaxKeys
  /\ access' = [key |-> keys + 1, usable |-> FALSE]
  /\ keys' = keys + 1
  /\ phase' = "write"
  /\ UNCHANGED <<day, underWay, vaultKey, history, domains, retired, removing, made, owed>>

\* Written, synced, and the password shown, the only time it is.
ShowPassword ==
  /\ phase = "write"
  /\ access # Absent
  /\ access' = [access EXCEPT !.usable = TRUE]
  /\ phase' = "up"
  /\ found' = {} /\ to' = NoFolder
  /\ UNCHANGED <<day, vaultKey, history, domains, retired, removing, ghosts>>

\* The write or the sync fails: the file is removed and the start given up.
CreateFails ==
  /\ phase = "write"
  /\ access' = Absent
  /\ phase' = "down"
  /\ found' = {} /\ to' = NoFolder
  /\ UNCHANGED <<day, vaultKey, history, domains, retired, removing, ghosts>>

\* The process stops: it is asked to, it is killed, or a step of its start
\* failed and it gave up.
StopProcess ==
  /\ phase # "down"
  /\ phase' = "down"
  /\ found' = {} /\ to' = NoFolder
  /\ vaultKey' = NoVaultKey
  /\ removing' = {}
  /\ UNCHANGED <<day, disk, ghosts>>

-----------------------------------------------------------------------------
(* Serving. What needs the key does nothing before somebody signed in. *)

SignIn ==
  /\ phase = "up"
  /\ access # Absent /\ access.usable
  /\ vaultKey = NoVaultKey
  /\ vaultKey' = access.key
  /\ UNCHANGED <<day, phase, underWay, disk, removing, ghosts>>

Idle == phase = "up" /\ vaultKey # NoVaultKey /\ removing = {}

\* entries: the reports that open under the key. The others are counted and
\* left alone.
Opened == {r \in Kept : history[r].key = vaultKey}

\* sortNewestFirst.
Newer(r, s) == \/ history[r].date > history[s].date
               \/ history[r].date = history[s].date /\ history[r].seq > history[s].seq

NextSeq == IF Opened = {} THEN 1
           ELSE 1 + CHOOSE n \in {history[r].seq : r \in Opened} :
                      \A r \in Opened : history[r].seq <= n

\* The tail of the sorted entries past the bound, the new report counted.
\* (Fault: one more than that.)
ExtraAndOneMore == {r \in Opened : Cardinality({s \in Opened : Newer(s, r)}) >= Limit - 2}
Extra == {r \in Opened : Cardinality({s \in Opened : Newer(s, r)}) >= Limit - 1}

\* Sealed, and put in place by a rename.
Keep ==
  /\ Idle
  /\ made < MaxReports
  /\ made' = made + 1
  /\ history' = [r \in Kept \cup {made'} |->
                  IF r = made' THEN [key |-> vaultKey, date |-> day, seq |-> NextSeq] ELSE history[r]]
  /\ removing' = Extra
  /\ owed' = owed \cup {<<vaultKey, made'>>}
  /\ UNCHANGED <<day, phase, underWay, vaultKey, access, domains, retired, keys>>

RemoveReport(r) == history' = [s \in Kept \ {r} |-> history[s]]

\* The loop at the end of Keep, the newest of the tail first. A removal that
\* fails is passed over.
RemoveNext ==
  \E r \in removing :
    /\ \A s \in removing \ {r} : Newer(r, s)
    /\ removing' = removing \ {r}
    /\ \/ RemoveReport(r) /\ owed' = owed \ {<<history[r].key, r>>}
       \/ UNCHANGED <<history, owed>>
    /\ UNCHANGED <<day, phase, underWay, vaultKey, access, domains, retired, made, keys>>

\* (Fault: Delete does not wait for the lock.)
DeleteUnlocked(r) ==
  /\ phase = "up" /\ vaultKey # NoVaultKey
  /\ r \in Kept
  /\ RemoveReport(r)
  /\ owed' = owed \ {<<history[r].key, r>>}
  /\ UNCHANGED <<day, phase, underWay, vaultKey, access, domains, retired, removing, made, keys>>
Delete(r) ==
  /\ Idle
  /\ r \in Kept
  /\ RemoveReport(r)
  /\ owed' = owed \ {<<history[r].key, r>>}
  /\ UNCHANGED <<day, phase, underWay, vaultKey, access, domains, retired, removing, made, keys>>

\* A list this key does not open refuses every change.
Readable == phase = "up" /\ vaultKey # NoVaultKey /\ (domains # Absent => domains.key = vaultKey)
Listed == IF domains = Absent THEN {} ELSE domains.names

AddDomain(name) ==
  /\ Readable
  /\ name \notin Listed
  /\ Cardinality(Listed) < DomainBound
  /\ domains' = [key |-> vaultKey, names |-> Listed \cup {name}]
  /\ owed' = owed \cup {<<vaultKey, name>>}
  /\ UNCHANGED <<day, phase, underWay, vaultKey, access, history, retired, removing, made, keys>>

RemoveDomain(name) ==
  /\ Readable
  /\ name \in Listed
  /\ domains' = [key |-> vaultKey, names |-> Listed \ {name}]
  /\ owed' = owed \ {<<vaultKey, name>>}
  /\ UNCHANGED <<day, phase, underWay, vaultKey, access, history, retired, removing, made, keys>>

-----------------------------------------------------------------------------
(* The operator, who asks for a new password by moving the file, and the clock. *)

RemoveAccess ==
  /\ phase \in {"down", "up"}
  /\ access # Absent
  /\ access' = Absent
  /\ UNCHANGED <<day, phase, underWay, vaultKey, history, domains, retired, removing, ghosts>>

NextDay ==
  /\ day < MaxDay
  /\ phase \in {"down", "up"} \* createAccess reads the date once
  /\ day' = day + 1
  /\ UNCHANGED <<phase, underWay, vaultKey, disk, removing, ghosts>>

InstallationNext ==
  \/ StartAgain \/ StartNew \/ MakeFolder \/ MoveHistory \/ MoveDomains
  \/ CreateFile \/ ShowPassword \/ CreateFails \/ StopProcess
  \/ SignIn \/ Keep \/ RemoveNext \/ \E r \in Kept : Delete(r)
  \/ \E name \in Names : AddDomain(name) \/ RemoveDomain(name)
  \/ RemoveAccess \/ NextDay

InstallationSpec == InstallationInit /\ [][InstallationNext]_installationVars

-----------------------------------------------------------------------------
(* What is promised. *)

\* What a history and a list of domains hold, each with the key it is sealed under.
SealedIn(h, d) ==
  {<<h[r].key, r>> : r \in ReportsIn(h)} \cup
  (IF d = Absent THEN {} ELSE {<<d.key, name>> : name \in d.names})

\* "Nothing is deleted" (retireSealed), and "before the new key exists, what the old
\* one sealed goes aside, or the new key meets it and cannot open it" (createAccess):
\* through every crash, failed start and password that was lost, a report nobody
\* deleted and the bound did not take, and a domain nobody removed, is in place or in
\* a retired folder under the key it was kept under; and whenever there is an access
\* file, its key is the key of everything in place.
NothingIsLost ==
  /\ owed = SealedIn(history, domains)
              \cup UNION {SealedIn(retired[f].history, retired[f].domains) : f \in DOMAIN retired}
  /\ access # Absent =>
       /\ \A r \in Kept : history[r].key = access.key
       /\ domains # Absent => domains.key = access.key

\* "The oldest go first" (DefaultKeep): the bound takes a report only if Limit
\* reports kept after it are still there, whatever was deleted in between and
\* whichever removals failed. (The clock does not run backwards here.)
OldestGo ==
  [][\A r \in removing \cap (Kept \ Kept') :
       Cardinality({s \in Opened : s > r}) >= Limit]_installationVars
=============================================================================
