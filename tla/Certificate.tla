----------------------------- MODULE Certificate -----------------------------
(***************************************************************************)
(* certReloader of cmd/porchd/main.go: the certificate the service shows   *)
(* is read again from its two files when their times have changed. Every   *)
(* handshake may do it, and a renewal writes one file and then the other.  *)
(*                                                                         *)
(* A file is the version it holds, 0 while it is partly written, and its   *)
(* modification time, which every write changes.                           *)
(***************************************************************************)
EXTENDS Integers

CONSTANTS
  Handshakes,  \* connections that are being set up
  MaxVersion   \* bound: the first certificate and its renewals

ASSUME CertificateAssumption == MaxVersion \in Nat \ {0}

VARIABLES
  certFile, keyFile,   \* on disk: [version, mod]
  renewing,            \* the version being written, or Done
  served,              \* r.cert: the versions of its certificate and key
  certMod, keyMod,     \* r.certMod, r.keyMod
  due,                 \* statInterval has passed since r.lastStat
  at, local,           \* of each handshake: where it is, and what it has read
  overlapped           \* history: a renewal wrote while a handshake was loading

certVars == <<certFile, keyFile, renewing, served, certMod, keyMod, due, at, local, overlapped>>
files == <<certFile, keyFile, renewing, overlapped>>

Partial == 0
Done == -1
Versions == 1 .. MaxVersion
Unread == [cert |-> Partial, key |-> Partial, certMod |-> -1, keyMod |-> -1]
Loading == {"reading", "pairing", "statCert", "statKey", "installing"}

CertificateTypeOK ==
  /\ certFile.version \in 0 .. MaxVersion
  /\ keyFile.version \in 0 .. MaxVersion
  /\ renewing \in {Done} \cup Versions
  /\ served.cert \in Versions /\ served.key \in Versions
  /\ certMod \in Nat /\ keyMod \in Nat
  /\ due \in BOOLEAN
  /\ at \in [Handshakes -> {"idle", "looking", "comparing"} \cup Loading]

\* newCertReloader has read a first pair, or the process has not started.
CertificateInit ==
  /\ certFile = [version |-> 1, mod |-> 0]
  /\ keyFile = [version |-> 1, mod |-> 0]
  /\ renewing = Done
  /\ served = [cert |-> 1, key |-> 1]
  /\ certMod = 0
  /\ keyMod = 0
  /\ due = FALSE
  /\ at = [h \in Handshakes |-> "idle"]
  /\ local = [h \in Handshakes |-> Unread]
  /\ overlapped = FALSE

-----------------------------------------------------------------------------
(* The renewal tool: the certificate, then the key; each may be seen half   *)
(* written.                                                                *)

Overlap == overlapped' = (overlapped \/ \E h \in Handshakes : at[h] \in Loading)
Written(f, v) == [version |-> v, mod |-> f.mod + 1]

Renew ==
  /\ Overlap
  /\ renewing = Done
  /\ certFile.version < MaxVersion
  /\ renewing' = certFile.version + 1
  /\ certFile' = Written(certFile, Partial)
  /\ UNCHANGED <<keyFile, served, certMod, keyMod, due, at, local>>

WriteCert ==
  /\ Overlap
  /\ renewing # Done
  /\ certFile.version = Partial
  /\ certFile' = Written(certFile, renewing)
  /\ UNCHANGED <<keyFile, renewing, served, certMod, keyMod, due, at, local>>

WriteKey ==
  /\ Overlap
  /\ renewing # Done
  /\ certFile.version = renewing
  /\ \/ keyFile' = Written(keyFile, Partial) /\ keyFile.version # Partial /\ UNCHANGED renewing
     \/ keyFile' = Written(keyFile, renewing) /\ renewing' = Done
  /\ UNCHANGED <<certFile, served, certMod, keyMod, due, at, local>>

-----------------------------------------------------------------------------
(* get, of one handshake. *)

Step(h, place, what) ==
  /\ at' = [at EXCEPT ![h] = place]
  /\ local' = [local EXCEPT ![h] = what]

\* lastStat is old enough: look at the files.
Get(h) ==
  /\ at[h] = "idle"
  /\ due
  /\ Step(h, "looking", Unread)
  /\ UNCHANGED <<files, served, certMod, keyMod, due>>

\* changed: both times, and the comparison under the lock.
Look(h) ==
  /\ at[h] = "looking"
  /\ Step(h, "comparing", [local[h] EXCEPT !.certMod = certFile.mod])
  /\ UNCHANGED <<files, served, certMod, keyMod, due>>

Compare(h) ==
  /\ at[h] = "comparing"
  /\ due' = FALSE
  /\ IF local[h].certMod = certMod /\ keyFile.mod = keyMod
       THEN Step(h, "idle", Unread)
       ELSE Step(h, "reading", Unread)
  /\ UNCHANGED <<files, served, certMod, keyMod>>

\* reload: LoadX509KeyPair reads one file and then the other, and refuses what
\* does not parse or does not belong together; the previous pair stays.
ReadCert(h) ==
  /\ at[h] = "reading"
  /\ Step(h, "pairing", [local[h] EXCEPT !.cert = certFile.version])
  /\ UNCHANGED <<files, served, certMod, keyMod, due>>

\* (Fault: the two are not compared.)
ReadAnyKey(h) ==
  /\ at[h] = "pairing"
  /\ IF keyFile.version # Partial /\ local[h].cert # Partial
       THEN Step(h, "statCert", [local[h] EXCEPT !.key = keyFile.version])
       ELSE Step(h, "idle", Unread)
  /\ UNCHANGED <<files, served, certMod, keyMod, due>>
ReadKey(h) ==
  /\ at[h] = "pairing"
  /\ IF keyFile.version = local[h].cert /\ local[h].cert # Partial
       THEN Step(h, "statCert", [local[h] EXCEPT !.key = keyFile.version])
       ELSE Step(h, "idle", Unread)
  /\ UNCHANGED <<files, served, certMod, keyMod, due>>

\* The times are taken only now.
StatCert(h) ==
  /\ at[h] = "statCert"
  /\ Step(h, "statKey", [local[h] EXCEPT !.certMod = certFile.mod])
  /\ UNCHANGED <<files, served, certMod, keyMod, due>>

StatKey(h) ==
  /\ at[h] = "statKey"
  /\ Step(h, "installing", [local[h] EXCEPT !.keyMod = keyFile.mod])
  /\ UNCHANGED <<files, served, certMod, keyMod, due>>

\* (Fault: a certificate that loaded is not assigned over one there is.)
InstallTimes(h) ==
  /\ at[h] = "installing"
  /\ certMod' = local[h].certMod
  /\ keyMod' = local[h].keyMod
  /\ due' = FALSE
  /\ Step(h, "idle", Unread)
  /\ UNCHANGED <<files, served>>
Install(h) ==
  /\ at[h] = "installing"
  /\ served' = [cert |-> local[h].cert, key |-> local[h].key]
  /\ certMod' = local[h].certMod
  /\ keyMod' = local[h].keyMod
  /\ due' = FALSE
  /\ Step(h, "idle", Unread)
  /\ UNCHANGED files

IntervalPasses ==
  /\ ~due
  /\ due' = TRUE
  /\ UNCHANGED <<files, served, certMod, keyMod, at, local>>

Reload(h) == \/ Look(h) \/ Compare(h) \/ ReadCert(h) \/ ReadKey(h)
             \/ StatCert(h) \/ StatKey(h) \/ Install(h)

CertificateNext ==
  \/ Renew \/ WriteCert \/ WriteKey \/ IntervalPasses
  \/ \E h \in Handshakes : Get(h) \/ Reload(h)

\* Time passes, clients keep connecting, and a goroutine runs on.
CertificateFairness ==
  /\ WF_certVars(IntervalPasses)
  /\ WF_certVars(\E h \in Handshakes : Get(h))
  /\ \A h \in Handshakes : WF_certVars(Reload(h))

CertificateSpec == CertificateInit /\ [][CertificateNext]_certVars /\ CertificateFairness
-----------------------------------------------------------------------------

\* "A failed reload leaves the previous certificate in place" (get): whatever a
\* renewal has written so far, a handshake is shown a certificate and its own key.
ServedIsAPair == served.cert = served.key

Renewed == certFile.version = MaxVersion /\ keyFile.version = MaxVersion

\* "This process notices and reloads them without restarting" (cmd/porchd): the
\* last renewal, once both files are written, is served in the end.
RenewalIsServed == Renewed ~> served.cert = MaxVersion

\* The same of renewals that never wrote between the reading of the pair and
\* the reading of its times.
RenewalIsServedUnlessOverlapped ==
  Renewed ~> served.cert = MaxVersion \/ overlapped
=============================================================================
