----------------------------- MODULE DaemonProofs -----------------------------
(***************************************************************************)
(* Proofs about porchd besides its requests: what it refuses before it     *)
(* serves, the certificate it shows, and the figures it counts, for any     *)
(* command lines, starts, handshakes, scans and days, and any file an      *)
(* earlier process may have left.                                          *)
(***************************************************************************)
EXTENDS MCDaemon, Startup, FiniteSetTheorems, TLAPS

(***************************************************************************)
(* Starting. ServesAsItWasTold is about the moment porchd serves; what      *)
(* makes it true is what each place of run has refused before, and that no  *)
(* secret file ever reads as no secret.                                     *)
(***************************************************************************)

\* Where run is once the rules were passed.
Passed == {"question", "store", "certificate", "listen", "serving"}

\* Who got past the rules asks for the proof that the flags ask for.
AsksForProof ==
  starting \in Passed =>
    /\ flags.secretFile <=> scope # "none"
    /\ flags.signed => scope = "signed proof"
    /\ flags.listen = "beyond" => scope # "none" \/ demo \/ flags.open
    /\ flags.listen = "beyond" => flags.accessFile \/ demo \/ flags.withoutPassword

\* The demonstration makes no access file, and goes no further with one asked for.
DemoHasNone == starting \in Passed \cup {"rules"} /\ demo => ~flags.accessFile

\* An answer of -version depends on the flags and on nothing that can change.
SaidOfFlags == \A s \in said : s[2] = Reach(s[1].secretFile)

StartupInv == StartupTypeOK /\ AsksForProof /\ DemoHasNone /\ SaidOfFlags

LEMMA InitIsInv == StartupInit => StartupInv
<1> SUFFICES ASSUME StartupInit PROVE StartupInv
  OBVIOUS
<1>1. flags \in FlagSets
  BY StartupAssumption DEF StartupInit
<1>2. StartupTypeOK
  BY <1>1, StartupAssumption DEF StartupInit, StartupTypeOK
<1> QED
  BY <1>2 DEF StartupInit, StartupInv, AsksForProof, DemoHasNone, SaidOfFlags, Passed

\* The rules are where proof and password are decided: a secret file that reads as
\* anything but a whole secret ends the start.
LEMMA RulesKeep == StartupInv /\ Rules => StartupInv'
<1> SUFFICES ASSUME StartupInv, Rules PROVE StartupInv'
  OBVIOUS
<1>1. flags \in FlagKinds
  BY StartupAssumption DEF StartupInv, StartupTypeOK
<1>2. SaidOfFlags'
  BY DEF StartupInv, SaidOfFlags, Rules, Reach
<1>3. CASE Return
  BY <1>2, <1>3 DEF StartupInv, StartupTypeOK, AsksForProof, DemoHasNone, Passed, Rules, Return
<1>4. CASE starting' = "question"
  <2>1. /\ ReadScope # "error" /\ OpenAllowed(ReadScope = "proof") /\ PasswordAllowed
        /\ flags.signed => ReadScope = "proof"
        /\ scope' = IF flags.signed THEN "signed proof" ELSE ReadScope
    BY <1>4 DEF Rules, Return
  <2>2. ReadScope \in {"none", "proof"} /\ (flags.secretFile <=> ReadScope = "proof")
    BY <1>1, <2>1 DEF ReadScope, FlagKinds
  <2>3. AsksForProof'
    BY <1>1, <2>1, <2>2 DEF Rules, AsksForProof, OpenAllowed, PasswordAllowed, FlagKinds
  <2>4. StartupTypeOK'
    BY <1>4, <2>1, <2>2 DEF Rules, StartupInv, StartupTypeOK
  <2> QED
    BY <1>2, <1>4, <2>3, <2>4 DEF Rules, StartupInv, DemoHasNone, Passed
<1> QED
  BY <1>3, <1>4 DEF Rules

LEMMA VersionKeeps == StartupInv /\ Version => StartupInv'
<1> SUFFICES ASSUME StartupInv, Version PROVE StartupInv'
  OBVIOUS
<1>1. flags \in FlagKinds
  BY StartupAssumption DEF StartupInv, StartupTypeOK
<1>2. SaidOfFlags'
  <2> DEFINE asked == [flags EXCEPT !.ask = "serve"]
  <2>1. asked.secretFile = flags.secretFile
    BY <1>1 DEF FlagKinds
  <2>2. ReadScope # "error" => ((ReadScope = "proof") <=> flags.secretFile)
    BY <1>1 DEF ReadScope, FlagKinds
  <2>3. ReadScope # "error" => Reach(ReadScope = "proof") = Reach(asked.secretFile)
    BY <2>1, <2>2 DEF Reach
  <2>4. \A s \in said' : s \in said \/ (ReadScope # "error" /\ s = <<asked, Reach(ReadScope = "proof")>>)
    BY DEF Version
  <2>5. ASSUME NEW s \in said' PROVE s[2] = Reach(s[1].secretFile)
    <3>1. CASE s \in said
      BY <3>1 DEF StartupInv, SaidOfFlags
    <3>2. CASE ReadScope # "error" /\ s = <<asked, Reach(ReadScope = "proof")>>
      <4>1. s[1] = asked /\ s[2] = Reach(ReadScope = "proof")
        BY <3>2
      <4> QED
        BY <2>3, <3>2, <4>1
    <3> QED
      BY <2>4, <3>1, <3>2
  <2> QED
    BY <2>5 DEF SaidOfFlags, Reach, Version
<1> QED
  <2>1. StartupTypeOK' /\ starting' = "down"
    BY DEF StartupInv, StartupTypeOK, Version, Return
  <2> QED
    BY <1>2, <2>1 DEF StartupInv, AsksForProof, DemoHasNone, Passed

LEMMA OneMoreStart ==
  ASSUME starts \in 0..MaxStarts, starts < MaxStarts, starts' = starts + 1
  PROVE  starts' \in 0..MaxStarts
<1>1. MaxStarts \in Nat
  BY StartupAssumption
<1> QED
  BY <1>1

LEMMA StepKeepsInv == StartupInv /\ [StartupNext]_startupVars => StartupInv'
<1> SUFFICES ASSUME StartupInv, [StartupNext]_startupVars PROVE StartupInv'
  OBVIOUS
<1> USE DEF StartupInv, StartupTypeOK, AsksForProof, DemoHasNone, SaidOfFlags, Passed, Reach, Return, GoOn
<1>1. CASE Started
  <2>1. flags' \in FlagSets /\ UNCHANGED <<demo, secret, protected, said>>
    BY <1>1 DEF Started
  <2>2. starts' \in 0..MaxStarts
    <3>1. starts \in 0..MaxStarts /\ starts < MaxStarts /\ starts' = starts + 1
      BY <1>1 DEF Started
    <3> QED
      BY <3>1, OneMoreStart
  <2>3. starting' \in {"down", "begin"} /\ scope' \in {"none", "proof", "signed proof"}
    <3>1. (starting' = "begin" /\ UNCHANGED scope) \/ (starting' = "down" /\ scope' = "none")
      BY <1>1 DEF Started
    <3> QED
      BY <3>1
  <2> QED
    BY <2>1, <2>2, <2>3
<1>2. CASE Version
  BY <1>2, VersionKeeps
<1>3. CASE CreateSecret
  BY <1>3 DEF CreateSecret
<1>4. CASE CreateAccess
  BY <1>4 DEF CreateAccess
<1>5. CASE Rules
  BY <1>5, RulesKeep
<1>6. CASE Question
  BY <1>6 DEF Question
<1>7. CASE Store
  BY <1>7 DEF Store
<1>8. CASE LoadCertificate
  BY <1>8 DEF LoadCertificate
<1>9. CASE Listen
  BY <1>9 DEF Listen
<1>10. CASE Stopped
  BY <1>10 DEF Stopped
<1>11. CASE ChangeSecret
  BY <1>11 DEF ChangeSecret
<1>12. CASE MoveAccess
  BY <1>12 DEF MoveAccess
<1>13. CASE UNCHANGED startupVars
  BY <1>13 DEF startupVars
<1> QED
  BY <1>1, <1>2, <1>3, <1>4, <1>5, <1>6, <1>7, <1>8, <1>9, <1>10, <1>11, <1>12, <1>13 DEF StartupNext

\* However often it is started, whatever was written, cut short or changed before: a
\* service that serves requires what its flags require, and reaches what -version
\* said that it would.
THEOREM ServesAsTold == StartupSpec => []ServesAsItWasTold
<1>1. StartupInv => ServesAsItWasTold
  <2> SUFFICES ASSUME StartupInv, starting = "serving" PROVE ServesAsItWasTold
    BY DEF ServesAsItWasTold
  <2>1. flags.secretFile <=> scope # "none"
    BY DEF StartupInv, AsksForProof, Passed
  <2>2. ASSUME NEW s \in said, s[1] = flags PROVE s[2] = Reach(scope # "none")
    <3>1. s[2] = Reach(flags.secretFile)
      BY <2>2 DEF StartupInv, SaidOfFlags
    <3> QED
      BY <2>1, <3>1 DEF Reach
  <2> QED
    BY <2>1, <2>2 DEF ServesAsItWasTold, StartupInv, AsksForProof, DemoHasNone, Passed
<1> QED
  BY <1>1, InitIsInv, StepKeepsInv, PTL DEF StartupSpec

(***************************************************************************)
(* The certificate. A pair is served only from what one handshake read,    *)
(* and ReadKey lets through only a key of the same version (PairsMatch);   *)
(* what the renewal does meanwhile to the files does not reach it.         *)
(***************************************************************************)

File == [version : 0 .. MaxVersion, mod : Nat]
Read == [cert : 0 .. MaxVersion, key : 0 .. MaxVersion,
         certMod : Nat \cup {-1}, keyMod : Nat \cup {-1}]

\* What a handshake that has read both files goes on with.
PairsMatch ==
  \A h \in Handshakes :
    /\ at[h] \in {"statCert", "statKey", "installing"} =>
         local[h].cert \in Versions /\ local[h].key = local[h].cert
    /\ at[h] \in {"statKey", "installing"} => local[h].certMod \in Nat
    /\ at[h] = "installing" => local[h].keyMod \in Nat

CertificateInv ==
  /\ CertificateTypeOK
  /\ certFile \in File /\ keyFile \in File
  /\ served \in [cert : Versions, key : Versions]
  /\ local \in [Handshakes -> Read]
  /\ PairsMatch
  /\ ServedIsAPair

\* A service comes up with one pair.
LEMMA InitiallyCertificateInv == CertificateInit => CertificateInv
<1> SUFFICES ASSUME CertificateInit PROVE CertificateInv
  OBVIOUS
<1> USE CertificateAssumption DEF CertificateInit
<1>1. Unread \in Read /\ 1 \in Versions
  BY DEF Unread, Read, Partial, Versions
<1>2. CertificateTypeOK
  <2>1. /\ certFile.version \in 0 .. MaxVersion /\ keyFile.version \in 0 .. MaxVersion
        /\ served.cert \in Versions /\ served.key \in Versions
    BY <1>1
  <2> QED
    BY <2>1 DEF CertificateTypeOK
<1>3. certFile \in File /\ keyFile \in File /\ served \in [cert : Versions, key : Versions]
  BY <1>1 DEF File
<1>4. local \in [Handshakes -> Read]
  BY <1>1
<1> QED
  BY <1>2, <1>3, <1>4 DEF CertificateInv, PairsMatch, ServedIsAPair

\* What the renewal tool does reaches the files and nothing else.
LEMMA RenewalKeepsCertificateInv ==
  ASSUME CertificateInv, Renew \/ WriteCert \/ WriteKey
  PROVE  CertificateInv'
<1> USE CertificateAssumption
<1>1. UNCHANGED <<served, certMod, keyMod, due, at, local>>
  BY DEF Renew, WriteCert, WriteKey
<1>2. certFile \in File /\ keyFile \in File /\ renewing \in {Done} \cup Versions
  BY DEF CertificateInv, CertificateTypeOK
<1>3. certFile' \in File /\ keyFile' \in File /\ renewing' \in {Done} \cup Versions
  BY <1>2 DEF Renew, WriteCert, WriteKey, Written, File, Versions, Partial, Done
<1>4. CertificateTypeOK'
  BY <1>1, <1>3 DEF CertificateInv, CertificateTypeOK, File
<1> QED
  BY <1>1, <1>3, <1>4 DEF CertificateInv, PairsMatch, ServedIsAPair

\* A handshake that moves to a place, with what it has read, keeps the invariant
\* if what it has read is as that place needs it.
LEMMA StepKeepsPairs ==
  ASSUME CertificateInv, NEW h \in Handshakes, NEW place, NEW what \in Read,
         Step(h, place, what),
         place \in {"idle", "looking", "comparing"} \cup Loading,
         place \in {"statCert", "statKey", "installing"} =>
           what.cert \in Versions /\ what.key = what.cert,
         place \in {"statKey", "installing"} => what.certMod \in Nat,
         place = "installing" => what.keyMod \in Nat
  PROVE  /\ at' \in [Handshakes -> {"idle", "looking", "comparing"} \cup Loading]
         /\ local' \in [Handshakes -> Read]
         /\ PairsMatch'
<1>1. /\ at \in [Handshakes -> {"idle", "looking", "comparing"} \cup Loading]
      /\ local \in [Handshakes -> Read] /\ PairsMatch
  BY DEF CertificateInv, CertificateTypeOK
<1>2. at' = [at EXCEPT ![h] = place] /\ local' = [local EXCEPT ![h] = what]
  BY DEF Step
<1>3. ASSUME NEW g \in Handshakes
      PROVE  /\ at'[g] \in {"statCert", "statKey", "installing"} =>
                  local'[g].cert \in Versions /\ local'[g].key = local'[g].cert
             /\ at'[g] \in {"statKey", "installing"} => local'[g].certMod \in Nat
             /\ at'[g] = "installing" => local'[g].keyMod \in Nat
  <2>1. CASE g = h
    <3>1. at'[g] = place /\ local'[g] = what
      BY <1>1, <1>2, <2>1
    <3> QED
      BY <3>1
  <2>2. CASE g # h
    <3>1. at'[g] = at[g] /\ local'[g] = local[g]
      BY <1>1, <1>2, <2>2
    <3> QED
      BY <1>1, <3>1 DEF PairsMatch
  <2> QED
    BY <2>1, <2>2
<1> QED
  BY <1>1, <1>2, <1>3 DEF PairsMatch

\* A handshake reads what is on disk; only one that has read a pair installs it.
LEMMA HandshakeKeepsCertificateInv ==
  ASSUME CertificateInv, NEW h \in Handshakes, Get(h) \/ Reload(h)
  PROVE  CertificateInv'
<1>1. /\ certFile \in File /\ keyFile \in File /\ local[h] \in Read
      /\ certMod \in Nat /\ keyMod \in Nat /\ due \in BOOLEAN
      /\ served \in [cert : Versions, key : Versions] /\ served.cert = served.key
  BY DEF CertificateInv, CertificateTypeOK, ServedIsAPair
<1>2. Unread \in Read
  BY CertificateAssumption DEF Unread, Read, Partial
<1>3. UNCHANGED <<certFile, keyFile, renewing>>
  BY DEF Get, Reload, Look, Compare, ReadCert, ReadKey, StatCert, StatKey, Install, files
<1> DEFINE Kept == /\ at' \in [Handshakes -> {"idle", "looking", "comparing"} \cup Loading]
                   /\ local' \in [Handshakes -> Read]
                   /\ PairsMatch'
<1>4. CASE Install(h)
  <2>1. /\ at[h] = "installing" /\ due' = FALSE
        /\ served' = [cert |-> local[h].cert, key |-> local[h].key]
        /\ certMod' = local[h].certMod /\ keyMod' = local[h].keyMod
        /\ Step(h, "idle", Unread)
    BY <1>4 DEF Install
  <2>2. /\ local[h].cert \in Versions /\ local[h].key = local[h].cert
        /\ local[h].certMod \in Nat /\ local[h].keyMod \in Nat
    BY <2>1 DEF CertificateInv, PairsMatch
  <2>3. Kept
    BY <1>2, <2>1, StepKeepsPairs
  <2>4. served' \in [cert : Versions, key : Versions] /\ served'.cert = served'.key
    BY <2>1, <2>2
  <2>5. CertificateTypeOK'
    BY <1>1, <1>3, <2>1, <2>2, <2>3, <2>4 DEF CertificateInv, CertificateTypeOK
  <2> QED
    BY <1>1, <1>3, <2>3, <2>4, <2>5 DEF CertificateInv, ServedIsAPair
<1>5. CASE Get(h) \/ Look(h) \/ Compare(h) \/ ReadCert(h) \/ ReadKey(h) \/ StatCert(h) \/ StatKey(h)
  <2>1. UNCHANGED <<served, certMod, keyMod>> /\ due' \in BOOLEAN
    BY <1>1, <1>5 DEF Get, Look, Compare, ReadCert, ReadKey, StatCert, StatKey
  <2>2. Kept
    <3>1. CASE Get(h)
      BY <1>2, <3>1, StepKeepsPairs DEF Get
    <3>2. CASE Look(h)
      <4>1. [local[h] EXCEPT !.certMod = certFile.mod] \in Read
        BY <1>1 DEF Read, File
      <4> QED
        BY <3>2, <4>1, StepKeepsPairs DEF Look
    <3>3. CASE Compare(h)
      BY <1>2, <3>3, StepKeepsPairs DEF Compare, Loading
    <3>4. CASE ReadCert(h)
      <4>1. [local[h] EXCEPT !.cert = certFile.version] \in Read
        BY <1>1 DEF Read, File
      <4> QED
        BY <3>4, <4>1, StepKeepsPairs DEF ReadCert, Loading
    <3>5. CASE ReadKey(h)
      <4>1. CASE keyFile.version = local[h].cert /\ local[h].cert # Partial
        <5> DEFINE what == [local[h] EXCEPT !.key = keyFile.version]
        <5>1. what \in Read /\ what.cert \in Versions /\ what.key = what.cert
          BY <1>1, <4>1, CertificateAssumption DEF Read, File, Versions, Partial
        <5>2. Step(h, "statCert", what)
          BY <3>5, <4>1 DEF ReadKey
        <5> HIDE DEF what
        <5> QED
          BY <5>1, <5>2, StepKeepsPairs DEF Loading
      <4>2. CASE ~(keyFile.version = local[h].cert /\ local[h].cert # Partial)
        <5>1. Step(h, "idle", Unread)
          BY <3>5, <4>2 DEF ReadKey
        <5> QED
          BY <1>2, <5>1, StepKeepsPairs
      <4> QED
        BY <4>1, <4>2
    <3>6. CASE StatCert(h)
      <4> DEFINE what == [local[h] EXCEPT !.certMod = certFile.mod]
      <4>1. at[h] = "statCert" /\ Step(h, "statKey", what)
        BY <3>6 DEF StatCert
      <4>2. local[h].cert \in Versions /\ local[h].key = local[h].cert
        BY <4>1 DEF CertificateInv, PairsMatch
      <4>3. /\ what \in Read /\ what.cert \in Versions /\ what.key = what.cert
            /\ what.certMod \in Nat
        BY <1>1, <4>2 DEF Read, File
      <4> HIDE DEF what
      <4> QED
        BY <4>1, <4>3, StepKeepsPairs DEF Loading
    <3>7. CASE StatKey(h)
      <4> DEFINE what == [local[h] EXCEPT !.keyMod = keyFile.mod]
      <4>1. at[h] = "statKey" /\ Step(h, "installing", what)
        BY <3>7 DEF StatKey
      <4>2. /\ local[h].cert \in Versions /\ local[h].key = local[h].cert
            /\ local[h].certMod \in Nat
        BY <4>1 DEF CertificateInv, PairsMatch
      <4>3. /\ what \in Read /\ what.cert \in Versions /\ what.key = what.cert
            /\ what.certMod \in Nat /\ what.keyMod \in Nat
        BY <1>1, <4>2 DEF Read, File
      <4> HIDE DEF what
      <4> QED
        BY <4>1, <4>3, StepKeepsPairs DEF Loading
    <3> QED
      BY <1>5, <3>1, <3>2, <3>3, <3>4, <3>5, <3>6, <3>7
  <2>3. CertificateTypeOK'
    BY <1>1, <1>3, <2>1, <2>2 DEF CertificateInv, CertificateTypeOK
  <2> QED
    BY <1>1, <1>3, <2>1, <2>2, <2>3 DEF CertificateInv, ServedIsAPair
<1> QED
  BY <1>4, <1>5 DEF Reload

\* Every step, of the tool, of the clock or of a handshake, keeps the invariant.
LEMMA StepKeepsCertificateInv ==
  CertificateInv /\ [CertificateNext]_certVars => CertificateInv'
<1> SUFFICES ASSUME CertificateInv, [CertificateNext]_certVars PROVE CertificateInv'
  OBVIOUS
<1>1. CASE Renew \/ WriteCert \/ WriteKey
  BY <1>1, RenewalKeepsCertificateInv
<1>2. CASE IntervalPasses
  <2>1. /\ UNCHANGED <<certFile, keyFile, renewing, served, certMod, keyMod, at, local>>
        /\ due' = TRUE
    BY <1>2 DEF IntervalPasses, files
  <2> QED
    BY <2>1 DEF CertificateInv, CertificateTypeOK, PairsMatch, ServedIsAPair
<1>3. ASSUME NEW h \in Handshakes, Get(h) \/ Reload(h) PROVE CertificateInv'
  BY <1>3, HandshakeKeepsCertificateInv
<1>4. CASE UNCHANGED certVars
  BY <1>4 DEF certVars, CertificateInv, CertificateTypeOK, PairsMatch, ServedIsAPair
<1> QED
  BY <1>1, <1>2, <1>3, <1>4 DEF CertificateNext

\* However many handshakes reload at once, and whatever a renewal has written so
\* far, a handshake is shown a certificate and its own key (reload).
THEOREM AlwaysAPair == CertificateSpec => []ServedIsAPair
<1>1. CertificateInv => ServedIsAPair
  BY DEF CertificateInv
<1> QED
  BY <1>1, InitiallyCertificateInv, StepKeepsCertificateInv, PTL DEF CertificateSpec

(***************************************************************************)
(* The counters. What a file says of today is no more than was recorded on  *)
(* that day (Honest), of whatever is in memory, shown, on its way to the    *)
(* disk or on it; no total on the disk, or on its way there, is ahead of    *)
(* the one that would be written next (Growing), unless the process could   *)
(* not read that file, which needs the writer that returned before the last *)
(* write (OneWriterIsLeft).                                                 *)
(***************************************************************************)

Readings == [check : Recorded, day : Nat \cup {Never}]

StatsShape ==
  /\ now \in Nat
  /\ phase \in {"up", "draining", "waiting", "last", "exiting", "stopped"}
  /\ IsFile(data) /\ IsFile(published) /\ IsFile(writing) /\ (file # NoFile => IsFile(file))
  /\ DOMAIN data.checks \subseteq Checks /\ DOMAIN data.refused \subseteq Codes /\ data.top = Zero /\ data.date \in Nat
  /\ todays \in [Checks -> Nat]
  /\ reading \in [DOMAIN reading -> Readings] /\ DOMAIN reading \subseteq Scans
  /\ \A s \in DOMAIN reading : reading[s].day <= Day(now)
  /\ publishedAt \in -1 .. now
  /\ writer \in {"select", "saving", "returned"}
  /\ clean \in BOOLEAN
  /\ unread \in BOOLEAN

\* What a file says of today: for the TLS check of an earlier build, at the top.
TodayIn(f, c) ==
  IF c = Tls /\ Tls \notin DOMAIN f.checks /\ f.top.total > 0 THEN f.top.today ELSE Of(f, c).today

\* Figures of a past day, or of today and no more than was recorded.
Honest(f) ==
  /\ f.date <= Day(now)
  /\ f.date = Day(now) => \A c \in Checks : TodayIn(f, c) <= todays[c]

AllHonest == Honest(data) /\ Honest(published) /\ Honest(writing) /\ (file # NoFile => Honest(file))

\* The field at the top is no more than the figure it stands for.
TopIsCovered(f) == Tls \in DOMAIN f.checks => f.top.total <= f.checks[Tls].total

\* No figure on disk, of a file that the process has read or written, or on its way
\* there, is ahead of the next.
Growing ==
  /\ file # NoFile => TopIsCovered(file)
  /\ phase # "stopped" /\ file # NoFile /\ ~unread => \A c \in Checks : InFile(file, c) <= Of(data, c).total
  /\ writer = "saving" =>
       /\ phase # "stopped" /\ TopIsCovered(writing)
       /\ \A c \in Checks : /\ InFile(writing, c) <= Of(data, c).total
                            /\ file # NoFile /\ ~unread => InFile(file, c) <= InFile(writing, c)

\* A shutdown that left nobody behind.
OneWriterIsLeft ==
  /\ phase \in {"last", "exiting"} => writer = "returned"
  /\ clean => phase \in {"waiting", "last", "exiting", "stopped"} /\ DOMAIN reading = {}
  /\ clean /\ phase \in {"exiting", "stopped"} =>
       /\ file # NoFile
       /\ \A c \in Checks : Of(file, c).total = Of(data, c).total
       /\ file.refused = data.refused

StatsInv == StatsShape /\ AllHonest /\ Growing /\ OneWriterIsLeft

LEMMA DayGrows ==
  ASSUME NEW t \in Nat PROVE Day(t) \in Nat /\ Day(t + 1) \in Nat /\ Day(t) <= Day(t + 1)
<1>1. DayLength \in Nat /\ DayLength > 0
  BY StatsAssumption DEF StatsAssumption
<1> QED
  BY <1>1 DEF Day

LEMMA AFileIsThere == ASSUME NEW f, IsFile(f) PROVE f # NoFile
<1>1. f = [checks |-> f.checks, top |-> f.top, refused |-> f.refused, date |-> f.date]
  BY Zenon DEF IsFile
<1> DEFINE c == f.checks
           t == f.top
           r == f.refused
           d == f.date
<1>2. f = [checks |-> c, top |-> t, refused |-> r, date |-> d]
  BY <1>1
<1> HIDE DEF c, t, r, d
<1> QED
  BY <1>2 DEF NoFile

\* The figures of a check are figures, whether it is there or not.
LEMMA OfShape ==
  ASSUME NEW f, f.checks \in [DOMAIN f.checks -> Figures], NEW c
  PROVE  Of(f, c) \in Figures
BY DEF Of, Zero, Figures

LEMMA NewDayShape ==
  ASSUME NEW m, m \in [DOMAIN m -> Figures]
  PROVE  /\ NewDay(m) \in [DOMAIN m -> Figures] /\ DOMAIN NewDay(m) = DOMAIN m
         /\ \A c \in DOMAIN m : NewDay(m)[c].total = m[c].total /\ NewDay(m)[c].today = 0
BY DEF NewDay, Figures

\* A snapshot is of today, with the totals as they are.
LEMMA SnapshotShape ==
  ASSUME StatsShape, Honest(data)
  PROVE  /\ IsFile(Snapshot) /\ Snapshot # NoFile /\ Snapshot.date = Day(now) /\ Snapshot.refused = data.refused
         /\ DOMAIN Snapshot.checks = DOMAIN data.checks
         /\ \A c : Of(Snapshot, c).total = Of(data, c).total /\ TodayIn(Snapshot, c) = Of(Snapshot, c).today
         /\ \A c : InFile(Snapshot, c) = Of(data, c).total
         /\ TopIsCovered(Snapshot) /\ Honest(Snapshot)
<1> DEFINE checks == IF data.date = Day(now) THEN data.checks ELSE NewDay(data.checks)
           top == Of([checks |-> checks], Tls)
<1>1. Day(now) \in Nat /\ IsFile(data) /\ todays \in [Checks -> Nat]
  BY DayGrows DEF StatsShape
<1>2. /\ checks \in [DOMAIN data.checks -> Figures] /\ DOMAIN checks = DOMAIN data.checks
      /\ \A c \in DOMAIN data.checks : /\ checks[c].total = data.checks[c].total
                                       /\ checks[c].today = IF data.date = Day(now) THEN data.checks[c].today ELSE 0
  BY <1>1, NewDayShape DEF IsFile
<1>3. top \in Figures /\ top = IF Tls \in DOMAIN data.checks THEN checks[Tls] ELSE Zero
  BY <1>2 DEF Of, Figures, Zero
<1>4. Snapshot = [data EXCEPT !.checks = checks, !.date = Day(now), !.top = top]
  BY DEF Snapshot
<1> HIDE DEF checks, top
<1>5. Snapshot = [checks |-> checks, top |-> top, refused |-> data.refused, date |-> Day(now)]
  BY <1>1, <1>4 DEF IsFile
<1>6. IsFile(Snapshot)
  BY <1>1, <1>2, <1>3, <1>5 DEF IsFile
<1>7. Snapshot # NoFile
  BY <1>5 DEF NoFile
<1>8. \A c : /\ Of(Snapshot, c).total = Of(data, c).total
             /\ Of(Snapshot, c).today = IF data.date = Day(now) THEN Of(data, c).today ELSE 0
  BY <1>2, <1>5 DEF Of, Zero
<1>9. Tls \notin DOMAIN Snapshot.checks => Snapshot.top.total = 0
  BY <1>2, <1>3, <1>5 DEF Zero
<1>10. \A c : TodayIn(Snapshot, c) = Of(Snapshot, c).today
  BY <1>9 DEF TodayIn
<1>11. \A c : InFile(Snapshot, c) = Of(data, c).total
  <2>1. Snapshot.top.total = Of(data, Tls).total
    BY <1>2, <1>3, <1>5 DEF Of, Zero
  <2> QED
    BY <1>8, <2>1 DEF InFile
<1>12. TopIsCovered(Snapshot)
  BY <1>2, <1>3, <1>5 DEF TopIsCovered, Figures
<1>13. Honest(Snapshot)
  <2>1. \A c \in Checks : TodayIn(data, c) = Of(data, c).today
    BY DEF TodayIn, StatsShape, Zero
  <2>2. \A c \in Checks : Of(Snapshot, c).today <= todays[c]
    BY <1>1, <1>8, <2>1 DEF Honest
  <2> QED
    BY <1>1, <1>5, <1>10, <2>2 DEF Honest
<1> QED
  BY <1>2, <1>5, <1>6, <1>7, <1>8, <1>10, <1>11, <1>12, <1>13

\* Fresh counters, and those restored from a file.
LEMMA FreshShape ==
  ASSUME NEW day \in Int
  PROVE  /\ IsFile(Fresh(day)) /\ Fresh(day).date = day /\ Fresh(day).top = Zero
         /\ DOMAIN Fresh(day).checks = {} /\ DOMAIN Fresh(day).refused = {}
         /\ \A c : Of(Fresh(day), c) = Zero /\ TodayIn(Fresh(day), c) = 0
BY DEF Fresh, IsFile, NoChecks, Zero, Figures, Of, TodayIn

LEMMA RestoredShape ==
  ASSUME NEW f, IsFile(f), now \in Nat
  PROVE  /\ IsFile(Restored(f)) /\ Restored(f).date = Day(now) /\ Restored(f).top = Zero
         /\ DOMAIN Restored(f).checks \subseteq Checks /\ DOMAIN Restored(f).refused \subseteq Codes
         /\ \A c \in Checks : TodayIn(Restored(f), c) = Of(Restored(f), c).today
         /\ \A c \in Checks : Of(Restored(f), c).today = IF f.date = Day(now) THEN TodayIn(f, c) ELSE 0
         /\ TopIsCovered(f) => \A c \in Checks : InFile(f, c) <= Of(Restored(f), c).total
<1> DEFINE known == [c \in DOMAIN f.checks \cap Checks |-> f.checks[c]]
           old == Tls \notin DOMAIN known /\ f.top.total > 0
           all == IF old THEN [c \in DOMAIN known \cup {Tls} |-> IF c = Tls THEN f.top ELSE known[c]] ELSE known
           checks == IF f.date = Day(now) THEN all ELSE NewDay(all)
           refused == [c \in DOMAIN f.refused \cap Codes |-> f.refused[c]]
<1>1. Tls \in Checks /\ Day(now) \in Nat
  BY DayGrows, StatsAssumption DEF StatsAssumption
<1>2. /\ all \in [DOMAIN all -> Figures] /\ DOMAIN all \subseteq Checks
      /\ \A c \in Checks : c \in DOMAIN all <=> (c \in DOMAIN f.checks \/ (c = Tls /\ old))
      /\ \A c \in DOMAIN all : all[c] = IF c = Tls /\ old THEN f.top ELSE f.checks[c]
      /\ old <=> (Tls \notin DOMAIN f.checks /\ f.top.total > 0)
  BY <1>1 DEF IsFile
<1> HIDE DEF all, old
<1>3. /\ checks \in [DOMAIN all -> Figures] /\ DOMAIN checks = DOMAIN all
      /\ \A c \in DOMAIN all : /\ checks[c].total = all[c].total
                               /\ checks[c].today = IF f.date = Day(now) THEN all[c].today ELSE 0
  BY <1>2, NewDayShape
<1>4. Restored(f) = [checks |-> checks, top |-> Zero, refused |-> refused, date |-> Day(now)]
  BY Zenon DEF Restored, all, old
<1>5. refused \in [DOMAIN refused -> Nat] /\ DOMAIN refused \subseteq Codes
  BY DEF IsFile
<1> HIDE DEF checks, refused
<1>6. IsFile(Restored(f))
  BY <1>1, <1>3, <1>4, <1>5 DEF IsFile, Zero, Figures
<1>7. \A c \in Checks : /\ Of(Restored(f), c).total = IF c \in DOMAIN all THEN all[c].total ELSE 0
                        /\ Of(Restored(f), c).today = IF c \in DOMAIN all /\ f.date = Day(now) THEN all[c].today ELSE 0
  BY <1>3, <1>4 DEF Of, Zero
<1>8. \A c \in Checks : TodayIn(Restored(f), c) = Of(Restored(f), c).today
  BY <1>4 DEF TodayIn, Zero
<1>9. ASSUME NEW c \in Checks PROVE (IF c \in DOMAIN all THEN all[c].today ELSE 0) = TodayIn(f, c)
  BY <1>2 DEF TodayIn, Of, Zero
<1>10. ASSUME TopIsCovered(f), NEW c \in Checks PROVE InFile(f, c) <= Of(Restored(f), c).total
  <2>1. f.top.total \in Nat /\ \A x \in DOMAIN f.checks : f.checks[x].total \in Nat
    BY DEF IsFile, Figures
  <2> QED
    BY <1>2, <1>7, <1>10, <2>1 DEF TopIsCovered, InFile, Of, Zero
<1> QED
  BY <1>2, <1>3, <1>4, <1>5, <1>6, <1>7, <1>8, <1>9, <1>10

LEMMA InitiallyStatsInv == StatsInit => StatsInv
<1> SUFFICES ASSUME StatsInit PROVE StatsInv
  OBVIOUS
<1>1. /\ now = 0 /\ phase = "up" /\ file \in FirstFiles /\ Loads(data, unread) /\ published = Fresh(0) /\ publishedAt = -1
      /\ reading = [s \in {} |-> Nowhere] /\ writer = "select" /\ writing = Fresh(0) /\ clean = FALSE
      /\ todays = [c \in Checks |-> IF file # NoFile /\ file.date = 0 THEN Of(Restored(file), c).today ELSE 0]
  BY DEF StatsInit, Never
<1>2. Day(now) = 0 /\ now \in Nat
  BY <1>1, StatsAssumption DEF Day, StatsAssumption
<1>3. file # NoFile => IsFile(file) /\ file.date <= 0 /\ TopIsCovered(file)
  BY <1>1, StatsAssumption DEF StatsAssumption, TopIsCovered
<1>4. /\ unread \in BOOLEAN
      /\ file = NoFile => data = Fresh(0)
      /\ ~unread /\ file # NoFile => data = Restored(file)
  BY <1>1, <1>2, Zenon DEF Loads
<1>5. data = Fresh(0) \/ (file # NoFile /\ data = Restored(file))
  BY <1>1, <1>2, Zenon DEF Loads
<1>6. IsFile(data) /\ data.date = 0 /\ data.top = Zero /\ DOMAIN data.checks \subseteq Checks /\ DOMAIN data.refused \subseteq Codes
      /\ IsFile(published) /\ published.date = 0 /\ \A c : TodayIn(published, c) = 0
  BY <1>1, <1>2, <1>3, <1>4, <1>5, FreshShape, RestoredShape
<1>7. file # NoFile => \A c \in Checks : Of(Restored(file), c) \in Figures
  <2>1. file # NoFile => IsFile(Restored(file))
    BY <1>2, <1>3, RestoredShape
  <2> QED
    BY <2>1, OfShape DEF IsFile
<1>8. todays \in [Checks -> Nat]
  BY <1>1, <1>7 DEF Figures
<1>9. StatsShape
  <2>1. IsFile(writing) /\ reading \in [DOMAIN reading -> Readings] /\ DOMAIN reading = {} /\ publishedAt \in -1 .. now
    BY <1>1, <1>2, FreshShape
  <2> QED
    BY <1>1, <1>2, <1>3, <1>4, <1>6, <1>8, <2>1 DEF StatsShape
<1>10. Honest(published) /\ Honest(writing)
  BY <1>1, <1>2, <1>6, <1>8 DEF Honest
<1>11. /\ file # NoFile /\ file.date = 0 => \A c \in Checks : TodayIn(file, c) <= todays[c] /\ TodayIn(data, c) <= todays[c]
       /\ ~(file # NoFile /\ file.date = 0) => \A c \in Checks : TodayIn(data, c) <= todays[c]
  <2>1. CASE file # NoFile /\ file.date = 0
    <3> DEFINE f == Restored(file)
    <3>1. \A c \in Checks : /\ TodayIn(f, c) = Of(f, c).today /\ Of(f, c).today = TodayIn(file, c)
                            /\ todays[c] = Of(f, c).today /\ Of(f, c).today \in Nat
      BY <1>1, <1>2, <1>3, <1>7, <2>1, RestoredShape DEF Figures
    <3>2. data = f \/ \A c \in Checks : TodayIn(data, c) = 0
      BY <1>5, FreshShape
    <3> HIDE DEF f
    <3>3. \A c \in Checks : TodayIn(file, c) <= todays[c]
      BY <3>1
    <3>4. \A c \in Checks : TodayIn(data, c) <= todays[c]
      BY <3>1, <3>2
    <3> QED
      BY <2>1, <3>3, <3>4
  <2>2. CASE ~(file # NoFile /\ file.date = 0)
    <3>1. file # NoFile => \A c \in Checks : TodayIn(Restored(file), c) = 0
      BY <1>2, <1>3, <2>2, RestoredShape
    <3>2. \A c \in Checks : TodayIn(data, c) = 0
      BY <1>5, <3>1, FreshShape
    <3> QED
      BY <1>8, <2>2, <3>2
  <2> QED
    BY <2>1, <2>2
<1>12. AllHonest
  BY <1>2, <1>3, <1>6, <1>10, <1>11 DEF AllHonest, Honest
<1>13. Growing
  BY <1>1, <1>2, <1>3, <1>4, RestoredShape DEF Growing
<1>14. OneWriterIsLeft
  BY <1>1 DEF OneWriterIsLeft
<1> QED
  BY <1>9, <1>12, <1>13, <1>14 DEF StatsInv

\* What leaves the clock, the figures and the files alone.
FiguresStand == UNCHANGED <<now, data, published, publishedAt, writing, file, unread, todays>>

LEMMA StandingKeeps ==
  ASSUME StatsInv, FiguresStand
  PROVE  /\ AllHonest'
         /\ (writer' = "saving" => writer = "saving") /\ (phase = "stopped" <=> phase' = "stopped") => Growing'
         /\ IsFile(data)' /\ IsFile(published)' /\ IsFile(writing)' /\ (file # NoFile => IsFile(file))'
<1>1. /\ now' = now /\ data' = data /\ published' = published /\ writing' = writing /\ file' = file /\ todays' = todays
      /\ unread' = unread
  BY DEF FiguresStand
<1>2. AllHonest'
  BY <1>1, Zenon DEF StatsInv, AllHonest, Honest, TodayIn, Of, Day, Zero
<1>3. ASSUME writer' = "saving" => writer = "saving", phase = "stopped" <=> phase' = "stopped" PROVE Growing'
  <2>1. Growing
    BY DEF StatsInv
  <2> QED
    BY <1>1, <1>3, <2>1 DEF Growing, TopIsCovered, InFile, Of, Zero, NoFile
<1>4. IsFile(data)' /\ IsFile(published)' /\ IsFile(writing)' /\ (file # NoFile => IsFile(file))'
  BY <1>1, Zenon DEF StatsInv, StatsShape, IsFile, NoFile, Figures
<1> QED
  BY <1>2, <1>3, <1>4

\* Steps of the shutdown and of requests that are not counted yet.
LEMMA StandingStepsKeep ==
  ASSUME StatsInv,
         \/ \E s \in Scans : (\E c \in Recorded : Scan(s, c)) \/ ReadToday(s)
         \/ Signal \/ PersistReturns \/ ShutdownReturns \/ BeginLastWrite
  PROVE  StatsInv'
<1>1. /\ FiguresStand /\ (writer' = "saving" => writer = "saving") /\ (phase = "stopped" <=> phase' = "stopped")
  BY DEF FiguresStand, Scan, ReadToday, Signal, PersistReturns, ShutdownReturns, BeginLastWrite, memory, disk, Serving
<1>2. AllHonest' /\ Growing' /\ IsFile(data)' /\ IsFile(published)' /\ IsFile(writing)' /\ (file # NoFile => IsFile(file))'
  BY <1>1, StandingKeeps
<1>3. now' = now /\ data' = data /\ file' = file /\ publishedAt' = publishedAt /\ todays' = todays /\ unread' = unread
  BY <1>1 DEF FiguresStand
<1>4. Day(now) \in Nat /\ Day(now)' = Day(now)
  BY <1>3, DayGrows DEF Day, StatsInv, StatsShape
<1>5. /\ reading' \in [DOMAIN reading' -> Readings] /\ DOMAIN reading' \subseteq Scans
      /\ \A s \in DOMAIN reading' : reading'[s].day <= Day(now)
  <2>1. /\ reading \in [DOMAIN reading -> Readings] /\ DOMAIN reading \subseteq Scans
        /\ \A s \in DOMAIN reading : reading[s].day <= Day(now)
    BY DEF StatsInv, StatsShape
  <2>2. ASSUME NEW s \in Scans, NEW c \in Recorded, Scan(s, c)
        PROVE  reading' = [x \in DOMAIN reading \cup {s} |-> IF x = s THEN [check |-> c, day |-> Never] ELSE reading[x]]
    BY <2>2 DEF Scan
  <2>3. ASSUME NEW s \in Scans, ReadToday(s) PROVE s \in DOMAIN reading /\ reading' = [reading EXCEPT ![s].day = Day(now)]
    BY <2>3 DEF ReadToday, Reading
  <2>4. CASE \E s \in Scans, c \in Recorded : Scan(s, c)
    <3>1. PICK s \in Scans, c \in Recorded :
             reading' = [x \in DOMAIN reading \cup {s} |-> IF x = s THEN [check |-> c, day |-> Never] ELSE reading[x]]
      BY <2>2, <2>4
    <3>2. [check |-> c, day |-> Never] \in Readings /\ Never <= Day(now) /\ [check |-> c, day |-> Never].day = Never
      BY <1>4 DEF Readings, Never
    <3> DEFINE none == [check |-> c, day |-> Never]
    <3>3. none \in Readings /\ none.day <= Day(now)
      BY <3>2
    <3>4. reading' = [x \in DOMAIN reading \cup {s} |-> IF x = s THEN none ELSE reading[x]]
      BY <3>1
    <3> HIDE DEF none
    <3> QED
      BY <2>1, <3>3, <3>4
  <2>5. CASE \E s \in Scans : ReadToday(s)
    BY <1>4, <2>1, <2>3, <2>5 DEF Readings, Never
  <2>6. CASE Signal \/ PersistReturns \/ ShutdownReturns \/ BeginLastWrite
    BY <2>1, <2>6 DEF Signal, PersistReturns, ShutdownReturns, BeginLastWrite, memory
  <2> QED
    BY <2>4, <2>5, <2>6
<1>6. /\ phase' \in {"up", "draining", "waiting", "last", "exiting", "stopped"}
      /\ writer' \in {"select", "saving", "returned"} /\ clean' \in BOOLEAN
  BY DEF StatsInv, StatsShape, Scan, ReadToday, Signal, PersistReturns, ShutdownReturns, BeginLastWrite, disk
<1>7. OneWriterIsLeft'
  <2>1. OneWriterIsLeft /\ reading \in [DOMAIN reading -> Readings]
    BY DEF StatsInv, StatsShape
  <2>2. /\ phase' \in {"last", "exiting"} => writer' = "returned"
        /\ clean' => phase' \in {"waiting", "last", "exiting", "stopped"} /\ DOMAIN reading' = {}
        /\ clean' /\ phase' \in {"exiting", "stopped"} => clean /\ phase = phase'
    <3>1. ASSUME NEW s \in Scans, (\E c \in Recorded : Scan(s, c)) \/ ReadToday(s) PROVE ~clean' /\ phase' = phase /\ writer' = writer
      BY <2>1, <3>1 DEF OneWriterIsLeft, Scan, ReadToday, Reading, disk
    <3>2. ASSUME Signal \/ PersistReturns PROVE clean' = clean /\ reading' = reading /\ phase \notin {"last", "exiting", "stopped"}
                 /\ phase' \notin {"last", "exiting", "stopped"} /\ (clean => phase' = phase)
      BY <2>1, <3>2 DEF OneWriterIsLeft, Signal, PersistReturns, memory, disk
    <3>3. ASSUME ShutdownReturns \/ BeginLastWrite
          PROVE  /\ phase' \notin {"exiting", "stopped"} /\ reading' = reading /\ (clean' => phase' \in {"waiting", "last"})
                 /\ clean' => DOMAIN reading = {}
                 /\ phase' = "last" => writer' = "returned"
      <4>1. ASSUME ShutdownReturns PROVE phase' = "waiting" /\ reading' = reading /\ (clean' => DOMAIN reading = {})
        BY <4>1 DEF ShutdownReturns, memory
      <4>2. ASSUME BeginLastWrite
            PROVE  phase' = "last" /\ reading' = reading /\ clean' = clean /\ phase = "waiting" /\ writer' = "returned"
        BY <4>2 DEF BeginLastWrite, memory, disk
      <4> QED
        BY <2>1, <3>3, <4>1, <4>2 DEF OneWriterIsLeft
    <3> QED
      BY <2>1, <3>1, <3>2, <3>3 DEF OneWriterIsLeft
  <2> QED
    BY <1>3, <2>1, <2>2 DEF OneWriterIsLeft, Of, Zero, NoFile
<1>8. StatsShape'
  BY <1>2, <1>3, <1>4, <1>5, <1>6 DEF StatsInv, StatsShape, Zero
<1> QED
  BY <1>2, <1>7, <1>8 DEF StatsInv

\* Counting a scan or a refusal, while the process serves: the files stand, and no total
\* of data is less than it was.
LEMMA CountingKeeps ==
  ASSUME StatsInv, phase # "stopped", NEW s \in DOMAIN reading,
         UNCHANGED <<now, phase, published, publishedAt, writer, writing, file, unread, clean>>,
         reading' = [x \in DOMAIN reading \ {s} |-> reading[x]],
         IsFile(data'), DOMAIN data'.checks \subseteq Checks, DOMAIN data'.refused \subseteq Codes, data'.top = Zero, data'.date \in Nat,
         todays' \in [Checks -> Nat], \A c \in Checks : todays[c] <= todays'[c],
         \A c \in Checks : Of(data, c).total <= Of(data', c).total,
         data'.date <= Day(now),
         data'.date = Day(now) => \A c \in Checks : Of(data', c).today <= todays'[c]
  PROVE  StatsInv'
<1>1. StatsShape /\ AllHonest /\ Growing /\ OneWriterIsLeft /\ todays \in [Checks -> Nat] /\ now \in Nat /\ Day(now) \in Nat
  BY DayGrows DEF StatsInv, StatsShape
<1>2. now' = now /\ phase' = phase /\ published' = published /\ publishedAt' = publishedAt /\ writer' = writer
      /\ writing' = writing /\ file' = file /\ unread' = unread /\ clean' = clean /\ Day(now)' = Day(now)
  BY DEF Day
<1>3. StatsShape'
  <2>1. /\ reading' \in [DOMAIN reading' -> Readings] /\ DOMAIN reading' \subseteq Scans
        /\ \A x \in DOMAIN reading' : reading'[x].day <= Day(now)
    BY <1>1 DEF StatsShape
  <2>2. IsFile(published)' /\ IsFile(writing)' /\ (file # NoFile => IsFile(file))'
    BY <1>1, <1>2, Zenon DEF StatsShape, IsFile, NoFile, Figures
  <2>3. IsFile(data)' <=> IsFile(data')
    BY Zenon DEF IsFile, Figures
  <2> QED
    BY <1>1, <1>2, <2>1, <2>2, <2>3 DEF StatsShape, Zero
\* What was honest stays so: more may have been recorded.
<1>4. ASSUME NEW f, IsFile(f), Honest(f)
      PROVE  f.date <= Day(now) /\ (f.date = Day(now) => \A c \in Checks : TodayIn(f, c) <= todays'[c])
  <2>1. \A c : TodayIn(f, c) \in Nat
    BY <1>4, OfShape DEF TodayIn, IsFile, Figures
  <2>2. \A c \in Checks : todays[c] \in Nat /\ todays'[c] \in Nat
    BY <1>1
  <2> QED
    BY <1>4, <2>1, <2>2 DEF Honest
<1>5. AllHonest'
  <2>1. Honest(published)' /\ Honest(writing)' /\ (file # NoFile => Honest(file))'
    <3>1. IsFile(published) /\ IsFile(writing) /\ (file # NoFile => IsFile(file))
      BY <1>1 DEF StatsShape
    <3>2. Honest(published) /\ Honest(writing) /\ (file # NoFile => Honest(file))
      BY <1>1 DEF AllHonest
    <3>3. \A f : /\ (f.date <= Day(now) /\ (f.date = Day(now) => \A c \in Checks : TodayIn(f, c) <= todays'[c]))
                 <=> /\ f.date <= Day(now)'
                     /\ (f.date = Day(now)' => \A c \in Checks : TodayIn(f, c)' <= todays'[c])
      BY <1>2, Zenon DEF TodayIn, Of, Zero
    <3> QED
      BY <1>2, <1>4, <3>1, <3>2, <3>3, Zenon DEF Honest, NoFile
  <2>2. Honest(data)'
    <3>1. \A c \in Checks : TodayIn(data', c) = Of(data', c).today
      BY DEF TodayIn, Zero
    <3>2. data'.date <= Day(now)' /\ (data'.date = Day(now)' => \A c \in Checks : TodayIn(data', c) <= todays'[c])
      BY <1>2, <3>1
    <3>3. Honest(data)' <=> (data'.date <= Day(now)' /\ (data'.date = Day(now)' => \A c \in Checks : TodayIn(data', c) <= todays'[c]))
      BY Zenon DEF Honest, TodayIn, Of, Zero
    <3> QED
      BY <3>2, <3>3
  <2> QED
    BY <2>1, <2>2 DEF AllHonest
<1>6. Growing'
  <2>1. \A c \in Checks : Of(data, c).total \in Nat /\ Of(data', c).total \in Nat
    BY <1>1, OfShape DEF StatsShape, IsFile, Figures
  <2>2. file # NoFile => \A c \in Checks : InFile(file, c) \in Nat
    BY <1>1, OfShape DEF StatsShape, IsFile, Figures, InFile
  <2>3. \A c \in Checks : InFile(writing, c) \in Nat
    BY <1>1, OfShape DEF StatsShape, IsFile, Figures, InFile
  <2>4. /\ file # NoFile => TopIsCovered(file)
        /\ file # NoFile /\ ~unread => \A c \in Checks : InFile(file, c) <= Of(data', c).total
        /\ writer = "saving" =>
             /\ TopIsCovered(writing)
             /\ \A c \in Checks : /\ InFile(writing, c) <= Of(data', c).total
                                  /\ file # NoFile /\ ~unread => InFile(file, c) <= InFile(writing, c)
    BY <1>1, <2>1, <2>2, <2>3 DEF Growing
  <2>5. /\ (file # NoFile)' <=> file # NoFile
        /\ \A f : (TopIsCovered(f)' <=> TopIsCovered(f)) /\ \A c : InFile(f, c)' = InFile(f, c) /\ Of(f, c)' = Of(f, c)
    BY <1>2, Zenon DEF NoFile, TopIsCovered, InFile, Of, Zero
  <2>6. /\ TopIsCovered(file)' <=> TopIsCovered(file)
        /\ TopIsCovered(writing)' <=> TopIsCovered(writing)
        /\ \A c : InFile(file, c)' = InFile(file, c) /\ InFile(writing, c)' = InFile(writing, c) /\ Of(data, c)' = Of(data', c)
    BY <1>2, Zenon DEF NoFile, TopIsCovered, InFile, Of, Zero
  <2>7. /\ (file # NoFile => TopIsCovered(file))'
        /\ (file # NoFile /\ ~unread)' => \A c \in Checks : InFile(file, c)' <= Of(data, c)'.total
    BY <1>2, <2>4, <2>5, <2>6
  <2>8. (writer = "saving")' =>
          /\ TopIsCovered(writing)'
          /\ \A c \in Checks : /\ InFile(writing, c)' <= Of(data, c)'.total
                               /\ (file # NoFile /\ ~unread)' => InFile(file, c)' <= InFile(writing, c)'
    BY <1>2, <2>4, <2>5, <2>6
  <2>9. phase' # "stopped"
    BY <1>2
  <2> QED
    BY <2>7, <2>8, <2>9, Zenon DEF Growing
<1>7. OneWriterIsLeft'
  <2>1. ~clean
    BY <1>1 DEF OneWriterIsLeft
  <2> QED
    BY <1>1, <1>2, <2>1 DEF OneWriterIsLeft
<1> QED
  BY <1>3, <1>5, <1>6, <1>7 DEF StatsInv

\* A scan is recorded, on the day its reader found (record).
LEMMA RecordKeeps ==
  ASSUME StatsInv, NEW s \in Scans, Record(s) PROVE StatsInv'
<1> DEFINE c == reading[s].check
           d == reading[s].day
           checks == IF data.date = d THEN data.checks ELSE NewDay(data.checks)
           n == Of([checks |-> checks], c)
           more == [x \in DOMAIN checks \cup {c} |-> IF x = c THEN [total |-> n.total + 1, today |-> n.today + 1] ELSE checks[x]]
<1>1. /\ s \in DOMAIN reading /\ phase # "stopped" /\ d # Never
      /\ reading' = [x \in DOMAIN reading \ {s} |-> reading[x]]
      /\ UNCHANGED <<now, phase, published, publishedAt, writer, writing, file, unread, clean>>
      /\ IF c \in Checks
           THEN /\ data' = [data EXCEPT !.date = d, !.checks = more]
                /\ todays' = [todays EXCEPT ![c] = @ + 1]
           ELSE UNCHANGED <<data, todays>>
  BY DEF Record, Reading, Serving, disk
<1>2. /\ IsFile(data) /\ data.top = Zero /\ data.date \in Nat /\ todays \in [Checks -> Nat] /\ d \in Nat /\ d <= Day(now)
      /\ DOMAIN data.checks \subseteq Checks /\ DOMAIN data.refused \subseteq Codes /\ Day(now) \in Nat /\ Honest(data)
  BY <1>1, DayGrows DEF StatsInv, StatsShape, Readings, AllHonest
<1>3. \A x \in Checks : Of(data, x) \in Figures /\ TodayIn(data, x) = Of(data, x).today
  BY <1>2, OfShape DEF IsFile, TodayIn, Zero
<1>4. CASE c \notin Checks
  <2>1. data' = data /\ todays' = todays
    BY <1>1, <1>4
  <2>2. IsFile(data')
    BY <1>2, <2>1
  <2>3. \A x \in Checks : todays[x] <= todays'[x] /\ Of(data, x).total <= Of(data', x).total
    BY <1>2, <1>3, <2>1 DEF Figures
  <2>4. data'.date <= Day(now) /\ (data'.date = Day(now) => \A x \in Checks : Of(data', x).today <= todays'[x])
    BY <1>2, <1>3, <2>1 DEF Honest
  <2>5. DOMAIN data'.checks \subseteq Checks /\ DOMAIN data'.refused \subseteq Codes /\ data'.top = Zero /\ data'.date \in Nat
        /\ todays' \in [Checks -> Nat]
    BY <1>2, <2>1
  <2> QED
    BY <1>1, <2>2, <2>3, <2>4, <2>5, CountingKeeps
<1>5. CASE c \in Checks
  <2>1. /\ checks \in [DOMAIN data.checks -> Figures] /\ DOMAIN checks = DOMAIN data.checks
        /\ \A x \in DOMAIN data.checks : /\ checks[x].total = data.checks[x].total
                                         /\ checks[x].today = IF data.date = d THEN data.checks[x].today ELSE 0
    BY <1>2, NewDayShape DEF IsFile
  <2>2. n \in Figures /\ n.total = Of(data, c).total /\ n.today = IF data.date = d THEN Of(data, c).today ELSE 0
    BY <2>1 DEF Of, Zero, Figures
  <2>3. data' = [data EXCEPT !.date = d, !.checks = more] /\ todays' = [todays EXCEPT ![c] = @ + 1]
    BY <1>1, <1>5
  <2> HIDE DEF checks, n, c, d
  <2>4. [total |-> n.total + 1, today |-> n.today + 1] \in Figures
    BY <2>2 DEF Figures
  <2>5. more \in [DOMAIN data.checks \cup {c} -> Figures] /\ DOMAIN more = DOMAIN data.checks \cup {c}
        /\ more[c].total = n.total + 1 /\ more[c].today = n.today + 1
        /\ \A x \in DOMAIN data.checks : x # c => more[x] = checks[x]
    <3> DEFINE one == [total |-> n.total + 1, today |-> n.today + 1]
    <3>1. one \in Figures /\ one.total = n.total + 1 /\ one.today = n.today + 1
      BY <2>4
    <3>2. more = [x \in DOMAIN checks \cup {c} |-> IF x = c THEN one ELSE checks[x]]
      OBVIOUS
    <3> HIDE DEF one, more
    <3> QED
      BY <2>1, <3>1, <3>2
  <2> HIDE DEF more
  <2>6. data' = [checks |-> more, top |-> data.top, refused |-> data.refused, date |-> d]
    BY <1>2, <2>3 DEF IsFile
  <2>7. IsFile(data')
    BY <1>2, <2>5, <2>6 DEF IsFile
  <2>8. \A x \in Checks : /\ Of(data', x).total = IF x = c THEN Of(data, x).total + 1 ELSE Of(data, x).total
                          /\ Of(data', x).today = (IF data.date = d THEN Of(data, x).today ELSE 0) + (IF x = c THEN 1 ELSE 0)
    <3> TAKE x \in Checks
    <3>1. Of(data', x) = IF x \in DOMAIN data.checks \cup {c} THEN more[x] ELSE Zero
      BY <2>5, <2>6 DEF Of
    <3>2. CASE x = c
      BY <2>2, <2>5, <3>1, <3>2
    <3>3. CASE x # c /\ x \in DOMAIN data.checks
      <4>1. Of(data', x) = checks[x] /\ Of(data, x) = data.checks[x]
        BY <2>5, <3>1, <3>3 DEF Of
      <4>2. data.checks[x].today \in Nat /\ data.checks[x].total \in Nat
        BY <1>2, <3>3 DEF IsFile, Figures
      <4> QED
        BY <2>1, <3>3, <4>1, <4>2
    <3>4. CASE x # c /\ x \notin DOMAIN data.checks
      BY <3>1, <3>4 DEF Of, Zero
    <3> QED
      BY <3>2, <3>3, <3>4
  <2>9. /\ todays' \in [Checks -> Nat]
        /\ \A x \in Checks : todays'[x] = todays[x] + (IF x = c THEN 1 ELSE 0)
    BY <1>2, <1>5, <2>3
  <2>10. \A x \in Checks : Of(data, x).total \in Nat /\ Of(data, x).today \in Nat /\ todays[x] \in Nat
    BY <1>2, <1>3 DEF Figures
  <2>11. \A x \in Checks : todays[x] <= todays'[x] /\ Of(data, x).total <= Of(data', x).total
    BY <2>8, <2>9, <2>10
  <2>12. data'.date <= Day(now) /\ (data'.date = Day(now) => \A x \in Checks : Of(data', x).today <= todays'[x])
    <3>1. data'.date = d
      BY <2>6
    <3>2. ASSUME d = Day(now), NEW x \in Checks PROVE Of(data', x).today <= todays'[x]
      <4>1. data.date = d => Of(data, x).today <= todays[x]
        BY <1>2, <1>3, <3>2 DEF Honest
      <4> QED
        BY <2>8, <2>9, <2>10, <4>1
    <3> QED
      BY <1>2, <3>1, <3>2 DEF d
  <2>13. /\ DOMAIN data'.checks \subseteq Checks /\ DOMAIN data'.refused \subseteq Codes /\ data'.top = Zero /\ data'.date \in Nat
    BY <1>2, <1>5, <2>5, <2>6 DEF d
  <2> QED
    BY <1>1, <2>7, <2>9, <2>11, <2>12, <2>13, CountingKeeps
<1> QED
  BY <1>4, <1>5

\* A refusal is counted (refused).
LEMMA RefuseKeeps ==
  ASSUME StatsInv, NEW s \in Scans, NEW code \in Codes, Refuse(s, code) PROVE StatsInv'
<1> DEFINE more == [x \in DOMAIN data.refused \cup {code} |->
                      IF x \notin DOMAIN data.refused THEN 1 ELSE IF x = code THEN data.refused[x] + 1 ELSE data.refused[x]]
<1>1. /\ s \in DOMAIN reading /\ phase # "stopped"
      /\ reading' = [x \in DOMAIN reading \ {s} |-> reading[x]]
      /\ UNCHANGED <<now, phase, published, publishedAt, writer, writing, file, unread, clean>>
      /\ data' = [data EXCEPT !.refused = more] /\ todays' = todays
  BY DEF Refuse, Reading, Serving, disk
<1>2. /\ IsFile(data) /\ data.top = Zero /\ data.date \in Nat /\ todays \in [Checks -> Nat]
      /\ DOMAIN data.checks \subseteq Checks /\ DOMAIN data.refused \subseteq Codes /\ Day(now) \in Nat /\ Honest(data)
  BY <1>1, DayGrows DEF StatsInv, StatsShape, AllHonest
<1>3. \A x \in Checks : Of(data, x) \in Figures /\ TodayIn(data, x) = Of(data, x).today
  BY <1>2, OfShape DEF IsFile, TodayIn, Zero
<1>4. more \in [DOMAIN more -> Nat] /\ DOMAIN more \subseteq Codes
  BY <1>2 DEF IsFile
<1> HIDE DEF more
<1>5. data' = [checks |-> data.checks, top |-> data.top, refused |-> more, date |-> data.date]
  BY <1>1, <1>2 DEF IsFile
<1>6. IsFile(data')
  BY <1>2, <1>4, <1>5 DEF IsFile
<1>7. \A x \in Checks : Of(data', x) = Of(data, x)
  BY <1>5 DEF Of
<1>8. \A x \in Checks : todays[x] <= todays'[x] /\ Of(data, x).total <= Of(data', x).total
  BY <1>1, <1>2, <1>3, <1>7 DEF Figures
<1>9. data'.date <= Day(now) /\ (data'.date = Day(now) => \A x \in Checks : Of(data', x).today <= todays'[x])
  BY <1>1, <1>2, <1>3, <1>5, <1>7 DEF Honest
<1>10. /\ DOMAIN data'.checks \subseteq Checks /\ DOMAIN data'.refused \subseteq Codes /\ data'.top = Zero /\ data'.date \in Nat
       /\ todays' \in [Checks -> Nat]
  BY <1>1, <1>2, <1>4, <1>5
<1> QED
  BY <1>1, <1>6, <1>8, <1>9, <1>10, CountingKeeps

\* What is shown leaves the file and its way there alone (publicSnapshot).
LEMMA PublishKeeps ==
  ASSUME StatsInv, Publish PROVE StatsInv'
<1>1. /\ published' = Snapshot /\ publishedAt' = now
      /\ UNCHANGED <<now, phase, data, reading, disk, todays, clean>>
  BY DEF Publish
<1>2. now' = now /\ phase' = phase /\ data' = data /\ reading' = reading /\ writer' = writer /\ writing' = writing
      /\ file' = file /\ unread' = unread /\ todays' = todays /\ clean' = clean
  BY <1>1 DEF disk
<1>3. StatsShape /\ AllHonest /\ Growing /\ OneWriterIsLeft /\ IsFile(Snapshot) /\ Honest(Snapshot)
  BY SnapshotShape DEF StatsInv, AllHonest
<1>4. IsFile(published)' /\ Honest(published)'
  <2> DEFINE f == Snapshot
  <2>1. IsFile(f) /\ Honest(f) /\ published' = f
    BY <1>1, <1>3
  <2> HIDE DEF f
  <2>2. IsFile(published)' <=> IsFile(f)
    BY <2>1, Zenon DEF IsFile, Figures
  <2>3. Honest(published)' <=> Honest(f)
    BY <1>2, <2>1, Zenon DEF Honest, TodayIn, Of, Day, Zero
  <2> QED
    BY <2>1, <2>2, <2>3
<1>5. IsFile(data)' /\ IsFile(writing)' /\ (file # NoFile => IsFile(file))'
  BY <1>2, <1>3, Zenon DEF StatsShape, IsFile, NoFile, Figures
<1>6. Honest(data)' /\ Honest(writing)' /\ (file # NoFile => Honest(file))'
  BY <1>2, <1>3, Zenon DEF AllHonest, Honest, TodayIn, Of, Day, Zero, NoFile
<1>7. StatsShape'
  <2>1. publishedAt' \in -1 .. now'
    BY <1>1, <1>2, <1>3 DEF StatsShape
  <2>2. \A s \in DOMAIN reading' : reading'[s].day <= Day(now)'
    BY <1>2, <1>3, Zenon DEF StatsShape, Day
  <2> QED
    BY <1>2, <1>3, <1>4, <1>5, <2>1, <2>2 DEF StatsShape, Zero
<1>8. Growing'
  BY <1>2, <1>3, Zenon DEF Growing, TopIsCovered, InFile, Of, Zero, NoFile
<1>9. OneWriterIsLeft'
  BY <1>2, <1>3, Zenon DEF OneWriterIsLeft, Of, Zero, NoFile
<1> QED
  BY <1>4, <1>6, <1>7, <1>8, <1>9 DEF StatsInv, AllHonest

\* The clock, the figures and the requests stand while a file is written.
FileOnly == UNCHANGED <<now, data, published, publishedAt, reading, todays>>

LEMMA FileStepsKeep ==
  ASSUME StatsInv, FileOnly
  PROVE  /\ IsFile(data)' /\ Honest(data)' /\ IsFile(published)' /\ Honest(published)'
         /\ now' = now /\ Day(now)' = Day(now) /\ todays' = todays /\ reading' = reading /\ data' = data
         /\ \A s \in DOMAIN reading' : reading'[s].day <= Day(now)'
<1>1. now' = now /\ data' = data /\ published' = published /\ reading' = reading /\ todays' = todays
  BY DEF FileOnly
<1>2. IsFile(data)' /\ IsFile(published)'
  BY <1>1, Zenon DEF StatsInv, StatsShape, IsFile, Figures
<1>3. Honest(data)' /\ Honest(published)'
  BY <1>1, Zenon DEF StatsInv, AllHonest, Honest, TodayIn, Of, Day, Zero
<1>4. \A s \in DOMAIN reading' : reading'[s].day <= Day(now)'
  BY <1>1, Zenon DEF StatsInv, StatsShape, Day
<1>5. Day(now)' = Day(now)
  BY <1>1, Zenon DEF Day
<1> QED
  BY <1>1, <1>2, <1>3, <1>4, <1>5

\* The ticker takes a snapshot to write, no smaller than the file.
LEMMA PersistTickKeeps ==
  ASSUME StatsInv, PersistTick PROVE StatsInv'
<1>1. /\ writing' = Snapshot /\ writer' = "saving" /\ writer = "select" /\ phase # "stopped" /\ FileOnly
      /\ file' = file /\ unread' = unread /\ phase' = phase /\ clean' = clean /\ publishedAt' = publishedAt
  BY DEF PersistTick, FileOnly, memory, Serving
<1>2. StatsShape /\ AllHonest /\ Growing /\ OneWriterIsLeft
  BY DEF StatsInv
<1>3. /\ IsFile(data)' /\ Honest(data)' /\ IsFile(published)' /\ Honest(published)'
      /\ now' = now /\ Day(now)' = Day(now) /\ todays' = todays /\ reading' = reading /\ data' = data
      /\ \A s \in DOMAIN reading' : reading'[s].day <= Day(now)'
  BY <1>1, FileStepsKeep
<1> DEFINE f == Snapshot
<1>4. /\ IsFile(f) /\ Honest(f) /\ TopIsCovered(f) /\ writing' = f
      /\ \A c : InFile(f, c) = Of(data, c).total
  BY <1>1, <1>2, SnapshotShape DEF AllHonest
<1> HIDE DEF f
<1>5. IsFile(writing)' /\ Honest(writing)'
  <2>1. IsFile(writing)' <=> IsFile(f)
    BY <1>4, Zenon DEF IsFile, Figures
  <2>2. Honest(writing)' <=> Honest(f)
    BY <1>3, <1>4, Zenon DEF Honest, TodayIn, Of, Day, Zero
  <2> QED
    BY <1>4, <2>1, <2>2
<1>6. (file # NoFile => IsFile(file) /\ Honest(file))'
  BY <1>1, <1>2, <1>3, Zenon DEF StatsShape, AllHonest, IsFile, Figures, Honest, TodayIn, Of, Day, Zero, NoFile
<1>7. StatsShape'
  BY <1>1, <1>2, <1>3, <1>5, <1>6 DEF StatsShape, Zero
<1>8. Growing'
  <2>1. \A c \in Checks : Of(data, c).total \in Nat
    BY <1>2, OfShape DEF StatsShape, IsFile, Figures
  <2>2. /\ file # NoFile => TopIsCovered(file)
        /\ file # NoFile /\ ~unread => \A c \in Checks : InFile(file, c) <= Of(data, c).total
        /\ \A c \in Checks : /\ InFile(f, c) <= Of(data, c).total
                             /\ file # NoFile /\ ~unread => InFile(file, c) <= InFile(f, c)
    BY <1>1, <1>2, <1>4, <2>1 DEF Growing
  <2>3. /\ TopIsCovered(file)' <=> TopIsCovered(file)
        /\ TopIsCovered(writing)' <=> TopIsCovered(f)
        /\ (file # NoFile)' <=> file # NoFile
        /\ \A c : InFile(file, c)' = InFile(file, c) /\ InFile(writing, c)' = InFile(f, c) /\ Of(data, c)' = Of(data, c)
    BY <1>1, <1>3, <1>4, Zenon DEF TopIsCovered, InFile, Of, Zero, NoFile
  <2> QED
    BY <1>1, <1>4, <2>2, <2>3, Zenon DEF Growing
<1>9. OneWriterIsLeft'
  <2>1. phase' \notin {"last", "exiting"}
    BY <1>1, <1>2 DEF OneWriterIsLeft
  <2> QED
    BY <1>1, <1>2, <1>3, <2>1, Zenon DEF OneWriterIsLeft, Of, Zero, NoFile
<1> QED
  BY <1>3, <1>5, <1>6, <1>7, <1>8, <1>9 DEF StatsInv, AllHonest

\* The file is what was on its way, or what it was; none of its totals is smaller,
\* unless it was not read.
LEMMA SaveKeeps ==
  ASSUME StatsInv, Save
  PROVE  StatsInv' /\ (file # NoFile /\ ~unread => \A c \in Checks : InFile(file, c) <= InFile(file', c))
<1>1. /\ (file' = writing /\ unread' = FALSE) \/ (file' = file /\ unread' = unread)
      /\ writer = "saving" /\ writer' = "select" /\ phase # "stopped" /\ FileOnly
      /\ writing' = writing /\ phase' = phase /\ clean' = clean /\ publishedAt' = publishedAt
  BY DEF Save, FileOnly, memory, Serving
<1>2. StatsShape /\ AllHonest /\ Growing /\ OneWriterIsLeft
  BY DEF StatsInv
<1>3. /\ IsFile(data)' /\ Honest(data)' /\ IsFile(published)' /\ Honest(published)'
      /\ now' = now /\ Day(now)' = Day(now) /\ todays' = todays /\ reading' = reading /\ data' = data
      /\ \A s \in DOMAIN reading' : reading'[s].day <= Day(now)'
  BY <1>1, FileStepsKeep
<1>4. IsFile(writing)' /\ Honest(writing)'
  BY <1>1, <1>2, <1>3, Zenon DEF StatsShape, AllHonest, IsFile, Figures, Honest, TodayIn, Of, Day, Zero
<1>5. IsFile(writing) /\ Honest(writing) /\ TopIsCovered(writing) /\ writing # NoFile
      /\ (\A c \in Checks : InFile(writing, c) <= Of(data, c).total)
  BY <1>1, <1>2, AFileIsThere DEF StatsShape, AllHonest, Growing
\* The file, whichever it is now.
<1>6. /\ file' # NoFile => IsFile(file') /\ Honest(file') /\ TopIsCovered(file')
      /\ file' # NoFile /\ ~unread' => \A c \in Checks : InFile(file', c) <= Of(data, c).total
      /\ file # NoFile /\ ~unread => \A c \in Checks : InFile(file, c) <= InFile(file', c)
  <2>1. CASE file' = writing /\ unread' = FALSE
    BY <1>1, <1>2, <1>5, <2>1 DEF Growing
  <2>2. CASE file' = file /\ unread' = unread
    <3>1. file # NoFile => \A c \in Checks : InFile(file, c) \in Nat
      BY <1>2, OfShape DEF StatsShape, IsFile, Figures, InFile
    <3> QED
      BY <1>1, <1>2, <2>2, <3>1 DEF Growing, StatsShape, AllHonest
  <2> QED
    BY <1>1, <2>1, <2>2
<1>7. /\ (file # NoFile)' <=> file' # NoFile
      /\ IsFile(file)' <=> IsFile(file')
      /\ Honest(file)' <=> Honest(file')
      /\ TopIsCovered(file)' <=> TopIsCovered(file')
      /\ \A c : InFile(file, c)' = InFile(file', c) /\ Of(data, c)' = Of(data, c)
  BY <1>3, Zenon DEF IsFile, Figures, Honest, TodayIn, Of, Day, Zero, TopIsCovered, InFile, NoFile
<1>8. StatsShape'
  BY <1>1, <1>2, <1>3, <1>4, <1>6, <1>7 DEF StatsShape, Zero
<1>9. Growing'
  BY <1>1, <1>6, <1>7 DEF Growing
<1>10. OneWriterIsLeft'
  <2>1. phase' \notin {"last", "exiting", "stopped"}
    BY <1>1, <1>2 DEF OneWriterIsLeft
  <2> QED
    BY <1>1, <1>2, <1>3, <2>1 DEF OneWriterIsLeft
<1> QED
  BY <1>3, <1>4, <1>6, <1>7, <1>8, <1>9, <1>10 DEF StatsInv, AllHonest

\* The last write, by the only writer left; or nothing comes of it.
LEMMA LastWriteKeeps ==
  ASSUME StatsInv, LastWrite
  PROVE  StatsInv' /\ (file # NoFile /\ ~unread => \A c \in Checks : InFile(file, c) <= InFile(file', c))
<1>1. /\ \/ file' = Snapshot /\ unread' = FALSE /\ clean' = clean
         \/ file' = file /\ unread' = unread /\ clean' = FALSE
      /\ phase = "last" /\ phase' = "exiting" /\ FileOnly
      /\ writer' = writer /\ writing' = writing /\ publishedAt' = publishedAt
  BY DEF LastWrite, FileOnly, memory
<1>2. StatsShape /\ AllHonest /\ Growing /\ OneWriterIsLeft /\ writer = "returned"
  BY <1>1 DEF StatsInv, OneWriterIsLeft
<1>3. /\ IsFile(data)' /\ Honest(data)' /\ IsFile(published)' /\ Honest(published)'
      /\ now' = now /\ Day(now)' = Day(now) /\ todays' = todays /\ reading' = reading /\ data' = data
      /\ \A s \in DOMAIN reading' : reading'[s].day <= Day(now)'
  BY <1>1, FileStepsKeep
<1>4. IsFile(writing)' /\ Honest(writing)'
  BY <1>1, <1>2, <1>3, Zenon DEF StatsShape, AllHonest, IsFile, Figures, Honest, TodayIn, Of, Day, Zero
<1> DEFINE f == Snapshot
<1>5. /\ IsFile(f) /\ Honest(f) /\ TopIsCovered(f) /\ f # NoFile /\ f.refused = data.refused
      /\ \A c : InFile(f, c) = Of(data, c).total /\ Of(f, c).total = Of(data, c).total
      /\ \/ file' = f /\ unread' = FALSE /\ clean' = clean
         \/ file' = file /\ unread' = unread /\ clean' = FALSE
  BY <1>1, <1>2, SnapshotShape DEF AllHonest
<1> HIDE DEF f
<1>6. /\ file' # NoFile => IsFile(file') /\ Honest(file') /\ TopIsCovered(file')
      /\ file' # NoFile /\ ~unread' => \A c \in Checks : InFile(file', c) <= Of(data, c).total
      /\ file # NoFile /\ ~unread => \A c \in Checks : InFile(file, c) <= InFile(file', c)
  <2>1. \A c \in Checks : Of(data, c).total \in Nat
    BY <1>2, OfShape DEF StatsShape, IsFile, Figures
  <2>2. CASE file' = f /\ unread' = FALSE
    BY <1>1, <1>2, <1>5, <2>1, <2>2 DEF Growing
  <2>3. CASE file' = file /\ unread' = unread
    <3>1. file # NoFile => \A c \in Checks : InFile(file, c) \in Nat
      BY <1>2, OfShape DEF StatsShape, IsFile, Figures, InFile
    <3> QED
      BY <1>1, <1>2, <2>3, <3>1 DEF Growing, StatsShape, AllHonest
  <2> QED
    BY <1>5, <2>2, <2>3
<1>7. /\ (file # NoFile)' <=> file' # NoFile
      /\ IsFile(file)' <=> IsFile(file')
      /\ Honest(file)' <=> Honest(file')
      /\ TopIsCovered(file)' <=> TopIsCovered(file')
      /\ \A c : InFile(file, c)' = InFile(file', c) /\ Of(data, c)' = Of(data, c) /\ Of(file, c)' = Of(file', c)
  BY <1>3, Zenon DEF IsFile, Figures, Honest, TodayIn, Of, Day, Zero, TopIsCovered, InFile, NoFile
<1>8. StatsShape'
  BY <1>1, <1>2, <1>3, <1>4, <1>6, <1>7 DEF StatsShape, Zero
<1>9. Growing'
  BY <1>1, <1>2, <1>6, <1>7 DEF Growing
<1>10. OneWriterIsLeft'
  <2>1. clean' => DOMAIN reading' = {}
    BY <1>1, <1>2, <1>3 DEF OneWriterIsLeft
  <2>2. clean' => /\ (file # NoFile)'
                  /\ \A c \in Checks : Of(file, c)'.total = Of(data, c)'.total
                  /\ file'.refused = data'.refused
    BY <1>3, <1>5, <1>7
  <2>3. \A c : Of(data', c) = Of(data, c)' /\ Of(file', c) = Of(file, c)'
    BY Zenon DEF Of, Zero
  <2> QED
    BY <1>1, <1>2, <2>1, <2>2, <2>3, Zenon DEF OneWriterIsLeft
<1> QED
  BY <1>3, <1>4, <1>6, <1>7, <1>8, <1>9, <1>10 DEF StatsInv, AllHonest

\* A process goes: with its last write behind it, or with what is on disk.
LEMMA GoneKeeps ==
  ASSUME StatsInv, NEW well \in BOOLEAN, well => clean /\ phase = "exiting", phase # "stopped", Gone(well)
  PROVE  StatsInv'
<1>1. /\ phase' = "stopped" /\ clean' = well /\ data' = (IF well THEN data ELSE Fresh(Day(now)))
      /\ published' = Fresh(0) /\ publishedAt' = -1 /\ reading' = [s \in {} |-> Nowhere] /\ writer' = "select"
      /\ writing' = Fresh(0) /\ now' = now /\ file' = file /\ unread' = FALSE /\ todays' = todays
  BY DEF Gone, Never
<1>2. StatsShape /\ AllHonest /\ Growing /\ OneWriterIsLeft /\ now \in Nat /\ Day(now) \in Nat /\ todays \in [Checks -> Nat]
  BY DayGrows DEF StatsInv, StatsShape
<1> DEFINE f == Fresh(0)
           g == Fresh(Day(now))
<1>3. IsFile(f) /\ Honest(f) /\ f.date = 0
  BY <1>2, FreshShape DEF Honest
<1>4. IsFile(g) /\ Honest(g) /\ g.top = Zero /\ DOMAIN g.checks = {} /\ DOMAIN g.refused = {} /\ g.date \in Nat
  BY <1>2, FreshShape DEF Honest
<1>5. published' = f /\ writing' = f /\ (data' = data \/ data' = g) /\ (well => data' = data)
  BY <1>1
<1> HIDE DEF f, g
<1>6. /\ IsFile(data') /\ Honest(data') /\ data'.top = Zero /\ DOMAIN data'.checks \subseteq Checks
      /\ DOMAIN data'.refused \subseteq Codes /\ data'.date \in Nat
  BY <1>2, <1>4, <1>5 DEF StatsShape, AllHonest
<1>7. /\ IsFile(published)' /\ IsFile(writing)' /\ (IsFile(data)' <=> IsFile(data'))
      /\ Honest(published)' /\ Honest(writing)' /\ (Honest(data)' <=> Honest(data'))
  BY <1>1, <1>3, <1>5, Zenon DEF IsFile, Figures, Honest, TodayIn, Of, Day, Zero
<1>8. (file # NoFile => IsFile(file) /\ Honest(file) /\ TopIsCovered(file))'
  BY <1>1, <1>2, Zenon DEF StatsShape, AllHonest, Growing, IsFile, Figures, Honest, TodayIn, Of, Day, Zero, NoFile, TopIsCovered
<1>9. StatsShape'
  <2>1. reading' \in [DOMAIN reading' -> Readings] /\ DOMAIN reading' = {}
    BY <1>1
  <2>2. publishedAt' \in -1 .. now'
    BY <1>1, <1>2
  <2> QED
    BY <1>1, <1>2, <1>6, <1>7, <1>8, <2>1, <2>2 DEF StatsShape, Zero
<1>10. Growing'
  BY <1>1, <1>8 DEF Growing
<1>11. OneWriterIsLeft'
  <2>1. DOMAIN reading' = {}
    BY <1>1
  <2>2. CASE well
    BY <1>1, <1>2, <1>5, <2>1, <2>2, Zenon DEF OneWriterIsLeft, Of, Zero, NoFile
  <2>3. CASE ~well
    BY <1>1, <2>1, <2>3 DEF OneWriterIsLeft
  <2> QED
    BY <2>2, <2>3
<1> QED
  BY <1>6, <1>7, <1>8, <1>9, <1>10, <1>11 DEF StatsInv, AllHonest

\* A process starts with what the file gives, or with nothing beside one it cannot read.
LEMMA StartKeeps ==
  ASSUME StatsInv, Start PROVE StatsInv'
<1>1. /\ phase = "stopped" /\ phase' = "up" /\ Loads(data', unread') /\ clean' = FALSE
      /\ now' = now /\ published' = published /\ publishedAt' = publishedAt /\ reading' = reading /\ writer' = writer
      /\ writing' = writing /\ file' = file /\ todays' = todays
  BY DEF Start
<1>2. StatsShape /\ AllHonest /\ Growing /\ OneWriterIsLeft /\ now \in Nat /\ Day(now) \in Nat /\ todays \in [Checks -> Nat]
  BY DayGrows DEF StatsInv, StatsShape
\* The figures it starts with.
<1>3. \E d : /\ data' = d
             /\ IsFile(d) /\ d.date = Day(now) /\ d.top = Zero /\ DOMAIN d.checks \subseteq Checks /\ DOMAIN d.refused \subseteq Codes
             /\ file # NoFile => TopIsCovered(file)
             /\ file # NoFile /\ ~unread' => \A c \in Checks : InFile(file, c) <= Of(d, c).total
             /\ \A c \in Checks : TodayIn(d, c) <= todays[c]
  <2>1. CASE data' = Fresh(Day(now)) /\ (file = NoFile \/ unread' = TRUE)
    <3> DEFINE d == Fresh(Day(now))
    <3>1. /\ IsFile(d) /\ d.date = Day(now) /\ d.top = Zero /\ DOMAIN d.checks = {} /\ DOMAIN d.refused = {}
          /\ \A c : TodayIn(d, c) = 0
      BY <1>2, FreshShape
    <3> HIDE DEF d
    <3> QED
      BY <1>2, <2>1, <3>1 DEF d, Growing
  <2>2. CASE data' = Restored(file) /\ file # NoFile
    <3> DEFINE d == Restored(file)
    <3>1. IsFile(file) /\ Honest(file) /\ TopIsCovered(file)
      BY <1>2, <2>2 DEF StatsShape, AllHonest, Growing
    <3>2. /\ IsFile(d) /\ d.date = Day(now) /\ d.top = Zero /\ DOMAIN d.checks \subseteq Checks /\ DOMAIN d.refused \subseteq Codes
          /\ \A c \in Checks : TodayIn(d, c) = Of(d, c).today /\ Of(d, c).today = IF file.date = Day(now) THEN TodayIn(file, c) ELSE 0
          /\ \A c \in Checks : InFile(file, c) <= Of(d, c).total
      BY <1>2, <3>1, RestoredShape
    <3>3. data' = d
      BY <2>2
    <3> HIDE DEF d
    <3>4. \A c \in Checks : TodayIn(d, c) <= todays[c]
      BY <1>2, <3>1, <3>2 DEF Honest
    <3> QED
      BY <3>1, <3>2, <3>3, <3>4
  <2> QED
    BY <1>1, <2>1, <2>2, Zenon DEF Loads
<1>4. PICK d : /\ data' = d
               /\ IsFile(d) /\ d.date = Day(now) /\ d.top = Zero /\ DOMAIN d.checks \subseteq Checks /\ DOMAIN d.refused \subseteq Codes
               /\ file # NoFile => TopIsCovered(file)
               /\ file # NoFile /\ ~unread' => \A c \in Checks : InFile(file, c) <= Of(d, c).total
               /\ \A c \in Checks : TodayIn(d, c) <= todays[c]
  BY <1>3
<1>5. IsFile(data)' /\ Honest(data)'
  <2>1. IsFile(data)' <=> IsFile(d)
    BY <1>4, Zenon DEF IsFile, Figures
  <2>2. Honest(d)
    BY <1>2, <1>4 DEF Honest
  <2>3. Honest(data)' <=> Honest(d)
    BY <1>1, <1>4, Zenon DEF Honest, TodayIn, Of, Day, Zero
  <2> QED
    BY <1>4, <2>1, <2>2, <2>3
<1>6. /\ IsFile(published)' /\ Honest(published)' /\ IsFile(writing)' /\ Honest(writing)'
      /\ (file # NoFile => IsFile(file) /\ Honest(file))'
  BY <1>1, <1>2, Zenon DEF StatsShape, AllHonest, IsFile, Figures, Honest, TodayIn, Of, Day, Zero, NoFile
<1>7. StatsShape'
  <2>1. \A s \in DOMAIN reading' : reading'[s].day <= Day(now)'
    BY <1>1, <1>2, Zenon DEF StatsShape, Day
  <2>2. unread' \in BOOLEAN
    BY <1>1, Zenon DEF Loads
  <2> QED
    BY <1>1, <1>2, <1>4, <1>5, <1>6, <2>1, <2>2 DEF StatsShape, Zero
<1>8. Growing'
  <2>1. writer' # "saving"
    BY <1>1, <1>2 DEF Growing
  <2>2. /\ (file # NoFile)' <=> file # NoFile
        /\ TopIsCovered(file)' <=> TopIsCovered(file)
        /\ \A c : InFile(file, c)' = InFile(file, c) /\ Of(data, c)' = Of(d, c)
    BY <1>1, <1>4, Zenon DEF TopIsCovered, InFile, Of, Zero, NoFile
  <2> QED
    BY <1>4, <2>1, <2>2, Zenon DEF Growing
<1>9. OneWriterIsLeft'
  BY <1>1 DEF OneWriterIsLeft
<1> QED
  BY <1>5, <1>6, <1>7, <1>8, <1>9 DEF StatsInv, AllHonest

\* Time passes: at midnight what was of today is of a past day.
LEMMA TimePasses ==
  ASSUME StatsInv, Tick PROVE StatsInv'
<1> DEFINE later == now + 1
<1>1. /\ now' = later /\ todays' = (IF Day(later) = Day(now) THEN todays ELSE [c \in Checks |-> 0])
      /\ data' = data /\ phase' = phase /\ published' = published /\ publishedAt' = publishedAt /\ reading' = reading
      /\ writer' = writer /\ writing' = writing /\ file' = file /\ unread' = unread /\ clean' = clean
  BY DEF Tick, memory, disk
<1>2. StatsShape /\ AllHonest /\ Growing /\ OneWriterIsLeft /\ now \in Nat /\ Day(now) \in Nat /\ todays \in [Checks -> Nat]
  BY DayGrows DEF StatsInv, StatsShape
<1>3. later \in Nat /\ Day(later) \in Nat /\ Day(now) <= Day(later) /\ now <= later
  BY <1>2, DayGrows
<1> HIDE DEF later
<1>4. ASSUME NEW f, IsFile(f), Honest(f)
      PROVE  f.date <= Day(later) /\ (f.date = Day(later) => \A c \in Checks : TodayIn(f, c) <= todays'[c])
  <2>1. f.date \in Int
    BY <1>4 DEF IsFile
  <2>2. CASE Day(later) = Day(now)
    BY <1>1, <1>4, <2>2 DEF Honest
  <2>3. CASE Day(later) # Day(now)
    BY <1>2, <1>3, <1>4, <2>1, <2>3 DEF Honest
  <2> QED
    BY <2>2, <2>3
<1>5. /\ IsFile(data) /\ IsFile(published) /\ IsFile(writing) /\ (file # NoFile => IsFile(file))
      /\ Honest(data) /\ Honest(published) /\ Honest(writing) /\ (file # NoFile => Honest(file))
  BY <1>2 DEF StatsShape, AllHonest
<1>6. IsFile(data)' /\ IsFile(published)' /\ IsFile(writing)' /\ (file # NoFile => IsFile(file))'
  BY <1>1, <1>5, Zenon DEF IsFile, NoFile, Figures
<1>7. AllHonest'
  <2>2. /\ data.date <= Day(now)' /\ (data.date = Day(now)' => \A c \in Checks : TodayIn(data, c)' <= todays'[c])
        /\ published.date <= Day(now)' /\ (published.date = Day(now)' => \A c \in Checks : TodayIn(published, c)' <= todays'[c])
        /\ writing.date <= Day(now)' /\ (writing.date = Day(now)' => \A c \in Checks : TodayIn(writing, c)' <= todays'[c])
        /\ file # NoFile =>
             file.date <= Day(now)' /\ (file.date = Day(now)' => \A c \in Checks : TodayIn(file, c)' <= todays'[c])
    <3> DEFINE P(f) == f.date <= Day(later) /\ (f.date = Day(later) => \A c \in Checks : TodayIn(f, c) <= todays'[c])
    <3>2. P(data) /\ P(published) /\ P(writing) /\ (file # NoFile => P(file))
      BY <1>4, <1>5
    <3>3. Day(now)' = Day(later)
      BY <1>1, Zenon DEF Day
    <3>4. \A c : /\ TodayIn(data, c)' = TodayIn(data, c) /\ TodayIn(published, c)' = TodayIn(published, c)
                 /\ TodayIn(writing, c)' = TodayIn(writing, c) /\ TodayIn(file, c)' = TodayIn(file, c)
      BY <1>1, Zenon DEF TodayIn, Of, Zero
    <3> QED
      BY <1>1, <3>2, <3>3, <3>4
  <2>3. (file # NoFile)' <=> file # NoFile
    BY <1>1, Zenon DEF NoFile
  <2> QED
    BY <1>1, <2>2, <2>3, Zenon DEF AllHonest, Honest
<1>8. StatsShape'
  <2>1. \A s \in DOMAIN reading' : reading'[s].day <= Day(now)'
    <3>1. \A s \in DOMAIN reading : reading[s].day <= Day(now) /\ reading[s].day \in Int
      BY <1>2 DEF StatsShape, Readings, Never
    <3>2. Day(now)' = Day(later)
      BY <1>1, Zenon DEF Day
    <3>3. \A s \in DOMAIN reading : reading[s].day <= Day(later)
      BY <1>2, <1>3, <3>1
    <3> QED
      BY <1>1, <3>2, <3>3
  <2>2. publishedAt' \in -1 .. now' /\ now' \in Nat /\ todays' \in [Checks -> Nat]
    BY <1>1, <1>2, <1>3 DEF StatsShape
  <2> QED
    BY <1>1, <1>2, <1>6, <2>1, <2>2 DEF StatsShape, Zero
<1>9. Growing'
  BY <1>1, <1>2, Zenon DEF Growing, TopIsCovered, InFile, Of, Zero, NoFile
<1>10. OneWriterIsLeft'
  BY <1>1, <1>2, Zenon DEF OneWriterIsLeft, Of, Zero, NoFile
<1> QED
  BY <1>7, <1>8, <1>9, <1>10 DEF StatsInv

LEMMA NothingKeeps ==
  ASSUME StatsInv, UNCHANGED statsVars PROVE StatsInv'
<1>1. /\ FiguresStand /\ phase' = phase /\ publishedAt' = publishedAt /\ reading' = reading /\ writer' = writer /\ clean' = clean
      /\ now' = now /\ data' = data /\ file' = file /\ unread' = unread /\ todays' = todays
  BY DEF statsVars, FiguresStand
<1>2. /\ AllHonest' /\ Growing'
      /\ IsFile(data)' /\ IsFile(published)' /\ IsFile(writing)' /\ (file # NoFile => IsFile(file))'
  BY <1>1, StandingKeeps
<1>3. StatsShape'
  <2>1. \A s \in DOMAIN reading' : reading'[s].day <= Day(now)'
    BY <1>1, Zenon DEF StatsInv, StatsShape, Day
  <2> QED
    BY <1>1, <1>2, <2>1 DEF StatsInv, StatsShape, Zero
<1>4. OneWriterIsLeft'
  BY <1>1, Zenon DEF StatsInv, OneWriterIsLeft, Of, Zero, NoFile
<1> QED
  BY <1>2, <1>3, <1>4 DEF StatsInv

LEMMA StatsStepKeeps ==
  ASSUME StatsInv, [StatsNext]_statsVars PROVE StatsInv'
<1>1. CASE \E s \in Scans : (\E c \in Recorded : Scan(s, c)) \/ ReadToday(s)
  BY <1>1, StandingStepsKeep
<1>2. CASE \E s \in Scans : Record(s)
  BY <1>2, RecordKeeps
<1>3. CASE \E s \in Scans : \E code \in Codes : Refuse(s, code)
  BY <1>3, RefuseKeeps
<1>4. CASE Publish
  BY <1>4, PublishKeeps
<1>5. CASE PersistTick
  BY <1>5, PersistTickKeeps
<1>6. CASE Signal \/ PersistReturns \/ ShutdownReturns \/ BeginLastWrite
  BY <1>6, StandingStepsKeep
<1>7. CASE Save
  BY <1>7, SaveKeeps
<1>8. CASE LastWrite
  BY <1>8, LastWriteKeeps
<1>9. CASE Exit
  BY <1>9, GoneKeeps DEF Exit, StatsInv, StatsShape
<1>10. CASE Killed
  BY <1>10, GoneKeeps DEF Killed, Serving
<1>11. CASE Start
  BY <1>11, StartKeeps
<1>12. CASE Tick
  BY <1>12, TimePasses
<1>13. CASE UNCHANGED statsVars
  BY <1>13, NothingKeeps
<1> QED
  BY <1>1, <1>2, <1>3, <1>4, <1>5, <1>6, <1>7, <1>8, <1>9, <1>10, <1>11, <1>12, <1>13 DEF StatsNext, Finishing

LEMMA StatsInvHolds == StatsSpec => []StatsInv
<1> QED
  BY InitiallyStatsInv, StatsStepKeeps, PTL DEF StatsSpec

\* The counters have the shape they are used with, and are never of a day to come.
THEOREM StatsTypeCorrect == StatsSpec => []StatsTypeOK
<1>1. StatsInv => StatsTypeOK
  <2> SUFFICES ASSUME StatsInv PROVE StatsTypeOK
    OBVIOUS
  <2>1. data.date \in 0 .. Day(now)
    BY DayGrows DEF StatsInv, StatsShape, AllHonest, Honest
  <2> QED
    BY <2>1 DEF StatsInv, StatsShape, StatsTypeOK
<1> QED
  BY <1>1, StatsInvHolds, PTL

\* "This makes the last write exact", and "the one thing a figure named today must not do",
\* for any checks, scans, days and files an earlier process may have left.
THEOREM FiguresSurvive == StatsSpec => []FiguresAreKept
<1>1. StatsInv => FiguresAreKept
  <2> SUFFICES ASSUME StatsInv PROVE FiguresAreKept
    OBVIOUS
  <2>1. phase = "stopped" /\ clean =>
          /\ file # NoFile
          /\ \A c \in Checks : Of(file, c).total = Of(data, c).total
          /\ file.refused = data.refused
    BY DEF StatsInv, OneWriterIsLeft
  <2>2. /\ Honest(Snapshot) /\ (published # NoFile => Honest(published)) /\ (file # NoFile => Honest(file))
        /\ IsFile(Snapshot) /\ IsFile(published) /\ (file # NoFile => IsFile(file))
    BY SnapshotShape DEF StatsInv, AllHonest, StatsShape
  <2>3. \A f \in {Snapshot, published, file} \ {NoFile} : Honest(f) /\ IsFile(f)
    BY <2>2
  <2>4. ASSUME NEW f \in {Snapshot, published, file} \ {NoFile}, f.date = Day(now), NEW c \in Checks
        PROVE  Of(f, c).today <= todays[c]
    <3>1. TodayIn(f, c) <= todays[c] /\ IsFile(f)
      BY <2>3, <2>4 DEF Honest
    <3>2. TodayIn(f, c) = Of(f, c).today \/ (Of(f, c).today = 0 /\ todays[c] \in Nat)
      BY DEF TodayIn, Of, Zero, StatsInv, StatsShape
    <3> QED
      BY <3>1, <3>2
  <2> QED
    BY <2>1, <2>4 DEF FiguresAreKept
<1> QED
  BY <1>1, StatsInvHolds, PTL

\* One writer at a time: no write leaves a smaller total in the file than was there, but
\* for the first one of a process that could not read it.
THEOREM FileOnlyGrows == StatsSpec => FileNeverGoesBack
<1> DEFINE Grows == file # NoFile /\ file' # NoFile /\ ~unread => \A c \in Checks : InFile(file', c) >= InFile(file, c)
<1>1. ASSUME StatsInv, StatsInv', [StatsNext]_statsVars PROVE Grows
  <2>1. CASE Save \/ LastWrite
    <3>1. file # NoFile /\ ~unread => \A c \in Checks : InFile(file, c) <= InFile(file', c)
      BY <1>1, <2>1, SaveKeeps, LastWriteKeeps
    <3> QED
      BY <3>1
  <2>2. CASE file' = file
    <3>1. file # NoFile => \A c \in Checks : InFile(file, c) \in Nat
      BY <1>1, OfShape DEF StatsInv, StatsShape, IsFile, Figures, InFile
    <3> QED
      BY <2>2, <3>1
  <2>3. Save \/ LastWrite \/ file' = file
    BY <1>1 DEF StatsNext, Finishing, statsVars, Scan, ReadToday, Record, Refuse, Publish, PersistTick, Signal, PersistReturns,
       ShutdownReturns, BeginLastWrite, Exit, Killed, Gone, Start, Tick, disk
  <2> QED
    BY <2>1, <2>2, <2>3
<1>2. ASSUME StatsInv, StatsInv', [StatsNext]_statsVars PROVE [Grows]_statsVars
  BY <1>1, <1>2
<1> QED
  BY <1>2, StatsInvHolds, PTL DEF StatsSpec, FileNeverGoesBack

(***************************************************************************)
(* The two together, as a running service keeps them.                      *)
(***************************************************************************)

LEMMA EachPartOfADaemon == Spec => StatsSpec /\ CertificateInit /\ [][CertificateNext]_certVars
<1>1. Init => StatsInit /\ CertificateInit
  BY DEF Init
<1>2. [Next]_<<statsVars, certVars, part>> => [StatsNext]_statsVars /\ [CertificateNext]_certVars
  BY DEF Next
<1> QED
  BY <1>1, <1>2, PTL DEF Spec, StatsSpec

\* The counters, their file and the certificate have the shape they are used with.
THEOREM DaemonTypeCorrect == Spec => []TypeOK
<1>1. StatsTypeOK /\ CertificateTypeOK => TypeOK
  BY DEF TypeOK
<1>2. CertificateInv => CertificateTypeOK
  BY DEF CertificateInv
<1> QED
  BY <1>1, <1>2, EachPartOfADaemon, StatsTypeCorrect, InitiallyCertificateInv, StepKeepsCertificateInv, PTL
=============================================================================
