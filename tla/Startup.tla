------------------------------ MODULE Startup ------------------------------
(***************************************************************************)
(* What porchd does before it serves (cmd/porchd/main.go, run): which flags *)
(* it answers, which it refuses and after what, the secret it makes, and    *)
(* what it says of its own reach. It may stop between any two steps; the    *)
(* operator may change the secret, and start it again with other flags.     *)
(* Making the access file is Installation; serving and stopping are Service *)
(* and Stats.                                                               *)
(***************************************************************************)
EXTENDS Integers

CONSTANTS
  FlagSets,   \* the command lines that are tried
  MaxStarts   \* bound: how often it is started

\* `ask' is what it is started for: to serve, or to answer -version or
\* -verification-token. A resolver or a name for EHLO is in order or not; an address
\* is loopback, beyond it, or none at all.
FlagKinds ==
  [ask : {"serve", "version", "token"}, resolver : BOOLEAN, helo : BOOLEAN, secretFile : BOOLEAN, signed : BOOLEAN,
   open : BOOLEAN, accessFile : BOOLEAN, withoutPassword : BOOLEAN, resultsDir : BOOLEAN,
   listen : {"loopback", "beyond", "unusable"}, pair : {"none", "half", "both"}]

ASSUME StartupAssumption == FlagSets \subseteq FlagKinds /\ FlagSets # {} /\ MaxStarts \in Nat

VARIABLES
  demo,      \* demo.Enabled: which of the two builds it is
  flags,     \* of the process that runs, or ran last
  starting,  \* where run is
  scope,     \* the proof it asks for, once it was read
  secret,    \* the file of the secret
  protected, \* the access file is there
  said,      \* what -version said, and of which flags
  starts     \* how often it was started

startupVars == <<demo, flags, starting, scope, secret, protected, said, starts>>

StartupTypeOK ==
  /\ demo \in BOOLEAN /\ flags \in FlagSets
  /\ starting \in {"down", "begin", "access", "rules", "question", "store", "certificate", "listen", "serving"}
  /\ scope \in {"none", "proof", "signed proof"}
  /\ secret \in {"absent", "short", "whole"}
  /\ protected \in BOOLEAN
  /\ starts \in 0..MaxStarts

StartupInit ==
  /\ demo \in BOOLEAN
  /\ flags = CHOOSE f \in FlagSets : TRUE
  /\ starting = "down"
  /\ scope = "none"
  /\ secret \in {"absent", "short", "whole"}
  /\ protected \in BOOLEAN
  /\ said = {}
  /\ starts = 0

\* A return from run, whatever its code; or the next thing it does.
Return == starting' = "down" /\ scope' = "none"
GoOn(to) == starting' = to /\ UNCHANGED scope

\* verificationScope: a secret that is not there or too short is an error, and
\* never no secret.
ReadScope ==
  CASE ~flags.secretFile -> "none" [] flags.secretFile /\ secret = "whole" -> "proof" [] OTHER -> "error"

\* reach
Reach(scoped) == IF demo THEN "the list" ELSE IF scoped THEN "what was proven" ELSE "anything"

\* resolverAddress, for whatever it is started.
Started ==
  /\ starting = "down" /\ starts < MaxStarts
  /\ flags' \in FlagSets
  /\ starts' = starts + 1
  /\ IF flags'.resolver THEN GoOn("begin") ELSE Return
  /\ UNCHANGED <<demo, secret, protected, said>>

\* -version: a question, which writes nothing.
Version ==
  /\ starting = "begin" /\ flags.ask = "version"
  /\ Return
  /\ said' = IF flags.helo /\ ReadScope # "error"
             THEN said \cup {<<[flags EXCEPT !.ask = "serve"], Reach(ReadScope = "proof")>>} ELSE said
  /\ UNCHANGED <<demo, flags, secret, protected, starts>>

\* createSecret: made if nothing is there, and left alone whatever it holds. One
\* that could not be written stays as it is.
CreateSecret ==
  /\ starting = "begin" /\ flags.ask # "version"
  /\ IF flags.secretFile /\ secret = "absent"
     THEN \/ secret' = "whole" /\ GoOn("access")
          \/ secret' \in {"absent", "short"} /\ Return
     ELSE UNCHANGED secret /\ GoOn("access")
  /\ UNCHANGED <<demo, flags, protected, said, starts>>

\* createAccess, but never on the demonstration.
CreateAccess ==
  /\ starting = "access"
  /\ \/ ~flags.accessFile /\ GoOn("rules") /\ UNCHANGED protected
     \/ flags.accessFile /\ Return /\ UNCHANGED protected
     \/ flags.accessFile /\ ~demo /\ protected' = TRUE /\ GoOn("rules")
  /\ UNCHANGED <<demo, flags, secret, said, starts>>

\* openAllowed and passwordAllowed: beyond loopback only with proof, and a password,
\* or what says out loud that there is none. An address that cannot be read is left
\* to the listener. (Fault: an access file stands for the proof.)
OpenAllowedBehindPassword(scoped) == scoped \/ demo \/ flags.open \/ flags.accessFile \/ flags.listen # "beyond"
OpenAllowed(scoped) == scoped \/ demo \/ flags.open \/ flags.listen # "beyond"
PasswordAllowed == flags.accessFile \/ demo \/ flags.withoutPassword \/ flags.listen # "beyond"
Rules ==
  /\ starting = "rules"
  /\ IF /\ ReadScope # "error"
        /\ flags.signed => ReadScope = "proof"
        /\ OpenAllowed(ReadScope = "proof")
        /\ PasswordAllowed
        /\ ~(flags.accessFile /\ flags.resultsDir)
     THEN /\ starting' = "question"
          /\ scope' = IF flags.signed THEN "signed proof" ELSE ReadScope
     ELSE Return
  /\ UNCHANGED <<demo, flags, secret, protected, said, starts>>

\* -verification-token
Question ==
  /\ starting = "question"
  /\ IF flags.ask = "token" THEN Return ELSE GoOn("store")
  /\ UNCHANGED <<demo, flags, secret, protected, said, starts>>

\* trustStoreUsable, and the pair of flags for the certificate; the counters are
\* read here, and a file that cannot be is passed over.
Store ==
  /\ starting = "store"
  /\ \/ Return
     \/ flags.pair # "half" /\ GoOn(IF flags.pair = "both" THEN "certificate" ELSE "listen")
  /\ UNCHANGED <<demo, flags, secret, protected, said, starts>>

\* newCertReloader; net.Listen.
LoadCertificate ==
  /\ starting = "certificate"
  /\ Return \/ GoOn("listen")
  /\ UNCHANGED <<demo, flags, secret, protected, said, starts>>
Listen ==
  /\ starting = "listen"
  /\ Return \/ (flags.listen # "unusable" /\ GoOn("serving"))
  /\ UNCHANGED <<demo, flags, secret, protected, said, starts>>

\* It stops serving, or is killed wherever it is; while it writes the secret, too.
Stopped ==
  /\ starting # "down"
  /\ Return
  /\ secret' \in {secret} \cup IF starting = "begin" /\ flags.ask # "version" /\ flags.secretFile /\ secret = "absent"
                               THEN {"short", "whole"} ELSE {}
  /\ UNCHANGED <<demo, flags, protected, said, starts>>

\* The operator, between two starts or under a service that runs.
ChangeSecret ==
  /\ starting \in {"down", "serving"}
  /\ secret' \in {"absent", "short", "whole"}
  /\ UNCHANGED <<demo, flags, starting, scope, protected, said, starts>>
MoveAccess ==
  /\ starting \in {"down", "serving"} /\ protected
  /\ protected' = FALSE
  /\ UNCHANGED <<demo, flags, starting, scope, secret, said, starts>>

StartupNext ==
  \/ Started \/ Version \/ CreateSecret \/ CreateAccess \/ Rules \/ Question \/ Store \/ LoadCertificate \/ Listen
  \/ Stopped \/ ChangeSecret \/ MoveAccess

StartupSpec == StartupInit /\ [][StartupNext]_startupVars
-----------------------------------------------------------------------------

\* A service that was asked to require proof requires it ("starting one that admits
\* everything ... the failure mode this whole boundary exists to prevent"), through
\* every secret that was cut short, refused or made anew; beyond loopback it asks for
\* proof and a password, or was told not to; and it reaches what -version said that
\* this deployment reaches.
ServesAsItWasTold ==
  starting = "serving" =>
    /\ flags.secretFile => scope # "none"
    /\ flags.signed => scope = "signed proof"
    /\ flags.listen = "beyond" =>
         /\ scope # "none" \/ demo \/ flags.open
         /\ flags.accessFile \/ demo \/ flags.withoutPassword
    /\ demo => ~flags.accessFile
    /\ \A s \in said : s[1] = flags => s[2] = Reach(scope # "none")
=============================================================================
