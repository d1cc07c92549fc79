----------------------------- MODULE MCConsole -----------------------------
(***************************************************************************)
(* What porchd does before it serves, who is let into an installation behind  *)
(* a password, and what it keeps on disk, for TLC. They share no state, so a  *)
(* behaviour here is a behaviour of one of them, chosen at the start.         *)
(* Handlers, passwords, tokens and keys are compared for equality alone, and  *)
(* only by the gate, so they are symmetric.                                   *)
(***************************************************************************)
EXTENDS Gate, Installation, Startup, TLC

CONSTANT Parts

VARIABLE part

Symmetry == Permutations(Handlers) \cup Permutations(Passwords)
              \cup Permutations(Tokens) \cup Permutations(Keys)

\* A command line in order, each that is wrong in one thing, and every way of saying
\* what is asked, proven and protected.
InOrder ==
  [ask |-> "serve", resolver |-> TRUE, helo |-> TRUE, secretFile |-> TRUE, signed |-> FALSE, open |-> FALSE,
   accessFile |-> TRUE, withoutPassword |-> FALSE, resultsDir |-> FALSE, listen |-> "beyond", pair |-> "both"]
MCFlagSets ==
  {f \in FlagKinds : /\ f.resolver /\ f.helo /\ f.ask # "token" /\ ~f.resultsDir
                     /\ f.pair = "none" /\ f.listen # "unusable"}
  \cup {InOrder, [InOrder EXCEPT !.resolver = FALSE], [InOrder EXCEPT !.ask = "version", !.helo = FALSE],
        [InOrder EXCEPT !.pair = "half"], [InOrder EXCEPT !.resultsDir = TRUE],
        [InOrder EXCEPT !.listen = "unusable"], [InOrder EXCEPT !.ask = "token"]}

IsGate == part = "gate"
IsInstallation == part = "installation"
IsStartup == part = "startup"

ConsoleInit ==
  /\ part \in Parts
  /\ Init
  /\ InstallationInit
  /\ ~IsStartup => demo = FALSE /\ secret = "absent" /\ protected = FALSE
  /\ StartupInit

ConsoleNext ==
  /\ \/ IsGate /\ Next /\ UNCHANGED <<installationVars, startupVars>>
     \/ IsInstallation /\ InstallationNext /\ UNCHANGED <<vars, startupVars>>
     \/ IsStartup /\ StartupNext /\ UNCHANGED <<vars, installationVars>>
  /\ UNCHANGED part

ConsoleSpec == ConsoleInit /\ [][ConsoleNext]_<<vars, installationVars, startupVars, part>>

ConsoleTypeOK == GateTypeOK /\ InstallationTypeOK /\ StartupTypeOK
=============================================================================
