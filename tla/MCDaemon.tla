------------------------------ MODULE MCDaemon ------------------------------
(***************************************************************************)
(* What a running service keeps besides its requests, for TLC: the counters*)
(* and their file, and the certificate. They share no state, so a behaviour*)
(* here is a behaviour of one of them, chosen at the start.                *)
(***************************************************************************)
EXTENDS Stats, Certificate

CONSTANTS Parts, odd

VARIABLE part

\* The files the counters may be found in: none, one of an earlier build that
\* had only the fields at the top, and one of this build, of the day before or of
\* the current day, with a key this build would never write.
Left(date) ==
  [checks  |-> [c \in Checks \cup {odd} |-> [total |-> 1, today |-> 1]],
   top     |-> [total |-> 1, today |-> 1],
   refused |-> [c \in {odd} |-> 1],
   date    |-> date]
MCFirstFiles == {NoFile, Left(0), [Left(-1) EXCEPT !.checks = NoChecks], Left(-1)}

IsStats == part = "stats"
IsCertificate == part = "certificate"

Init ==
  /\ part \in Parts
  /\ ~IsStats => file = NoFile
  /\ StatsInit /\ CertificateInit

Next ==
  /\ \/ IsStats /\ StatsNext /\ UNCHANGED certVars
     \/ IsCertificate /\ CertificateNext /\ UNCHANGED statsVars
  /\ UNCHANGED part

\* The fairness of each, for the part that is looked at.
Fairness ==
  /\ WF_statsVars(IsStats /\ Save)
  /\ SF_statsVars(IsStats /\ PersistReturns)
  /\ WF_statsVars(IsStats /\ Finishing)
  /\ WF_certVars(IsCertificate /\ IntervalPasses)
  /\ WF_certVars(IsCertificate /\ \E h \in Handshakes : Get(h))
  /\ \A h \in Handshakes : WF_certVars(IsCertificate /\ Reload(h))

Spec == Init /\ [][Next]_<<statsVars, certVars, part>> /\ Fairness

TypeOK == StatsTypeOK /\ CertificateTypeOK
=============================================================================
