------------------------------ MODULE Verdicts ------------------------------
(***************************************************************************)
(* The verdicts of policy.go, which every check grades with.               *)
(***************************************************************************)
EXTENDS Integers, FiniteSetsExt

\* policy.Verdict, in the order of Rank.
Ungraded == -1
Strong == 0
Weak == 1
Insecure == 2
Verdict == Ungraded .. Insecure

\* The most severe, passing over Ungraded; of nothing, or of nothing but
\* Ungraded, Ungraded.
Worst(verdicts) == Max(verdicts \cup {Ungraded})
=============================================================================
