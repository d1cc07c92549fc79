------------------------------ MODULE MCService ------------------------------
(***************************************************************************)
(* Service for TLC. Requests that pass, that fail one guard, and one that  *)
(* fails two of which the earlier must answer.                             *)
(***************************************************************************)
EXTENDS Service

MCRequests ==
  [check : {"tls"},
   wrong : {{}, {"cross_site", "excluded"}, {"not_demonstrated"}, {"unproven"}, {"blocked"}}]
  \cup [check : {Verify}, wrong : {{}}]
  \cup [check : {Read}, wrong : {{}}]
=============================================================================
