------------------------------ MODULE MCHistory ------------------------------
(***************************************************************************)
(* History for TLC: a service of two goroutines and a command that writes  *)
(* to the same history. No symmetry, since PutEnds is a liveness property. *)
(***************************************************************************)
EXTENDS History

CONSTANTS daemon, command, other, d1, d2, c1, o1

MCProc == [w \in Writers |-> IF w \in {d1, d2} THEN daemon
                             ELSE IF w = c1 THEN command ELSE other]
MCKeep == [p \in Procs |-> IF p = daemon THEN 2 ELSE 1]
=============================================================================
