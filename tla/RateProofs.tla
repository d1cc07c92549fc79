----------------------------- MODULE RateProofs -----------------------------
(***************************************************************************)
(* The contract of module RateContract keeps the bound it is there for,    *)
(* whatever the keys, the allowances and the size of the table.            *)
(*                                                                         *)
(* WithinAllowance is not inductive: it does not say how what a key spent  *)
(* and what it still owes are related. The inductive invariant adds that   *)
(* no key owes more than its allowance (Solvent), and that the time it     *)
(* will be whole again accounts for everything it spent in the window      *)
(* (Accounted).                                                            *)
(***************************************************************************)
EXTENDS RateContract, TLAPS

Solvent == \A k \in Keys : full[k] <= clock + Cap[k]
Accounted == \A k \in Watched : mark + spent[k] <= Later(full[k], clock)

ContractInv ==
  /\ ContractTypeOK
  /\ mark <= clock
  /\ Solvent
  /\ Accounted

\* Forgetting keys early or on time, the part Forget, Admit and Refuse share
\* (sweepLocked, makeRoomLocked): nobody comes to owe more, and whatever is left
\* of an account is still accounted for.
LEMMA ForgettingIsSafe ==
  ASSUME ContractAssumption, ContractInv, NEW F \in SUBSET Keys
  PROVE  /\ After(F) \in [Keys -> Nat]
         /\ Account(F) \in [Watched -> Nat]
         /\ \A k \in Keys : After(F)[k] <= clock + Cap[k]
         /\ \A k \in Watched : mark + Account(F)[k] <= Later(After(F)[k], clock)
<1>1. After(F) \in [Keys -> Nat]
  BY DEF After, ContractInv, ContractTypeOK
<1>2. Account(F) \in [Watched -> Nat]
  BY DEF Account, ContractInv, ContractTypeOK
<1>3. \A k \in Keys : After(F)[k] <= clock + Cap[k]
  BY DEF After, ContractInv, ContractTypeOK, Solvent, ContractAssumption
<1>4. ASSUME NEW k \in Watched
      PROVE  mark + Account(F)[k] <= Later(After(F)[k], clock)
  <2>1. /\ k \in Keys /\ full[k] \in Nat /\ spent[k] \in Nat
        /\ clock \in Nat /\ mark \in Nat /\ mark <= clock
        /\ mark + spent[k] <= Later(full[k], clock)
    BY DEF ContractInv, ContractTypeOK, Accounted, ContractAssumption
  <2>2. Account(F)[k] = IF k \in F /\ full[k] > clock THEN 0 ELSE spent[k]
    BY DEF Account
  <2>3. After(F)[k] = IF k \in F THEN 0 ELSE full[k]
    BY <2>1 DEF After
  <2> QED
    BY <2>1, <2>2, <2>3 DEF Later
<1> QED
  BY <1>1, <1>2, <1>3, <1>4

LEMMA InitiallyContractInv ==
  ASSUME ContractAssumption
  PROVE  ContractInit => ContractInv
BY DEF ContractAssumption, ContractInit, ContractInv, ContractTypeOK, Solvent,
       Accounted, Later, Answers

\* A step keeps the invariant: time that passes only settles debts, and an
\* admitted call moves both sides of Accounted by its cost.
LEMMA StepKeepsContractInv ==
  ASSUME ContractAssumption, ContractInv, [ContractNext]_contractVars
  PROVE  ContractInv'
<1> USE DEF ContractAssumption
<1>0. /\ clock \in Nat /\ mark \in Nat /\ mark <= clock
      /\ full \in [Keys -> Nat] /\ spent \in [Watched -> Nat] /\ answer \in Answers
      /\ \A k \in Keys : full[k] <= clock + Cap[k]
      /\ \A k \in Watched : mark + spent[k] <= Later(full[k], clock)
  BY DEF ContractInv, ContractTypeOK, Solvent, Accounted
<1>1. CASE Pass
  BY <1>0, <1>1 DEF Pass, ContractInv, ContractTypeOK, Solvent, Accounted, Later, Answers
<1>2. CASE Mark
  BY <1>0, <1>2 DEF Mark, ContractInv, ContractTypeOK, Solvent, Accounted, Later, Answers
<1>3. ASSUME NEW F \in SUBSET Keys, Forget(F)
      PROVE  ContractInv'
  <2>1. /\ clock' = clock /\ mark' = mark /\ answer' = NoAnswer
        /\ full' = After(F) /\ spent' = Account(F)
    BY <1>3 DEF Forget
  <2> QED
    BY <1>0, <2>1, ForgettingIsSafe
    DEF ContractInv, ContractTypeOK, Solvent, Accounted, Later, Answers
<1>4. ASSUME NEW F \in SUBSET Keys, NEW k \in Keys, Refuse(F, k)
      PROVE  ContractInv'
  <2>1. /\ clock' = clock /\ mark' = mark /\ answer' = [key |-> k, ok |-> FALSE]
        /\ full' = After(F) /\ spent' = Account(F)
    BY <1>4 DEF Refuse
  <2> QED
    BY <1>0, <2>1, ForgettingIsSafe
    DEF ContractInv, ContractTypeOK, Solvent, Accounted, Later, Answers
<1>5. ASSUME NEW F \in SUBSET Keys, NEW k \in Keys, Admit(F, k)
      PROVE  ContractInv'
  <2>1. /\ clock' = clock /\ mark' = mark /\ answer' = [key |-> k, ok |-> TRUE]
        /\ Charged(After(F), k) <= clock + Cap[k]
        /\ full' = [After(F) EXCEPT ![k] = Charged(After(F), k)]
        /\ spent' = [x \in Watched |-> Account(F)[x] + (IF x = k THEN Cost ELSE 0)]
    BY <1>5 DEF Admit
  <2>2. /\ After(F) \in [Keys -> Nat]
        /\ Account(F) \in [Watched -> Nat]
        /\ \A x \in Keys : After(F)[x] <= clock + Cap[x]
        /\ \A x \in Watched : mark + Account(F)[x] <= Later(After(F)[x], clock)
    BY ForgettingIsSafe
  <2>3. Charged(After(F), k) \in Nat /\ Charged(After(F), k) = Later(After(F)[k], clock) + Cost
    BY <1>0, <2>2 DEF Charged, Later
  <2>4. ContractTypeOK'
    BY <1>0, <2>1, <2>2, <2>3 DEF ContractTypeOK, Answers
  <2>5. Solvent'
    BY <1>0, <2>1, <2>2, <2>3 DEF Solvent
  <2>6. Accounted'
    <3> SUFFICES ASSUME NEW x \in Watched
                 PROVE  mark + spent'[x] <= Later(full'[x], clock)
      BY <2>1 DEF Accounted
    <3>1. CASE x = k
      <4>1. spent'[x] = Account(F)[k] + Cost /\ full'[x] = Later(After(F)[k], clock) + Cost
        BY <2>1, <2>2, <2>3, <3>1
      <4>2. mark + Account(F)[k] <= Later(After(F)[k], clock)
        BY <2>2, <3>1
      <4> QED
        BY <1>0, <2>2, <3>1, <4>1, <4>2 DEF Later
    <3>2. CASE x # k
      <4>1. spent'[x] = Account(F)[x] /\ full'[x] = After(F)[x]
        BY <2>1, <2>2, <3>2
      <4> QED
        BY <2>2, <4>1
    <3> QED
      BY <3>1, <3>2
  <2> QED
    BY <1>0, <2>1, <2>4, <2>5, <2>6 DEF ContractInv
<1>6. CASE UNCHANGED contractVars
  BY <1>0, <1>6 DEF contractVars, ContractInv, ContractTypeOK, Solvent, Accounted
<1> QED
  BY <1>1, <1>2, <1>3, <1>4, <1>5, <1>6 DEF ContractNext

\* The types of the contract's variables: no clock, debt or account is ever
\* negative.
THEOREM ContractTypeCorrect ==
  ASSUME ContractAssumption
  PROVE  ContractSpec => []ContractTypeOK
<1>1. ContractInv => ContractTypeOK
  BY DEF ContractInv
<1> QED
  BY <1>1, InitiallyContractInv, StepKeepsContractInv, PTL DEF ContractSpec

\* What the target limiter says of itself (targetlimit.go), for any number of
\* keys, any allowances and a table of any size that forgets as the contract
\* permits: in any window a key is admitted no more than its allowance and what
\* the window earned it.
THEOREM WithinAllowanceHolds ==
  ASSUME ContractAssumption
  PROVE  ContractSpec => []WithinAllowance
<1>1. ContractInv => WithinAllowance
  <2> SUFFICES ASSUME ContractInv, NEW k \in Watched
               PROVE  spent[k] <= Cap[k] + (clock - mark)
    BY DEF WithinAllowance
  <2>1. /\ k \in Keys /\ full[k] \in Nat /\ spent[k] \in Nat /\ Cap[k] \in Nat
        /\ clock \in Nat /\ mark \in Nat /\ mark <= clock
        /\ mark + spent[k] <= Later(full[k], clock)
        /\ full[k] <= clock + Cap[k]
    BY DEF ContractInv, ContractTypeOK, Accounted, Solvent, ContractAssumption
  <2> QED
    BY <2>1 DEF Later
<1> QED
  BY <1>1, InitiallyContractInv, StepKeepsContractInv, PTL DEF ContractSpec
=============================================================================
