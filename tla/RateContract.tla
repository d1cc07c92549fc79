---------------------------- MODULE RateContract ----------------------------
(***************************************************************************)
(* What a table of token buckets promises, whatever it remembers.          *)
(*                                                                         *)
(* full[k] is the time at which key k will again have its whole allowance; *)
(* a time that has passed says nothing about k, so a key may be forgotten  *)
(* once its time has come. A call for k is admitted exactly when, charged  *)
(* at Cost, k is whole again within Cap of now. Being forgotten early is   *)
(* possible only when MaxKeys keys are remembered: the price of a bounded  *)
(* table. spent[k] counts what a watched k was admitted since the time     *)
(* mark, in an account that ends when k is forgotten early.                *)
(***************************************************************************)
EXTENDS Integers, FiniteSets

CONSTANTS
  Keys,     \* clients, or scanned hosts
  Cost,     \* ticks it takes to earn one call back
  Cap,      \* Cap[k]: ticks it takes k to earn its whole allowance
  MaxKeys,  \* how many keys may be remembered at once
  Watched   \* the keys whose spending is counted

\* What the theorems about the contract assume of its constants.
ContractAssumption ==
  /\ Cost \in Nat \ {0}
  /\ Cap \in [Keys -> Nat]
  /\ MaxKeys \in Nat \ {0}
  /\ Watched \subseteq Keys

VARIABLES clock, full, answer, mark, spent

contractVars == <<clock, full, answer, mark, spent>>

NoAnswer == [ok |-> "none"]
Answers == {NoAnswer} \cup [key : Keys, ok : BOOLEAN]

Later(a, b) == IF a < b THEN b ELSE a
Remembered == {k \in Keys : full[k] # 0}

ContractTypeOK ==
  /\ clock \in Nat
  /\ full \in [Keys -> Nat]
  /\ answer \in Answers
  /\ mark \in Nat
  /\ spent \in [Watched -> Nat]

ContractInit ==
  /\ clock = 0
  /\ full = [k \in Keys |-> 0]
  /\ answer = NoAnswer
  /\ mark = 0
  /\ spent = [k \in Watched |-> 0]

\* Forgetting the keys of F: those whose time has come lose nothing; others
\* only in a full table, and their account starts anew.
MayForget(F) ==
  \/ \A k \in F : full[k] <= clock
  \/ Cardinality(Remembered) >= MaxKeys
After(F) == [k \in Keys |-> IF k \in F THEN 0 ELSE full[k]]
Account(F) == [k \in Watched |-> IF k \in F /\ full[k] > clock THEN 0 ELSE spent[k]]

Charged(f, k) == Later(f[k], clock) + Cost

Pass ==
  /\ clock' = clock + 1
  /\ answer' = NoAnswer
  /\ UNCHANGED <<full, mark, spent>>

Forget(F) ==
  /\ MayForget(F)
  /\ full' = After(F)
  /\ spent' = Account(F)
  /\ answer' = NoAnswer
  /\ UNCHANGED <<clock, mark>>

Admit(F, k) ==
  /\ MayForget(F)
  /\ Charged(After(F), k) <= clock + Cap[k]
  /\ full' = [After(F) EXCEPT ![k] = Charged(After(F), k)]
  /\ spent' = [x \in Watched |-> Account(F)[x] + (IF x = k THEN Cost ELSE 0)]
  /\ answer' = [key |-> k, ok |-> TRUE]
  /\ UNCHANGED <<clock, mark>>

Refuse(F, k) ==
  /\ MayForget(F)
  /\ Charged(After(F), k) > clock + Cap[k]
  /\ full' = After(F)
  /\ spent' = Account(F)
  /\ answer' = [key |-> k, ok |-> FALSE]
  /\ UNCHANGED <<clock, mark>>

\* Start counting here: the window of WithinAllowance begins at any time.
Mark ==
  /\ mark' = clock
  /\ spent' = [k \in Watched |-> 0]
  /\ answer' = NoAnswer
  /\ UNCHANGED <<clock, full>>

ContractNext ==
  \/ Pass \/ Mark
  \/ \E F \in SUBSET Keys :
       Forget(F) \/ \E k \in Keys : Admit(F, k) \/ Refuse(F, k)

ContractSpec == ContractInit /\ [][ContractNext]_contractVars

\* "A token bucket lets through one scan per refill interval for ever, whatever
\* the bucket holds" (targetlimit.go): in any window, what a key was admitted
\* costs no more than its allowance plus the time the window has lasted.
WithinAllowance == \A k \in Watched : spent[k] <= Cap[k] + (clock - mark)
=============================================================================
