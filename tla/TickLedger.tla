----------------------------- MODULE TickLedger -----------------------------
(***************************************************************************)
(* What an evaluation promises to the accounts that pay for it: ticks are  *)
(* only ever taken, only from the account that is running, never more than *)
(* it has, and what has been taken does not come back.  Who runs may       *)
(* change with any step, and the change alone costs nobody anything.       *)
(***************************************************************************)
EXTENDS Naturals

CONSTANTS
  Accounts,    \* the identities a formula may be executed as
  Root,        \* the one the evaluation starts as
  Allowance    \* what each account has to spend in this evaluation

VARIABLES
  balance,     \* what each account has left
  runner,      \* the account that pays at the moment
  spent        \* what all of them have paid together

vars == <<balance, runner, spent>>

Init ==
  /\ balance = Allowance
  /\ runner = Root
  /\ spent = 0

Charge(n) ==
  /\ balance' = [balance EXCEPT ![runner] = @ - n]
  /\ spent' = spent + n

Next ==
  /\ \E n \in 0 .. balance[runner] : Charge(n)
  /\ \E account \in Accounts : runner' = account

Spec == Init /\ [][Next]_vars
=============================================================================
