--------------------------- MODULE DepositPolicy ---------------------------
(***************************************************************************)
(* deposit-core.policy.ts: how a booking balance is split when the deposit *)
(* becomes a security deposit, and when a cancellation is accepted.        *)
(* Amounts are natural numbers of the smallest unit: the code rounds every *)
(* amount to two decimals and refuses negative ones.                       *)
(***************************************************************************)
EXTENDS Integers

Smaller(a, b) == IF a <= b THEN a ELSE b

\* Mutant: the transfer is not capped by the balance.
ConversionPlanUncapped(balance, required) ==
    [transfer |-> required, additional |-> 0, excess |-> balance - required]

ConversionPlan(balance, required) ==
    LET transfer == Smaller(balance, required)
    IN  [transfer   |-> transfer,
         additional |-> required - transfer,
         excess     |-> balance - transfer]

\* Mutant: part of the balance may be left over.
CancellationPlanAtMost(balance, refund, keep, deduct) ==
    balance > 0 /\ refund + keep + deduct <= balance

\* Mutant: the amounts of the caller are trusted.
CancellationPlanUnchecked(balance, refund, keep, deduct) ==
    balance > 0 /\ refund + keep + deduct > 0

CancellationPlan(balance, refund, keep, deduct) ==
    /\ balance > 0
    /\ refund + keep + deduct = balance
=============================================================================
