------------------------------ MODULE MCPayments ------------------------------
(* Payments for TLC: one order, at most one top-up, one price.    *)
EXTENDS Payments

CONSTANT Price \* Attempt.Amount of every attempt

MCDue == [p \in Orders \union Topups |-> Price]
=============================================================================
