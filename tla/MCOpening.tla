----------------------------- MODULE MCOpening -----------------------------
(* A cluster of two brokers; both an unlimited and a small retry budget.    *)
EXTENDS Opening

CONSTANTS b1, b2

SomeBudgets == {None, 1}
=============================================================================
