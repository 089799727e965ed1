------------------------------- MODULE MCBank -------------------------------
(* Two accounts and a number without a row; one amount of each kind.        *)
EXTENDS BankProcs
MCAmounts == {-1, 0, 1, 2}
=============================================================================
