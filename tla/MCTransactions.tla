--------------------------- MODULE MCTransactions ---------------------------
(* Transactions with three transactions that may overlap. *)
EXTENDS Transactions
=============================================================================
