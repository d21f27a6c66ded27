--------------------------- MODULE MCTransactions ---------------------------
(***************************************************************************)
(* Transactions on a small pool.                                           *)
(***************************************************************************)
EXTENDS Transactions, TLC

\* The blocks of the pool are interchangeable.
Blocks == Permutations(Txn)

=============================================================================
