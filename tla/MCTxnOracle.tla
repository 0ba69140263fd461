---------------------------- MODULE MCTxnOracle ----------------------------
EXTENDS TxnOracle, TLC

TxnSymmetry == Permutations(Txn)
=============================================================================
