--------------------------- MODULE MCTransactions ---------------------------
EXTENDS Transactions, TLC
Symmetry == Permutations(Reader) \cup Permutations(Session) \cup Permutations(Worker)
=============================================================================
