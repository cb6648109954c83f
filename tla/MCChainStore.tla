----------------------------- MODULE MCChainStore -----------------------------
(* Small instances of ChainStore for TLC. *)
EXTENDS ChainStore, TLC

CONSTANTS c1, c2, b1, b2, b3, b4, t1, t2

\* b1, b2 and b4 are blocks of c1, b3 of c2.
TwoChains == [b \in Blocks |-> IF b = b3 THEN c2 ELSE c1]
\* b1 and b2 compete for the transaction t1, b3 has another, b4 carries none.
Rivals == [b \in Blocks |-> IF b = b4 THEN NoTx ELSE IF b = b3 THEN t2 ELSE t1]

\* Workers are interchangeable; used by safety runs only.
WorkerSymmetry == Permutations(Workers)
===============================================================================
