---------------------------- MODULE MCMongoosePool ----------------------------
(* Small instances of MongoosePool for TLC. *)
EXTENDS MongoosePool, TLC

\* Workers and descriptors are interchangeable; used by safety runs only.
Symmetry == Permutations(Workers) \cup Permutations(Sockets)
===============================================================================
