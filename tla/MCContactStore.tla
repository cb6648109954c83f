---------------------------- MODULE MCContactStore ----------------------------
(* Small instances of ContactStore for TLC. *)
EXTENDS ContactStore, TLC

\* Workers, keys and messages that can be quoted are interchangeable; used by
\* safety runs only.
Symmetry ==
  Permutations(Workers) \cup Permutations(Keys) \cup Permutations(Messages \ Unquotable)
===============================================================================
