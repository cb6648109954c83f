------------------------------- MODULE MCDaemon --------------------------------
(* A small instance of Daemon for TLC. *)
EXTENDS Daemon

\* A method of each kind: with session calls before a submission, with calls to
\* both objects, with a hash, with no call at all, and the one that crashes.
SomeMethods == {"submit-transaction", "get-account-info", "get-block-by-hash", "udp-analysis", "crash-test"}
===============================================================================
