--------------------------- MODULE MCHttpConnection ---------------------------
(* Small instances of HttpConnection for TLC. *)
EXTENDS HttpConnection

\* Calls whose body fits in the buffer with the head, and does not; requests
\* that are answered without their body; and requests that end the connection.
MCShapes ==
  {[kind |-> "call", body |-> 1, keep |-> TRUE],
   [kind |-> "call", body |-> 3, keep |-> TRUE],
   [kind |-> "call", body |-> 1, keep |-> FALSE],
   [kind |-> "refused", body |-> 0, keep |-> TRUE],
   [kind |-> "refused", body |-> 2, keep |-> TRUE],
   [kind |-> "digest", body |-> 1, keep |-> TRUE],
   [kind |-> "unsized", body |-> 1, keep |-> TRUE]}
===============================================================================
