--------------------------- MODULE ConnectionQueue ---------------------------
(***************************************************************************)
(* What the embedded web server promises about accepted connections: one   *)
(* acceptor hands sockets to workers through a bounded first-in first-out  *)
(* queue.  A socket has one holder at a time (the acceptor, the queue, or  *)
(* one worker), the worker that takes it is the one that closes it, and a  *)
(* socket can only be lost once the server has been told to stop.          *)
(***************************************************************************)
EXTENDS Naturals, Sequences

CONSTANTS Workers, Sockets, Capacity, NoSocket

VARIABLES
  hand,       \* the socket the acceptor holds, or NoSocket
  waiting,    \* the queued sockets, oldest first
  serving,    \* for each worker the socket it holds, or NoSocket
  lost,       \* sockets that are open and that nobody will ever close
  stopping    \* TRUE once a stop was requested

vars == <<hand, waiting, serving, lost, stopping>>

InQueue(s) == \E i \in DOMAIN waiting : waiting[i] = s

Free(s) ==
  /\ s # hand
  /\ ~ InQueue(s)
  /\ \A w \in Workers : serving[w] # s
  /\ s \notin lost

Init ==
  /\ hand = NoSocket
  /\ waiting = <<>>
  /\ serving = [w \in Workers |-> NoSocket]
  /\ lost = {}
  /\ stopping = FALSE

\* The kernel hands out a descriptor that is not in use.
Accept(s) ==
  /\ hand = NoSocket
  /\ Free(s)
  /\ hand' = s
  /\ UNCHANGED <<waiting, serving, lost, stopping>>

Enqueue ==
  /\ hand # NoSocket
  /\ Len(waiting) < Capacity
  /\ waiting' = Append(waiting, hand)
  /\ hand' = NoSocket
  /\ UNCHANGED <<serving, lost, stopping>>

Take(w) ==
  /\ serving[w] = NoSocket
  /\ waiting # <<>>
  /\ serving' = [serving EXCEPT ![w] = Head(waiting)]
  /\ waiting' = Tail(waiting)
  /\ UNCHANGED <<hand, lost, stopping>>

Finish(w) ==
  /\ serving[w] # NoSocket
  /\ serving' = [serving EXCEPT ![w] = NoSocket]
  /\ UNCHANGED <<hand, waiting, lost, stopping>>

RequestStop ==
  /\ stopping' = TRUE
  /\ UNCHANGED <<hand, waiting, serving, lost>>

\* After a stop a full queue makes the acceptor forget the socket it holds.
LoseHand ==
  /\ stopping
  /\ hand # NoSocket
  /\ lost' = lost \cup {hand}
  /\ hand' = NoSocket
  /\ UNCHANGED <<waiting, serving, stopping>>

\* After a stop a worker may exit with the socket it has just taken.
LoseServed(w) ==
  /\ stopping
  /\ serving[w] # NoSocket
  /\ lost' = lost \cup {serving[w]}
  /\ serving' = [serving EXCEPT ![w] = NoSocket]
  /\ UNCHANGED <<hand, waiting, stopping>>

Next ==
  \/ \E s \in Sockets : Accept(s)
  \/ Enqueue
  \/ \E w \in Workers : Take(w) \/ Finish(w) \/ LoseServed(w)
  \/ RequestStop
  \/ LoseHand

Spec == Init /\ [][Next]_vars
==============================================================================
