------------------------------- MODULE AlertLoop -------------------------------
(***************************************************************************)
(* The alert loop of main: the libTAU session queues alerts, main pops     *)
(* them all at once and hands them to alert_handler one after the other.   *)
(* A handler is a sequence of SQL statements; other threads run between    *)
(* two of them, so each statement is a step.                               *)
(***************************************************************************)
EXTENDS Naturals, Sequences

CONSTANT MaxAlerts   \* bound on the alerts the session has queued

ASSUME AlertLoopAssumption == MaxAlerts \in Nat

VARIABLES
  alerts,  \* alerts posted by the session and not popped: <<kind, subject>>
  batch,   \* alert_queue of main: popped, not handled
  step     \* statements of the first alert of batch already executed

loopVars == <<alerts, batch, step>>

LoopInit ==
  /\ alerts = <<>>
  /\ batch = <<>>
  /\ step = 0

\* The session posts an alert.
Post(kind, subject) ==
  /\ Len(alerts) < MaxAlerts
  /\ alerts' = Append(alerts, <<kind, subject>>)
  /\ UNCHANGED <<batch, step>>

\* Mutant: the newest alert comes first.
PopNewestFirst ==
  /\ batch = <<>>
  /\ alerts # <<>>
  /\ batch' = [i \in 1 .. Len(alerts) |-> alerts[Len(alerts) + 1 - i]]
  /\ alerts' = <<>>
  /\ UNCHANGED step

\* ses.pop_alerts(&alert_queue): the session's queue becomes the batch.
Pop ==
  /\ batch = <<>>
  /\ alerts # <<>>
  /\ batch' = alerts
  /\ alerts' = <<>>
  /\ UNCHANGED step

Current == Head(batch)[2]

\* Main is about to execute statement n of the handler of an alert of this kind.
At(kind, n) ==
  /\ batch # <<>>
  /\ Head(batch)[1] = kind
  /\ step = n

\* Another statement of the same handler follows.
Continue ==
  /\ step' = step + 1
  /\ UNCHANGED <<alerts, batch>>

\* Mutant: the loop leaves the batch after its first alert.
ReturnDropsBatch ==
  /\ step' = 0
  /\ batch' = <<>>
  /\ UNCHANGED alerts

\* The handler returns; the loop goes on with the next alert of the batch.
Return ==
  /\ step' = 0
  /\ batch' = Tail(batch)
  /\ UNCHANGED alerts

\* The alerts that main has not finished with.
Pending == batch \o alerts

\* The process ends: popped and queued alerts are gone.
Forget ==
  /\ alerts' = <<>>
  /\ batch' = <<>>
  /\ step' = 0

\* Every alert posted so far has been handled.
Drained == alerts = <<>> /\ batch = <<>>
===============================================================================
