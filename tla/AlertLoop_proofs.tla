--------------------------- MODULE AlertLoop_proofs ---------------------------
(***************************************************************************)
(* The alerts that wait, whether main has popped them or not, form one     *)
(* queue: the session appends to it, popping leaves it as it is, and main  *)
(* takes the first of it when a handler returns.                           *)
(***************************************************************************)
EXTENDS AlertLoop, SequenceTheorems, TLAPS

\* The alert that main is handling is the first that waits.
LEMMA PendingFirst ==
  ASSUME NEW S, batch \in Seq(S), alerts \in Seq(S)
  PROVE  /\ Pending \in Seq(S) /\ Len(Pending) \in Nat
         /\ \A i \in 1 .. Len(Pending) : Pending[i] \in S
         /\ batch # <<>> => Len(Pending) >= 1 /\ Pending[1] = Head(batch)
         /\ Drained => Len(Pending) = 0
<1>1. Pending \in Seq(S) /\ Len(Pending) = Len(batch) + Len(alerts)
  BY ConcatProperties DEF Pending
<1>2. \A i \in 1 .. Len(Pending) : Pending[i] \in S
  BY <1>1, ElementOfSeq
<1>3. batch # <<>> => Len(batch) >= 1 /\ Pending[1] = batch[1] /\ Head(batch) = batch[1]
  BY ConcatProperties, EmptySeq DEF Pending
<1>4. QED
  BY <1>1, <1>2, <1>3, LenProperties DEF Drained

\* An alert that the session posts comes last.
LEMMA PendingPost ==
  ASSUME NEW S, batch \in Seq(S), alerts \in Seq(S), NEW kind, NEW subject, Post(kind, subject)
  PROVE  /\ Len(Pending') = Len(Pending) + 1
         /\ \A i \in 1 .. Len(Pending) : Pending'[i] = Pending[i]
         /\ Pending'[Len(Pending) + 1] = <<kind, subject>>
<1> DEFINE T == S \cup {<<kind, subject>>}
<1>1. batch \in Seq(T) /\ alerts \in Seq(T) /\ <<kind, subject>> \in T
  OBVIOUS
<1>2. batch' = batch /\ alerts' = Append(alerts, <<kind, subject>>)
  BY DEF Post
<1>3. /\ alerts' \in Seq(T) /\ Len(alerts') = Len(alerts) + 1
      /\ \A i \in 1 .. Len(alerts) : alerts'[i] = alerts[i]
      /\ alerts'[Len(alerts) + 1] = <<kind, subject>>
  BY <1>1, <1>2, AppendProperties
<1> HIDE DEF T
<1>4. Len(Pending) = Len(batch) + Len(alerts) /\ Len(Pending') = Len(batch) + Len(alerts')
  BY <1>1, <1>2, <1>3, ConcatProperties DEF Pending
<1>5. /\ \A i \in 1 .. Len(Pending) : Pending[i] = IF i <= Len(batch) THEN batch[i] ELSE alerts[i - Len(batch)]
      /\ \A i \in 1 .. Len(Pending') : Pending'[i] = IF i <= Len(batch) THEN batch[i] ELSE alerts'[i - Len(batch)]
  <2>1. Pending = batch \o alerts /\ Pending' = batch \o alerts'
    BY <1>2 DEF Pending
  <2>2. \A i \in 1 .. Len(batch) + Len(alerts) :
          (batch \o alerts)[i] = IF i <= Len(batch) THEN batch[i] ELSE alerts[i - Len(batch)]
    BY <1>1, ConcatProperties
  <2>3. \A i \in 1 .. Len(batch) + Len(alerts') :
          (batch \o alerts')[i] = IF i <= Len(batch) THEN batch[i] ELSE alerts'[i - Len(batch)]
    BY <1>1, <1>3, ConcatProperties
  <2>4. QED
    BY <1>4, <2>1, <2>2, <2>3
<1>6. Len(batch) \in Nat /\ Len(alerts) \in Nat
  BY <1>1
<1>7. ASSUME NEW i \in 1 .. Len(Pending) PROVE Pending'[i] = Pending[i]
  <2>1. i \in 1 .. Len(Pending') /\ (~ (i <= Len(batch)) => i - Len(batch) \in 1 .. Len(alerts))
    BY <1>3, <1>4, <1>6
  <2>2. QED
    BY <1>3, <1>5, <2>1
<1>8. Pending'[Len(Pending) + 1] = <<kind, subject>>
  BY <1>3, <1>4, <1>5, <1>6
<1>9. QED
  BY <1>3, <1>4, <1>6, <1>7, <1>8

\* Popping changes nothing.
LEMMA PendingPop ==
  ASSUME NEW S, batch \in Seq(S), alerts \in Seq(S), Pop PROVE Pending' = Pending
<1>1. batch' = alerts /\ alerts' = <<>> /\ batch = <<>>
  BY DEF Pop
<1>2. alerts \o <<>> = alerts /\ <<>> \o alerts = alerts
  BY ConcatEmptySeq
<1>3. QED
  BY <1>1, <1>2 DEF Pending

\* A handler that returns has taken the first alert.
LEMMA PendingReturn ==
  ASSUME NEW S, batch \in Seq(S), alerts \in Seq(S), batch # <<>>, Return
  PROVE  /\ Len(Pending') = Len(Pending) - 1
         /\ \A i \in 1 .. Len(Pending') : Pending'[i] = Pending[i + 1]
<1>1. batch' = Tail(batch) /\ alerts' = alerts
  BY DEF Return
<1>2. /\ Tail(batch) \in Seq(S) /\ Len(Tail(batch)) = Len(batch) - 1
      /\ \A i \in 1 .. Len(Tail(batch)) : Tail(batch)[i] = batch[i + 1]
  BY HeadTailProperties
<1>3. Len(Pending) = Len(batch) + Len(alerts) /\ Len(Pending') = Len(batch') + Len(alerts)
  BY <1>1, <1>2, ConcatProperties DEF Pending
<1>4. /\ \A i \in 1 .. Len(Pending) : Pending[i] = IF i <= Len(batch) THEN batch[i] ELSE alerts[i - Len(batch)]
      /\ \A i \in 1 .. Len(Pending') : Pending'[i] = IF i <= Len(batch') THEN batch'[i] ELSE alerts[i - Len(batch')]
  BY <1>1, <1>2, ConcatProperties DEF Pending
<1>5. Len(batch) \in Nat /\ Len(alerts) \in Nat /\ Len(batch) >= 1
  BY EmptySeq
<1>6. ASSUME NEW i \in 1 .. Len(Pending') PROVE Pending'[i] = Pending[i + 1]
  <2>1. CASE i <= Len(batch')
    BY <1>1, <1>2, <1>3, <1>4, <1>5, <2>1
  <2>2. CASE ~ (i <= Len(batch'))
    <3>1. i \in Int /\ i + 1 \in 1 .. Len(Pending) /\ ~ (i + 1 <= Len(batch)) /\ i + 1 - Len(batch) = i - Len(batch')
      BY <1>1, <1>2, <1>3, <1>5, <2>2
    <3>2. QED
      BY <1>4, <2>2, <3>1
  <2>3. QED
    BY <2>1, <2>2
<1>7. QED
  BY <1>1, <1>2, <1>3, <1>5, <1>6
===============================================================================
