------------------------ MODULE MongoosePool_proofs ------------------------
(***************************************************************************)
(* Proofs about MongoosePool, for any number of workers, any set of        *)
(* descriptors, any size of the ring and whichever threads fail to start:  *)
(* types, ring indices and counters first, then who holds an accepted      *)
(* connection, and last the refinement of ConnectionQueue.                 *)
(***************************************************************************)
EXTENDS MongoosePool, FiniteSetTheorems, SequenceTheorems, TLAPS

\* A ring index taken modulo the size of the ring is a slot of the array.
LEMMA ModRange ==
  ASSUME NEW a \in Int PROVE a % QueueSize \in 0 .. QueueSize - 1
BY QueueSizeAssumption

\* A signal only ever removes threads from a wait set.
LEMMA SignalledSubset ==
  ASSUME NEW S, NEW R \in Signalled(S) PROVE R \subseteq S
BY DEF Signalled

\* Taking the mutex keeps the types.
LEMMA LockTyped ==
  ASSUME TypeOK, NEW t \in Threads, NEW from, NEW to \in Labels, Lock(t, from, to)
  PROVE  TypeOK'
BY DEF TypeOK, Lock, Goto, ringVars, waitVars, countVars

\* Every step keeps the types.
LEMMA NextTyped == TypeOK /\ [Next]_vars => TypeOK'
<1> SUFFICES ASSUME TypeOK, [Next]_vars PROVE TypeOK'
  OBVIOUS
<1> USE DEF TypeOK, Goto, ringVars, waitVars, countVars, Labels, Threads
<1>1. CASE OwnerStarts
  BY <1>1 DEF OwnerStarts, StartMaster, StartWorker, LoadCount, StoreCount, StartReturns
<1>2. CASE Stop \/ AwaitStopped \/ Stopped
  BY <1>2 DEF Stop, AwaitStopped, Stopped, vars
<1>3. CASE MasterLocks
  BY <1>3, LockTyped DEF MasterLocks, ProduceLock, JoinLock
<1>4. CASE MasterSteps
  <2>1. CASE MasterBegin \/ MasterLoop \/ PollNothing
    BY <2>1 DEF MasterBegin, MasterLoop, PollNothing
  <2>2. CASE \E s \in Sockets : Accept(s)
    BY <2>2 DEF Accept
  <2>3. CASE ProduceCheck \/ ProduceSleep
    BY <2>3 DEF ProduceCheck, ProduceSleep
  <2>4. CASE ProducePut
    <3>1. sq_full' \subseteq sq_full
      BY <2>4, SignalledSubset DEF ProducePut
    <3>2. sq_head % QueueSize \in 0 .. QueueSize - 1
      BY ModRange
    <3>3. queue' \in [0 .. QueueSize - 1 -> Sockets \cup {NoSocket}] /\ sq_head' \in Int
      BY <2>4, <3>2 DEF ProducePut
    <3>4. QED
      BY <2>4, <3>1, <3>3 DEF ProducePut
  <2>5. CASE Broadcast \/ JoinCheck \/ Destroy
    BY <2>5 DEF Broadcast, JoinCheck, Destroy
  <2>6. QED
    BY <1>4, <2>1, <2>2, <2>3, <2>4, <2>5 DEF MasterSteps
<1>5. ASSUME NEW w \in Workers, WorkerLocks(w) PROVE TypeOK'
  BY <1>5, LockTyped DEF WorkerLocks, ConsumeLock, ExitLock
<1>6. ASSUME NEW w \in Workers, WorkerSteps(w) PROVE TypeOK'
  <2>1. CASE WorkerBegin(w) \/ ConsumeCheck(w) \/ ConsumeSleep(w)
    BY <2>1 DEF WorkerBegin, ConsumeCheck, ConsumeSleep
  <2>2. CASE ConsumeTake(w)
    <3>1. sq_empty' \subseteq sq_empty
      BY <2>2, SignalledSubset DEF ConsumeTake
    <3>2. queue[sq_tail % QueueSize] \in Sockets \cup {NoSocket}
      BY ModRange
    <3>3. sq_tail' \in Int /\ sq_head' \in Int
      BY <2>2, QueueSizeAssumption DEF ConsumeTake, WrapDown
    <3>4. client' \in [Workers -> Sockets \cup {NoSocket}]
      BY <2>2, <3>2 DEF ConsumeTake
    <3>5. QED
      BY <2>2, <3>1, <3>3, <3>4 DEF ConsumeTake
  <2>3. CASE ConsumeReturn(w) \/ Serve(w) \/ ExitLoad(w)
    BY <2>3 DEF ConsumeReturn, Serve, ExitLoad
  <2>4. CASE ExitStore(w)
    BY <2>4, SignalledSubset DEF ExitStore
  <2>5. QED
    BY <1>6, <2>1, <2>2, <2>3, <2>4 DEF WorkerSteps
<1>7. ASSUME NEW t \in Threads, SpuriousWakeup(t) PROVE TypeOK'
  BY <1>7 DEF SpuriousWakeup
<1>8. CASE UNCHANGED vars
  BY <1>8 DEF vars
<1>9. QED
  BY <1>1, <1>2, <1>3, <1>4, <1>5, <1>6, <1>7, <1>8 DEF Next

\* The context and the stacks of all threads of the pool stay well typed.
THEOREM Typing == Spec => []TypeOK
<1>1. Init => TypeOK
  BY QueueSizeAssumption, ThreadAssumption
  DEF Init, TypeOK, Labels, Threads
<1>2. QED
  BY <1>1, NextTyped, PTL DEF Spec

-----------------------------------------------------------------------------
(* Ring indices *)

\* The bounds of the ring are kept by every step.
LEMMA NextBounded == TypeOK /\ IndexBounds /\ [Next]_vars => IndexBounds'
<1> SUFFICES ASSUME TypeOK, IndexBounds, [Next]_vars PROVE IndexBounds'
  OBVIOUS
<1>1. CASE ProducePut
  BY <1>1, QueueSizeAssumption DEF ProducePut, TypeOK, IndexBounds, Used
<1>2. ASSUME NEW w \in Workers, ConsumeTake(w) PROVE IndexBounds'
  BY <1>2, QueueSizeAssumption DEF ConsumeTake, WrapDown, TypeOK, IndexBounds, Used
<1>3. CASE UNCHANGED <<sq_head, sq_tail>>
  BY <1>3 DEF IndexBounds, Used
<1>4. QED
  BY <1>1, <1>2, <1>3
  DEF Next, vars, ringVars, Lock, OwnerStarts, StartMaster, StartWorker, LoadCount,
      StoreCount, StartReturns, Stop, AwaitStopped, Stopped, MasterLocks,
      ProduceLock, JoinLock, MasterSteps, MasterBegin, MasterLoop, PollNothing,
      Accept, ProduceCheck, ProduceSleep, Broadcast, JoinCheck, Destroy,
      WorkerLocks, ConsumeLock, ExitLock, WorkerSteps, WorkerBegin, ConsumeCheck,
      ConsumeSleep, ConsumeReturn, Serve, ExitLoad, ExitStore, SpuriousWakeup

\* However long the server runs, the ring holds between 0 and QueueSize
\* sockets and sq_tail stays within one turn, so sq_head within two.
THEOREM RingBounded == Spec => []IndexBounds
<1>1. Init => IndexBounds
  BY QueueSizeAssumption DEF Init, IndexBounds, Used
<1>2. QED
  BY <1>1, NextBounded, Typing, PTL DEF Spec

-----------------------------------------------------------------------------
(* Nobody is left when the context is freed *)

\* The workers alive are finitely many.
LEMMA AliveFinite == IsFiniteSet(Alive) /\ Cardinality(Alive) \in Nat
<1>1. Alive \subseteq Workers
  BY DEF Alive
<1>2. QED
  BY <1>1, FiniteAssumption, FS_Subset, FS_CardinalityType

\* A step that moves no worker into or out of Alive leaves its size alone.
LEMMA LockAccounted ==
  ASSUME TypeOK, ThreadAccounting, NEW t \in Threads, NEW from, NEW to \in Critical,
         Lock(t, from, to),
         \/ t = Master /\ from = "p_lock" /\ to = "p_check"
         \/ t = Master /\ from = "j_lock" /\ to = "j_check"
         \/ t \in Workers /\ from = "c_lock" /\ to = "c_check"
         \/ t \in Workers /\ from = "x_lock" /\ to = "x_load"
  PROVE  ThreadAccounting'
<1>1. Alive' = Alive
  BY ThreadAssumption DEF TypeOK, Lock, Goto, Alive, Threads
<1>2. QED
  BY <1>1, ThreadAssumption
  DEF ThreadAccounting, TypeOK, Lock, Goto, Critical, Threads, countVars

\* ThreadAccounting is inductive when no thread fails to start.
LEMMA NextAccounted ==
  ASSUME Failing = {} PROVE TypeOK /\ ThreadAccounting /\ [Next]_vars => ThreadAccounting'
<1> SUFFICES ASSUME TypeOK, ThreadAccounting, [Next]_vars PROVE ThreadAccounting'
  OBVIOUS
<1> USE ThreadAssumption DEF Goto, Threads, countVars
<1>1. CASE StartMaster
  <2>1. Alive' = Alive
    BY <1>1 DEF StartMaster, TypeOK, Alive
  <2>2. QED
    BY <1>1, <2>1 DEF StartMaster, TypeOK, ThreadAccounting, Critical
<1>2. ASSUME NEW w \in Workers, StartWorker(w) PROVE ThreadAccounting'
  <2>1. Alive' = Alive \cup {w} /\ w \notin Alive
    BY <1>2 DEF StartWorker, TypeOK, Alive
  <2>2. Cardinality(Alive') = Cardinality(Alive) + 1
    BY <2>1, AliveFinite, FS_AddElement
  <2>3. QED
    BY <1>2, <2>1, <2>2, AliveFinite DEF StartWorker, TypeOK, ThreadAccounting, Critical
<1>3. CASE LoadCount \/ StoreCount \/ StartReturns \/ Stop \/ AwaitStopped \/ Stopped
  <2>1. Alive' = Alive
    BY <1>3
    DEF LoadCount, StoreCount, StartReturns, Stop, AwaitStopped, Stopped, vars, TypeOK, Alive
  <2>2. CASE LoadCount \/ StoreCount
    BY <2>2, <2>1, AliveFinite
    DEF LoadCount, StoreCount, TypeOK, ThreadAccounting, Critical
  <2>3. CASE StartReturns \/ Stop \/ AwaitStopped
    BY <2>3, <2>1 DEF StartReturns, Stop, AwaitStopped, TypeOK, ThreadAccounting, Critical
  <2>4. CASE Stopped
    BY <2>4, <2>1 DEF Stopped, vars, ThreadAccounting
  <2>5. QED
    BY <1>3, <2>2, <2>3, <2>4
<1>4. CASE MasterLocks
  BY <1>4, LockAccounted DEF MasterLocks, ProduceLock, JoinLock, Critical
<1>5. CASE MasterSteps
  <2>1. Alive' = Alive
    BY <1>5
    DEF MasterSteps, MasterBegin, MasterLoop, PollNothing, Accept, ProduceCheck,
        ProduceSleep, ProducePut, Broadcast, JoinCheck, Destroy, TypeOK, Alive
  <2>2. CASE MasterBegin \/ MasterLoop \/ PollNothing \/ \E s \in Sockets : Accept(s)
    BY <2>2, <2>1
    DEF MasterBegin, MasterLoop, PollNothing, Accept, TypeOK, ThreadAccounting, Critical
  <2>3. CASE ProduceCheck \/ ProduceSleep
    BY <2>3, <2>1 DEF ProduceCheck, ProduceSleep, TypeOK, ThreadAccounting, Critical
  <2>4. CASE ProducePut
    BY <2>4, <2>1 DEF ProducePut, TypeOK, ThreadAccounting, Critical
  <2>5. CASE Broadcast \/ Destroy
    BY <2>5, <2>1 DEF Broadcast, Destroy, TypeOK, ThreadAccounting, Critical
  <2>6. CASE JoinCheck
    <3>1. num_threads <= 0 => Alive = {}
      <4>1. pc[Owner] \in {"stopping", "freed"}
        BY <2>6 DEF JoinCheck, ThreadAccounting
      <4>2. num_threads = Cardinality(Alive)
        BY <4>1 DEF ThreadAccounting, TypeOK
      <4>3. QED
        BY <4>2, AliveFinite, FS_EmptySet DEF TypeOK
    <3>2. QED
      BY <2>6, <2>1, <3>1 DEF JoinCheck, TypeOK, ThreadAccounting, Critical
  <2>7. QED
    BY <1>5, <2>2, <2>3, <2>4, <2>5, <2>6 DEF MasterSteps
<1>6. ASSUME NEW w \in Workers, WorkerLocks(w) PROVE ThreadAccounting'
  BY <1>6, LockAccounted DEF WorkerLocks, ConsumeLock, ExitLock, Critical
<1>7. ASSUME NEW w \in Workers, WorkerSteps(w) PROVE ThreadAccounting'
  <2>1. CASE ExitStore(w)
    <3>1. Alive' = Alive \ {w} /\ w \in Alive
      BY <2>1 DEF ExitStore, TypeOK, Alive
    <3>2. Cardinality(Alive') = Cardinality(Alive) - 1
      BY <3>1, AliveFinite, FS_RemoveElement
    <3>3. stop_flag # 0 /\ reg[w] = num_threads /\ mutex = w
      BY <2>1 DEF ExitStore, ThreadAccounting, Critical
    <3>4. num_threads' = num_threads - 1
      BY <2>1, <3>3 DEF ExitStore
    <3>5. \A v \in Workers : pc[v] = "x_store" => v = w
      BY <3>3 DEF ThreadAccounting, Critical
    <3>6. QED
      BY <2>1, <3>1, <3>2, <3>3, <3>4, <3>5, AliveFinite
      DEF ExitStore, TypeOK, ThreadAccounting, Critical
  <2>2. CASE ~ ExitStore(w)
    <3>1. Alive' = Alive
      BY <1>7, <2>2
      DEF WorkerSteps, WorkerBegin, ConsumeCheck, ConsumeSleep, ConsumeTake,
          ConsumeReturn, Serve, ExitLoad, TypeOK, Alive
    <3>2. CASE WorkerBegin(w) \/ ConsumeCheck(w) \/ ConsumeSleep(w)
      BY <3>2, <3>1
      DEF WorkerBegin, ConsumeCheck, ConsumeSleep, TypeOK, ThreadAccounting, Critical
    <3>3. CASE ConsumeTake(w)
      BY <3>3, <3>1 DEF ConsumeTake, TypeOK, ThreadAccounting, Critical
    <3>4. CASE ConsumeReturn(w) \/ Serve(w) \/ ExitLoad(w)
      BY <3>4, <3>1
      DEF ConsumeReturn, Serve, ExitLoad, TypeOK, ThreadAccounting, Critical
    <3>5. QED
      BY <1>7, <2>2, <3>2, <3>3, <3>4 DEF WorkerSteps
  <2>3. QED
    BY <2>1, <2>2
<1>8. ASSUME NEW t \in Threads, SpuriousWakeup(t) PROVE ThreadAccounting'
  BY <1>8 DEF SpuriousWakeup, ThreadAccounting, Alive
<1>9. CASE UNCHANGED vars
  BY <1>9 DEF vars, ThreadAccounting, Alive
<1>10. QED
  BY <1>1, <1>2, <1>3, <1>4, <1>5, <1>6, <1>7, <1>8, <1>9 DEF Next, OwnerStarts

\* If every thread could be created and got its memory, num_threads counts the
\* workers alive and nobody leaves before a stop was requested.
THEOREM Accounted == ASSUME Failing = {} PROVE Spec => []ThreadAccounting
<1>1. Init => ThreadAccounting
  <2> SUFFICES ASSUME Init PROVE ThreadAccounting
    OBVIOUS
  <2>1. Alive = {}
    BY ThreadAssumption DEF Init, Alive, Threads
  <2>2. Cardinality(Alive) = 0
    BY <2>1, FS_EmptySet
  <2>3. QED
    BY <2>1, <2>2, ThreadAssumption DEF Init, ThreadAccounting, Critical, Threads
<1>2. QED
  BY <1>1, NextAccounted, Typing, PTL DEF Spec

\* If every thread could be created and got its memory, master_thread destroys
\* the mutex, and mg_stop frees the context, only after all workers have left.
THEOREM FreeAfterLastWorker == ASSUME Failing = {} PROVE Spec => []NobodyLeftAtFree
<1>1. TypeOK /\ ThreadAccounting => NobodyLeftAtFree
  BY DEF ThreadAccounting, NobodyLeftAtFree, Alive
<1>2. QED
  BY <1>1, Accounted, Typing, PTL

-------------------------------------------------------------------------------
(* Who holds an accepted connection *)

\* The i-th socket in the ring, the oldest first.
Item(i) == queue[Slot(i)]

\* What connects the program counters with the sockets: a critical section is
\* run by the holder of the mutex; the master holds a socket exactly while it
\* is in produce_socket, and a worker from taking it to closing it; and until
\* a stop is requested the ring is not full when the master puts a socket in,
\* not empty when a worker takes one out, and no worker leaves consume_socket
\* without one.
SocketFlow ==
  /\ \A t \in Threads : pc[t] \in Critical => mutex = t
  /\ pc[Owner] = "start_master" => pc[Master] = "none"
  /\ so # NoSocket <=> pc[Master] \in {"p_lock", "p_check", "p_sleep", "p_put"}
  /\ \A w \in Workers : client[w] # NoSocket => pc[w] \in {"c_return", "serve"}
  /\ stop_flag = 0 =>
       /\ pc[Master] = "p_put" => Used < QueueSize
       /\ \A w \in Workers : pc[w] = "c_take" => sq_head > sq_tail
       /\ \A w \in Workers : pc[w] = "c_return" => client[w] # NoSocket

-------------------------------------------------------------------------------
(* The ring *)

\* Where the i-th socket is: the ring goes round at most once.
LEMMA SlotValue ==
  ASSUME NEW t \in 0 .. QueueSize, NEW i \in 0 .. QueueSize - 1
  PROVE  (t + i) % QueueSize = IF t + i < QueueSize THEN t + i ELSE t + i - QueueSize
<1>1. CASE t + i < QueueSize
  <2>1. t + i \in 0 .. QueueSize - 1
    BY <1>1, QueueSizeAssumption
  <2>2. \A a \in 0 .. QueueSize - 1 : a % QueueSize = a
    BY QueueSizeAssumption
  <2>3. QED
    BY <1>1, <2>1, <2>2
<1>2. CASE t + i >= QueueSize
  <2>1. t + i \in QueueSize .. 2 * QueueSize - 1
    BY <1>2, QueueSizeAssumption
  <2>2. \A a \in QueueSize .. 2 * QueueSize - 1 : a % QueueSize = a - QueueSize
    BY QueueSizeAssumption
  <2>3. QED
    BY <1>2, <2>1, <2>2, QueueSizeAssumption
<1>3. QED
  BY <1>1, <1>2, QueueSizeAssumption

\* produce_socket puts its socket behind those in the ring and moves none.
LEMMA RingPut ==
  ASSUME TypeOK, IndexBounds, ProducePut, Used < QueueSize, NEW n, n = Used
  PROVE  /\ Used' = n + 1
         /\ \A i \in 0 .. n - 1 : Item(i)' = Item(i)
         /\ Item(n)' = so
<1>1. Used' = Used + 1 /\ sq_tail' = sq_tail
  BY QueueSizeAssumption DEF ProducePut, TypeOK, Used
<1>2. queue' = [queue EXCEPT ![sq_head % QueueSize] = so]
  BY DEF ProducePut
<1>3. sq_head % QueueSize = Slot(Used)
  BY DEF Slot, Used, TypeOK
<1>4. \A i \in 0 .. Used : Slot(i) \in 0 .. QueueSize - 1 /\ Slot(i)' = Slot(i)
  <2> TAKE i \in 0 .. Used
  <2>1. i \in 0 .. QueueSize - 1 /\ sq_tail \in 0 .. QueueSize /\ i \in Int
    BY QueueSizeAssumption DEF IndexBounds, Used, TypeOK
  <2>2. QED
    BY <1>1, <2>1, ModRange DEF Slot
<1>5. \A i \in 0 .. Used - 1 : Slot(i) # Slot(Used)
  <2> TAKE i \in 0 .. Used - 1
  <2>1. i \in 0 .. QueueSize - 1 /\ Used \in 0 .. QueueSize - 1 /\ sq_tail \in 0 .. QueueSize
    BY QueueSizeAssumption DEF IndexBounds, Used, TypeOK
  <2>2. /\ Slot(i) = IF sq_tail + i < QueueSize THEN sq_tail + i ELSE sq_tail + i - QueueSize
        /\ Slot(Used) = IF sq_tail + Used < QueueSize THEN sq_tail + Used ELSE sq_tail + Used - QueueSize
    BY <2>1, SlotValue DEF Slot
  <2>3. QED
    BY <2>1, <2>2, QueueSizeAssumption
<1>6. Used \in 0 .. Used /\ \A i \in 0 .. Used - 1 : i \in 0 .. Used
  BY DEF IndexBounds
<1>7. \A i \in 0 .. Used : Item(i)' = queue'[Slot(i)]
  BY <1>4 DEF Item
<1>8. \A i \in 0 .. Used : queue'[Slot(i)] = IF Slot(i) = Slot(Used) THEN so ELSE queue[Slot(i)]
  BY <1>2, <1>3, <1>4 DEF TypeOK
<1>9. QED
  BY <1>1, <1>5, <1>6, <1>7, <1>8 DEF Item

\* consume_socket takes the oldest socket; the others stay in order, whether or
\* not the indices are moved down a turn.
LEMMA RingTake ==
  ASSUME TypeOK, IndexBounds, NEW w \in Workers, ConsumeTake(w), sq_head > sq_tail
  PROVE  /\ Used' = Used - 1
         /\ \A i \in 0 .. Used - 2 : Item(i)' = Item(i + 1)
         /\ client' = [client EXCEPT ![w] = Item(0)]
<1>1. Used' = Used - 1
  BY QueueSizeAssumption DEF ConsumeTake, WrapDown, TypeOK, Used
<1>2. \A i \in 0 .. Used - 2 : Slot(i)' = Slot(i + 1)
  <2> TAKE i \in 0 .. Used - 2
  <2>1. /\ i \in 0 .. QueueSize - 1 /\ i + 1 \in 0 .. QueueSize - 1
        /\ sq_tail \in 0 .. QueueSize /\ sq_tail' \in 0 .. QueueSize
    BY QueueSizeAssumption DEF ConsumeTake, WrapDown, IndexBounds, Used, TypeOK
  <2>2. sq_tail' = IF sq_tail = QueueSize THEN 1 ELSE sq_tail + 1
    BY <2>1, QueueSizeAssumption DEF ConsumeTake, WrapDown
  <2>3. /\ Slot(i)' = IF sq_tail' + i < QueueSize THEN sq_tail' + i ELSE sq_tail' + i - QueueSize
        /\ Slot(i + 1) = IF sq_tail + (i + 1) < QueueSize THEN sq_tail + (i + 1)
                         ELSE sq_tail + (i + 1) - QueueSize
    BY <2>1, SlotValue DEF Slot
  <2>4. QED
    BY <2>1, <2>2, <2>3, QueueSizeAssumption
<1>3. sq_tail % QueueSize = Slot(0)
  BY DEF Slot, TypeOK
<1>4. QED
  BY <1>1, <1>2, <1>3 DEF Item, ConsumeTake
-------------------------------------------------------------------------------
(* Program counters and sockets *)

\* Taking the mutex brings the thread into a critical section and changes no
\* socket.
LEMMA LockFlows ==
  ASSUME TypeOK, SocketFlow, NEW t \in Threads, NEW from, NEW to \in Critical,
         Lock(t, from, to),
         \/ t = Master /\ from = "p_lock" /\ to = "p_check"
         \/ t = Master /\ from = "j_lock" /\ to = "j_check"
         \/ t \in Workers /\ from = "c_lock" /\ to = "c_check"
         \/ t \in Workers /\ from = "x_lock" /\ to = "x_load"
  PROVE  SocketFlow'
BY ThreadAssumption
DEF SocketFlow, TypeOK, Lock, Goto, Critical, Threads, ringVars, Used

\* Every step keeps SocketFlow.
LEMMA NextFlows ==
  TypeOK /\ IndexBounds /\ OneHolder /\ SocketFlow /\ [Next]_vars => SocketFlow'
<1> SUFFICES ASSUME TypeOK, IndexBounds, OneHolder, SocketFlow, [Next]_vars PROVE SocketFlow'
  OBVIOUS
<1> USE ThreadAssumption, SocketAssumption, QueueSizeAssumption
    DEF Goto, Threads, ringVars, TypeOK, Critical, Used
<1>1. CASE OwnerStarts
  <2>1. CASE StartMaster
    BY <2>1 DEF StartMaster, SocketFlow
  <2>2. ASSUME NEW w \in Workers, StartWorker(w) PROVE SocketFlow'
    BY <2>2 DEF StartWorker, SocketFlow
  <2>3. CASE LoadCount \/ StoreCount \/ StartReturns
    BY <2>3 DEF LoadCount, StoreCount, StartReturns, SocketFlow
  <2>4. QED
    BY <1>1, <2>1, <2>2, <2>3 DEF OwnerStarts
<1>2. CASE Stop \/ AwaitStopped \/ Stopped
  BY <1>2 DEF Stop, AwaitStopped, Stopped, vars, SocketFlow
<1>3. CASE MasterLocks
  BY <1>3, LockFlows DEF MasterLocks, ProduceLock, JoinLock
<1>4. CASE MasterSteps
  <2>1. CASE MasterBegin \/ MasterLoop \/ PollNothing
    BY <2>1 DEF MasterBegin, MasterLoop, PollNothing, SocketFlow
  <2>2. CASE \E s \in Sockets : Accept(s)
    BY <2>2 DEF Accept, SocketFlow
  <2>3. CASE ProduceCheck
    BY <2>3 DEF ProduceCheck, SocketFlow
  <2>4. CASE ProduceSleep
    BY <2>4 DEF ProduceSleep, SocketFlow
  <2>5. CASE ProducePut
    BY <2>5 DEF ProducePut, SocketFlow
  <2>6. CASE Broadcast \/ JoinCheck \/ Destroy
    BY <2>6 DEF Broadcast, JoinCheck, Destroy, SocketFlow
  <2>7. QED
    BY <1>4, <2>1, <2>2, <2>3, <2>4, <2>5, <2>6 DEF MasterSteps
<1>5. ASSUME NEW w \in Workers, WorkerLocks(w) PROVE SocketFlow'
  BY <1>5, LockFlows DEF WorkerLocks, ConsumeLock, ExitLock
<1>6. ASSUME NEW w \in Workers, WorkerSteps(w) PROVE SocketFlow'
  <2>1. CASE WorkerBegin(w) \/ ConsumeCheck(w) \/ ConsumeSleep(w)
    BY <2>1 DEF WorkerBegin, ConsumeCheck, ConsumeSleep, IndexBounds, SocketFlow
  <2>2. CASE ConsumeTake(w)
    <3>1. sq_head > sq_tail => client' = [client EXCEPT ![w] = Item(0)] /\ Item(0) # NoSocket
      <4> SUFFICES ASSUME sq_head > sq_tail
                   PROVE  client' = [client EXCEPT ![w] = Item(0)] /\ Item(0) # NoSocket
        OBVIOUS
      <4>1. 0 \in 0 .. Used - 1
        OBVIOUS
      <4>2. Item(0) \in Queued
        BY <4>1 DEF Queued, Item
      <4>3. QED
        BY <2>2, <4>2, RingTake DEF OneHolder
    <3>2. mutex = w /\ mutex' = NoThread /\ pc' = [pc EXCEPT ![w] = "c_return"]
      BY <2>2 DEF ConsumeTake, SocketFlow
    <3>3. \A v \in Workers : client'[v] # NoSocket => pc'[v] \in {"c_return", "serve"}
      BY <2>2, <3>2 DEF ConsumeTake, SocketFlow
    <3>4. stop_flag = 0 => \A v \in Workers : pc'[v] = "c_return" => client'[v] # NoSocket
      BY <2>2, <3>1, <3>2 DEF ConsumeTake, SocketFlow
    <3>5. QED
      BY <2>2, <3>2, <3>3, <3>4 DEF ConsumeTake, SocketFlow
  <2>3. CASE ConsumeReturn(w) \/ Serve(w)
    BY <2>3 DEF ConsumeReturn, Serve, SocketFlow
  <2>4. CASE ExitLoad(w) \/ ExitStore(w)
    BY <2>4 DEF ExitLoad, ExitStore, SocketFlow
  <2>5. QED
    BY <1>6, <2>1, <2>2, <2>3, <2>4 DEF WorkerSteps
<1>7. ASSUME NEW t \in Threads, SpuriousWakeup(t) PROVE SocketFlow'
  BY <1>7 DEF SpuriousWakeup, SocketFlow
<1>8. CASE UNCHANGED vars
  BY <1>8 DEF vars, SocketFlow
<1>9. QED
  BY <1>1, <1>2, <1>3, <1>4, <1>5, <1>6, <1>7, <1>8 DEF Next

-------------------------------------------------------------------------------
(* What each step does to the holders *)

\* A step that touches neither the ring nor the hands of a thread.
Elsewhere == UNCHANGED <<ringVars, so, client>>

\* Such a step leaves every connection with its holder.
LEMMA HoldersSame ==
  ASSUME Elsewhere
  PROVE  Held' = Held /\ Queued' = Queued /\ Used' = Used /\ \A i : Item(i)' = Item(i)
BY DEF Elsewhere, ringVars, Held, Queued, Used, Slot, Item

\* The sockets in the ring, by place.
LEMMA QueuedItems == Queued = {Item(i) : i \in 0 .. Used - 1}
BY DEF Queued, Item

\* produce_socket moves its socket from the hand of the master into the ring.
LEMMA PutHolders ==
  ASSUME TypeOK, IndexBounds, ProducePut, Used < QueueSize
  PROVE  Queued' = Queued \cup {so} /\ Held' = Held
<1> SUFFICES ASSUME NEW n, n = Used
             PROVE  Queued' = Queued \cup {so} /\ Held' = Held
  OBVIOUS
<1>1. /\ Used' = n + 1 /\ n \in Nat
      /\ \A i \in 0 .. n - 1 : Item(i)' = Item(i)
      /\ Item(n)' = so
  BY RingPut DEF IndexBounds
<1>2. Queued' = {Item(i)' : i \in 0 .. n}
  <2>1. Queued' = {Item(i)' : i \in 0 .. Used' - 1}
    BY DEF Queued, Item
  <2>2. QED
    BY <1>1, <2>1
<1>3. Queued = {Item(i) : i \in 0 .. n - 1}
  BY QueuedItems
<1>4. Queued' = Queued \cup {so}
  <2>1. 0 .. n = (0 .. n - 1) \cup {n}
    BY <1>1
  <2>2. QED
    BY <1>1, <1>2, <1>3, <2>1
<1>5. QED
  BY <1>4 DEF Held, ProducePut

\* consume_socket moves the oldest socket from the ring into the hand of the
\* worker.
LEMMA TakeHolders ==
  ASSUME TypeOK, IndexBounds, OneHolder, SocketFlow,
         NEW w \in Workers, ConsumeTake(w), sq_head > sq_tail
  PROVE  /\ Item(0) \in Queued
         /\ Queued' = Queued \ {Item(0)}
         /\ client' = [client EXCEPT ![w] = Item(0)]
         /\ Held' = Held
<1> SUFFICES ASSUME NEW n, n = Used, NEW s, s = Item(0)
             PROVE  /\ s \in Queued
                    /\ Queued' = Queued \ {s}
                    /\ client' = [client EXCEPT ![w] = s]
                    /\ Held' = Held
  OBVIOUS
<1>1. /\ Used' = n - 1 /\ n \in Nat /\ n > 0
      /\ \A i \in 0 .. n - 2 : Item(i)' = Item(i + 1)
      /\ client' = [client EXCEPT ![w] = s]
  BY RingTake DEF IndexBounds, Used, TypeOK
<1>2. Queued' = {Item(i)' : i \in 0 .. n - 2}
  <2>1. Queued' = {Item(i)' : i \in 0 .. Used' - 1}
    BY DEF Queued, Item
  <2>2. (n - 1) - 1 = n - 2
    BY <1>1
  <2>3. QED
    BY <1>1, <2>1, <2>2
<1>3. Queued = {Item(i) : i \in 0 .. n - 1}
  BY QueuedItems
<1>4. \A i, j \in 0 .. n - 1 : Item(i) = Item(j) => i = j
  BY DEF OneHolder, Item
<1>5. Queued' = {Item(i) : i \in 1 .. n - 1}
  <2>1. \A i \in 0 .. n - 2 : i + 1 \in 1 .. n - 1
    BY <1>1
  <2>2. \A i \in 1 .. n - 1 : i - 1 \in 0 .. n - 2 /\ (i - 1) + 1 = i
    BY <1>1
  <2>3. QED
    BY <1>1, <1>2, <2>1, <2>2
<1>6. s \in Queued /\ Queued' = Queued \ {s}
  <2>1. 0 .. n - 1 = (1 .. n - 1) \cup {0} /\ 0 \notin 1 .. n - 1
    BY <1>1
  <2>2. QED
    BY <1>3, <1>4, <1>5, <2>1
<1>7. client[w] = NoSocket /\ so' = so
  BY DEF SocketFlow, ConsumeTake
<1>8. {client'[v] : v \in Workers} \cup {NoSocket} = {client[v] : v \in Workers} \cup {s, NoSocket}
  BY <1>1, <1>7 DEF TypeOK
<1>9. Held' = Held
  BY <1>6, <1>7, <1>8 DEF Held
<1>10. QED
  BY <1>1, <1>6, <1>9

\* A worker that lets go of its socket takes it out of the held ones, since
\* nobody else holds it.
LEMMA DropHolders ==
  ASSUME TypeOK, OneHolder, NEW w \in Workers, client[w] # NoSocket,
         client' = [client EXCEPT ![w] = NoSocket], UNCHANGED <<ringVars, so>>
  PROVE  /\ Queued' = Queued
         /\ client[w] \in Held
         /\ Held' = Held \ {client[w]}
<1>1. Queued' = Queued /\ so' = so
  BY DEF Queued, Slot, Used, ringVars
<1>2. \A v \in Workers : client'[v] = IF v = w THEN NoSocket ELSE client[v]
  BY DEF TypeOK
<1>3. \A v \in Workers \ {w} : client[v] # client[w]
  BY DEF OneHolder
<1>4. client[w] # so /\ client[w] \notin Queued
  BY DEF OneHolder
<1>5. Held' = ({so} \cup Queued \cup {client'[v] : v \in Workers}) \ {NoSocket}
  BY <1>1 DEF Held
<1>6. QED
  BY <1>1, <1>2, <1>3, <1>4, <1>5 DEF Held

\* A step moves a socket in one of five ways, or touches none.
LEMMA FiveMoves ==
  ASSUME TypeOK, SocketFlow, [Next]_vars
  PROVE  \/ \E s \in Sockets : Accept(s)
         \/ ProducePut
         \/ \E w \in Workers : ConsumeTake(w) \/ ConsumeReturn(w) \/ Serve(w)
         \/ /\ Elsewhere /\ open' = open
            /\ \A w \in Workers : pc'[w] = "serve" => pc[w] = "serve"
            /\ stop_flag' = stop_flag \/ stop_flag' # 0
<1> USE DEF Elsewhere, ringVars, countVars, waitVars, Goto
<1>1. CASE OwnerStarts
  BY <1>1
  DEF OwnerStarts, StartMaster, StartWorker, LoadCount, StoreCount, StartReturns, TypeOK, Threads
<1>2. CASE Stop \/ AwaitStopped \/ Stopped
  BY <1>2 DEF Stop, AwaitStopped, Stopped, vars, TypeOK, Threads
<1>3. CASE MasterLocks
  BY <1>3 DEF MasterLocks, ProduceLock, JoinLock, Lock, TypeOK, Threads
<1>4. CASE MasterSteps
  BY <1>4, ThreadAssumption
  DEF MasterSteps, MasterBegin, MasterLoop, PollNothing, ProduceCheck, ProduceSleep,
      Broadcast, JoinCheck, Destroy, TypeOK, Threads
<1>5. ASSUME NEW w \in Workers, WorkerLocks(w) \/ WorkerSteps(w),
             ~ (ConsumeTake(w) \/ ConsumeReturn(w) \/ Serve(w))
      PROVE  /\ Elsewhere /\ open' = open
             /\ \A v \in Workers : pc'[v] = "serve" => pc[v] = "serve"
             /\ stop_flag' = stop_flag
  BY <1>5
  DEF WorkerLocks, ConsumeLock, ExitLock, Lock, WorkerSteps, WorkerBegin, ConsumeCheck,
      ConsumeSleep, ExitLoad, ExitStore, TypeOK, Threads
<1>6. CASE (\E t \in Threads : SpuriousWakeup(t)) \/ UNCHANGED vars
  BY <1>6 DEF SpuriousWakeup, vars
<1>7. QED
  BY <1>1, <1>2, <1>3, <1>4, <1>5, <1>6 DEF Next

\* Every step keeps OneHolder.
LEMMA NextHolds ==
  TypeOK /\ IndexBounds /\ SocketFlow /\ OneHolder /\ [Next]_vars => OneHolder'
<1> SUFFICES ASSUME TypeOK, IndexBounds, SocketFlow, OneHolder, [Next]_vars PROVE OneHolder'
  OBVIOUS
<1>1. ASSUME NEW s \in Sockets, Accept(s) PROVE OneHolder'
  <2>1. /\ ringVars' = ringVars /\ client' = client /\ so' = s /\ open' = open \cup {s}
        /\ s \notin open /\ s # NoSocket
        /\ \A w \in Workers : pc'[w] = pc[w]
    BY <1>1, ThreadAssumption, SocketAssumption DEF Accept, Goto, TypeOK, Threads
  <2>2. Queued' = Queued /\ Used' = Used /\ \A i : Slot(i)' = Slot(i)
    BY <2>1 DEF Queued, Used, Slot, ringVars
  <2>3. Held' \subseteq Held \cup {s} /\ s \notin Held /\ Queued \subseteq Held
    BY <2>1, <2>2 DEF Held, OneHolder
  <2>4. \A w \in Workers : client[w] # NoSocket => client[w] \in Held
    BY DEF Held
  <2>5. QED
    BY <2>1, <2>2, <2>3, <2>4 DEF OneHolder, ringVars
<1>2. CASE ProducePut
  <2>1. \A w \in Workers : pc'[w] = pc[w]
    BY <1>2, ThreadAssumption DEF ProducePut, Goto, TypeOK, Threads
  <2>2. client' = client /\ open' = open /\ so' = NoSocket /\ so # NoSocket
    BY <1>2 DEF ProducePut, SocketFlow
  <2>3. CASE Used < QueueSize
    <3> SUFFICES ASSUME NEW n, n = Used PROVE OneHolder'
      OBVIOUS
    <3>1. Queued' = Queued \cup {so} /\ Held' = Held
      BY <1>2, <2>3, PutHolders
    <3>2. /\ Used' = n + 1 /\ n \in Nat
          /\ \A i \in 0 .. n - 1 : Item(i)' = Item(i) /\ Item(i) \in Queued
          /\ Item(n)' = so
      BY <1>2, <2>3, RingPut, QueuedItems DEF IndexBounds
    <3>3. \A i, j \in 0 .. n - 1 : Item(i) = Item(j) => i = j
      BY DEF OneHolder, Item
    <3>4. \A i, j \in 0 .. n : Item(i)' = Item(j)' => i = j
      BY <3>2, <3>3 DEF OneHolder
    <3>5. \A i, j \in 0 .. Used' - 1 : Item(i)' = Item(j)' => i = j
      BY <3>2, <3>4
    <3>6. QED
      BY <2>1, <2>2, <3>1, <3>5 DEF OneHolder, Item
  <2>4. CASE ~ (Used < QueueSize)
    <3>1. Queued' = Queued /\ Used' = Used /\ \A i : Item(i)' = Item(i)
      BY <1>2, <2>4 DEF ProducePut, Queued, Used, Slot, Item
    <3>2. Held' \subseteq Held
      BY <2>2, <3>1 DEF Held
    <3>3. QED
      BY <2>1, <2>2, <3>1, <3>2 DEF OneHolder, Item
  <2>5. QED
    BY <2>3, <2>4
<1>3. ASSUME NEW w \in Workers, ConsumeTake(w) PROVE OneHolder'
  <2>1. \A v \in Workers : pc'[v] = IF v = w THEN "c_return" ELSE pc[v]
    BY <1>3 DEF ConsumeTake, Goto, TypeOK, Threads
  <2>2. open' = open /\ so' = so /\ client[w] = NoSocket
    BY <1>3 DEF ConsumeTake, SocketFlow
  <2>3. CASE sq_head > sq_tail
    <3> SUFFICES ASSUME NEW n, n = Used, NEW s, s = Item(0) PROVE OneHolder'
      OBVIOUS
    <3>1. /\ s \in Queued /\ Queued' = Queued \ {s} /\ Held' = Held
          /\ \A v \in Workers : client'[v] = IF v = w THEN s ELSE client[v]
      BY <1>3, <2>3, TakeHolders DEF TypeOK
    <3>2. /\ Used' = n - 1 /\ n \in Nat
          /\ \A i \in 0 .. n - 2 : Item(i)' = Item(i + 1)
      BY <1>3, <2>3, RingTake DEF IndexBounds
    <3>3. \A i, j \in 0 .. n - 1 : Item(i) = Item(j) => i = j
      BY DEF OneHolder, Item
    <3>4. \A i, j \in 0 .. n - 2 : Item(i)' = Item(j)' => i = j
      BY <3>2, <3>3
    <3>5. \A i, j \in 0 .. Used' - 1 : Item(i)' = Item(j)' => i = j
      BY <3>2, <3>4
    <3>6. s # so /\ s # NoSocket /\ \A v \in Workers : client[v] # s
      BY <3>1 DEF OneHolder
    <3>7. QED
      BY <2>1, <2>2, <3>1, <3>5, <3>6 DEF OneHolder, Item
  <2>4. CASE ~ (sq_head > sq_tail)
    <3>1. Elsewhere
      BY <1>3, <2>4 DEF ConsumeTake, Elsewhere, ringVars
    <3>2. QED
      BY <2>1, <2>2, <3>1, HoldersSame DEF OneHolder, Item, Elsewhere
  <2>5. QED
    BY <2>3, <2>4
<1>4. ASSUME NEW w \in Workers, ConsumeReturn(w) PROVE OneHolder'
  <2>1. /\ ringVars' = ringVars /\ so' = so /\ open' = open
        /\ \A v \in Workers \ {w} : pc'[v] = pc[v]
    BY <1>4 DEF ConsumeReturn, Goto, TypeOK, Threads
  <2>2. CASE stop_flag = 0
    <3>1. client' = client /\ client[w] # NoSocket
      BY <1>4, <2>2 DEF ConsumeReturn, SocketFlow
    <3>2. QED
      BY <2>1, <3>1, HoldersSame DEF OneHolder, Item, Elsewhere
  <2>3. CASE stop_flag # 0
    <3>1. pc'[w] = "x_lock" /\ client' = [client EXCEPT ![w] = NoSocket]
      BY <1>4, <2>3 DEF ConsumeReturn, Goto, TypeOK, Threads
    <3>2. \A v \in Workers : client'[v] = IF v = w THEN NoSocket ELSE client[v]
      BY <3>1 DEF TypeOK
    <3>3. Queued' = Queued /\ Used' = Used /\ \A i : Item(i)' = Item(i)
      BY <2>1 DEF Queued, Used, Slot, Item, ringVars
    <3>4. Held' \subseteq Held
      BY <2>1, <3>2, <3>3 DEF Held
    <3>5. QED
      BY <2>1, <3>1, <3>2, <3>3, <3>4 DEF OneHolder, Item
  <2>4. QED
    BY <2>2, <2>3
<1>5. ASSUME NEW w \in Workers, Serve(w) PROVE OneHolder'
  <2>1. /\ ringVars' = ringVars /\ so' = so /\ open' = open \ {client[w]}
        /\ client' = [client EXCEPT ![w] = NoSocket]
        /\ client[w] # NoSocket
        /\ \A v \in Workers : pc'[v] = IF v = w THEN "c_lock" ELSE pc[v]
    BY <1>5 DEF Serve, Goto, TypeOK, Threads, OneHolder
  <2>2. \A v \in Workers : client'[v] = IF v = w THEN NoSocket ELSE client[v]
    BY <2>1 DEF TypeOK
  <2>3. Used' = Used /\ \A i : Item(i)' = Item(i)
    BY <2>1 DEF Used, Slot, Item, ringVars
  <2>4. Queued' = Queued /\ Held' = Held \ {client[w]}
    BY <2>1, DropHolders
  <2>5. QED
    BY <2>1, <2>2, <2>3, <2>4 DEF OneHolder, Item
<1>6. CASE /\ Elsewhere /\ open' = open
           /\ \A w \in Workers : pc'[w] = "serve" => pc[w] = "serve"
  BY <1>6, HoldersSame DEF OneHolder, Item, Elsewhere
<1>7. QED
  BY <1>1, <1>2, <1>3, <1>4, <1>5, <1>6, FiveMoves

\* Every step keeps NoLeakWhileRunning.
LEMMA NextKeeps ==
  TypeOK /\ IndexBounds /\ SocketFlow /\ OneHolder /\ NoLeakWhileRunning /\ [Next]_vars
    => NoLeakWhileRunning'
<1> SUFFICES ASSUME TypeOK, IndexBounds, SocketFlow, OneHolder, NoLeakWhileRunning,
                    [Next]_vars, stop_flag' = 0
             PROVE  open' = Held'
  BY DEF NoLeakWhileRunning
<1>1. ASSUME NEW s \in Sockets, Accept(s) PROVE open' = Held'
  <2>1. /\ so = NoSocket /\ so' = s /\ s # NoSocket /\ client' = client
        /\ open' = open \cup {s} /\ open = Held /\ ringVars' = ringVars
    BY <1>1, SocketAssumption DEF Accept, SocketFlow, NoLeakWhileRunning
  <2>2. Queued' = Queued
    BY <2>1 DEF Queued, Slot, Used, ringVars
  <2>3. QED
    BY <2>1, <2>2 DEF Held
<1>2. CASE ProducePut
  <2>1. stop_flag = 0 /\ Used < QueueSize /\ open' = open
    BY <1>2 DEF ProducePut, SocketFlow
  <2>2. QED
    BY <1>2, <2>1, PutHolders DEF NoLeakWhileRunning
<1>3. ASSUME NEW w \in Workers, ConsumeTake(w) PROVE open' = Held'
  <2>1. stop_flag = 0 /\ sq_head > sq_tail /\ open' = open
    BY <1>3 DEF ConsumeTake, SocketFlow
  <2>2. QED
    BY <1>3, <2>1, TakeHolders DEF NoLeakWhileRunning
<1>4. ASSUME NEW w \in Workers, ConsumeReturn(w) PROVE open' = Held'
  <2>1. stop_flag = 0 /\ Elsewhere /\ open' = open
    BY <1>4 DEF ConsumeReturn, Elsewhere
  <2>2. QED
    BY <2>1, HoldersSame DEF NoLeakWhileRunning
<1>5. ASSUME NEW w \in Workers, Serve(w) PROVE open' = Held'
  <2>1. /\ stop_flag = 0 /\ client[w] # NoSocket /\ open' = open \ {client[w]}
        /\ client' = [client EXCEPT ![w] = NoSocket]
        /\ UNCHANGED <<ringVars, so>>
    BY <1>5 DEF Serve, OneHolder
  <2>2. QED
    BY <2>1, DropHolders DEF NoLeakWhileRunning
<1>6. CASE Elsewhere /\ open' = open /\ (stop_flag' = stop_flag \/ stop_flag' # 0)
  BY <1>6, HoldersSame DEF NoLeakWhileRunning
<1>7. QED
  BY <1>1, <1>2, <1>3, <1>4, <1>5, <1>6, FiveMoves

-------------------------------------------------------------------------------
(* The theorems *)

\* Before the first connection nobody holds anything.
LEMMA InitHolders ==
  ASSUME Init PROVE Used = 0 /\ Queued = {} /\ Held = {}
<1>1. Used = 0
  BY DEF Init, Used
<1>2. 0 .. Used - 1 = {}
  BY <1>1
<1>3. Queued = {}
  BY <1>2 DEF Queued
<1>4. QED
  BY <1>1, <1>3 DEF Init, Held

\* Program counters and sockets fit together in every reachable state.
LEMMA Flow == Spec => [](SocketFlow /\ OneHolder)
<1>1. Init => SocketFlow /\ OneHolder
  <2> SUFFICES ASSUME Init PROVE SocketFlow /\ OneHolder
    OBVIOUS
  <2>1. SocketFlow
    BY ThreadAssumption, QueueSizeAssumption DEF Init, SocketFlow, Threads, Critical
  <2>2. OneHolder
    <3>1. \A i, j \in 0 .. Used - 1 : i = j
      BY InitHolders
    <3>2. QED
      BY <3>1, InitHolders, ThreadAssumption DEF Init, OneHolder, Threads
  <2>3. QED
    BY <2>1, <2>2
<1>2. QED
  BY <1>1, NextFlows, NextHolds, Typing, RingBounded, PTL DEF Spec

\* However workers and master interleave, whichever threads fail to start and
\* however often descriptors are reused, a connection has one holder.
THEOREM SingleHolder == Spec => []OneHolder
BY Flow, PTL

\* produce_socket and consume_socket forget no connection before mg_stop.
THEOREM NothingLost == Spec => []NoLeakWhileRunning
<1>1. Init => NoLeakWhileRunning
  BY InitHolders DEF Init, NoLeakWhileRunning
<1>2. QED
  BY <1>1, NextKeeps, Flow, Typing, RingBounded, PTL DEF Spec

-------------------------------------------------------------------------------
(* Refinement *)

\* The ring as the sequence of the sockets in it.
Ring == [i \in 1 .. Used |-> queue[Slot(i - 1)]]

\* It is one, of the length the indices say.
LEMMA RingIsSequence ==
  ASSUME TypeOK, IndexBounds
  PROVE  /\ Ring \in Seq(Sockets \cup {NoSocket})
         /\ Len(Ring) = Used
         /\ \A i \in 1 .. Used : Ring[i] = Item(i - 1) /\ Ring[i] \in Queued
<1>1. \A i \in 1 .. Used : i - 1 \in 0 .. Used - 1 /\ Slot(i - 1) \in 0 .. QueueSize - 1
  BY ModRange DEF Slot, TypeOK, IndexBounds, Used
<1>2. Used \in Nat /\ \A i \in 1 .. Used : queue[Slot(i - 1)] \in Sockets \cup {NoSocket}
  BY <1>1 DEF TypeOK, IndexBounds
<1>3. Ring \in [1 .. Used -> Sockets \cup {NoSocket}]
  BY <1>2 DEF Ring
<1>4. QED
  BY <1>1, <1>2, <1>3, QueuedItems DEF Ring, Item

\* Putting a socket into the ring appends it.
LEMMA RingAppends ==
  ASSUME TypeOK, TypeOK', IndexBounds, IndexBounds', ProducePut, Used < QueueSize
  PROVE  Ring' = Append(Ring, so)
<1> SUFFICES ASSUME NEW n, n = Used PROVE Ring' = Append(Ring, so)
  OBVIOUS
<1>1. /\ Used' = n + 1 /\ n \in Nat
      /\ \A i \in 0 .. n - 1 : Item(i)' = Item(i)
      /\ Item(n)' = so
  BY RingPut DEF IndexBounds
<1>2. /\ Ring \in Seq(Sockets \cup {NoSocket}) /\ Len(Ring) = n
      /\ \A i \in 1 .. n : Ring[i] = Item(i - 1)
  BY RingIsSequence
<1>3. so \in Sockets \cup {NoSocket} /\ n + 1 \in Nat
  BY <1>1 DEF TypeOK
<1>4. /\ Append(Ring, so) \in Seq(Sockets \cup {NoSocket}) /\ Len(Append(Ring, so)) = n + 1
      /\ \A i \in 1 .. n : Append(Ring, so)[i] = Ring[i]
      /\ Append(Ring, so)[n + 1] = so
  BY <1>2, <1>3, AppendProperties
<1>5. \A i \in 1 .. n + 1 : Item(i - 1)' = Append(Ring, so)[i]
  <2> TAKE i \in 1 .. n + 1
  <2>1. CASE i = n + 1
    BY <1>1, <1>4, <2>1
  <2>2. CASE i # n + 1
    <3>1. i - 1 \in 0 .. n - 1 /\ i \in 1 .. n
      BY <1>1, <2>2
    <3>2. QED
      BY <1>1, <1>2, <1>4, <2>2, <3>1
  <2>3. QED
    BY <2>1, <2>2
<1>6. Ring' = [i \in 1 .. n + 1 |-> Append(Ring, so)[i]]
  BY <1>1, <1>5 DEF Ring, Item
<1>7. Append(Ring, so) = [i \in 1 .. n + 1 |-> Append(Ring, so)[i]]
  BY <1>4, LenProperties
<1>8. QED
  BY <1>6, <1>7

\* Taking the oldest socket out leaves the tail of the sequence.
LEMMA RingShortens ==
  ASSUME TypeOK, TypeOK', IndexBounds, IndexBounds',
         NEW w \in Workers, ConsumeTake(w), sq_head > sq_tail
  PROVE  Ring # <<>> /\ Head(Ring) = Item(0) /\ Ring' = Tail(Ring)
<1> SUFFICES ASSUME NEW n, n = Used
             PROVE  Ring # <<>> /\ Head(Ring) = Item(0) /\ Ring' = Tail(Ring)
  OBVIOUS
<1>1. /\ Used' = n - 1 /\ n \in Nat /\ n > 0
      /\ \A i \in 0 .. n - 2 : Item(i)' = Item(i + 1)
  <2>1. n \in Nat /\ n > 0
    BY DEF IndexBounds, Used, TypeOK
  <2>2. QED
    BY <2>1, RingTake
<1>2. /\ Ring \in Seq(Sockets \cup {NoSocket}) /\ Len(Ring) = n
      /\ \A i \in 1 .. n : Ring[i] = Item(i - 1)
  BY RingIsSequence
<1>3. Ring' = [i \in 1 .. n - 1 |-> Item(i - 1)']
  BY <1>1 DEF Ring, Item
<1>4. Ring # <<>> /\ Head(Ring) = Ring[1] /\ Tail(Ring) = [i \in 1 .. n - 1 |-> Ring[i + 1]]
  <2>1. Ring # <<>> /\ Head(Ring) = Ring[1]
    BY <1>1, <1>2
  <2>2. /\ Tail(Ring) \in [1 .. n - 1 -> Sockets \cup {NoSocket}]
        /\ \A i \in 1 .. n - 1 : Tail(Ring)[i] = Ring[i + 1]
    BY <1>2, <2>1, HeadTailProperties, LenProperties
  <2>3. QED
    BY <2>1, <2>2
<1>5. \A i \in 1 .. n - 1 : Item(i - 1)' = Ring[i + 1]
  <2> TAKE i \in 1 .. n - 1
  <2>1. i - 1 \in 0 .. n - 2 /\ i + 1 \in 1 .. n /\ (i - 1) + 1 = (i + 1) - 1
    BY <1>1
  <2>2. QED
    BY <1>1, <1>2, <2>1
<1>6. Ring[1] = Item(0)
  <2>1. 1 \in 1 .. n /\ 1 - 1 = 0
    BY <1>1
  <2>2. QED
    BY <1>2, <2>1
<1>7. QED
  BY <1>3, <1>4, <1>5, <1>6

\* Every step of the pool is a step of the hand-over.
LEMMA StepsRefine ==
  ASSUME TypeOK, TypeOK', IndexBounds, IndexBounds', SocketFlow, OneHolder, [Next]_vars
  PROVE  [Handover!Next]_(Handover!vars)
<1> USE DEF Handover!vars, Ring
<1>1. ASSUME NEW s \in Sockets, Accept(s) PROVE Handover!Accept(s)
  <2>1. /\ so = NoSocket /\ so' = s /\ s # NoSocket /\ client' = client
        /\ s \notin open /\ open' = open \cup {s} /\ ringVars' = ringVars
        /\ stop_flag' = stop_flag
    BY <1>1, SocketAssumption DEF Accept, SocketFlow
  <2>2. Queued' = Queued /\ Ring' = Ring
    BY <2>1 DEF Queued, Slot, Used, ringVars
  <2>3. Held' = Held \cup {s} /\ s \notin Held
    BY <2>1, <2>2 DEF Held, OneHolder
  <2>4. open' \ Held' = open \ Held
    BY <2>1, <2>3
  <2>5. Handover!Free(s)
    <3>1. \A w \in Workers : client[w] # s
      BY <2>1, <2>3 DEF Held
    <3>2. \A i \in DOMAIN Ring : Ring[i] # s
      BY <2>1, <2>3, RingIsSequence DEF Held
    <3>3. QED
      BY <2>1, <3>1, <3>2 DEF Handover!Free, Handover!InQueue
  <2>6. QED
    BY <2>1, <2>2, <2>4, <2>5 DEF Handover!Accept
<1>2. CASE ProducePut
  <2>1. client' = client /\ open' = open /\ so' = NoSocket /\ so # NoSocket /\ stop_flag' = stop_flag
    BY <1>2 DEF ProducePut, SocketFlow
  <2>2. CASE Used < QueueSize
    <3>1. Held' = Held /\ Ring' = Append(Ring, so) /\ Len(Ring) = Used
      BY <1>2, <2>2, PutHolders, RingAppends, RingIsSequence
    <3>2. QED
      BY <2>1, <2>2, <3>1 DEF Handover!Enqueue, Handover!Next
  <2>3. CASE ~ (Used < QueueSize)
    <3>1. stop_flag # 0
      BY <1>2, <2>3 DEF ProducePut, SocketFlow
    <3>2. Queued' = Queued /\ Ring' = Ring
      BY <1>2, <2>3 DEF ProducePut, Queued, Slot, Used
    <3>3. so \in Held /\ Held' = Held \ {so} /\ Held \subseteq open
      BY <2>1, <3>2 DEF Held, OneHolder
    <3>4. open' \ Held' = (open \ Held) \cup {so}
      BY <2>1, <3>3
    <3>5. QED
      BY <2>1, <3>1, <3>2, <3>4 DEF Handover!LoseHand, Handover!Next
  <2>4. QED
    BY <2>2, <2>3
<1>3. ASSUME NEW w \in Workers, ConsumeTake(w) PROVE [Handover!Next]_(Handover!vars)
  <2>1. open' = open /\ so' = so /\ stop_flag' = stop_flag /\ client[w] = NoSocket
    BY <1>3 DEF ConsumeTake, SocketFlow
  <2>2. CASE sq_head > sq_tail
    <3>1. Held' = Held /\ client' = [client EXCEPT ![w] = Item(0)]
      BY <1>3, <2>2, TakeHolders
    <3>2. Ring # <<>> /\ Head(Ring) = Item(0) /\ Ring' = Tail(Ring)
      BY <1>3, <2>2, RingShortens
    <3>3. QED
      BY <2>1, <3>1, <3>2 DEF Handover!Take, Handover!Next
  <2>3. CASE ~ (sq_head > sq_tail)
    <3>1. Elsewhere
      BY <1>3, <2>3 DEF ConsumeTake, Elsewhere, ringVars
    <3>2. QED
      BY <2>1, <3>1, HoldersSame DEF Elsewhere, ringVars, Slot
  <2>4. QED
    BY <2>2, <2>3
<1>4. ASSUME NEW w \in Workers, ConsumeReturn(w) PROVE [Handover!Next]_(Handover!vars)
  <2>1. so' = so /\ open' = open /\ ringVars' = ringVars /\ stop_flag' = stop_flag
    BY <1>4 DEF ConsumeReturn
  <2>2. CASE client' = client
    BY <2>1, <2>2, HoldersSame DEF Elsewhere, ringVars, Slot
  <2>3. CASE client' # client
    <3>1. stop_flag # 0 /\ client' = [client EXCEPT ![w] = NoSocket] /\ client[w] # NoSocket
      BY <1>4, <2>3 DEF ConsumeReturn, TypeOK
    <3>2. client[w] \in Held /\ Held' = Held \ {client[w]} /\ Held \subseteq open
      BY <2>1, <3>1, DropHolders DEF OneHolder
    <3>3. open' \ Held' = (open \ Held) \cup {client[w]}
      BY <2>1, <3>2
    <3>4. Ring' = Ring
      BY <2>1 DEF Slot, Used, ringVars
    <3>5. QED
      BY <2>1, <3>1, <3>3, <3>4 DEF Handover!LoseServed, Handover!Next
  <2>4. QED
    BY <2>2, <2>3
<1>5. ASSUME NEW w \in Workers, Serve(w) PROVE [Handover!Next]_(Handover!vars)
  <2>1. /\ ringVars' = ringVars /\ so' = so /\ open' = open \ {client[w]}
        /\ client' = [client EXCEPT ![w] = NoSocket]
        /\ client[w] # NoSocket /\ stop_flag' = stop_flag
    BY <1>5 DEF Serve, OneHolder
  <2>2. client[w] \in Held /\ Held' = Held \ {client[w]} /\ Held \subseteq open
    BY <2>1, DropHolders DEF OneHolder
  <2>3. open' \ Held' = open \ Held
    BY <2>1, <2>2
  <2>4. Ring' = Ring
    BY <2>1 DEF Slot, Used, ringVars
  <2>5. QED
    BY <2>1, <2>3, <2>4 DEF Handover!Finish, Handover!Next
<1>6. CASE Elsewhere /\ open' = open /\ (stop_flag' = stop_flag \/ stop_flag' # 0)
  <2>1. Held' = Held /\ Ring' = Ring /\ so' = so /\ client' = client
    BY <1>6, HoldersSame DEF Elsewhere, ringVars, Slot
  <2>2. QED
    BY <1>6, <2>1 DEF Handover!RequestStop, Handover!Next
<1>7. QED
  BY <1>1, <1>2, <1>3, <1>4, <1>5, <1>6, FiveMoves DEF Handover!Next

\* The ring, its mutex and its condition variables implement the bounded
\* first-in first-out hand-over of ConnectionQueue.
THEOREM Refinement == Spec => ImplementsHandover
<1>1. Init => Handover!Init
  <2> SUFFICES ASSUME Init PROVE Handover!Init
    OBVIOUS
  <2>1. Ring = <<>>
    BY InitHolders DEF Ring
  <2>2. QED
    BY <2>1, InitHolders DEF Init, Handover!Init, Ring
<1>2. QED
  BY <1>1, StepsRefine, Flow, Typing, RingBounded, PTL
  DEF Spec, ImplementsHandover, Handover!Spec
===============================================================================
