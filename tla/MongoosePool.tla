----------------------------- MODULE MongoosePool -----------------------------
(***************************************************************************)
(* The thread pool of the embedded web server (src/src/rpc/mongoose.c):    *)
(* mg_start creates a master thread and num_threads workers, the master    *)
(* accepts connections and puts them in a ring buffer (produce_socket),    *)
(* the workers take them out (consume_socket), serve and close them, and   *)
(* mg_stop asks everybody to leave and waits for it.                       *)
(*                                                                         *)
(* One action is one maximal stretch of code that no other thread can      *)
(* observe half done.  Queue indices are only touched under ctx->mutex;    *)
(* stop_flag is read and written without it, so every read of stop_flag    *)
(* is a step of its own, and so is each access to num_threads that         *)
(* mg_start makes without the mutex.  A condition variable is the set of   *)
(* the threads blocked on it; a blocked thread keeps the label of the lock *)
(* it has to take again when it is woken.                                  *)
(***************************************************************************)
EXTENDS Integers, FiniteSets

CONSTANTS
  Workers,    \* the worker threads mg_start tries to create
  Master,     \* master_thread
  Owner,      \* the thread that calls mg_start and mg_stop
  Sockets,    \* descriptors the kernel can hand out
  NoSocket,   \* INVALID_SOCKET
  NoThread,   \* nobody holds the mutex
  QueueSize,  \* ARRAY_SIZE(ctx->queue)
  Failing     \* threads whose pthread_create or first calloc may fail

Threads == Workers \cup {Master, Owner}

ASSUME QueueSizeAssumption == QueueSize \in Nat \ {0}

ASSUME ThreadAssumption ==
  /\ Master \notin Workers /\ Owner \notin Workers /\ Master # Owner
  /\ NoThread \notin Threads
  /\ Failing \subseteq Workers \cup {Master}

ASSUME SocketAssumption == NoSocket \notin Sockets

ASSUME FiniteAssumption == IsFiniteSet(Workers)

VARIABLES
  stop_flag,    \* 0 running, 1 stop requested, 2 master finished
  num_threads,  \* ctx->num_threads
  mutex,        \* holder of ctx->mutex
  queue,        \* ctx->queue, the ring of accepted sockets
  sq_head,      \* ctx->sq_head
  sq_tail,      \* ctx->sq_tail
  sq_full,      \* workers blocked on ctx->sq_full
  sq_empty,     \* threads blocked on ctx->sq_empty
  cond,         \* threads blocked on ctx->cond
  pc,           \* where each thread is
  so,           \* the socket accept_new_connection holds
  client,       \* conn->client.sock of each worker
  reg,          \* the value a thread has loaded to update num_threads
  open          \* descriptors of accepted connections that are not closed

ringVars == <<queue, sq_head, sq_tail>>
waitVars == <<sq_full, sq_empty, cond>>
countVars == <<num_threads, reg>>
vars == <<stop_flag, countVars, mutex, ringVars, waitVars, pc, so, client, open>>

Goto(t, label) == pc' = [pc EXCEPT ![t] = label]

\* pthread_cond_signal: one blocked thread, if there is one, is released.
Signalled(S) == IF S = {} THEN {S} ELSE {S \ {t} : t \in S}

Used == sq_head - sq_tail

\* calloc zeroes the context; mg_start has not created any thread yet.
Init ==
  /\ stop_flag = 0
  /\ num_threads = 0
  /\ mutex = NoThread
  /\ queue = [i \in 0 .. QueueSize - 1 |-> NoSocket]
  /\ sq_head = 0
  /\ sq_tail = 0
  /\ sq_full = {}
  /\ sq_empty = {}
  /\ cond = {}
  /\ pc = [t \in Threads |-> IF t = Owner THEN "start_master" ELSE "none"]
  /\ so = NoSocket
  /\ client = [w \in Workers |-> NoSocket]
  /\ reg = [t \in Workers \cup {Owner} |-> 0]
  /\ open = {}

-------------------------------------------------------------------------------
(* Locks and condition variables *)

\* pthread_mutex_lock, or the second half of pthread_cond_wait: the thread is
\* not blocked on a condition variable any more and takes the free mutex.
Lock(t, from, to) ==
  /\ pc[t] = from
  /\ t \notin sq_full \cup sq_empty \cup cond
  /\ mutex = NoThread
  /\ mutex' = t
  /\ Goto(t, to)
  /\ UNCHANGED <<stop_flag, countVars, ringVars, waitVars, so, client, open>>

\* POSIX lets pthread_cond_wait return although nobody signalled.
SpuriousWakeup(t) ==
  /\ t \in sq_full \cup sq_empty \cup cond
  /\ sq_full' = sq_full \ {t}
  /\ sq_empty' = sq_empty \ {t}
  /\ cond' = cond \ {t}
  /\ UNCHANGED <<stop_flag, countVars, mutex, ringVars, pc, so, client, open>>

-------------------------------------------------------------------------------
(* mg_start and mg_stop, in the thread of the caller *)

\* The result of creating the master thread is ignored.
StartMaster ==
  /\ pc[Owner] = "start_master"
  /\ \E label \in {"begin"} \cup {l \in {"failed"} : Master \in Failing} :
       pc' = [pc EXCEPT ![Owner] = "spawn", ![Master] = label]
  /\ UNCHANGED <<stop_flag, countVars, mutex, ringVars, waitVars, so, client, open>>

StartWorker(w) ==
  /\ pc[Owner] = "spawn"
  /\ pc[w] = "none"
  /\ \/ pc' = [pc EXCEPT ![Owner] = "load_count", ![w] = "begin"]
     \/ w \in Failing /\ Goto(w, "failed")
  /\ UNCHANGED <<stop_flag, countVars, mutex, ringVars, waitVars, so, client, open>>

\* ctx->num_threads++ without the mutex: a load, then a store.
LoadCount ==
  /\ pc[Owner] = "load_count"
  /\ reg' = [reg EXCEPT ![Owner] = num_threads]
  /\ Goto(Owner, "store_count")
  /\ UNCHANGED <<stop_flag, num_threads, mutex, ringVars, waitVars, so, client, open>>

StoreCount ==
  /\ pc[Owner] = "store_count"
  /\ num_threads' = reg[Owner] + 1
  /\ reg' = [reg EXCEPT ![Owner] = 0]
  /\ Goto(Owner, "spawn")
  /\ UNCHANGED <<stop_flag, mutex, ringVars, waitVars, so, client, open>>

StartReturns ==
  /\ pc[Owner] = "spawn"
  /\ \A w \in Workers : pc[w] # "none"
  /\ Goto(Owner, "running")
  /\ UNCHANGED <<stop_flag, countVars, mutex, ringVars, waitVars, so, client, open>>

Stop ==
  /\ pc[Owner] = "running"
  /\ stop_flag' = 1
  /\ Goto(Owner, "stopping")
  /\ UNCHANGED <<countVars, mutex, ringVars, waitVars, so, client, open>>

\* mg_stop polls stop_flag every 10 ms and frees the context when it is 2.
AwaitStopped ==
  /\ pc[Owner] = "stopping"
  /\ IF stop_flag = 2 THEN Goto(Owner, "freed") ELSE UNCHANGED pc
  /\ UNCHANGED <<stop_flag, countVars, mutex, ringVars, waitVars, so, client, open>>

\* The context is gone; the caller goes on with its own business.
Stopped ==
  /\ pc[Owner] = "freed"
  /\ UNCHANGED vars

-------------------------------------------------------------------------------
(* master_thread *)

\* Without memory for the poll set the master goes straight to its shutdown.
MasterBegin ==
  /\ pc[Master] = "begin"
  /\ \/ Goto(Master, "loop")
     \/ Master \in Failing /\ Goto(Master, "broadcast")
  /\ UNCHANGED <<stop_flag, countVars, mutex, ringVars, waitVars, so, client, open>>

MasterLoop ==
  /\ pc[Master] = "loop"
  /\ Goto(Master, IF stop_flag = 0 THEN "poll" ELSE "broadcast")
  /\ UNCHANGED <<stop_flag, countVars, mutex, ringVars, waitVars, so, client, open>>

\* poll timed out, stop_flag was set meanwhile, accept failed, or the access
\* list refused the peer, whose socket is closed at once.
PollNothing ==
  /\ pc[Master] = "poll"
  /\ Goto(Master, "loop")
  /\ UNCHANGED <<stop_flag, countVars, mutex, ringVars, waitVars, so, client, open>>

Accept(s) ==
  /\ pc[Master] = "poll"
  /\ stop_flag = 0
  /\ s \notin open
  /\ open' = open \cup {s}
  /\ so' = s
  /\ Goto(Master, "p_lock")
  /\ UNCHANGED <<stop_flag, countVars, mutex, ringVars, waitVars, client>>

ProduceLock == Lock(Master, "p_lock", "p_check")

\* Mutant: produce_socket does not wait for room.
ProduceCheckNoWait ==
  /\ pc[Master] = "p_check"
  /\ Goto(Master, "p_put")
  /\ UNCHANGED <<stop_flag, countVars, mutex, ringVars, waitVars, so, client, open>>

ProduceCheck ==
  /\ pc[Master] = "p_check"
  /\ Goto(Master, IF stop_flag = 0 /\ Used >= QueueSize THEN "p_sleep" ELSE "p_put")
  /\ UNCHANGED <<stop_flag, countVars, mutex, ringVars, waitVars, so, client, open>>

ProduceSleep ==
  /\ pc[Master] = "p_sleep"
  /\ mutex' = NoThread
  /\ sq_empty' = sq_empty \cup {Master}
  /\ Goto(Master, "p_lock")
  /\ UNCHANGED <<stop_flag, countVars, ringVars, sq_full, cond, so, client, open>>

\* Mutant: produce_socket does not signal sq_full.
ProducePutSilently ==
  /\ pc[Master] = "p_put"
  /\ IF Used < QueueSize
       THEN /\ queue' = [queue EXCEPT ![sq_head % QueueSize] = so]
            /\ sq_head' = sq_head + 1
       ELSE UNCHANGED <<queue, sq_head>>
  /\ so' = NoSocket
  /\ mutex' = NoThread
  /\ Goto(Master, "loop")
  /\ UNCHANGED <<stop_flag, countVars, sq_tail, waitVars, client, open>>

\* The socket is copied to the queue, or forgotten when the queue is still
\* full; both ways sq_full is signalled and the mutex released.
ProducePut ==
  /\ pc[Master] = "p_put"
  /\ IF Used < QueueSize
       THEN /\ queue' = [queue EXCEPT ![sq_head % QueueSize] = so]
            /\ sq_head' = sq_head + 1
       ELSE UNCHANGED <<queue, sq_head>>
  /\ so' = NoSocket
  /\ sq_full' \in Signalled(sq_full)
  /\ mutex' = NoThread
  /\ Goto(Master, "loop")
  /\ UNCHANGED <<stop_flag, countVars, sq_tail, sq_empty, cond, client, open>>

\* The listening sockets are closed and all idle workers woken, without the
\* mutex.
Broadcast ==
  /\ pc[Master] = "broadcast"
  /\ sq_full' = {}
  /\ Goto(Master, "j_lock")
  /\ UNCHANGED <<stop_flag, countVars, mutex, ringVars, sq_empty, cond, so, client, open>>

JoinLock == Lock(Master, "j_lock", "j_check")

\* Mutant: the master does not wait for the workers.
JoinCheckNoWait ==
  /\ pc[Master] = "j_check"
  /\ mutex' = NoThread
  /\ Goto(Master, "destroy")
  /\ UNCHANGED <<stop_flag, countVars, ringVars, waitVars, so, client, open>>

JoinCheck ==
  /\ pc[Master] = "j_check"
  /\ mutex' = NoThread
  /\ IF num_threads > 0
       THEN cond' = cond \cup {Master} /\ Goto(Master, "j_lock")
       ELSE UNCHANGED cond /\ Goto(Master, "destroy")
  /\ UNCHANGED <<stop_flag, countVars, ringVars, sq_full, sq_empty, so, client, open>>

\* Mutex and condition variables are destroyed, mg_stop is told to go on.
Destroy ==
  /\ pc[Master] = "destroy"
  /\ stop_flag' = 2
  /\ Goto(Master, "done")
  /\ UNCHANGED <<countVars, mutex, ringVars, waitVars, so, client, open>>

-------------------------------------------------------------------------------
(* worker_thread *)

WorkerBegin(w) ==
  /\ pc[w] = "begin"
  /\ \/ Goto(w, "c_lock")
     \/ w \in Failing /\ Goto(w, "x_lock")
  /\ UNCHANGED <<stop_flag, countVars, mutex, ringVars, waitVars, so, client, open>>

ConsumeLock(w) == Lock(w, "c_lock", "c_check")

ConsumeCheck(w) ==
  /\ pc[w] = "c_check"
  /\ Goto(w, IF sq_head = sq_tail /\ stop_flag = 0 THEN "c_sleep" ELSE "c_take")
  /\ UNCHANGED <<stop_flag, countVars, mutex, ringVars, waitVars, so, client, open>>

\* Mutant: an idle worker waits on the wrong condition variable.
ConsumeSleepOnEmpty(w) ==
  /\ pc[w] = "c_sleep"
  /\ mutex' = NoThread
  /\ sq_empty' = sq_empty \cup {w}
  /\ Goto(w, "c_lock")
  /\ UNCHANGED <<stop_flag, countVars, ringVars, sq_full, cond, so, client, open>>

ConsumeSleep(w) ==
  /\ pc[w] = "c_sleep"
  /\ mutex' = NoThread
  /\ sq_full' = sq_full \cup {w}
  /\ Goto(w, "c_lock")
  /\ UNCHANGED <<stop_flag, countVars, ringVars, sq_empty, cond, so, client, open>>

\* Mutant: the indices are never wrapped.
WrapDownNever(t) == 0

\* The indices after the tail has advanced to t: both move down a whole ring
\* when the tail has passed its end.
WrapDown(t) == IF t > QueueSize THEN QueueSize ELSE 0

\* Mutant: consume_socket takes the newest socket.
ConsumeTakeNewest(w) ==
  /\ pc[w] = "c_take"
  /\ IF sq_head > sq_tail
       THEN /\ client' = [client EXCEPT ![w] = queue[(sq_head - 1) % QueueSize]]
            /\ sq_head' = sq_head - 1
       ELSE UNCHANGED <<client, sq_head>>
  /\ sq_empty' \in Signalled(sq_empty)
  /\ mutex' = NoThread
  /\ Goto(w, "c_return")
  /\ UNCHANGED <<stop_flag, countVars, queue, sq_tail, sq_full, cond, so, open>>

\* Mutant: consume_socket forgets to advance the tail.
ConsumeTakeKeepsTail(w) ==
  /\ pc[w] = "c_take"
  /\ IF sq_head > sq_tail
       THEN client' = [client EXCEPT ![w] = queue[sq_tail % QueueSize]]
       ELSE UNCHANGED client
  /\ sq_empty' \in Signalled(sq_empty)
  /\ mutex' = NoThread
  /\ Goto(w, "c_return")
  /\ UNCHANGED <<stop_flag, countVars, ringVars, sq_full, cond, so, open>>

ConsumeTake(w) ==
  /\ pc[w] = "c_take"
  /\ IF sq_head > sq_tail
       THEN /\ client' = [client EXCEPT ![w] = queue[sq_tail % QueueSize]]
            /\ sq_tail' = sq_tail + 1 - WrapDown(sq_tail + 1)
            /\ sq_head' = sq_head - WrapDown(sq_tail + 1)
       ELSE UNCHANGED <<client, sq_tail, sq_head>>
  /\ sq_empty' \in Signalled(sq_empty)
  /\ mutex' = NoThread
  /\ Goto(w, "c_return")
  /\ UNCHANGED <<stop_flag, countVars, queue, sq_full, cond, so, open>>

\* consume_socket returns !stop_flag, read after the unlock.  A worker told to
\* leave frees its connection object without closing the socket in it.
ConsumeReturn(w) ==
  /\ pc[w] = "c_return"
  /\ IF stop_flag = 0
       THEN Goto(w, "serve") /\ UNCHANGED client
       ELSE Goto(w, "x_lock") /\ client' = [client EXCEPT ![w] = NoSocket]
  /\ UNCHANGED <<stop_flag, countVars, mutex, ringVars, waitVars, so, open>>

\* Mutant: close_connection does not reset client.sock.
ServeKeepsSocket(w) ==
  /\ pc[w] = "serve"
  /\ open' = open \ {client[w]}
  /\ Goto(w, "c_lock")
  /\ UNCHANGED <<stop_flag, countVars, mutex, ringVars, waitVars, so, client>>

\* process_new_connection and close_connection.
Serve(w) ==
  /\ pc[w] = "serve"
  /\ open' = open \ {client[w]}
  /\ client' = [client EXCEPT ![w] = NoSocket]
  /\ Goto(w, "c_lock")
  /\ UNCHANGED <<stop_flag, countVars, mutex, ringVars, waitVars, so>>

\* Mutant: a leaving worker updates num_threads without the mutex.
ExitNoLock(w) ==
  /\ pc[w] = "x_lock"
  /\ Goto(w, "x_load")
  /\ UNCHANGED <<stop_flag, countVars, mutex, ringVars, waitVars, so, client, open>>

ExitLock(w) == Lock(w, "x_lock", "x_load")

\* ctx->num_threads-- under the mutex, which mg_start does not take.
ExitLoad(w) ==
  /\ pc[w] = "x_load"
  /\ reg' = [reg EXCEPT ![w] = num_threads]
  /\ Goto(w, "x_store")
  /\ UNCHANGED <<stop_flag, num_threads, mutex, ringVars, waitVars, so, client, open>>

ExitStore(w) ==
  /\ pc[w] = "x_store"
  /\ num_threads' = reg[w] - 1
  /\ reg' = [reg EXCEPT ![w] = 0]
  /\ cond' \in Signalled(cond)
  /\ mutex' = NoThread
  /\ Goto(w, "done")
  /\ UNCHANGED <<stop_flag, ringVars, sq_full, sq_empty, so, client, open>>

-------------------------------------------------------------------------------
OwnerStarts ==
  \/ StartMaster
  \/ \E w \in Workers : StartWorker(w)
  \/ LoadCount \/ StoreCount \/ StartReturns

MasterLocks == ProduceLock \/ JoinLock

MasterSteps ==
  \/ MasterBegin \/ MasterLoop \/ PollNothing
  \/ \E s \in Sockets : Accept(s)
  \/ ProduceCheck \/ ProduceSleep \/ ProducePut
  \/ Broadcast \/ JoinCheck \/ Destroy

WorkerLocks(w) == ConsumeLock(w) \/ ExitLock(w)

WorkerSteps(w) ==
  \/ WorkerBegin(w) \/ ConsumeCheck(w) \/ ConsumeSleep(w)
  \/ ConsumeTake(w) \/ ConsumeReturn(w) \/ Serve(w)
  \/ ExitLoad(w) \/ ExitStore(w)

Next ==
  \/ OwnerStarts \/ Stop \/ AwaitStopped \/ Stopped
  \/ MasterLocks \/ MasterSteps
  \/ \E w \in Workers : WorkerLocks(w) \/ WorkerSteps(w)
  \/ \E t \in Threads : SpuriousWakeup(t)

Spec == Init /\ [][Next]_vars

\* Every thread that can run runs, a thread that waits for the mutex gets it
\* some time, and a served connection ends (the client hangs up, or the
\* socket timeout set by set_sock_timeout expires).  Nothing is assumed about
\* stop requests, new connections or spurious wakeups.
Fairness ==
  /\ WF_vars(OwnerStarts) /\ WF_vars(AwaitStopped)
  /\ WF_vars(MasterSteps) /\ SF_vars(MasterLocks)
  /\ \A w \in Workers : WF_vars(WorkerSteps(w)) /\ SF_vars(WorkerLocks(w))

FairSpec == Spec /\ Fairness

-------------------------------------------------------------------------------
(* Properties *)

Labels ==
  {"none", "failed", "begin", "done",
   "start_master", "spawn", "load_count", "store_count", "running", "stopping", "freed",
   "loop", "poll", "p_lock", "p_check", "p_sleep", "p_put",
   "broadcast", "j_lock", "j_check", "destroy",
   "c_lock", "c_check", "c_sleep", "c_take", "c_return", "serve",
   "x_lock", "x_load", "x_store"}

\* Type invariant of struct mg_context and of the thread stacks.
TypeOK ==
  /\ stop_flag \in 0 .. 2
  /\ num_threads \in Int
  /\ mutex \in Threads \cup {NoThread}
  /\ queue \in [0 .. QueueSize - 1 -> Sockets \cup {NoSocket}]
  /\ sq_head \in Int
  /\ sq_tail \in Int
  /\ sq_full \subseteq Workers
  /\ sq_empty \subseteq {Master}
  /\ cond \subseteq {Master}
  /\ pc \in [Threads -> Labels]
  /\ so \in Sockets \cup {NoSocket}
  /\ client \in [Workers -> Sockets \cup {NoSocket}]
  /\ reg \in [Workers \cup {Owner} -> Int]
  /\ open \subseteq Sockets

Slot(i) == (sq_tail + i) % QueueSize

Queued == {queue[Slot(i)] : i \in 0 .. Used - 1}

Held == ({so} \cup Queued \cup {client[w] : w \in Workers}) \ {NoSocket}

\* The ring never holds more than QueueSize sockets, and the wrap in
\* consume_socket keeps both indices within two turns of the ring however
\* long the server runs.
IndexBounds ==
  /\ sq_tail \in 0 .. QueueSize
  /\ Used \in 0 .. QueueSize

\* A connection has one holder: the master, one ring slot or one worker.  No
\* worker serves INVALID_SOCKET or a connection another thread can still
\* serve or close, although consume_socket hands it over through a shared
\* array and the kernel reuses closed descriptors.
OneHolder ==
  /\ Held \subseteq open
  /\ NoSocket \notin Queued
  /\ \A i, j \in 0 .. Used - 1 : queue[Slot(i)] = queue[Slot(j)] => i = j
  /\ so \notin Queued
  /\ \A w \in Workers :
       /\ pc[w] = "serve" => client[w] # NoSocket
       /\ client[w] # NoSocket =>
            /\ client[w] # so
            /\ client[w] \notin Queued
            /\ \A v \in Workers \ {w} : client[v] # client[w]

\* While nobody has asked for a stop, every accepted connection is still in
\* somebody's hands: produce_socket forgets none.
NoLeakWhileRunning == stop_flag = 0 => open = Held

\* When the master destroys the mutex and lets mg_stop free the context, no
\* worker is left that could still use them.
NobodyLeftAtFree ==
  stop_flag = 2 => \A w \in Workers : pc[w] \in {"done", "failed"}

\* The workers that mg_start has created and that have not left.
Alive == {w \in Workers : pc[w] \notin {"none", "failed", "done"}}

Critical ==
  {"p_check", "p_sleep", "p_put", "j_check",
   "c_check", "c_sleep", "c_take", "x_load", "x_store"}

\* Why NobodyLeftAtFree holds when no thread fails to start: the thread in a
\* critical section holds the mutex; num_threads counts the workers alive, up
\* to the increment mg_start still owes; nobody leaves before mg_stop was
\* called, and mg_stop is called after mg_start returned, so the increments
\* made without the mutex never meet a decrement.
ThreadAccounting ==
  /\ \A t \in Threads : pc[t] \in Critical => mutex = t
  /\ num_threads + (IF pc[Owner] \in {"load_count", "store_count"} THEN 1 ELSE 0)
       = Cardinality(Alive)
  /\ pc[Owner] = "store_count" => reg[Owner] = num_threads
  /\ \A w \in Workers : pc[w] = "x_store" => reg[w] = num_threads
  /\ pc[Owner] \in {"start_master", "spawn", "load_count", "store_count",
                    "running", "stopping", "freed"}
  /\ pc[Owner] = "start_master" => pc[Master] = "none"
  /\ pc[Owner] \in {"stopping", "freed"} <=> stop_flag # 0
  /\ pc[Owner] \in {"running", "stopping", "freed"} =>
       \A w \in Workers : pc[w] # "none"
  /\ pc[Master] = "done" <=> stop_flag = 2
  /\ pc[Master] \in {"broadcast", "j_lock", "j_check", "destroy", "done"} =>
       stop_flag # 0
  /\ pc[Master] \in {"destroy", "done"} => Alive = {}
  /\ \A w \in Workers : pc[w] \in {"x_lock", "x_load", "x_store", "done"} =>
       stop_flag # 0

\* The ring with its mutex and condition variables implements the bounded
\* first-in first-out hand-over.
Handover == INSTANCE ConnectionQueue WITH
  Capacity <- QueueSize,
  hand <- so,
  waiting <- [i \in 1 .. Used |-> queue[Slot(i - 1)]],
  serving <- client,
  lost <- open \ Held,
  stopping <- stop_flag # 0

\* Every step of the pool is a step of ConnectionQueue or changes nothing it
\* can see.
ImplementsHandover == Handover!Spec

\* Every accepted connection is served and closed, unless the server is told
\* to stop: no signal is lost between produce_socket and consume_socket.
EveryConnectionServed ==
  \A s \in Sockets : s \in open ~> (s \notin open \/ stop_flag # 0)

\* mg_stop blocks until all threads are stopped, and so it returns when they
\* are: neither an idle worker nor a master that waits for room in the ring is
\* left asleep by the stop request.
StopReturns == pc[Owner] = "stopping" ~> pc[Owner] = "freed"

===============================================================================
