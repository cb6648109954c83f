# TAU-shell: TLA+ specification and proofs

TAU-shell is a daemon around the libTAU library.  It runs an embedded web
server (mongoose) that answers JSON RPC requests on `/rpc`, a libTAU session
that follows blockchain communities and exchanges chat messages, and an SQLite
database in which the daemon keeps its own record of communities, blocks,
transactions, friends and messages.  This directory models that program, checks
the models with TLC and proves the safety results with TLAPS.

## 1. The system

| Component | State | Operations | Interacts with |
|---|---|---|---|
| Web server thread pool (`src/src/rpc/mongoose.c` 4853-5210) | `struct mg_context`: `stop_flag`, `num_threads`, ring `queue` with `sq_head`, `sq_tail`, one mutex, three condition variables | `mg_start`, `mg_stop`, `master_thread`, `produce_socket`, `worker_thread`, `consume_socket` | kernel (accept, close), the caller, the workers among themselves |
| HTTP connection handling (`mongoose.c` 4715-4870, 1000-1600) | `struct mg_connection`: buffer, `data_len`, `content_len`, `consumed_content`, keep-alive | `process_new_connection`, `getreq`, `mg_read`, `mg_write` | client, web interface glue |
| Web interface glue (`src/src/rpc/webui.cpp`) | list of handlers, mongoose context | `start`, `stop`, `handle_http`, `add_handler` | mongoose callbacks, `tau_handler` |
| RPC handler (`src/src/handler/tau_handler.cpp`) | none of its own: the session and the database | one function per method of the table at 138-177 | session (first), database (second) |
| HTTP request handling (`mongoose.c` 4215-4307, 2783-3065) | the URI, the file it names | `handle_request`, `handle_file_request` | file system, web interface glue |
| Authentication (`src/src/rpc/auth.cpp`) | account table under a mutex, filled once from `users.conf` | `load_accounts`, `add_account`, `find_user`, `parse_http_auth` | `main`, RPC handler |
| Database layer (`src/src/util/db_util.cpp`, `src/config/1.json`) | eight tables | one function per kind of update, each one to three SQL statements without a transaction | RPC handler, alert handler |
| `main` and alert handler (`src/src/main.cpp`, `src/src/handler/alert_handler.cpp`) | the objects all threads share, `quit`, `force_quit`, `alert_queue` | start-up, signals, pop, dispatch, handle, destructors | everything |
| Pure helpers (`hex_util`, `json_util`, `jsmn`, `cdecode`, `escape_json`) | none | conversions and parsing | RPC handler |
| libTAU session (external) | followed chains, best chains, friends | calls of the RPC handler; posts alerts | RPC handler, main loop |
| `src/python_monitor.py` | - | restarts the daemon when it has died | process |

What is hard about it:

* **Threads.** 30 workers, the master, the thread that calls `mg_stop` and the
  main thread run at once.  `stop_flag` is read and written without the mutex,
  `num_threads` is incremented without it, and the database connection is shared
  by all of them.
* **Two stores without a transaction.**  A request first changes the session and
  then runs one to three SQL statements; the main thread writes to the same
  tables from alerts.  Other threads run between any two statements.
* **Lost work.**  The daemon may end at any statement.  Alerts that were queued or
  popped are then gone; the tables are not.
* **Order.**  A reorganisation of a chain shows as rollback and new-head alerts;
  the tables are right only if they are applied in order and every deletion hits
  the row it means.
* **Objects on the stack of `main`.**  Workers and alert handlers use the session, the
  database and the handlers that `main` constructs and, after a signal, destroys
  without stopping the web server.
* **Parsing in place.**  The URI is decoded and cleaned in its own buffer; lookups in
  the body of a request cut zeros into the text they search; arguments that are
  missing are null pointers.
* **Text as key.**  Chain ids and public keys are stored under text that different
  callers spell differently.

What makes each component correct is stated by the properties in section 4.
Every hazard that was found is in `PROJECT.json`, at its line, with the property
that would catch it, or with the reason why there is none.

## 2. Modules

| Module | Role |
|---|---|
| `ConnectionQueue` | abstract: one acceptor hands sockets to workers through a bounded first-in first-out queue |
| `MongoosePool` | the thread pool, thread by thread and lock by lock |
| `MongoosePool_proofs` | types, the ring's indices, the accounting of threads, who holds a connection, and the refinement of `ConnectionQueue` |
| `HttpConnection` | one worker and its connections: reading, handling, discarding and keeping alive |
| `HttpConnection_proofs` | theorems about it |
| `AlertLoop` | the alert queue and the loop of `main`, shared by `ChainStore`, `ContactStore` and `Daemon` |
| `AlertLoop_proofs` | lemmas about the queue of alerts that wait |
| `ChainStore` | communities, members, blocks, transactions: requests, session, alerts and crashes |
| `ChainStore_proofs` | theorems about it |
| `ContactStore` | friends and messages: requests, session, alerts and crashes |
| `ContactStore_proofs` | theorems about it |
| `Jsmn`, `JsonUtil` | the tokenizer of request bodies, and the lookups in its tokens |
| `Jsmn_proofs` | the tree of tokens, and what the lookups find in it and leave of the body |
| `Base64`, `Auth` | the decoder of credentials; accounts and `parse_http_auth` |
| `HexUtil` | the textual forms of a chain id |
| `FileServing` | from a URI to a path, the decisions of `handle_request`, file answers |
| `RpcMethods`, `TauHandler` | the methods of the RPC handler: the arguments they look up, the calls they make |
| `RequestPath` | composes these: one request from its URI to the arguments of its method |
| `RequestPath_proofs` | theorems about it |
| `Daemon` | composes `TauHandler` and `AlertLoop`: the process from start-up to its destructors |
| `Daemon_proofs` | theorems about it |
| `MCMongoosePool`, `MCHttpConnection`, `MCChainStore`, `MCContactStore`, `MCRequestPath`, `MCDaemon` | instances for TLC |

A definition followed by "Mutant:" in its comment is a plausible mistake in the
definition after it.  No specification uses it; it exists so that each property
can be seen to fail when the code is wrong (`PROJECT.json`, "mutants").

### MongoosePool

`pc[t]` is the place of thread `t` in the code; the labels carry a letter for the
function: `p_` is `produce_socket`, `c_` `consume_socket`, `j_` the wait at the end
of `master_thread`, `x_` the end of `worker_thread`.  An action is the longest
stretch of code no other thread can see half done: everything done under the
mutex between two reads of the unprotected `stop_flag` is one step, every such
read is a step of its own, and `num_threads++` and `num_threads--` are a load and
a store.  A condition variable is the set of threads blocked on it.  Waiting
releases the mutex and joins the set in one step; a woken thread competes for the
mutex with everybody else, and any blocked thread may wake without a signal, as
POSIX permits.  `Failing` names the threads whose `pthread_create` or first
`calloc` may fail.  Serving a connection is one step here: what happens inside
`process_new_connection` touches nothing else of the context.

`open` is the kernel's view: descriptors accepted and not closed.  The kernel
reuses a descriptor once it is closed, so the same value comes back in later
connections.  There is one listening socket, which is what `webui_base::start`
configures; the access list is empty, so a refused peer is the same as a poll
that finds nothing.

### HttpConnection

The stream of a client is a sequence of units, each marked with its connection,
its request and its place in it.  `buf` holds the units between `conn->buf` and
`conn->data_len`, so that a wrong offset shows as a unit in the wrong place.
`recv` returns any part of what has arrived; it fails when nothing arrives until
the socket timeout, or when the server stops.  A request is reduced to the length
of its body, whether its `Connection` header and version allow another one, and
which path through `handle_request` and `tau_handler::handle_http` it takes: read
the body, answer without it, ask for a digest password, or no Content-Length.
Bodies contain no blank line and do not begin like a request, as JSON does not;
so when a body was left unread its rest makes the next head malformed, the client
gets a 500 and the connection is closed.  `unread` is a history variable that
records this; it influences no action.  The connection object is used for the
next client with only `data_len` reset, and so it is here.

`ConnectionEnds` is what `MongoosePool` assumes of `Serve`.

### AlertLoop, ChainStore, ContactStore

`alerts` is the queue of the session, `batch` the vector `alert_queue` of `main`,
`step` the number of statements of the current handler already executed.  One SQL
statement is one action (SQLite runs each statement in its own transaction), a
session call is one action, and a request is a sequence of them with the other
workers and the main thread in between.  Rows are keyed as in the code:

* a community row by the text of the chain id.  `follow-chain`,
  `create-new-community` and `unfollow-chain` store the full hexadecimal text, the
  mobile requests and all alert handlers the text made by
  `bytes_chain_id_to_string`; a key is a pair (form, chain);
* a friend row by the text the client sent, while
  `db_update_friend_last_seen` looks for lower-case text; a key is a pair
  (spelling, public key).

A failing statement (duplicate key, NOT NULL column, a payload or a name of a chain
whose quotation mark ends the SQL string) changes nothing and takes the early return
the code takes.  `Unquotable` names the chains of the last kind: their text form
makes every statement that contains it fail, for requests and for alert handlers;
their hexadecimal form and the hashes of their blocks do not.

What the session may do is an assumption, taken from the way the daemon uses it:
it connects and rolls back blocks at the end of a chain it follows, announces
each change by an alert in that order, and has a transaction in at most one
block of the best chain.

`Crash` of both modules is the end of the process, at any point, followed by the
restart of `python_monitor.py`: requests and alerts disappear, tables stay.  That the
session keeps what it follows and its chains, and posts no alert a second time, is an
assumption about libTAU.

Two history variables of `ChainStore` say how much may be claimed; no guard looks at
them.  `alone` has, per chain, the key of the last request if no other request for
the chain ran at its side and no crash cut it off.  `stale` has what the handlers of
lost alerts would have written (a block, a transaction, a point of a chain), each until
an alert about the same thing is handled.  `Tracked` are the points besides the head
that the session announces.

### RequestPath

What one request becomes after `HttpConnection` has delivered it, function by
function: `Receive` and `BeginRequest` are the first half of `handle_request`,
`ServeFile` the second; `Authenticate`, `TakeBody`, `Tokenize`, `RejectBody` and
`Dispatch` are `tau_handler::handle_http` and `handle_json_rpc`; `LookUp`,
`UseArguments`, `NextPeer` and `PeersDone` are what every method does before it calls
the session, the zeros included that it writes after its strings (`Cut`, `CutOff`; the
two follow requests do so after their loop).  An argument that is not found ends the process where it is dereferenced,
credentials without a colon where `substr` throws.

The conversions are modelled by what they do, on the alphabet that matters to
them: `Jsmn` takes one step per character of the body, a word counting as one
character; `Base64` and `HexUtil` work on character codes; `FileServing` keeps the
whole buffer of the URI, because `handle_request` looks at it behind the
terminating zero.  The byte behind the table of `cdecode.c`, which the bound test
lets through, is a nondeterministic choice.  A salted hash is the pair it is made
of.  `MayFollow` says which bodies are explored.

### Daemon

`Objects` are the local variables of `main` in the order of their declarations;
`built` of them exist.  A worker that uses one which does not exist sets `misuse`,
and from then on the process may collapse.  `main` is the place in the function;
`sighand` the handler that `signal` has installed.  The sequences of calls of the
methods are in `TauHandler`; a call is one step, and what a method keeps of it is
in its `job`: the account (as the change of the chain it reflects), the median
fee, the head of the table, the transaction submitted.  `hist` is the history of
the session's chain: a new head or a rollback adds a state and posts an alert; the
handler of a new head is one step here, `ChainStore` has its statements.  A process
that has ended is started again by `python_monitor.py`, with the chain and the
tables as they were.

## 3. Bounds

| Bound | Value | Why it is enough |
|---|---|---|
| `Workers` | 2 (1 in `pool_stop`) | one waits while the other runs, one leaves while the other serves; the stop race needs one |
| `QueueSize` | 2, 1 in `pool_stop` | indices wrap (which needs the tail to pass the size), the ring is empty, part full and full |
| `Sockets` | 3 | ring full and one more in the hand of the master, so that the master waits and descriptors are reused |
| `Blocks` | 3 in `chain_tables`, 1 in `chain_requests` | two rival blocks of one chain with the same transaction, so that every reorganisation moves it and heads overtake each other, and one of a chain that cannot be quoted; `chain_requests` has one without a transaction, its alerts write to the row while requests do |
| `Chains` | 2 in `chain_tables`, 1 in `chain_requests` | one chain can be quoted, the other cannot; requests for different chains touch different rows |
| `MaxAlerts` | 2 in `contact`, 1 in the runs of `ChainStore` | two alerts in one batch and two more behind it; for chains an alert in the works and one behind it, which is what a rollback and the new head make, and with lost alerts more than TLC can do with two (the theorems have any number) |
| `Messages` | 2, one of them unquotable | duplicates in and across batches, before and after a crash |
| `BufSize`, `HeadLen`, bodies | 4, 2, 0 to 3 | a head and its body fit together, fit partly or not at all; left-over data and a head together overflow the buffer |
| `MaxRequests`, `MaxConnections` | 3 and 2 | a request in the handler, one in the buffer, one on the way; a second client on the same object |
| `MaxTime` | 1 | times -1 to 1: an update can be overtaken |
| `MaxCrashes` | 1 | a crash between the INSERTs, and the redelivery after it; any number in the proofs |
| `FreeLen` | 6 | every body of up to six characters: nesting three deep, empty containers, mismatched brackets |
| other bodies | six for each method, more with peers | arguments in both orders, behind members that look like them, one missing, none at all; one to three peers; a peer with other members, with two keys or none, or that is a list; the text `peer_key` where it is no key |
| `NumTokens` | 24 | more than the explored bodies have; the code has 256 |
| `UriLen` | 4, and one longer | all combinations of slashes, dots, escapes (one of them a zero) and a word; dots that appear by decoding; the lone asterisk |
| `Headers` | all codes of 3 to 5 characters of five kinds | every remainder modulo 4, padding, the character behind the table |
| files | sizes 0 to 2, ranges -1 to 3, with and without an end | a file that grows or shrinks, a range before, at and past its end, a negative start or end |
| `CID_KEY_CHAR_LEN` | 2 | the code has 8; ids without a name and with one of up to two characters |
| `Workers` of `daemon` | 1 | workers meet only in the objects and the chain; its partners are `main`, the session and the signals |
| `MaxChanges`, `MaxNonce`, `Fees` | 2, 1, two | the chain moves before and between two calls of a request, forwards and back |
| `Requested` | five methods | one of each kind of call sequence |

The theorems hold for every value of these constants.  `MaxAlerts`, `MaxTime`,
`MaxCrashes`, `MaxChanges`, `MaxRequests` and `MaxConnections` stand in guards and
types only.

## 4. Runs

| Run | Result | What it shows |
|---|---|---|
| `pool` | passes | `IndexBounds`, `OneHolder`, `NoLeakWhileRunning`, `NobodyLeftAtFree`, `ThreadAccounting`: the ring is never over- or underrun, a connection has one holder, none is forgotten while the server runs, and the context is freed after the last worker.  `ImplementsHandover`: all of it is a bounded first-in first-out hand-over.  `EveryConnectionServed`: no wakeup is lost |
| `pool_failures` | passes | `OneHolder` although threads fail to start and `num_threads` is wrong |
| `pool_stop` | violated | `StopReturns`: a worker that has tested `stop_flag` and not yet gone to sleep misses the final broadcast, and `mg_stop` never returns |
| `http` | passes | `InStep`, `BodyIntact`, `AssertionsHold`, `ConnectionEnds`: for any cutting of the stream into packets, with requests sent ahead, timeouts and stop, a worker reads each request from its first byte, hands the handler that request's body, and is not held for ever by a silent client.  `InStep` has one exception, by the code: a body that was not fully received when its request was left |
| `http_answer` | violated | `AnswerFramed`: the answer to a successful call is one byte longer than its Content-Length |
| `chain_requests` | passes | `LoneRequestSettlesRow`, `LoneRequestSettlesMembers`: requests that overlap, that use the two forms of an id or that a crash cuts off do leave session and tables in disagreement; one request that runs alone to its end repairs its chain; the theorem adds the chains and the schema for which no row can be stored.  Alerts of all three points write to the row meanwhile |
| `chain_tables` | passes | `TablesMirrorChain`, `BlockHasTx`, `HeadIsLatest`: after any reorganisation, and under requests that delete and insert the row, the tables say what the session says; a crash spoils only the rows of the alerts it loses, each until the next alert about it.  `EveryBlockStored`, unless the name of the chain cannot be quoted or the process ends before. |
| `chain_schema` | violated | `RowIffFollowed` with the shipped `config/1.json` |
| `chain_tail` | violated | `TailIsLatest`: tail and consensus point are swapped |
| `contact` | passes | `LogHasMessage`, `UnloggedBound`, `EveryMessageStored` under duplicates and a crash; `FriendHasRow`, `LastSeenIsLatest` under two spellings and concurrent deletes |
| `request` | passes | `TokensFormTree`: tokens are the tree the body spells.  `ArgumentsAsSent`: lookups find what the client wrote, unharmed by the zeros of earlier lookups.  `PeersInOrder`: the loop over the peers, which does not look into the list but at the tokens after the object of the arguments, still takes the keys in the order of the list, if nothing else in its sight is called `peer_key`; and it ends the process only for a key out of its sight.  `CredentialsDecoded`, `OnlyAccountsPass`: a call passes exactly with the name and password of a usable account.  `ChainIdSurvives`: the id answered by `create-chain-id` names the same chain later.  `PathStaysInside`: no path leaves the document root.  `FileShortfall`: no file answer outgrows its Content-Length, and it is shorter only for the ranges, and by the bytes, that the arithmetic of `handle_file_request` loses |
| `daemon` | passes | `AccountNotOlderThanHead`, `SubmittedFresh`: what `get-account-info` answers and `submit-transaction` submits is consistent in time although it is read in several calls.  `NoMisuseBeforeQuit`: until a signal, no worker uses an object that does not exist.  `EndsOnSignal`: a signal ends the process whatever alerts arrive |

Deadlock is checked in every run; a stopped server stutters explicitly in
`Stopped`.

### Fairness

* `MongoosePool`: every thread that can take a step takes one (weak fairness); a
  thread that waits for the mutex gets it if it is free again and again (strong
  fairness of the lock steps: the kernel's mutex queue); serving a connection
  ends, because the client hangs up or the timeout of `set_sock_timeout` expires.
  Stop requests, connections and spurious wakeups are not forced to happen.
* `HttpConnection`: the worker runs, and `recv` returns after `request_timeout_ms` at
  the latest.  Clients need not send anything.
* `ChainStore`, `ContactStore`: the main thread keeps running (`wait_for_alert`
  returns after 500 ms at the latest) and a request runs to its end.  The session
  need not do anything.
* `Daemon`: `main` is a thread of its own, every step of it is finite and none waits for
  a worker.  Signals, requests, alerts and the monitor are not forced to happen.
* `RequestPath` has no fairness; its properties are invariants.

### Findings

1. `pool_stop`.  `stop_flag` is set, and `sq_full` broadcast, without the mutex.  A
   second interleaving ends the same way: `consume_socket` reads `stop_flag` after
   its unlock, so the last worker can leave without the extra call that should
   wake a master waiting for room, which then sleeps in `produce_socket`.
2. `chain_schema`.  `db_follow_chain` gives no value for `isBanned`, which the
   shipped schema declares NOT NULL without a default: the INSERT fails, the
   members are not stored and the request is answered as a success.  The table
   definitions are read from the file at run time, so the schema is a constant of
   the model (`IsBannedRequired`); the other runs describe a database in which the
   column has a default, the theorems both.
3. `chain_tail`.  The handler of the new tail passes type 2 (consensus column) and
   the handler of the consensus point type 1 (tail column).

4. `http_answer`.  The terminating NUL is written to the client although the comment
   says it is not to be counted; on a kept-alive connection it precedes the next
   answer.

Also seen while modelling, not given a run:

* `mg_stop` returns with connections open that were queued or just taken;
  `num_threads` can become -1 when the first `calloc` of a worker fails before
  `mg_start` has counted it, against the assertion at the end of `worker_thread`.
* `db_delete_friend` does nothing; `db_get_tx_state` returns without
  `sqlite3_finalize` when it finds its row.
* `get-block-by-hash` and `is-tx-in-fee-pool` ask for a vector of negative size for
  every hash of three or more characters, which ends the process, on the requests
  that `rpc.sh` lists (lines 57 and 73); the second one also converts the chain id
  instead of the hash.
* `rpc.sh` lists methods that are in no table (`subscribe_from_peer` and
  `send_to_peer` with underscores, `get-top-tip-block`, `sql-test`), and gives chain
  ids in full hexadecimal to methods that take the key in hexadecimal and the name
  as it is.
* A third peer in the list of `follow-chain` and its relatives may be out of the
  reach of `find_key_in_array`, and the process ends.
* The read-only group of `auth.cpp` is never asked for its permissions.  Printing
  the missing Authorization header (`auth.cpp` 260) puts `std::cout` into its error
  state, and the daemon stops logging.
* Credentials that hold no colon end the process (`auth.cpp` 274).
* `force_quit` is armed and tested, but a first signal already ends the loop.
* With `--daemonize`, the pid file holds the pid of the parent that `daemon` ends.
* Every range that ends at the size of the file or past it announces one byte too many
  (`mongoose.c` 2889), and a range with a negative end announces the whole file but
  sends it from the start of the range on: on a kept-alive connection the client takes
  the beginning of the next answer for the rest (`FileShortfall` says how many bytes);
  `/dir//` is redirected to itself, because the length of the
  URI is that before cleaning; redirects and answers to OPTIONS on kept-alive
  connections have no Content-Length.
* `send-data` stores its limits in eight bits.

## 5. Proofs

Every invariant of every passing run is a theorem, and so is the refinement of `pool`.
A theorem about an invariant has the same shape everywhere: an inductive invariant, a
lemma for the initial states, one lemma or step per action, and the consequence.

`MongoosePool_proofs`, for any finite set of workers, any descriptors and any ring
size:

* `Typing`: `Spec => []TypeOK`, by one step per action.
* `RingBounded`: `Spec => []IndexBounds`.  Inductive with `TypeOK`: only
  `ProducePut` raises `sq_head`, when the ring is not full, and only `ConsumeTake`
  moves `sq_tail`; the case split is on whether the tail passes the size.
* `Accounted`: if no thread fails to start, `Spec => []ThreadAccounting`.  This is
  the strengthening that makes the next theorem inductive: the thread in a
  critical section holds the mutex, so the two halves of a decrement are not
  interleaved; nobody decrements before `mg_stop`, which comes after the last
  increment; hence `num_threads` is the number of workers alive, up to the one
  increment `mg_start` owes.  The counting uses the cardinality facts of
  `FiniteSetTheorems`.
* `FreeAfterLastWorker`: `Spec => []NobodyLeftAtFree`, from `Accounted`.
* `SingleHolder`: `Spec => []OneHolder`, whichever threads fail to start.  The inductive invariant adds `SocketFlow`:
  a thread between lock and unlock owns the mutex; the master has a socket in its
  hand exactly between `accept` and the ring; a worker only between taking and
  closing; and, until the stop request, what the two loops have tested under the
  mutex still holds when they put or take.  The slot of the i-th socket in the ring
  is computed once (`SlotValue`), with the case that the indices go round.
* `NothingLost`: `Spec => []NoLeakWhileRunning`, from the same invariant.
* `Refinement`: `Spec => ImplementsHandover`.  The ring read from tail to head is the
  queue of `ConnectionQueue`, the hands of the threads are its holders; `ProducePut`,
  `ConsumeTake`, accepting and closing are its steps, everything else stutters.

`HttpConnection_proofs`, for heads, bodies and buffers of any size, any number of
requests and connections, and any cutting into packets.  The invariant is about one
sequence, `Line`: the buffer, then what `mg_read` took straight from the socket, then
what has not been received.  It is always the end of what the client has sent
(`Follows`, which relates a unit to the next one only, so that appending and dropping
units keep it); receiving moves the cuts and leaves it as it is; a request that is
served is its beginning; and ending a request drops the request from it, if the
number of units that arrived says that the worker holds all of them.

* `ConnectionTypes`, `AssertionsNeverFail`, `BodyNeverMixed`, `StaysInStep`: `TypeOK`,
  `AssertionsHold`, `BodyIntact` and `InStep`.  That the line is the current request
  from its first unit on (`FollowsRequest`) is an induction, done with the least
  place at which it would fail.

`ChainStore_proofs`, for any workers, chains, peers, blocks and number of alerts that
wait:

* `ChainTypes`: `TypeOK`.
* `RowsFollowSession`, `NoOrphanMembers`: `LoneRequestSettlesRow` and
  `LoneRequestSettlesMembers`, for every schema, any overlap, both forms and any crashes.
  The invariant `RequestInv` says, of a chain whose current or last request is alone, how
  far it has got (`Lone`): no other worker is at the chain, and its statements so far
  have left row and members as the request wants them, whatever they found.  That nothing
  else touches the row afterwards is the other half of it; `RowsStorable` says that no row
  is there that could not have been stored.
* `HeadCurrent`: `HeadIsLatest`.  The invariant `HeadInv` speaks of the alerts that
  wait: the last head among them is the last one announced, and if there is none the
  row has it or nothing, or the head of the chain is stale.
* `TablesMirror`, `BlocksHaveTxs`: `TablesMirrorChain` and `BlockHasTx`.  The invariant
  `TablesInv` says that there is a sequence of sets of connected blocks, one for each
  alert that waits, that leads from what the tables show to what the session has, in
  which no two blocks of a set have the same transaction (`History`); how far the handler
  of the first alert has got with Txs and Blocks (`TablesShow`); and that all of it is
  asked only of what is not stale.  A crash replaces the sequence by what the session
  has and makes everything stale that the lost alerts touch; an alert makes its own block
  and transaction fresh again, because its handler writes them whatever was there.

`ContactStore_proofs`, for any messages, friends, workers, deliveries and crashes:

* `ContactTypes`: `TypeOK`.
* `LogsComplete`: `Spec => []LogHasMessage`.
* `OneLogRowPerCrash`: `Spec => []UnloggedBound`.  The inductive invariant
  `ChatInvariant` adds that the main thread between the two INSERTs of a message
  has that message in the first table, not in the second, and that the set counted
  is finite.
* `FriendsStored`: `FriendHasRow`, inductive with the types.
* `LastSeenCurrent`: `LastSeenIsLatest`, from `SeenInv`, which is to times what `HeadInv` is
  to heads.

`AlertLoop_proofs` has the lemmas the two share: alerts in the batch and alerts in the
session's queue are one queue, which popping leaves as it is.

`Daemon_proofs`, for any workers, methods, changes of the chain and restarts:

* `TypeCorrect`: `TypeOK`.
* `ObjectsOutliveRequests`: `NoMisuseBeforeQuit`.  The invariant adds that while the web
  server is up and nobody has asked to quit, all six objects exist and `main` is in
  its loop or about to enter it, and that no request outlives the web server.
* `AccountFollowsHead`, `SubmissionFresh`: `AccountNotOlderThanHead` and `SubmittedFresh`.
  For each kind of request, `Phase` says which calls are left and, for each call
  already made, that its result is a version of the chain since the request began.

The loops of the request path (the lookups, the cleaning of a path, the decoder, the
reading of accounts) are recursive functions.  Two things make them accessible to the
prover.  That a recursion has a solution is proved, not assumed: `RecursionUp` and
`RecursionDown` build the function up to n for every n, and a lemma named ...`Solved`
applies one of them to each loop.  And an induction is an instance of `Upwards` or
`Downwards`, which take a set in place of a predicate and follow from the well-foundedness
of the natural numbers.

`Jsmn_proofs`, for bodies of any length and nesting, over any words, and a token array of
any size:

* `ParserInv`, kept by every step of the parser, is about the whole array of tokens,
  because `jsmn_parse` keeps no stack: tokens are in the order of their starts, an open
  one covers everything after it, two closed ones are nested or apart (`Nested`), each
  size is the number of direct members so far (`Sized`), and `toksuper` is the last open
  token.
* `LeafInv` adds where strings and primitives lie (nothing begins before they have ended,
  and no token ends where a string begins) and that the text has no zero; `BracketInv`
  that containers begin with a bracket.
* `SkipItemSkips`: `skip_item`, a recursion over a recursion, returns the token after an item
  and all it covers.  `NextKid` turns this into "the next member".
* `FindKeyFinds`: `find_key` finds the first member with the key and the type.  The
  invariant of its loop is that round n is at member 2n + 1 and that the body is a copy
  with zeros after the ends of some tokens (`Copy`), which miss the text of all strings
  (`Texts`); `CutKeeps` says why, token against token.
* `PeersFound`: `find_key_in_array` compares its key with every token in sight, containers
  and primitives included, in a body with zeros in it.  `PeerMatch` shows that it
  takes no other text for the key than the key; the invariant of its loop counts the
  matches so far (`Rank`), and the keys of the peers have their place in the list as their
  place among the matches (`PlainRanks`, `PeerKeys`).

`RequestPath_proofs`, for any URI, body, header, `users.conf`, file and chain id:

* `BodiesFormTrees`: `TokensFormTree`, from `ParserInv`.
* `ArgumentsComplete`: `ArgumentsAsSent`.  `CallInv` says of a call in progress that what it
  has found is what `Member` defines, and that all strings and the numbers among its
  arguments have their text.  For numbers this needs care: the zero after a container may
  hit a primitive that follows it without a separator.  The methods that look for numbers
  cut only after strings, after numbers and after the object that holds the arguments;
  the ones that cut after any token, because they take peers, look for no numbers.
* `PeersTaken`: `PeersInOrder`.  `PeersInv` says that the peers taken are the beginning of the
  list, all of it in a call that was made, and that the loop has ended the process only
  for a key out of sight.
* `PathsStayInside`: `PathStaysInside`.  What `remove_double_dots_and_double_slashes` writes is described from its
  end backwards (`WrittenFrom`), so that each round of the loop adds to the front of a text
  that already has no two dots after a slash; then the decoded text is cut at its first
  zero, as the code reads it.
* `CodesDecoded`: `CredentialsDecoded`.  `DecodedSo` says what the state of the decoder is
  after n sextets: the bytes written, the bits of the one begun, and how far it has
  touched the buffer.
* `AccountsOnly`: `OnlyAccountsPass`.  `LoadedTo` says which accounts are there after k records.
* `IdsRoundTrip`: `ChainIdSurvives`, for keys and names of any length.  Two digits make
  the byte they were made from (`HexRoundTrip`), and the text of an id is its digits
  followed by its name with nothing cut off (`TextOfId`), because a name has no zero:
  `RequestAssumption` says so, as names come out of a C string.
* `ShortfallKnown`: `FileShortfall`, for any sizes, any two of them for a file that changes,
  and any numbers in a Range header.

The assumptions are the named ASSUMEs of the specifications, which TLC evaluates
in each run; no theorem assumes that its constants are small or, except for
`Workers` of the pool, finite.  The hypotheses of `Accounted` and `FreeAfterLastWorker`
(no thread fails to start) are in their statements.

Only model-checked is liveness (`EveryConnectionServed`, `ConnectionEnds`,
`EveryBlockStored`, `EveryMessageStored`, `EndsOnSignal`), which is out of the prover's reach;
and so are the findings, which are counterexamples.

## 6. Not modelled

* CGI, SSI, WebDAV, directory listings, the digest itself, websockets and SSL in
  mongoose: third-party features the daemon has no content for.  `FileServing`
  decides that one of them is asked for; what it answers is left out.
* Rewriting of URIs and path info for CGI: no option of the daemon enables them.
* What SQLite does when two threads enter one connection opened with
  `SQLITE_OPEN_NOMUTEX`: the models take statements as atomic.
* The values read from options, configuration and seed; the creation of the
  schema from `config/1.json` (a constant of `ChainStore`).
* `save_accounts`, `remove_account`, `set_group`, `users`, `find_string`,
  `find_bool`, `new_account_seed`, `get_top_tip_block`, `escape_json`: no caller.
* Bodies with more tokens than the array: `jsmn_parse` reports them, and so does
  `Jsmn`, but no body of the run has as many.

## 7. Open points

* A word of a body counts as one character, so that `strcmp` compares words; positions
  inside a word are not told apart.
* `PeersInOrder` says nothing about a body in which another token in sight has the text
  `peer_key`: the code then takes the value after it for a peer.
* Liveness of the pool is checked for two workers; an argument for any number would need
  a prover for fairness.
