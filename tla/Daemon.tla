-------------------------------- MODULE Daemon ---------------------------------
(***************************************************************************)
(* The process as a whole.  main constructs the objects that the web       *)
(* server's workers, the alert loop and the session share, starts the web  *)
(* server, handles alerts until a signal asks it to quit, and destroys the *)
(* objects in reverse order while the workers still run: nobody stops the  *)
(* web server.  Meanwhile the session's chain changes, and the methods of  *)
(* tau_handler read it in several calls.  python_monitor.py starts the     *)
(* next process; tables and chain are on disk.                             *)
(***************************************************************************)
EXTENDS TauHandler, AlertLoop

CONSTANTS
  Workers,     \* web server threads
  Requested,   \* methods the clients call
  HashLens,    \* characters of the hashes they ask for
  Fees,        \* median fees of the chain
  MaxNonce,    \* bound on the nonce of the account
  MaxChanges,  \* bound on the changes of the chain
  None

ASSUME DaemonAssumption ==
  /\ Requested \subseteq Methods
  /\ HashLens \subseteq Nat
  /\ Fees # {}
  /\ MaxNonce \in Nat /\ MaxChanges \in Nat
  /\ None # <<>>

\* The local variables of main, in the order of their declarations.
Objects == <<"authorizer", "tau_sql", "ses", "t_handler", "a_handler", "webport">>

VARIABLES
  up,      \* the process runs
  main,    \* where main is
  built,   \* how many of the objects exist
  web,     \* the web server runs
  sighand, \* what a signal does: default, quit or force
  quit, force,  \* quit and force_quit
  job,     \* the request each worker is running
  misuse,  \* an object was used that does not exist
  hist,    \* session: nonce of the account and median fee, after each change of the chain
  dbHead   \* head in Communities, by the change that made it one

processVars == <<main, built, web, sighand, quit, force>>
vars == <<up, processVars, loopVars, job, misuse, hist, dbHead>>

Exists(o) == \E k \in 1 .. built : Objects[k] = o

Idle == [todo |-> None]

Init ==
  /\ up = TRUE
  /\ main = "construct" /\ built = 0 /\ web = FALSE
  /\ sighand = "default" /\ quit = FALSE /\ force = FALSE
  /\ LoopInit
  /\ job = [w \in Workers |-> Idle]
  /\ misuse = FALSE
  /\ hist = <<[nonce |-> 0, fee |-> CHOOSE f \in Fees : TRUE]>>
  /\ dbHead = 0

\* The process ends, however far its threads are.
Down ==
  /\ up' = FALSE
  /\ main' = "construct" /\ built' = 0 /\ web' = FALSE
  /\ sighand' = "default" /\ quit' = FALSE /\ force' = FALSE
  /\ Forget
  /\ job' = [w \in Workers |-> Idle]
  /\ misuse' = FALSE
  /\ UNCHANGED <<hist, dbHead>>

\* The monitor finds no process and starts one.
Restart ==
  /\ ~ up
  /\ up' = TRUE
  /\ UNCHANGED <<processVars, loopVars, job, misuse, hist, dbHead>>

-------------------------------------------------------------------------------
(* main *)

Goto(place) == main' = place /\ UNCHANGED <<up, job, misuse, hist>>

Construct ==
  /\ main = "construct"
  /\ built < Len(Objects)
  /\ built' = built + 1
  /\ Goto("construct")
  /\ UNCHANGED <<web, sighand, quit, force, loopVars, dbHead>>

\* The configuration, the directory of the database or the debug log is missing:
\* exit(1), which destroys nothing.
StartupFails == main = "construct" /\ built \in {1, 2} /\ Down

\* Mutant: the web server starts before all objects exist.
StartWebEarly(ok) ==
  /\ main = "construct"
  /\ web' = ok
  /\ Goto(IF built < Len(Objects) THEN "construct" ELSE IF ok THEN "signals" ELSE "destroy")
  /\ UNCHANGED <<built, sighand, quit, force, loopVars, dbHead>>

\* webport.start: if the web server cannot be started, main returns.
StartWeb(ok) ==
  /\ main = "construct"
  /\ built = Len(Objects)
  /\ web' = ok
  /\ Goto(IF ok THEN "signals" ELSE "destroy")
  /\ UNCHANGED <<built, sighand, quit, force, loopVars, dbHead>>

InstallSignals ==
  /\ main = "signals"
  /\ sighand' = "quit"
  /\ Goto("test")
  /\ UNCHANGED <<built, web, quit, force, loopVars, dbHead>>

\* Mutant: the loop is left only when no alert is waiting.
TestQuitWhenDrained ==
  /\ main = "test"
  /\ IF quit /\ alerts = <<>> THEN Goto("stop") /\ UNCHANGED loopVars
     ELSE Goto("batch") /\ (IF alerts = <<>> THEN UNCHANGED loopVars ELSE Pop)
  /\ UNCHANGED <<built, web, sighand, quit, force, dbHead>>

\* while (!quit), and pop_alerts.
TestQuit ==
  /\ main = "test"
  /\ IF quit THEN Goto("stop") /\ UNCHANGED loopVars
     ELSE Goto("batch") /\ (IF alerts = <<>> THEN UNCHANGED loopVars ELSE Pop)
  /\ UNCHANGED <<built, web, sighand, quit, force, dbHead>>

\* Mutant: the cases above a new head have no break.
HandleAlertFallsThrough ==
  /\ main = "batch"
  /\ batch # <<>>
  /\ dbHead' = Current
  /\ Return
  /\ Goto("batch")
  /\ UNCHANGED <<built, web, sighand, quit, force>>

\* The switch over the alert's type.  A new head becomes the head in Communities,
\* a rollback leaves it alone; ChainStore has the handlers statement by statement.
HandleAlert ==
  /\ main = "batch"
  /\ batch # <<>>
  /\ dbHead' = IF Head(batch)[1] = "head" THEN Current ELSE dbHead
  /\ Return
  /\ Goto("batch")
  /\ UNCHANGED <<built, web, sighand, quit, force>>

\* The end of a round: a signal that came during it arms the second signal;
\* wait_for_alert returns after half a second at the latest.
EndOfRound ==
  /\ main = "batch"
  /\ batch = <<>>
  /\ sighand' = IF quit THEN "force" ELSE sighand
  /\ Goto(IF force THEN "stop" ELSE "test")
  /\ UNCHANGED <<built, web, quit, force, loopVars, dbHead>>

\* ses.stop(): nobody pops the alerts that are left.
StopSession ==
  /\ main = "stop"
  /\ Forget
  /\ Goto("destroy")
  /\ UNCHANGED <<built, web, sighand, quit, force, dbHead>>

\* main returns: the destructors run in reverse order, then the process ends.
\* ~webui_base does not stop the web server.
Destroy ==
  /\ main = "destroy"
  /\ IF built = 0 THEN Down
     ELSE /\ built' = built - 1
          /\ Goto("destroy")
          /\ UNCHANGED <<web, sighand, quit, force, loopVars, dbHead>>

Main ==
  /\ up
  /\ \/ Construct
     \/ \E ok \in BOOLEAN : StartWeb(ok)
     \/ InstallSignals
     \/ TestQuit
     \/ HandleAlert
     \/ EndOfRound
     \/ StopSession
     \/ Destroy

\* SIGTERM or SIGINT.
Signal ==
  /\ up
  /\ \/ sighand = "default" /\ Down
     \/ sighand = "quit" /\ quit' = TRUE /\ UNCHANGED force
        /\ UNCHANGED <<up, main, built, web, sighand, loopVars, job, misuse, hist, dbHead>>
     \/ sighand = "force" /\ force' = TRUE /\ UNCHANGED quit
        /\ UNCHANGED <<up, main, built, web, sighand, loopVars, job, misuse, hist, dbHead>>

-------------------------------------------------------------------------------
(* Requests *)

Use(objects) == misuse' = (misuse \/ \E o \in objects : ~ Exists(o))

\* handle_http_request gets from the connection to webport and t_handler, the
\* credentials are checked, and the method looks at its arguments.
BeginRequest(w, r) ==
  /\ up /\ web
  /\ job[w] = Idle
  /\ IF Fatal(r) THEN Down
     ELSE /\ Use({"webport", "t_handler", "authorizer"})
          /\ job' = [job EXCEPT ![w] = [method |-> r.method, todo |-> Calls(r.method, r.ownFee),
                       ownFee |-> r.ownFee, since |-> Len(hist),
                       account |-> None, fee |-> None, head |-> None, tx |-> None]]
          /\ UNCHANGED <<up, processVars, loopVars, hist, dbHead>>

\* Mutant: the nonce of the account is used as it is.
AfterCallSameNonce(j, call) ==
  IF call = "get_account_info" THEN [j EXCEPT !.account = Len(hist)]
  ELSE IF call = "submit_transaction" /\ j.method = "submit-transaction"
    THEN [j EXCEPT !.tx = [nonce |-> hist[j.account].nonce, fee |-> j.fee]]
  ELSE j

\* What a method keeps of the result of a call.  Account and median fee are
\* those of the session's chain at this moment, the head is that of the table.
AfterCall(j, call) ==
  CASE call = "get_account_info" -> [j EXCEPT !.account = Len(hist)]
    [] call = "get_median_tx_free" -> [j EXCEPT !.fee = hist[Len(hist)].fee]
    [] call = "db_get_chain_state" -> [j EXCEPT !.head = dbHead]
    [] call = "submit_transaction" /\ j.method = "submit-transaction" ->
         [j EXCEPT !.tx = [nonce |-> hist[j.account].nonce + 1, fee |-> j.fee], !.account = None, !.fee = None]
    [] OTHER -> j

\* The next call of the method; crash-test asks the session to crash.
Call(w) ==
  LET j == job[w]
      next == Head(j.todo)
  IN  /\ up
      /\ j # Idle
      /\ j.todo # <<>>
      /\ IF next[2] = "crash-test" THEN Down
         ELSE /\ Use({next[1]})
              /\ job' = [job EXCEPT ![w] = AfterCall([j EXCEPT !.todo = Tail(@)], next[2])]
              /\ UNCHANGED <<up, processVars, loopVars, hist, dbHead>>

\* The answer is written and end_request tells the handlers.
Answer(w) ==
  /\ up
  /\ job[w].todo = <<>>
  /\ Use({"webport", "t_handler"})
  /\ job' = [job EXCEPT ![w] = Idle]
  /\ UNCHANGED <<up, processVars, loopVars, hist, dbHead>>

\* Using an object that does not exist may end the process.
Collapse == misuse /\ Down

-------------------------------------------------------------------------------
(* The session *)

SessionRuns == up /\ Exists("ses") /\ main # "destroy"

\* The chain gets a new head, with or without a transaction of the account, or
\* loses its newest block.
ChainChanges(kind, nonce, fee) ==
  /\ SessionRuns
  /\ Len(hist) <= MaxChanges
  /\ kind = "head" => nonce >= hist[Len(hist)].nonce
  /\ kind = "rollback" => nonce <= hist[Len(hist)].nonce
  /\ hist' = Append(hist, [nonce |-> nonce, fee |-> fee])
  /\ Post(kind, Len(hist) + 1)
  /\ UNCHANGED <<up, processVars, job, misuse, dbHead>>

\* Alerts that main only prints.
SessionLogs ==
  /\ SessionRuns
  /\ Post("log", None)
  /\ UNCHANGED <<up, processVars, job, misuse, hist, dbHead>>

\* Whether the fee is given matters to submissions, the hash to lookups by hash.
Requests == {r \in [method : Requested, complete : BOOLEAN, hashLen : HashLens, ownFee : BOOLEAN] :
               ~ r.ownFee => "fee" \in {a[1] : a \in {Lookups(r.method)[k] : k \in DOMAIN Lookups(r.method)}}}

Next ==
  \/ Main
  \/ up /\ StartupFails
  \/ Signal
  \/ Restart
  \/ \E w \in Workers : web /\ \E r \in Requests : BeginRequest(w, r)
  \/ \E w \in Workers : Call(w)
  \/ \E w \in Workers : Answer(w)
  \/ Collapse
  \/ \E kind \in {"head", "rollback"}, nonce \in 0 .. MaxNonce, fee \in Fees : ChainChanges(kind, nonce, fee)
  \/ SessionLogs

\* main is a thread of its own and no step of it waits for anybody.
Spec == Init /\ [][Next]_vars /\ WF_vars(Main)

-------------------------------------------------------------------------------
(* Properties *)

\* The calls that a method can make.
SessionCalls ==
  OneCall \cup {"get_account_info", "get_median_tx_free", "get_session_time", "submit_transaction",
                "request_chain_state", "add_new_message", "add_new_friend", "delete_friend",
                "create_new_community", "follow_chain", "unfollow_chain"}

DbCalls == {"db_get_chain_state", "db_get_tx_state", "db_add_new_friend", "db_delete_friend",
            "db_follow_chain", "db_unfollow_chain"}

Calling == {Ses(c) : c \in SessionCalls} \cup {Db(c) : c \in DbCalls}

\* Type invariant of the process, the history of the chain and the requests.
TypeOK ==
  /\ up \in BOOLEAN /\ web \in BOOLEAN /\ misuse \in BOOLEAN
  /\ main \in {"construct", "signals", "test", "batch", "stop", "destroy"}
  /\ built \in 0 .. Len(Objects)
  /\ sighand \in {"default", "quit", "force"} /\ quit \in BOOLEAN /\ force \in BOOLEAN
  /\ hist \in Seq([nonce : 0 .. MaxNonce, fee : Fees])
  /\ dbHead \in 0 .. Len(hist)
  /\ \A w \in Workers : job[w] # Idle =>
       job[w].todo \in Seq(Calling) /\ job[w].since \in 1 .. Len(hist)

\* get-account-info answers with the head from the table and the account from
\* the session, read one after the other while both change: the account is never
\* older than the head it is reported with, across any delay of the alerts,
\* rollback and restart.
AccountNotOlderThanHead ==
  \A w \in Workers :
    job[w] # Idle /\ job[w].todo = <<>> /\ job[w].method = "get-account-info" =>
      job[w].account >= job[w].head

\* submit-transaction reads nonce and median fee before it submits, while the
\* chain moves on: the transaction carries the successor of a nonce that the
\* account had, and a fee that was the median, while the request was running.
SubmittedFresh ==
  \A w \in Workers :
    LET j == job[w]
        during == {hist[v] : v \in j.since .. Len(hist)}
    IN  j # Idle /\ j.tx # None =>
          /\ \E s \in during : j.tx.nonce = s.nonce + 1
          /\ ~ j.ownFee => \E s \in during : j.tx.fee = s.fee

\* Workers find every object they use, from the first request during start-up on,
\* until a signal has asked main to quit.  (Afterwards they may not: main destroys
\* the objects while requests are running.)
NoMisuseBeforeQuit == misuse => quit

\* Once a signal has asked for it, the process ends, however many alerts arrive
\* and whatever the workers do.
EndsOnSignal == quit ~> ~ up
===============================================================================
