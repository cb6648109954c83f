----------------------------- MODULE Daemon_proofs -----------------------------
(***************************************************************************)
(* Proofs about Daemon, for any number of workers, any methods the clients *)
(* call, any number of changes of the chain and of restarts.               *)
(***************************************************************************)
EXTENDS Daemon, SequenceTheorems, TLAPS

-------------------------------------------------------------------------------
(* The methods *)

\* Every method is a sequence of calls of the session and the database.
LEMMA CallsTyped ==
  ASSUME NEW m \in Methods, NEW own \in BOOLEAN PROVE Calls(m, own) \in Seq(Calling)
<1>1. /\ \A c \in SessionCalls : Ses(c) \in Calling
      /\ \A c \in DbCalls : Db(c) \in Calling
      /\ OneCall \subseteq SessionCalls
  BY DEF Calling, SessionCalls
<1>2. submit_transaction(own) \in Seq(Calling) /\ submit_note_transaction(own) \in Seq(Calling)
  BY <1>1 DEF submit_transaction, submit_note_transaction, SessionCalls, DbCalls
<1>3. get_account_info \in Seq(Calling) /\ create_new_community \in Seq(Calling)
  BY <1>1 DEF get_account_info, create_new_community, SessionCalls, DbCalls
<1>4. get_chain_state \in Seq(Calling) /\ get_tx_state \in Seq(Calling) /\ add_new_message \in Seq(Calling)
  BY <1>1 DEF get_chain_state, get_tx_state, add_new_message, SessionCalls, DbCalls
<1>5. add_new_friend \in Seq(Calling) /\ delete_friend \in Seq(Calling)
  BY <1>1 DEF add_new_friend, delete_friend, SessionCalls, DbCalls
<1>6. follow_chain \in Seq(Calling) /\ unfollow_chain \in Seq(Calling)
  BY <1>1 DEF follow_chain, unfollow_chain, SessionCalls, DbCalls
<1>7. <<>> \in Seq(Calling) /\ (m \in OneCall => <<Ses(m)>> \in Seq(Calling))
  BY <1>1
<1>8. QED
  BY <1>2, <1>3, <1>4, <1>5, <1>6, <1>7
  DEF Calls, Methods, Argless, ChainOnly, WithPeers, OneCall, SessionControl, PeerData,
      ChainControl, AddPeers, RequestData, ChainQueries, SendData, HashQueries
-------------------------------------------------------------------------------
(* The inductive invariant *)

\* An alert speaks of a change of the chain that has happened.
PendingAlerts == ({"head", "rollback"} \X (1 .. Len(hist))) \cup {<<"log", None>>}

HistoryOK ==
  /\ hist \in Seq([nonce : 0 .. MaxNonce, fee : Fees])
  /\ Len(hist) > 0
  /\ dbHead \in 0 .. Len(hist)
  /\ alerts \in Seq(PendingAlerts)
  /\ batch \in Seq(PendingAlerts)

ProcessTyped ==
  /\ up \in BOOLEAN /\ web \in BOOLEAN /\ misuse \in BOOLEAN
  /\ quit \in BOOLEAN /\ force \in BOOLEAN
  /\ main \in {"construct", "signals", "test", "batch", "stop", "destroy"}
  /\ built \in 0 .. 6
  /\ sighand \in {"default", "quit", "force"}

\* The web server is up, and nobody has asked main to quit, only while main is in
\* its loop and all objects exist.
ProcessOK ==
  /\ ProcessTyped
  /\ sighand = "force" \/ force \/ main = "stop" => quit
  /\ main = "construct" => ~ web /\ ~ quit /\ sighand = "default"
  /\ web /\ ~ quit => built = 6 /\ main \in {"signals", "test", "batch"}

\* A running request: what it has read are versions of the chain that existed.
Jobs ==
  [method : Methods, todo : Seq(Calling), ownFee : BOOLEAN, since : 1 .. Len(hist),
   account : (1 .. Len(hist)) \cup {None}, fee : Fees \cup {None},
   head : (0 .. Len(hist)) \cup {None}, tx : [nonce : Nat, fee : Fees \cup {None}] \cup {None}]

\* The versions of the chain since the request began.
During(j) == j.since .. Len(hist)

Fresh(j) ==
  /\ \E v \in During(j) : j.tx.nonce = hist[v].nonce + 1
  /\ ~ j.ownFee => \E v \in During(j) : j.tx.fee = hist[v].fee

\* How far get-account-info is, and what it has read by then.
AccountPhase(j) ==
  \/ j.todo = get_account_info
  \/ j.todo = <<Db("db_get_chain_state"), Ses("get_account_info")>>
  \/ j.todo = <<Ses("get_account_info")>> /\ j.head \in 0 .. Len(hist)
  \/ j.todo = <<>> /\ j.head \in 0 .. Len(hist) /\ j.account \in 1 .. Len(hist) /\ j.account >= j.head

\* How far submit-transaction is: nonce and fee are read while it runs, then used.
SubmitPhase(j) ==
  \/ j.todo = submit_transaction(j.ownFee) /\ j.tx = None
  \/ /\ j.todo = <<Ses("get_median_tx_free"), Ses("get_session_time"), Ses("submit_transaction")>>
     /\ j.tx = None /\ j.account \in During(j)
  \/ /\ j.todo \in {<<Ses("get_session_time"), Ses("submit_transaction")>>, <<Ses("submit_transaction")>>}
     /\ j.tx = None /\ j.account \in During(j)
     /\ ~ j.ownFee => \E v \in During(j) : j.fee = hist[v].fee
  \/ j.todo = <<>> /\ Fresh(j)

Phase(j) ==
  /\ j.method = "get-account-info" => AccountPhase(j)
  /\ j.method = "submit-transaction" => SubmitPhase(j)
  /\ j.method # "submit-transaction" => j.tx = None

RequestsOK ==
  /\ job \in [Workers -> Jobs \cup {Idle}]
  /\ \A w \in Workers : job[w] # Idle => Phase(job[w])
  /\ ~ web => \A w \in Workers : job[w] = Idle

Inv == HistoryOK /\ ProcessOK /\ RequestsOK /\ NoMisuseBeforeQuit

\* Every version of the chain has a nonce and a median fee.
LEMMA Versions ==
  ASSUME HistoryOK
  PROVE  /\ Len(hist) \in Nat \ {0}
         /\ \A v \in 1 .. Len(hist) : hist[v].nonce \in Nat /\ hist[v].fee \in Fees
<1>1. Len(hist) \in Nat \ {0}
  BY DEF HistoryOK
<1>2. \A v \in 1 .. Len(hist) : hist[v] \in [nonce : 0 .. MaxNonce, fee : Fees]
  BY ElementOfSeq DEF HistoryOK
<1>3. QED
  BY <1>1, <1>2, DaemonAssumption

-------------------------------------------------------------------------------
(* One call of a method *)

\* A call takes a request from one phase to the next.
LEMMA CallAdvances ==
  ASSUME HistoryOK, NEW j \in Jobs, Phase(j), j.todo # <<>>, NEW k,
         k = AfterCall([j EXCEPT !.todo = Tail(@)], Head(j.todo)[2])
  PROVE  k \in Jobs /\ Phase(k)
<1> DEFINE c == Head(j.todo)[2]
           i == [j EXCEPT !.todo = Tail(@)]
<1>1. i \in Jobs /\ i.todo = Tail(j.todo)
  BY HeadTailProperties DEF Jobs
<1>2. /\ i.method = j.method /\ i.ownFee = j.ownFee /\ i.since = j.since /\ i.account = j.account
      /\ i.fee = j.fee /\ i.head = j.head /\ i.tx = j.tx
  BY DEF Jobs
<1>3. Len(hist) \in 1 .. Len(hist) /\ Len(hist) \in During(j) /\ hist[Len(hist)].fee \in Fees
  BY Versions DEF Jobs, During
<1>4. CASE j.method = "get-account-info"
  <2>1. CASE j.todo = get_account_info
    <3>1. i.todo = <<Db("db_get_chain_state"), Ses("get_account_info")>> /\ c = "request_chain_state"
      BY <1>1, <2>1 DEF get_account_info, Ses
    <3>2. k = i
      BY <3>1 DEF AfterCall
    <3>3. QED
      BY <1>1, <1>2, <1>4, <3>1, <3>2 DEF Phase, AccountPhase
  <2>2. CASE j.todo = <<Db("db_get_chain_state"), Ses("get_account_info")>>
    <3>1. i.todo = <<Ses("get_account_info")>> /\ c = "db_get_chain_state"
      BY <1>1, <2>2 DEF Db
    <3>2. k = [i EXCEPT !.head = dbHead]
      BY <3>1 DEF AfterCall
    <3>3. k \in Jobs /\ k.todo = i.todo /\ k.method = i.method /\ k.tx = i.tx /\ k.head = dbHead
      BY <1>1, <3>2 DEF Jobs, HistoryOK
    <3>4. QED
      BY <1>2, <1>4, <3>1, <3>3 DEF Phase, AccountPhase, HistoryOK
  <2>3. CASE j.todo = <<Ses("get_account_info")>> /\ j.head \in 0 .. Len(hist)
    <3>1. i.todo = <<>> /\ c = "get_account_info"
      BY <1>1, <2>3 DEF Ses
    <3>2. k = [i EXCEPT !.account = Len(hist)]
      BY <3>1 DEF AfterCall
    <3>3. /\ k \in Jobs /\ k.todo = i.todo /\ k.method = i.method /\ k.tx = i.tx /\ k.head = i.head
          /\ k.account = Len(hist)
      BY <1>1, <1>3, <3>2 DEF Jobs
    <3>4. QED
      BY <1>2, <1>3, <1>4, <2>3, <3>1, <3>3 DEF Phase, AccountPhase, HistoryOK
  <2>4. QED
    BY <1>4, <2>1, <2>2, <2>3 DEF Phase, AccountPhase
<1>5. CASE j.method = "submit-transaction"
  <2>0. During(i) = During(j)
    BY <1>2 DEF During
  <2>1. CASE j.todo = submit_transaction(j.ownFee) /\ j.tx = None
    <3>1. /\ c = "get_account_info"
          /\ i.todo = IF j.ownFee THEN <<Ses("get_session_time"), Ses("submit_transaction")>>
                      ELSE <<Ses("get_median_tx_free"), Ses("get_session_time"), Ses("submit_transaction")>>
      <4>1. CASE j.ownFee
        BY <1>1, <2>1, <4>1 DEF submit_transaction, Ses
      <4>2. CASE ~ j.ownFee
        BY <1>1, <2>1, <4>2 DEF submit_transaction, Ses
      <4>3. QED
        BY <4>1, <4>2
    <3>2. k = [i EXCEPT !.account = Len(hist)]
      BY <3>1 DEF AfterCall
    <3>3. /\ k \in Jobs /\ k.todo = i.todo /\ k.method = i.method /\ k.tx = i.tx
          /\ k.ownFee = i.ownFee /\ k.since = i.since /\ k.account = Len(hist)
      BY <1>1, <1>3, <3>2 DEF Jobs
    <3>4. k.account \in During(k)
      BY <1>2, <1>3, <3>3 DEF During
    <3>5. QED
      BY <1>2, <1>5, <2>1, <3>1, <3>3, <3>4 DEF Phase, SubmitPhase
  <2>2. CASE /\ j.todo = <<Ses("get_median_tx_free"), Ses("get_session_time"), Ses("submit_transaction")>>
             /\ j.tx = None /\ j.account \in During(j)
    <3>1. c = "get_median_tx_free" /\ i.todo = <<Ses("get_session_time"), Ses("submit_transaction")>>
      BY <1>1, <2>2 DEF Ses
    <3>2. k = [i EXCEPT !.fee = hist[Len(hist)].fee]
      BY <3>1 DEF AfterCall
    <3>3. /\ k \in Jobs /\ k.todo = i.todo /\ k.method = i.method /\ k.tx = i.tx
          /\ k.ownFee = i.ownFee /\ k.since = i.since /\ k.account = i.account
          /\ k.fee = hist[Len(hist)].fee
      BY <1>1, <1>3, <3>2 DEF Jobs
    <3>4. During(k) = During(j)
      BY <1>2, <3>3 DEF During
    <3>5. QED
      BY <1>2, <1>3, <1>5, <2>2, <3>1, <3>3, <3>4 DEF Phase, SubmitPhase
  <2>3. CASE /\ j.todo = <<Ses("get_session_time"), Ses("submit_transaction")>>
             /\ j.tx = None /\ j.account \in During(j)
             /\ ~ j.ownFee => \E v \in During(j) : j.fee = hist[v].fee
    <3>1. c = "get_session_time" /\ i.todo = <<Ses("submit_transaction")>>
      BY <1>1, <2>3 DEF Ses
    <3>2. k = i
      BY <3>1 DEF AfterCall
    <3>3. QED
      BY <1>1, <1>2, <1>5, <2>0, <2>3, <3>1, <3>2 DEF Phase, SubmitPhase
  <2>4. CASE /\ j.todo = <<Ses("submit_transaction")>>
             /\ j.tx = None /\ j.account \in During(j)
             /\ ~ j.ownFee => \E v \in During(j) : j.fee = hist[v].fee
    <3>1. c = "submit_transaction" /\ i.todo = <<>>
      BY <1>1, <2>4 DEF Ses
    <3>2. k = [i EXCEPT !.tx = [nonce |-> hist[i.account].nonce + 1, fee |-> i.fee],
                        !.account = None, !.fee = None]
      BY <1>2, <1>5, <3>1 DEF AfterCall
    <3>3. hist[i.account].nonce + 1 \in Nat /\ i.fee \in Fees \cup {None}
      <4>1. i.account \in 1 .. Len(hist)
        BY <1>2, <2>4, Versions DEF During, Jobs
      <4>2. QED
        BY <1>1, <4>1, Versions DEF Jobs
    <3>4. /\ k \in Jobs /\ k.todo = i.todo /\ k.method = i.method
          /\ k.ownFee = i.ownFee /\ k.since = i.since
          /\ k.tx.nonce = hist[i.account].nonce + 1 /\ k.tx.fee = i.fee
      <4> DEFINE t == [nonce |-> hist[i.account].nonce + 1, fee |-> i.fee]
      <4>1. t \in [nonce : Nat, fee : Fees \cup {None}] /\ t.nonce = hist[i.account].nonce + 1 /\ t.fee = i.fee
        BY <3>3
      <4>2. k = [i EXCEPT !.tx = t, !.account = None, !.fee = None]
        BY <3>2
      <4> HIDE DEF t, i
      <4>3. QED
        BY <1>1, <4>1, <4>2 DEF Jobs
    <3>5. During(k) = During(j)
      BY <1>2, <3>4 DEF During
    <3>6. QED
      BY <1>2, <1>5, <2>4, <3>1, <3>4, <3>5 DEF Phase, SubmitPhase, Fresh
  <2>5. QED
    BY <1>5, <2>1, <2>2, <2>3, <2>4 DEF Phase, SubmitPhase
<1>6. CASE j.method \notin {"get-account-info", "submit-transaction"}
  <2>1. \/ k = i
        \/ k = [i EXCEPT !.account = Len(hist)]
        \/ k = [i EXCEPT !.fee = hist[Len(hist)].fee]
        \/ k = [i EXCEPT !.head = dbHead]
    BY <1>2, <1>6 DEF AfterCall
  <2>2. k \in Jobs /\ k.method = i.method /\ k.tx = i.tx
    BY <1>1, <1>3, <2>1 DEF Jobs, HistoryOK
  <2>3. QED
    BY <1>2, <1>6, <2>2 DEF Phase
<1>7. QED
  BY <1>4, <1>5, <1>6

\* A change of the chain spoils nothing that a request has read.
LEMMA GrowthKeepsPhase ==
  ASSUME HistoryOK, NEW x, hist' = Append(hist, x), NEW j \in Jobs, Phase(j)
  PROVE  j \in Jobs' /\ Phase(j)'
<1>1. Len(hist') = Len(hist) + 1 /\ \A v \in 1 .. Len(hist) : hist'[v] = hist[v]
  BY DEF HistoryOK
<1>2. Len(hist) \in Nat
  BY DEF HistoryOK
<1>3. j \in Jobs'
  BY <1>1, <1>2 DEF Jobs
<1>4. /\ \A v \in During(j) : v \in During(j)' /\ hist'[v] = hist[v]
      /\ \A v \in 0 .. Len(hist) : v \in 0 .. Len(hist')
      /\ \A v \in 1 .. Len(hist) : v \in 1 .. Len(hist')
  BY <1>1, <1>2 DEF During, Jobs
<1>5. AccountPhase(j) => AccountPhase(j)'
  BY <1>4 DEF AccountPhase
<1>6. SubmitPhase(j) => SubmitPhase(j)'
  BY <1>4 DEF SubmitPhase, Fresh
<1>7. QED
  BY <1>3, <1>5, <1>6 DEF Phase
-------------------------------------------------------------------------------
(* Every step keeps the invariant *)

\* However the process ends, the next one starts with nothing but the disk.
LEMMA DownKeeps == ASSUME Inv, Down PROVE Inv'
<1>1. HistoryOK'
  BY DEF Inv, HistoryOK, Down, Forget, PendingAlerts
<1>2. ProcessOK' /\ NoMisuseBeforeQuit'
  <2>1. ProcessTyped'
    <3>1. /\ up' = FALSE /\ main' = "construct" /\ built' = 0 /\ web' = FALSE
          /\ sighand' = "default" /\ quit' = FALSE /\ force' = FALSE /\ misuse' = FALSE
      BY Zenon DEF Down
    <3>2. 0 \in 0 .. 6
      OBVIOUS
    <3>3. QED
      BY <3>1, <3>2, Zenon DEF ProcessTyped
  <2>2. QED
    BY <2>1 DEF Down, ProcessOK, NoMisuseBeforeQuit
<1>3. RequestsOK'
  BY DEF Down, RequestsOK
<1>4. QED
  BY <1>1, <1>2, <1>3 DEF Inv

\* Requests are where they were if neither they nor the chain moved.
LEMMA RequestsStay ==
  ASSUME RequestsOK, UNCHANGED <<job, hist>>, ~ web' => ~ web PROVE RequestsOK'
BY DEF RequestsOK, Jobs, Phase, AccountPhase, SubmitPhase, Fresh, During

\* main builds, serves its loop and takes down.
LEMMA MainKeeps == ASSUME Inv, Main PROVE Inv'
<1> USE DEF Goto, loopVars
<1>1. CASE Construct \/ (\E ok \in BOOLEAN : StartWeb(ok)) \/ InstallSignals
  <2>1. HistoryOK'
    BY <1>1 DEF Inv, HistoryOK, PendingAlerts, Construct, StartWeb, InstallSignals
  <2>2. ProcessOK' /\ NoMisuseBeforeQuit'
    <3>1. Len(Objects) = 6
      BY DEF Objects
    <3>2. CASE Construct
      BY <3>1, <3>2 DEF Inv, ProcessOK, ProcessTyped, NoMisuseBeforeQuit, Construct
    <3>3. CASE \E ok \in BOOLEAN : StartWeb(ok)
      BY <3>1, <3>3 DEF Inv, ProcessOK, ProcessTyped, NoMisuseBeforeQuit, StartWeb
    <3>4. CASE InstallSignals
      BY <3>4 DEF Inv, ProcessOK, ProcessTyped, NoMisuseBeforeQuit, InstallSignals
    <3>5. QED
      BY <1>1, <3>2, <3>3, <3>4
  <2>3. RequestsOK'
    BY <1>1, RequestsStay DEF Inv, ProcessOK, ProcessTyped, Construct, StartWeb, InstallSignals
  <2>4. QED
    BY <2>1, <2>2, <2>3 DEF Inv
<1>2. CASE TestQuit \/ EndOfRound \/ StopSession
  <2>1. HistoryOK'
    <3>1. hist' = hist /\ dbHead' = dbHead /\ PendingAlerts' = PendingAlerts
      BY <1>2 DEF TestQuit, EndOfRound, StopSession, PendingAlerts
    <3>2. \/ alerts' = alerts /\ batch' = batch
          \/ alerts' = <<>> /\ batch' \in {alerts, <<>>}
      BY <1>2 DEF TestQuit, Pop, EndOfRound, StopSession, Forget
    <3>3. <<>> \in Seq(PendingAlerts) /\ alerts \in Seq(PendingAlerts) /\ batch \in Seq(PendingAlerts)
      BY DEF Inv, HistoryOK
    <3>4. alerts' \in Seq(PendingAlerts) /\ batch' \in Seq(PendingAlerts)
      BY <3>2, <3>3, Zenon
    <3>5. QED
      BY <3>1, <3>4 DEF Inv, HistoryOK
  <2>2. ProcessOK' /\ NoMisuseBeforeQuit'
    BY <1>2 DEF Inv, ProcessOK, ProcessTyped, NoMisuseBeforeQuit, TestQuit, EndOfRound, StopSession
  <2>3. RequestsOK'
    BY <1>2, RequestsStay DEF Inv, TestQuit, EndOfRound, StopSession
  <2>4. QED
    BY <2>1, <2>2, <2>3 DEF Inv
<1>3. CASE HandleAlert
  <2>1. Head(batch) \in PendingAlerts /\ Tail(batch) \in Seq(PendingAlerts)
    BY <1>3, HeadTailProperties DEF HandleAlert, Inv, HistoryOK
  <2>2. Head(batch)[1] = "head" => Head(batch)[2] \in 0 .. Len(hist)
    BY <2>1, Versions DEF PendingAlerts, Inv
  <2>3. HistoryOK'
    <3>1. dbHead' \in 0 .. Len(hist)
      BY <1>3, <2>2 DEF Inv, HistoryOK, HandleAlert, Current
    <3>2. batch' = Tail(batch) /\ alerts' = alerts /\ hist' = hist /\ PendingAlerts' = PendingAlerts
      BY <1>3 DEF HandleAlert, Return, PendingAlerts
    <3>3. QED
      BY <2>1, <3>1, <3>2 DEF Inv, HistoryOK
  <2>4. ProcessOK' /\ NoMisuseBeforeQuit'
    BY <1>3 DEF Inv, ProcessOK, ProcessTyped, NoMisuseBeforeQuit, HandleAlert
  <2>5. RequestsOK'
    BY <1>3, RequestsStay DEF Inv, HandleAlert
  <2>6. QED
    BY <2>3, <2>4, <2>5 DEF Inv
<1>4. CASE Destroy
  <2>1. CASE built = 0
    BY <1>4, <2>1, DownKeeps DEF Destroy
  <2>2. CASE built # 0
    <3>1. HistoryOK'
      BY <1>4, <2>2 DEF Inv, HistoryOK, PendingAlerts, Destroy
    <3>2. ProcessOK' /\ NoMisuseBeforeQuit'
      BY <1>4, <2>2 DEF Inv, ProcessOK, ProcessTyped, NoMisuseBeforeQuit, Destroy
    <3>3. RequestsOK'
      BY <1>4, <2>2, RequestsStay DEF Inv, Destroy
    <3>4. QED
      BY <3>1, <3>2, <3>3 DEF Inv
  <2>3. QED
    BY <2>1, <2>2
<1>5. QED
  BY <1>1, <1>2, <1>3, <1>4 DEF Main

\* Unless main has been asked to quit, a request finds the objects it uses.
LEMMA UseFinds ==
  ASSUME ProcessOK, NoMisuseBeforeQuit, web, NEW S, Use(S),
         S \subseteq {"authorizer", "tau_sql", "ses", "t_handler", "webport"}
  PROVE  misuse' \in BOOLEAN /\ (misuse' => quit)
<1>1. CASE quit
  BY <1>1 DEF Use, ProcessOK, ProcessTyped
<1>2. CASE ~ quit
  <2>1. \A o \in S : Exists(o)
    BY <1>2 DEF ProcessOK, ProcessTyped, Exists, Objects
  <2>2. QED
    BY <1>2, <2>1 DEF Use, NoMisuseBeforeQuit, ProcessOK, ProcessTyped
<1>3. QED
  BY <1>1, <1>2 DEF ProcessOK, ProcessTyped

\* A signal ends the process or asks main to.
LEMMA SignalKeeps == ASSUME Inv, Signal PROVE Inv'
<1>1. CASE Down
  BY <1>1, DownKeeps
<1>2. CASE ~ Down
  <2>1. UNCHANGED <<up, main, built, web, sighand, loopVars, job, misuse, hist, dbHead>>
    BY <1>2 DEF Signal
  <2>2. HistoryOK'
    BY <2>1 DEF Inv, HistoryOK, PendingAlerts, loopVars
  <2>3. ProcessOK' /\ NoMisuseBeforeQuit'
    <3>1. ProcessTyped'
      BY <1>2, <2>1 DEF Inv, ProcessOK, ProcessTyped, Signal
    <3>2. QED
      BY <1>2, <2>1, <3>1 DEF Inv, ProcessOK, NoMisuseBeforeQuit, Signal
  <2>4. RequestsOK'
    BY <2>1, RequestsStay DEF Inv
  <2>5. QED
    BY <2>2, <2>3, <2>4 DEF Inv
<1>3. QED
  BY <1>1, <1>2

\* The next process finds the disk as the last one left it.
LEMMA RestartKeeps == ASSUME Inv, Restart PROVE Inv'
<1>1. HistoryOK'
  BY DEF Inv, HistoryOK, PendingAlerts, Restart, loopVars
<1>2. ProcessOK' /\ NoMisuseBeforeQuit'
  BY DEF Inv, ProcessOK, ProcessTyped, NoMisuseBeforeQuit, Restart, processVars
<1>3. RequestsOK'
  BY RequestsStay DEF Inv, Restart, processVars
<1>4. QED
  BY <1>1, <1>2, <1>3 DEF Inv

\* A step of one worker that finds its objects, or is too late to.
LEMMA WorkerKeeps ==
  ASSUME Inv, web, NEW S, Use(S),
         S \subseteq {"authorizer", "tau_sql", "ses", "t_handler", "webport"},
         NEW w \in Workers, NEW k, job' = [job EXCEPT ![w] = k],
         k = Idle \/ (k \in Jobs /\ Phase(k)),
         UNCHANGED <<up, processVars, loopVars, hist, dbHead>>
  PROVE  Inv'
<1>1. HistoryOK'
  BY DEF Inv, HistoryOK, PendingAlerts, loopVars
<1>2. ProcessOK' /\ NoMisuseBeforeQuit'
  BY UseFinds DEF Inv, ProcessOK, ProcessTyped, NoMisuseBeforeQuit, processVars
<1>3. RequestsOK'
  <2>1. hist' = hist /\ Jobs' = Jobs /\ web'
    BY DEF Jobs, processVars
  <2>2. job' \in [Workers -> Jobs \cup {Idle}]
    BY DEF Inv, RequestsOK
  <2>3. \A j : Phase(j) => Phase(j)'
    BY <2>1 DEF Phase, AccountPhase, SubmitPhase, Fresh, During
  <2>4. \A v \in Workers : job'[v] # Idle => Phase(job'[v])
    BY DEF Inv, RequestsOK
  <2>5. \A v \in Workers : job'[v] # Idle => Phase(job[v])'
    BY <2>3, <2>4
  <2>6. QED
    BY <2>1, <2>2, <2>5 DEF RequestsOK
<1>4. QED
  BY <1>1, <1>2, <1>3 DEF Inv

\* A request begins with nothing read.
LEMMA BeginKeeps == ASSUME Inv, NEW w \in Workers, NEW r \in Requests, BeginRequest(w, r) PROVE Inv'
<1>1. CASE Fatal(r)
  BY <1>1, DownKeeps DEF BeginRequest
<1>2. CASE ~ Fatal(r)
  <2> DEFINE k == [method |-> r.method, todo |-> Calls(r.method, r.ownFee),
                   ownFee |-> r.ownFee, since |-> Len(hist),
                   account |-> None, fee |-> None, head |-> None, tx |-> None]
  <2>1. r.method \in Methods /\ r.ownFee \in BOOLEAN
    BY DaemonAssumption DEF Requests
  <2>2. k \in Jobs
    <3>1. Calls(r.method, r.ownFee) \in Seq(Calling)
      BY <2>1, CallsTyped
    <3>2. Len(hist) \in 1 .. Len(hist)
      BY Versions DEF Inv
    <3>3. QED
      BY <2>1, <3>1, <3>2 DEF Jobs
  <2>3. Phase(k)
    <3>1. /\ k.method = r.method /\ k.todo = Calls(r.method, r.ownFee)
          /\ k.ownFee = r.ownFee /\ k.tx = None
      OBVIOUS
    <3>2. r.method = "get-account-info" => Calls(r.method, r.ownFee) = get_account_info
      BY DEF Calls
    <3>3. r.method = "submit-transaction" => Calls(r.method, r.ownFee) = submit_transaction(r.ownFee)
      BY DEF Calls
    <3> HIDE DEF k
    <3>4. QED
      BY <3>1, <3>2, <3>3 DEF Phase, AccountPhase, SubmitPhase
  <2>4. /\ web /\ Use({"webport", "t_handler", "authorizer"})
        /\ job' = [job EXCEPT ![w] = k]
        /\ UNCHANGED <<up, processVars, loopVars, hist, dbHead>>
    BY <1>2 DEF BeginRequest
  <2> HIDE DEF k
  <2>5. QED
    BY <2>2, <2>3, <2>4, WorkerKeeps
<1>3. QED
  BY <1>1, <1>2

\* A request does its next call.
LEMMA CallKeeps == ASSUME Inv, NEW w \in Workers, Call(w) PROVE Inv'
<1> DEFINE next == Head(job[w].todo)
<1>1. job[w] # Idle /\ job[w].todo # <<>>
  BY DEF Call
<1>2. job[w] \in Jobs /\ Phase(job[w]) /\ web
  BY <1>1 DEF Inv, RequestsOK
<1>3. CASE next[2] = "crash-test"
  BY <1>3, DownKeeps DEF Call
<1>4. CASE next[2] # "crash-test"
  <2> DEFINE k == AfterCall([job[w] EXCEPT !.todo = Tail(@)], next[2])
  <2>1. k \in Jobs /\ Phase(k)
    BY <1>1, <1>2, CallAdvances DEF Inv
  <2>2. next[1] \in {"ses", "tau_sql"}
    <3>1. job[w].todo \in Seq(Calling)
      BY <1>2 DEF Jobs
    <3>2. next \in Calling
      BY <1>1, <3>1, HeadTailProperties
    <3>3. QED
      BY <3>2 DEF Calling, Ses, Db
  <2>3. /\ Use({next[1]})
        /\ job' = [job EXCEPT ![w] = k]
        /\ UNCHANGED <<up, processVars, loopVars, hist, dbHead>>
    BY <1>4 DEF Call
  <2> HIDE DEF k, next
  <2>4. QED
    BY <1>2, <2>1, <2>2, <2>3, WorkerKeeps
<1>5. QED
  BY <1>3, <1>4

\* A request is answered.
LEMMA AnswerKeeps == ASSUME Inv, NEW w \in Workers, Answer(w) PROVE Inv'
<1>1. job[w] # Idle
  BY DaemonAssumption DEF Answer, Idle
<1>2. web
  BY <1>1 DEF Inv, RequestsOK
<1>3. /\ Use({"webport", "t_handler"}) /\ job' = [job EXCEPT ![w] = Idle]
      /\ UNCHANGED <<up, processVars, loopVars, hist, dbHead>>
  BY DEF Answer
<1>4. {"webport", "t_handler"} \subseteq {"authorizer", "tau_sql", "ses", "t_handler", "webport"}
  OBVIOUS
<1>5. QED
  BY <1>2, <1>3, <1>4, WorkerKeeps

\* The session posts an alert of what its chain did, or of nothing.
LEMMA PostKeeps ==
  ASSUME HistoryOK, NEW kind, NEW arg, Post(kind, arg), UNCHANGED dbHead,
         \/ kind \in {"head", "rollback"} /\ arg = Len(hist) + 1
            /\ \E x \in [nonce : 0 .. MaxNonce, fee : Fees] : hist' = Append(hist, x)
         \/ kind = "log" /\ arg = None /\ hist' = hist
  PROVE  HistoryOK'
<1>1. /\ hist' \in Seq([nonce : 0 .. MaxNonce, fee : Fees])
      /\ Len(hist') \in Nat /\ Len(hist') >= Len(hist) /\ Len(hist) > 0 /\ Len(hist) \in Nat
      /\ kind \in {"head", "rollback"} => arg = Len(hist')
  <2> DEFINE S == [nonce : 0 .. MaxNonce, fee : Fees]
  <2>1. hist \in Seq(S) /\ Len(hist) \in Nat /\ Len(hist) > 0
    BY DEF HistoryOK
  <2>2. \A x \in S : Append(hist, x) \in Seq(S) /\ Len(Append(hist, x)) = Len(hist) + 1
    BY <2>1, AppendProperties
  <2>3. \/ hist' \in Seq(S) /\ Len(hist') = Len(hist) + 1 /\ arg = Len(hist) + 1
        \/ hist' = hist /\ kind = "log"
    BY <2>2
  <2> HIDE DEF S
  <2>4. QED
    BY <2>1, <2>3 DEF S
<1>2. PendingAlerts \subseteq PendingAlerts' /\ <<kind, arg>> \in PendingAlerts'
  BY <1>1 DEF PendingAlerts
<1>3. alerts \in Seq(PendingAlerts') /\ batch \in Seq(PendingAlerts')
  BY <1>2 DEF HistoryOK
<1>4. alerts' \in Seq(PendingAlerts') /\ batch' = batch
  BY <1>2, <1>3 DEF Post
<1>5. QED
  BY <1>1, <1>3, <1>4 DEF HistoryOK

\* The chain grows, or logs, while requests are running.
LEMMA SessionKeeps ==
  ASSUME Inv,
         \/ \E kind \in {"head", "rollback"}, nonce \in 0 .. MaxNonce, fee \in Fees : ChainChanges(kind, nonce, fee)
         \/ SessionLogs
  PROVE  Inv'
<1>1. CASE SessionLogs
  <2>1. HistoryOK'
    BY <1>1, PostKeeps DEF SessionLogs, Inv
  <2>2. ProcessOK' /\ NoMisuseBeforeQuit'
    BY <1>1 DEF Inv, ProcessOK, ProcessTyped, NoMisuseBeforeQuit, SessionLogs, processVars
  <2>3. RequestsOK'
    BY <1>1, RequestsStay DEF Inv, SessionLogs, processVars
  <2>4. QED
    BY <2>1, <2>2, <2>3 DEF Inv
<1>2. CASE \E kind \in {"head", "rollback"}, nonce \in 0 .. MaxNonce, fee \in Fees : ChainChanges(kind, nonce, fee)
  <2>1. PICK kind \in {"head", "rollback"}, nonce \in 0 .. MaxNonce, fee \in Fees : ChainChanges(kind, nonce, fee)
    BY <1>2
  <2> DEFINE x == [nonce |-> nonce, fee |-> fee]
  <2>2. x \in [nonce : 0 .. MaxNonce, fee : Fees] /\ hist' = Append(hist, x)
    BY <2>1 DEF ChainChanges
  <2>3. Post(kind, Len(hist) + 1) /\ UNCHANGED <<up, processVars, job, misuse, dbHead>>
    BY <2>1 DEF ChainChanges
  <2> HIDE DEF x
  <2>4. HistoryOK'
    BY <2>2, <2>3, PostKeeps DEF Inv
  <2>5. ProcessOK' /\ NoMisuseBeforeQuit'
    BY <2>3 DEF Inv, ProcessOK, ProcessTyped, NoMisuseBeforeQuit, processVars
  <2>6. RequestsOK'
    <3>1. \A j \in Jobs : Phase(j) => j \in Jobs' /\ Phase(j)'
      BY <2>2, GrowthKeepsPhase DEF Inv
    <3>2. \A v \in Workers : job[v] \in Jobs \cup {Idle} /\ (job[v] # Idle => Phase(job[v]))
      BY DEF Inv, RequestsOK
    <3>3. \A v \in Workers : job[v] # Idle => job[v] \in Jobs' /\ Phase(job[v])'
      BY <2>3, <3>1, <3>2
    <3>4. QED
      BY <2>3, <3>3 DEF Inv, RequestsOK, processVars
  <2>7. QED
    BY <2>4, <2>5, <2>6 DEF Inv
<1>3. QED
  BY <1>1, <1>2

\* Every step keeps the invariant.
LEMMA NextKeepsInv == ASSUME Inv, [Next]_vars PROVE Inv'
<1>1. CASE UNCHANGED vars
  <2>1. HistoryOK'
    BY <1>1 DEF Inv, HistoryOK, PendingAlerts, vars, loopVars
  <2>2. ProcessOK' /\ NoMisuseBeforeQuit'
    BY <1>1 DEF Inv, ProcessOK, ProcessTyped, NoMisuseBeforeQuit, vars, processVars
  <2>3. RequestsOK'
    BY <1>1, RequestsStay DEF Inv, vars, processVars
  <2>4. QED
    BY <2>1, <2>2, <2>3 DEF Inv
<1>2. CASE StartupFails \/ Collapse
  BY <1>2, DownKeeps DEF StartupFails, Collapse
<1>3. QED
  BY <1>1, <1>2, MainKeeps, SignalKeeps, RestartKeeps, BeginKeeps, CallKeeps, AnswerKeeps, SessionKeeps DEF Next

\* The first process starts on an empty database.
LEMMA InitInv == ASSUME Init PROVE Inv
<1>1. HistoryOK
  <2>1. (CHOOSE f \in Fees : TRUE) \in Fees
    BY DaemonAssumption
  <2>2. [nonce |-> 0, fee |-> CHOOSE f \in Fees : TRUE] \in [nonce : 0 .. MaxNonce, fee : Fees]
    BY <2>1, DaemonAssumption
  <2>3. QED
    BY <2>2 DEF Init, LoopInit, HistoryOK, PendingAlerts
<1>2. ProcessOK /\ NoMisuseBeforeQuit
  <2>1. ProcessTyped
    <3>1. 0 \in 0 .. 6
      OBVIOUS
    <3>2. QED
      BY <3>1, Zenon DEF Init, ProcessTyped
  <2>2. QED
    BY <2>1 DEF Init, ProcessOK, NoMisuseBeforeQuit
<1>3. RequestsOK
  BY DEF Init, RequestsOK
<1>4. QED
  BY <1>1, <1>2, <1>3 DEF Inv

\* The invariant holds in every state.
LEMMA Invariance == Spec => []Inv
<1>1. Init => Inv
  BY InitInv
<1>2. Inv /\ [Next]_vars => Inv'
  BY NextKeepsInv
<1>3. QED
  BY <1>1, <1>2, PTL DEF Spec

-------------------------------------------------------------------------------
(* What follows *)

\* Type correctness of the process, for any number of workers and restarts.
THEOREM TypeCorrect == Spec => []TypeOK
<1>1. Inv => TypeOK
  <2> SUFFICES ASSUME Inv PROVE TypeOK
    OBVIOUS
  <2>1. Len(Objects) = 6
    BY DEF Objects
  <2>2. \A w \in Workers : job[w] # Idle => job[w] \in Jobs
    BY DEF Inv, RequestsOK
  <2>3. \A w \in Workers : job[w] # Idle => job[w].todo \in Seq(Calling) /\ job[w].since \in 1 .. Len(hist)
    BY <2>2 DEF Jobs
  <2>4. QED
    BY <2>1, <2>3 DEF Inv, TypeOK, HistoryOK, ProcessOK, ProcessTyped
<1>2. QED
  BY <1>1, Invariance, PTL

\* From the first request during start-up until a signal asks main to quit, no
\* worker uses an object of main that does not exist, in whatever order the
\* workers, main, the signals and the session take their steps.
THEOREM ObjectsOutliveRequests == Spec => []NoMisuseBeforeQuit
<1>1. Inv => NoMisuseBeforeQuit
  BY DEF Inv
<1>2. QED
  BY <1>1, Invariance, PTL

\* get-account-info never answers with an account that is older than the head it
\* names, however late the alerts are.
THEOREM AccountFollowsHead == Spec => []AccountNotOlderThanHead
<1>1. Inv => AccountNotOlderThanHead
  <2> SUFFICES ASSUME Inv, NEW w \in Workers, job[w] # Idle, job[w].todo = <<>>,
                      job[w].method = "get-account-info"
               PROVE  job[w].account >= job[w].head
    BY DEF AccountNotOlderThanHead
  <2>1. AccountPhase(job[w])
    BY DEF Inv, RequestsOK, Phase
  <2>2. get_account_info # <<>>
    BY DEF get_account_info
  <2>3. QED
    BY <2>1, <2>2 DEF AccountPhase
<1>2. QED
  BY <1>1, Invariance, PTL

\* submit-transaction submits the successor of a nonce, and a median fee, that the
\* chain had while the request was running.
THEOREM SubmissionFresh == Spec => []SubmittedFresh
<1>1. Inv => SubmittedFresh
  <2> SUFFICES ASSUME Inv, NEW w \in Workers, job[w] # Idle, job[w].tx # None
               PROVE  LET j == job[w]
                          during == {hist[v] : v \in j.since .. Len(hist)}
                      IN  /\ \E s \in during : j.tx.nonce = s.nonce + 1
                          /\ ~ j.ownFee => \E s \in during : j.tx.fee = s.fee
    BY DEF SubmittedFresh
  <2>1. Phase(job[w])
    BY DEF Inv, RequestsOK
  <2>2. SubmitPhase(job[w])
    BY <2>1 DEF Phase
  <2>3. Fresh(job[w])
    BY <2>2 DEF SubmitPhase
  <2>4. QED
    BY <2>3 DEF Fresh, During
<1>2. QED
  BY <1>1, Invariance, PTL
===============================================================================
