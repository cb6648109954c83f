--------------------------- MODULE ChainStore_proofs ---------------------------
(***************************************************************************)
(* Proofs about ChainStore, for any workers, chains, peers, blocks and     *)
(* transactions, and any number of alerts that wait.                       *)
(***************************************************************************)
EXTENDS ChainStore, AlertLoop_proofs

-------------------------------------------------------------------------------
(* Types *)

Alert == (Points \cup {"rollback"}) \X Blocks

Inserting == [op : {"insert_community", "insert_members"}, key : Forms \X Chains, peers : SUBSET Peers]
Deleting == [op : {"delete_community", "delete_members"}, key : Forms \X Chains]

\* The type invariant, with the records of the requests.
TypeInv ==
  /\ TypeOK
  /\ rpc \in [Workers -> Inserting \cup Deleting \cup {Idle}]
  /\ step # 0 => batch # <<>>

\* A request is of the kind that its operation says.
LEMMA RequestKinds ==
  ASSUME TypeInv, NEW w \in Workers
  PROVE  /\ rpc[w].op \in {"insert_community", "insert_members"} => rpc[w] \in Inserting
         /\ rpc[w].op \in {"delete_community", "delete_members"} => rpc[w] \in Deleting
         /\ rpc[w] # Idle => rpc[w].op \in Ops /\ rpc[w].key \in Forms \X Chains /\ rpc[w].key \in Keys
         /\ rpc[w] = Idle <=> rpc[w].op \notin Ops
<1>1. rpc[w] \in Inserting \cup Deleting \cup {Idle}
  BY DEF TypeInv
<1>2. Forms \X Chains \subseteq Keys
  BY ChainStoreAssumption DEF Keys
<1>3. CASE rpc[w] \in Inserting
  <2>1. rpc[w].op \in {"insert_community", "insert_members"} /\ rpc[w].key \in Forms \X Chains
    BY <1>3 DEF Inserting
  <2>2. rpc[w] # Idle
    BY <2>1 DEF Idle
  <2>3. QED
    BY <1>2, <1>3, <2>1, <2>2 DEF Ops
<1>4. CASE rpc[w] \in Deleting
  <2>1. rpc[w].op \in {"delete_community", "delete_members"} /\ rpc[w].key \in Forms \X Chains
    BY <1>4 DEF Deleting
  <2>2. rpc[w] # Idle
    BY <2>1 DEF Idle
  <2>3. QED
    BY <1>2, <1>4, <2>1, <2>2 DEF Ops
<1>5. CASE rpc[w] = Idle
  BY <1>5 DEF Idle, Ops
<1>6. QED
  BY <1>1, <1>3, <1>4, <1>5

\* What one worker does to its request, as types see it.
LEMMA RequestTyped ==
  ASSUME TypeInv, NEW w \in Workers, Requests(w) \/ RequestSteps(w)
  PROVE  rpc' \in [Workers -> Inserting \cup Deleting \cup {Idle}]
<1> SUFFICES rpc' = rpc \/ \E r \in Inserting \cup Deleting \cup {Idle} : rpc' = [rpc EXCEPT ![w] = r]
  BY DEF TypeInv
<1>1. ASSUME NEW c \in Chains, NEW form \in Forms, NEW ps \in SUBSET Peers, FollowChain(w, c, form, ps)
      PROVE  \E r \in Inserting : rpc' = [rpc EXCEPT ![w] = r]
  <2>1. [op |-> "insert_community", key |-> <<form, c>>, peers |-> ps] \in Inserting
    BY DEF Inserting
  <2>2. QED
    BY <1>1, <2>1 DEF FollowChain, Start
<1>2. ASSUME NEW c \in Chains, NEW form \in Forms, UnfollowChain(w, c, form)
      PROVE  \E r \in Deleting : rpc' = [rpc EXCEPT ![w] = r]
  <2>1. [op |-> "delete_community", key |-> <<form, c>>] \in Deleting
    BY DEF Deleting
  <2>2. QED
    BY <1>2, <2>1 DEF UnfollowChain, Start
<1>3. CASE InsertCommunity(w)
  <2>1. rpc[w] \in Inserting
    BY <1>3, RequestKinds DEF InsertCommunity
  <2>2. [rpc[w] EXCEPT !.op = "insert_members"] \in Inserting
    BY <2>1 DEF Inserting
  <2>3. QED
    BY <1>3, <2>2 DEF InsertCommunity
<1>4. ASSUME NEW p \in Peers, InsertMember(w, p)
      PROVE  \E r \in Inserting \cup {Idle} : rpc' = [rpc EXCEPT ![w] = r]
  <2>1. rpc[w] \in Inserting
    BY <1>4, RequestKinds DEF InsertMember
  <2>2. [rpc[w] EXCEPT !.peers = @ \ {p}] \in Inserting
    BY <2>1 DEF Inserting
  <2>3. QED
    BY <1>4, <2>2 DEF InsertMember
<1>5. CASE DeleteCommunity(w)
  <2>1. rpc[w] \in Deleting
    BY <1>5, RequestKinds DEF DeleteCommunity
  <2>2. [rpc[w] EXCEPT !.op = "delete_members"] \in Deleting
    BY <2>1 DEF Deleting
  <2>3. \/ rpc' = [rpc EXCEPT ![w] = [rpc[w] EXCEPT !.op = "delete_members"]]
        \/ rpc' = [rpc EXCEPT ![w] = Idle]
    BY <1>5 DEF DeleteCommunity, TypeInv
  <2>4. QED
    BY <2>2, <2>3
<1>6. CASE DeleteMembers(w)
  BY <1>6 DEF DeleteMembers
<1>7. QED
  BY <1>1, <1>2, <1>3, <1>4, <1>5, <1>6 DEF Requests, RequestSteps

\* Requests keep all types.
LEMMA RequestsKeepTypes ==
  ASSUME TypeInv, NEW w \in Workers, Requests(w) \/ RequestSteps(w) PROVE TypeInv'
<1>1. rpc' \in [Workers -> Inserting \cup Deleting \cup {Idle}]
  BY RequestTyped
<1>2. \A v \in Workers : rpc'[v] # Idle => rpc'[v].op \in Ops /\ rpc'[v].key \in Keys
  <2>1. Forms \X Chains \subseteq Keys
    BY ChainStoreAssumption DEF Keys
  <2>2. QED
    BY <1>1, <2>1 DEF Inserting, Deleting, Ops
<1>3. followed' \subseteq Chains
  BY DEF TypeInv, TypeOK, Requests, RequestSteps, FollowChain, UnfollowChain, InsertCommunity, InsertMember,
         DeleteCommunity, DeleteMembers, sessionVars
<1>4. /\ DOMAIN communities' \subseteq Keys
      /\ \A k \in DOMAIN communities' : communities'[k] \in Row
  <2>1. CASE InsertCommunity(w)
    <3>1. rpc[w].key \in Keys
      BY <2>1, RequestKinds DEF InsertCommunity, Ops
    <3>2. EmptyRow \in Row
      BY DEF EmptyRow, Row, Points
    <3>3. QED
      BY <2>1, <3>1, <3>2 DEF InsertCommunity, TypeInv, TypeOK
  <2>2. CASE DeleteCommunity(w)
    BY <2>2 DEF DeleteCommunity, TypeInv, TypeOK
  <2>3. CASE UNCHANGED communities
    BY <2>3 DEF TypeInv, TypeOK
  <2>4. QED
    BY <2>1, <2>2, <2>3 DEF Requests, RequestSteps, FollowChain, UnfollowChain, InsertMember, DeleteMembers, dbVars
<1>5. members' \subseteq Keys \X Peers
  <2>1. ASSUME NEW p \in Peers, InsertMember(w, p) PROVE members' \subseteq Keys \X Peers
    <3>1. rpc[w].key \in Keys
      BY <2>1, RequestKinds DEF InsertMember, Ops
    <3>2. QED
      BY <2>1, <3>1 DEF InsertMember, TypeInv, TypeOK
  <2>2. CASE DeleteMembers(w)
    BY <2>2 DEF DeleteMembers, TypeInv, TypeOK
  <2>3. CASE UNCHANGED members
    BY <2>3 DEF TypeInv, TypeOK
  <2>4. QED
    BY <2>1, <2>2, <2>3 DEF Requests, RequestSteps, FollowChain, UnfollowChain, InsertCommunity, DeleteCommunity, dbVars
<1>6. UNCHANGED <<blocks, txs, loopVars, stale, connected, announced>>
  BY DEF Requests, RequestSteps, FollowChain, UnfollowChain, InsertCommunity, InsertMember,
         DeleteCommunity, DeleteMembers, dbVars, sessionVars
<1>7. alone' \in [Chains -> (Forms \X Chains) \cup {NoKey}]
  <2>1. ASSUME NEW c \in Chains, NEW form \in Forms, NEW r, r.key = <<form, c>>, Start(w, c, r)
        PROVE  alone' \in [Chains -> (Forms \X Chains) \cup {NoKey}]
    BY <2>1 DEF Start, TypeInv, TypeOK
  <2>2. CASE Requests(w)
    BY <2>1, <2>2 DEF Requests, FollowChain, UnfollowChain
  <2>3. CASE RequestSteps(w)
    BY <2>3 DEF RequestSteps, InsertCommunity, InsertMember, DeleteCommunity, DeleteMembers, TypeInv, TypeOK
  <2>4. QED
    BY <2>2, <2>3
<1>8. QED
  BY <1>1, <1>2, <1>3, <1>4, <1>5, <1>6, <1>7 DEF TypeInv, TypeOK, loopVars

\* The session announces blocks.
LEMMA SessionKeepsTypes == ASSUME TypeInv, SessionSteps PROVE TypeInv'
<1>1. UNCHANGED <<dbVars, rpc, alone, stale, followed>>
  BY DEF SessionSteps, SessionNewHead, SessionRollback, SessionPoint
<1>2. PICK kind \in Points \cup {"rollback"}, b \in Blocks :
        /\ Post(kind, b)
        /\ connected' \in [Chains -> Seq(Blocks)]
        /\ announced' \in [Points -> [Chains -> Blocks \cup {NoBlock}]]
  <2>1. ASSUME NEW b \in Blocks, SessionNewHead(b)
        PROVE  /\ Post("head", b)
               /\ connected' \in [Chains -> Seq(Blocks)]
               /\ announced' \in [Points -> [Chains -> Blocks \cup {NoBlock}]]
    <3>1. ChainOf[b] \in Chains
      BY ChainStoreAssumption
    <3>2. Append(connected[ChainOf[b]], b) \in Seq(Blocks)
      BY <3>1 DEF TypeInv, TypeOK
    <3>3. QED
      BY <2>1, <3>1, <3>2 DEF SessionNewHead, TypeInv, TypeOK, Points
  <2>2. ASSUME NEW c \in Chains, SessionRollback(c)
        PROVE  /\ Post("rollback", connected[c][Len(connected[c])])
               /\ connected[c][Len(connected[c])] \in Blocks
               /\ connected' \in [Chains -> Seq(Blocks)]
               /\ announced' \in [Points -> [Chains -> Blocks \cup {NoBlock}]]
    <3>1. connected[c] \in Seq(Blocks) /\ connected[c] # <<>>
      BY <2>2 DEF SessionRollback, TypeInv, TypeOK
    <3>2. Len(connected[c]) \in Nat \ {0} /\ \A i \in 1 .. Len(connected[c]) : connected[c][i] \in Blocks
      BY <3>1, EmptySeq, ElementOfSeq
    <3>3. SubSeq(connected[c], 1, Len(connected[c]) - 1) \in Seq(Blocks)
      BY <3>2, SubSeqProperties
    <3>4. QED
      BY <2>2, <3>2, <3>3 DEF SessionRollback, TypeInv, TypeOK
  <2>3. ASSUME NEW b \in Blocks, NEW point \in {"tail", "consensus"}, SessionPoint(point, b)
        PROVE  /\ Post(point, b)
               /\ connected' \in [Chains -> Seq(Blocks)]
               /\ announced' \in [Points -> [Chains -> Blocks \cup {NoBlock}]]
    <3>1. ChainOf[b] \in Chains /\ point \in Points
      BY ChainStoreAssumption DEF Points
    <3>2. QED
      BY <2>3, <3>1 DEF SessionPoint, TypeInv, TypeOK
  <2>4. "head" \in Points /\ "tail" \in Points /\ "consensus" \in Points
    BY DEF Points
  <2>5. QED
    BY <2>1, <2>2, <2>3, <2>4, ChainStoreAssumption DEF SessionSteps
<1>3. alerts' \in Seq(Alert) /\ batch' = batch /\ step' = step
  <2>1. <<kind, b>> \in Alert /\ alerts \in Seq(Alert)
    BY DEF Alert, TypeInv, TypeOK
  <2>2. QED
    BY <1>2, <2>1, AppendProperties DEF Post
<1>4. QED
  BY <1>1, <1>2, <1>3 DEF TypeInv, TypeOK, Alert, dbVars

\* The alert that main is handling.
LEMMA CurrentTyped ==
  ASSUME TypeInv, batch # <<>>
  PROVE  /\ Head(batch) \in Alert /\ Current \in Blocks /\ ChainOf[Current] \in Chains
         /\ Head(batch) = <<Head(batch)[1], Current>>
         /\ Tail(batch) \in Seq(Alert)
<1>1. Head(batch) \in Alert /\ Tail(batch) \in Seq(Alert)
  BY HeadTailProperties DEF TypeInv, TypeOK, Alert
<1>2. QED
  BY <1>1, ChainStoreAssumption DEF Alert, Current

\* Main stores blocks, transactions and points.
LEMMA MainKeepsTypes == ASSUME TypeInv, MainSteps PROVE TypeInv'
<1>1. UNCHANGED <<members, rpc, alone, sessionVars>>
  BY DEF MainSteps, PopAlerts, InsertTx, InsertBlock, UpdateHead, HandleNewTail, HandleNewConsensusPoint,
         DeleteTx, DeleteBlock, dbVars
<1>2. /\ DOMAIN communities' \subseteq Keys
      /\ \A k \in DOMAIN communities' : communities'[k] \in Row
  <2>1. ASSUME NEW type, UpdateStatus(type), batch # <<>>
        PROVE  /\ DOMAIN communities' = DOMAIN communities
               /\ \A k \in DOMAIN communities : communities'[k] \in Row
    <3>1. Column(type) \in Points /\ Current \in Blocks
      BY <2>1, CurrentTyped DEF Column, Points
    <3>2. \A k \in DOMAIN communities : [communities[k] EXCEPT ![Column(type)] = Current] \in Row
      BY <3>1 DEF TypeInv, TypeOK, Row
    <3>3. QED
      BY <2>1, <3>2 DEF UpdateStatus, TypeInv, TypeOK
  <2>2. UNCHANGED communities \/ (batch # <<>> /\ \E type \in {0, 1, 2} : UpdateStatus(type))
    BY DEF MainSteps, PopAlerts, InsertTx, InsertBlock, UpdateHead, HandleNewTail, HandleNewConsensusPoint,
           DeleteTx, DeleteBlock, dbVars, At
  <2>3. QED
    BY <2>1, <2>2 DEF TypeInv, TypeOK
<1>3. blocks' \subseteq Blocks /\ txs' \subseteq {TxOf[b] : b \in Blocks} \ {NoTx}
  <2>1. CASE InsertTx \/ InsertBlock
    <3>1. Current \in Blocks
      BY <2>1, CurrentTyped DEF InsertTx, InsertBlock, At
    <3>2. QED
      BY <2>1, <3>1 DEF InsertTx, InsertBlock, TypeInv, TypeOK
  <2>2. CASE DeleteTx \/ DeleteBlock
    BY <2>2 DEF DeleteTx, DeleteBlock, TypeInv, TypeOK
  <2>3. CASE UNCHANGED <<blocks, txs>>
    BY <2>3 DEF TypeInv, TypeOK
  <2>4. QED
    BY <2>1, <2>2, <2>3 DEF MainSteps, PopAlerts, UpdateHead, HandleNewTail, HandleNewConsensusPoint, dbVars
<1>4. alerts' \in Seq(Alert) /\ batch' \in Seq(Alert) /\ step' \in 0 .. 2 /\ (step' # 0 => batch' # <<>>)
  <2>1. CASE PopAlerts
    <3>1. step = 0 /\ step' = step /\ alerts' = <<>> /\ batch' = alerts /\ alerts \in Seq(Alert)
      BY <2>1 DEF PopAlerts, Pop, TypeInv, TypeOK, Alert
    <3>2. QED
      BY <3>1
  <2>2. CASE Return /\ batch # <<>>
    <3>1. Tail(batch) \in Seq(Alert)
      BY <2>2, CurrentTyped
    <3>2. QED
      BY <2>2, <3>1 DEF Return, TypeInv, TypeOK, Alert
  <2>3. CASE Continue /\ batch # <<>> /\ step \in {0, 1}
    BY <2>3 DEF Continue, TypeInv, TypeOK, Alert
  <2>4. QED
    BY <2>1, <2>2, <2>3 DEF MainSteps, InsertTx, InsertBlock, UpdateHead, HandleNewTail,
       HandleNewConsensusPoint, DeleteTx, DeleteBlock, At, Handled
<1>5. stale' \subseteq stale
  BY DEF MainSteps, PopAlerts, InsertTx, InsertBlock, UpdateHead, HandleNewTail, HandleNewConsensusPoint,
         DeleteTx, DeleteBlock, Handled
<1>6. QED
  BY <1>1, <1>2, <1>3, <1>4, <1>5 DEF TypeInv, TypeOK, Alert, sessionVars

\* The process ends; the alerts it loses were alerts.
LEMMA CrashKeepsTypes == ASSUME TypeInv, Crash PROVE TypeInv'
<1>1. Pending \in Seq(Alert)
  BY ConcatProperties DEF Pending, TypeInv, TypeOK, Alert
<1>2. \A i \in DOMAIN Pending : Pending[i] \in Alert
  BY <1>1
<1>3. stale' \subseteq UNION {Touches(alert) : alert \in Alert}
  BY <1>2 DEF Crash, TypeInv, TypeOK, Alert
<1>4. alone' \in [Chains -> (Forms \X Chains) \cup {NoKey}]
  BY DEF Crash, TypeInv, TypeOK
<1>5. rpc' \in [Workers -> Inserting \cup Deleting \cup {Idle}] /\ \A w \in Workers : rpc'[w] = Idle
  BY DEF Crash
<1>6. alerts' = <<>> /\ batch' = <<>> /\ step' = 0 /\ UNCHANGED <<dbVars, sessionVars>>
  BY DEF Crash, Forget
<1>7. alerts' \in Seq(Alert) /\ batch' \in Seq(Alert) /\ step' \in 0 .. 2 /\ (step' # 0 => batch' # <<>>)
  BY <1>6
<1>8. QED
  BY <1>3, <1>4, <1>5, <1>6, <1>7 DEF TypeInv, TypeOK, Alert, dbVars, sessionVars

\* The types hold in every reachable state.
LEMMA TypeInvariant == Spec => []TypeInv
<1>1. Init => TypeInv
  BY DEF Init, LoopInit, TypeInv, TypeOK
<1>2. TypeInv /\ [Next]_vars => TypeInv'
  <2> SUFFICES ASSUME TypeInv, [Next]_vars PROVE TypeInv'
    OBVIOUS
  <2>1. CASE UNCHANGED vars
    BY <2>1 DEF vars, dbVars, loopVars, sessionVars, TypeInv, TypeOK
  <2>2. QED
    BY <2>1, RequestsKeepTypes, SessionKeepsTypes, MainKeepsTypes, CrashKeepsTypes DEF Next
<1>3. QED
  BY <1>1, <1>2, PTL DEF Spec

\* Tables, requests, alerts and session keep their types.
THEOREM ChainTypes == Spec => []TypeOK
<1>1. TypeInv => TypeOK
  BY DEF TypeInv
<1>2. QED
  BY <1>1, TypeInvariant, PTL

-------------------------------------------------------------------------------
(* Requests that run alone *)

\* Rows and members are made only under keys that can be stored.
RowsStorable ==
  /\ \A k \in DOMAIN communities : Storable(k)
  /\ \A m \in members : Storable(m[1])
  /\ \A w \in Workers : rpc[w].op = "insert_members" => Storable(rpc[w].key)

OnChain(w, c) == rpc[w] # Idle /\ rpc[w].key[2] = c

\* How far a request that runs alone has come, in the session and in the table.
Progress(w) ==
  /\ rpc[w].op \in {"insert_community", "insert_members"} => rpc[w].key[2] \in followed
  /\ rpc[w].op \in {"delete_community", "delete_members"} => rpc[w].key[2] \notin followed
  /\ rpc[w].op = "insert_members" => rpc[w].key \in DOMAIN communities
  /\ rpc[w].op = "delete_members" => rpc[w].key \notin DOMAIN communities

\* The session and the tables agree on the chain, under this key.
Agree(c, key) ==
  /\ key \in DOMAIN communities <=> c \in followed /\ Storable(key)
  /\ \A m \in members : m[1] = key => key \in DOMAIN communities

\* If the last request about the chain runs alone, it is the only one and is on
\* its way; if it ran alone, it has left session and tables in agreement.
Lone(c) ==
  alone[c] # NoKey =>
    /\ alone[c][2] = c
    /\ \A w \in Workers : OnChain(w, c) => rpc[w].key = alone[c] /\ Progress(w)
    /\ \A w, v \in Workers : OnChain(w, c) /\ OnChain(v, c) => w = v
    /\ ~ Busy(c) => Agree(c, alone[c])

RequestInv == TypeInv /\ RowsStorable /\ \A c \in Chains : Lone(c)

\* A worker is at one chain or idle.
LEMMA WorkerAt ==
  ASSUME TypeInv, NEW w \in Workers
  PROVE  /\ rpc[w].op \in Ops <=> rpc[w] # Idle
         /\ rpc[w] # Idle => rpc[w].key \in Forms \X Chains /\ OnChain(w, rpc[w].key[2])
         /\ \A c \in Chains : Busy(c) <=> \E v \in Workers : OnChain(v, c)
BY RequestKinds DEF OnChain, Busy

\* The statements of a request keep to what can be stored.
LEMMA StorableKept ==
  ASSUME TypeInv, RowsStorable, NEW w \in Workers, Requests(w) \/ RequestSteps(w) PROVE RowsStorable'
<1>1. Idle.op # "insert_members"
  BY DEF Idle
<1>2. \A key : Storable(key)' <=> Storable(key)
  BY DEF Storable, Quotable
<1>3. CASE Requests(w)
  <2>1. UNCHANGED <<communities, members>> /\ rpc'[w].op # "insert_members"
        /\ \A v \in Workers : v # w => rpc'[v] = rpc[v]
    BY <1>3 DEF Requests, FollowChain, UnfollowChain, Start, dbVars, TypeInv
  <2>2. QED
    BY <1>2, <2>1 DEF RowsStorable
<1>4. CASE InsertCommunity(w)
  <2>1. rpc[w] \in Inserting
    BY <1>4, RequestKinds DEF InsertCommunity
  <2>2. CASE rpc[w].key \in DOMAIN communities \/ ~ Storable(rpc[w].key)
    BY <1>1, <1>2, <1>4, <2>2 DEF InsertCommunity, RowsStorable, TypeInv
  <2>3. CASE rpc[w].key \notin DOMAIN communities /\ Storable(rpc[w].key)
    <3>1. /\ \A k \in DOMAIN communities' : k \in DOMAIN communities \/ k = rpc[w].key
          /\ members' = members /\ \A v \in Workers : v # w => rpc'[v] = rpc[v]
      BY <1>4, <2>3 DEF InsertCommunity, TypeInv
    <3>2. rpc'[w] = Idle \/ rpc'[w] = [rpc[w] EXCEPT !.op = "insert_members"]
      BY <1>4, <2>3 DEF InsertCommunity, TypeInv
    <3>3. rpc'[w].op = "insert_members" => rpc'[w].key = rpc[w].key
      BY <1>1, <2>1, <3>2 DEF Inserting
    <3>4. QED
      BY <1>2, <2>3, <3>1, <3>3 DEF RowsStorable
  <2>4. QED
    BY <2>2, <2>3
<1>5. ASSUME NEW p \in Peers, InsertMember(w, p) PROVE RowsStorable'
  <2>1. rpc[w] \in Inserting /\ rpc[w].op = "insert_members"
    BY <1>5, RequestKinds DEF InsertMember
  <2>2. /\ communities' = communities /\ members' = members \cup {<<rpc[w].key, p>>}
        /\ \A v \in Workers : v # w => rpc'[v] = rpc[v]
    BY <1>5 DEF InsertMember, TypeInv
  <2>3. rpc'[w] = Idle \/ rpc'[w] = [rpc[w] EXCEPT !.peers = @ \ {p}]
    BY <1>5 DEF InsertMember, TypeInv
  <2>4. rpc'[w].op = "insert_members" => rpc'[w].key = rpc[w].key
    BY <1>1, <2>1, <2>3 DEF Inserting
  <2>5. QED
    BY <1>2, <2>1, <2>2, <2>4 DEF RowsStorable
<1>6. CASE DeleteCommunity(w)
  <2>1. rpc[w] \in Deleting
    BY <1>6, RequestKinds DEF DeleteCommunity
  <2>2. rpc'[w] = Idle \/ rpc'[w] = [rpc[w] EXCEPT !.op = "delete_members"]
    BY <1>6 DEF DeleteCommunity, TypeInv
  <2>3. rpc'[w].op # "insert_members"
    BY <1>1, <2>1, <2>2 DEF Deleting
  <2>4. /\ DOMAIN communities' \subseteq DOMAIN communities
        /\ members' = members /\ \A v \in Workers : v # w => rpc'[v] = rpc[v]
    BY <1>6 DEF DeleteCommunity, TypeInv
  <2>5. QED
    BY <1>2, <2>3, <2>4 DEF RowsStorable
<1>7. CASE DeleteMembers(w)
  <2>1. /\ communities' = communities /\ members' \subseteq members /\ rpc'[w] = Idle
        /\ \A v \in Workers : v # w => rpc'[v] = rpc[v]
    BY <1>7 DEF DeleteMembers, TypeInv
  <2>2. QED
    BY <1>1, <1>2, <2>1 DEF RowsStorable
<1>8. QED
  BY <1>3, <1>4, <1>5, <1>6, <1>7 DEF RequestSteps

\* What happens to other chains does not concern this one.
LEMMA LoneElsewhere ==
  ASSUME NEW c \in Chains, Lone(c), TypeInv, TypeInv', alone'[c] = alone[c],
         c \in followed' <=> c \in followed,
         \A v \in Workers : OnChain(v, c)' \/ OnChain(v, c) => rpc'[v] = rpc[v],
         \A k \in Keys : k[2] = c => (k \in DOMAIN communities' <=> k \in DOMAIN communities),
         \A m \in members' : m[1][2] = c => m \in members
  PROVE  Lone(c)'
<1> SUFFICES ASSUME alone[c] # NoKey PROVE Lone(c)'
  BY DEF Lone, NoKey
<1>1. \A v \in Workers : (OnChain(v, c)' <=> OnChain(v, c)) /\ (OnChain(v, c) => rpc'[v] = rpc[v])
  BY DEF OnChain, Idle
<1>2. alone[c] \in Keys /\ alone[c][2] = c
  BY ChainStoreAssumption DEF Lone, TypeInv, TypeOK, Keys
<1>3. Busy(c)' <=> Busy(c)
  <2>1. (Busy(c) <=> \E v \in Workers : OnChain(v, c)) /\ (Busy(c)' <=> \E v \in Workers : OnChain(v, c)')
    BY DEF Busy, OnChain, Idle
  <2>2. QED
    BY <1>1, <2>1
<1>4. ASSUME NEW v \in Workers, OnChain(v, c)' PROVE rpc'[v].key = alone'[c] /\ Progress(v)'
  <2>1. rpc'[v] = rpc[v] /\ OnChain(v, c) /\ rpc[v].key = alone[c] /\ Progress(v)
    BY <1>1, <1>4 DEF Lone
  <2>2. QED
    BY <1>2, <2>1 DEF Progress
<1>5. \A w, v \in Workers : OnChain(w, c)' /\ OnChain(v, c)' => w = v
  BY <1>1 DEF Lone
<1>6. ASSUME ~ Busy(c) PROVE Agree(c, alone[c])'
  <2>1. Agree(c, alone[c])
    BY <1>6 DEF Lone
  <2>2. alone'[c] \in DOMAIN communities' <=> alone[c] \in DOMAIN communities
    BY <1>2
  <2>3. \A m \in members' : m[1] = alone[c] => m \in members
    BY <1>2
  <2>4. QED
    BY <2>1, <2>2, <2>3 DEF Agree, Storable, Quotable
<1>7. QED
  BY <1>2, <1>3, <1>4, <1>5, <1>6 DEF Lone

\* A request begins.
LEMMA StartKeeps ==
  ASSUME RequestInv, TypeInv', NEW w \in Workers, Requests(w), NEW c \in Chains PROVE Lone(c)'
<1>1. PICK d \in Chains, form \in Forms :
        /\ rpc[w] = Idle /\ UNCHANGED <<communities, members>>
        /\ \/ /\ followed' = followed \cup {d}
              /\ rpc'[w].op = "insert_community"
           \/ /\ followed' = followed \ {d}
              /\ rpc'[w].op = "delete_community"
        /\ rpc'[w].key = <<form, d>> /\ \A v \in Workers : v # w => rpc'[v] = rpc[v]
        /\ alone' = [alone EXCEPT ![d] = IF Busy(d) THEN NoKey ELSE <<form, d>>]
  BY DEF Requests, FollowChain, UnfollowChain, Start, dbVars, RequestInv, TypeInv
<1>2. rpc'[w] # Idle
  BY <1>1 DEF Idle
<1>3. CASE c # d
  <2>1. \A v \in Workers : OnChain(v, c)' \/ OnChain(v, c) => rpc'[v] = rpc[v]
    BY <1>1, <1>3 DEF OnChain
  <2>2. alone'[c] = alone[c]
    BY <1>1, <1>3 DEF RequestInv, TypeInv, TypeOK
  <2>3. QED
    BY <1>1, <1>3, <2>1, <2>2, LoneElsewhere DEF RequestInv
<1>4. CASE c = d /\ Busy(d)
  <2>1. alone'[c] = NoKey
    BY <1>1, <1>4 DEF RequestInv, TypeInv, TypeOK
  <2>2. QED
    BY <2>1 DEF Lone, NoKey
<1>5. CASE c = d /\ ~ Busy(d)
  <2>1. alone'[c] = <<form, c>>
    BY <1>1, <1>5 DEF RequestInv, TypeInv, TypeOK
  <2>2. \A v \in Workers : OnChain(v, c)' <=> v = w
    BY <1>1, <1>2, <1>5 DEF OnChain, Busy, Idle
  <2>3. Busy(c)'
    BY <1>1, <1>2, <1>5 DEF Busy, Idle
  <2>4. Progress(w)'
    BY <1>1, <1>5 DEF Progress
  <2>5. QED
    BY <1>1, <1>5, <2>1, <2>2, <2>3, <2>4 DEF Lone
<1>6. QED
  BY <1>3, <1>4, <1>5

\* The only request about its chain takes a step and goes on, or ends and leaves
\* agreement.
LEMMA LoneMoves ==
  ASSUME TypeInv, NEW c \in Chains, Lone(c), NEW w \in Workers, OnChain(w, c), alone' = alone,
         \A v \in Workers : v # w => rpc'[v] = rpc[v],
         alone[c] # NoKey =>
           \/ rpc'[w] = Idle /\ Agree(c, alone[c])'
           \/ rpc'[w] # Idle /\ rpc'[w].key = rpc[w].key /\ Progress(w)'
  PROVE  Lone(c)'
<1> SUFFICES ASSUME alone[c] # NoKey PROVE Lone(c)'
  BY DEF Lone, NoKey
<1>1. /\ alone[c][2] = c /\ rpc[w].key = alone[c]
      /\ \A v \in Workers : v # w => ~ OnChain(v, c)
  BY DEF Lone
<1>2. \A v \in Workers : v # w => ~ OnChain(v, c)'
  BY <1>1 DEF OnChain, Idle
<1>3. CASE rpc'[w] = Idle /\ Agree(c, alone[c])'
  <2>1. \A v \in Workers : ~ OnChain(v, c)'
    BY <1>2, <1>3 DEF OnChain, Idle
  <2>2. QED
    BY <1>1, <1>3, <2>1 DEF Lone
<1>4. CASE rpc'[w] # Idle /\ rpc'[w].key = rpc[w].key /\ Progress(w)'
  <2>1. OnChain(w, c)'
    BY <1>1, <1>4 DEF OnChain, Idle
  <2>2. Busy(c)'
    BY <2>1 DEF OnChain, Busy, Idle
  <2>3. QED
    BY <1>1, <1>2, <1>4, <2>2 DEF Lone
<1>5. QED
  BY <1>3, <1>4

\* A statement of a request.
LEMMA StatementKeeps ==
  ASSUME RequestInv, TypeInv', RowsStorable', NEW w \in Workers, RequestSteps(w), NEW c \in Chains
  PROVE  Lone(c)'
<1>1. UNCHANGED <<alone, followed>> /\ \A v \in Workers : v # w => rpc'[v] = rpc[v]
  BY DEF RequestSteps, InsertCommunity, InsertMember, DeleteCommunity, DeleteMembers, sessionVars, RequestInv, TypeInv
<1>2. rpc[w].op \in Ops /\ rpc[w] # Idle
  BY DEF RequestSteps, InsertCommunity, InsertMember, DeleteCommunity, DeleteMembers, Ops, Idle
<1>3. \A key : Storable(key)' <=> Storable(key)
  BY DEF Storable, Quotable
<1>4. Lone(c) /\ TypeInv
  BY DEF RequestInv
<1>5. CASE ~ OnChain(w, c)
  <2>1. rpc[w].key[2] # c
    BY <1>2, <1>5 DEF OnChain
  <2>2. rpc'[w] = Idle \/ rpc'[w].key = rpc[w].key
    <3>1. CASE InsertCommunity(w)
      BY <1>4, <3>1, RequestKinds DEF InsertCommunity, TypeInv, Inserting
    <3>2. ASSUME NEW p \in Peers, InsertMember(w, p) PROVE rpc'[w] = Idle \/ rpc'[w].key = rpc[w].key
      BY <1>4, <3>2, RequestKinds DEF InsertMember, TypeInv, Inserting
    <3>3. CASE DeleteCommunity(w)
      BY <1>4, <3>3, RequestKinds DEF DeleteCommunity, TypeInv, Deleting
    <3>4. CASE DeleteMembers(w)
      BY <1>4, <3>4 DEF DeleteMembers, TypeInv
    <3>5. QED
      BY <3>1, <3>2, <3>3, <3>4 DEF RequestSteps
  <2>3. \A v \in Workers : OnChain(v, c)' \/ OnChain(v, c) => rpc'[v] = rpc[v]
    BY <1>1, <1>5, <2>1, <2>2 DEF OnChain, Idle
  <2>4. \A k \in Keys : k[2] = c => (k \in DOMAIN communities' <=> k \in DOMAIN communities)
    BY <2>1 DEF RequestSteps, InsertCommunity, InsertMember, DeleteCommunity, DeleteMembers
  <2>5. \A m \in members' : m[1][2] = c => m \in members
    BY <2>1 DEF RequestSteps, InsertCommunity, InsertMember, DeleteCommunity, DeleteMembers
  <2>6. QED
    BY <1>1, <1>4, <2>3, <2>4, <2>5, LoneElsewhere
<1>6. CASE OnChain(w, c)
  <2> SUFFICES ASSUME alone[c] # NoKey
               PROVE  \/ rpc'[w] = Idle /\ Agree(c, alone[c])'
                      \/ rpc'[w] # Idle /\ rpc'[w].key = rpc[w].key /\ Progress(w)'
    BY <1>1, <1>4, <1>6, LoneMoves
  <2>1. rpc[w].key = alone[c] /\ rpc[w].key[2] = c /\ Progress(w)
    BY <1>4, <1>6 DEF Lone, OnChain
  <2> SUFFICES ASSUME NEW key, key = rpc[w].key
               PROVE  \/ rpc'[w] = Idle /\ Agree(c, key)'
                      \/ rpc'[w] # Idle /\ rpc'[w].key = key /\ Progress(w)'
    BY <1>1, <2>1
  <2>2. CASE InsertCommunity(w)
    <3>1. rpc[w] \in Inserting /\ c \in followed
      BY <1>4, <2>1, <2>2, RequestKinds DEF InsertCommunity, Progress
    <3>2. Storable(key) => key \in DOMAIN communities'
      BY <2>2 DEF InsertCommunity
    <3>3. CASE rpc'[w] = Idle
      BY <1>1, <1>3, <3>1, <3>2, <3>3 DEF Agree, RowsStorable
    <3>4. CASE rpc'[w] = [rpc[w] EXCEPT !.op = "insert_members"] /\ Storable(key)
      <4>1. rpc'[w].op = "insert_members" /\ rpc'[w].key = key
        BY <3>1, <3>4 DEF Inserting
      <4>2. rpc'[w] # Idle
        BY <4>1 DEF Idle
      <4>3. Progress(w)'
        BY <1>1, <2>1, <3>1, <3>2, <3>4, <4>1 DEF Progress
      <4>4. QED
        BY <4>1, <4>2, <4>3
    <3>5. QED
      BY <1>4, <2>2, <3>3, <3>4 DEF InsertCommunity, TypeInv
  <2>3. ASSUME NEW p \in Peers, InsertMember(w, p)
        PROVE  \/ rpc'[w] = Idle /\ Agree(c, key)'
               \/ rpc'[w] # Idle /\ rpc'[w].key = key /\ Progress(w)'
    <3>1. rpc[w] \in Inserting /\ rpc[w].op = "insert_members" /\ c \in followed /\ key \in DOMAIN communities'
      BY <1>4, <2>1, <2>3, RequestKinds DEF InsertMember, Progress
    <3>2. CASE rpc'[w] = Idle
      BY <1>1, <1>3, <3>1, <3>2 DEF Agree, RowsStorable
    <3>3. CASE rpc'[w] = [rpc[w] EXCEPT !.peers = @ \ {p}]
      <4>1. rpc'[w].op = "insert_members" /\ rpc'[w].key = key
        BY <3>1, <3>3 DEF Inserting
      <4>2. rpc'[w] # Idle
        BY <4>1 DEF Idle
      <4>3. Progress(w)'
        BY <1>1, <2>1, <3>1, <4>1 DEF Progress
      <4>4. QED
        BY <4>1, <4>2, <4>3
    <3>4. QED
      BY <1>4, <2>3, <3>2, <3>3 DEF InsertMember, TypeInv
  <2>4. CASE DeleteCommunity(w)
    <3>1. rpc[w] \in Deleting /\ c \notin followed
      BY <1>4, <2>1, <2>4, RequestKinds DEF DeleteCommunity, Progress
    <3>2. CASE rpc'[w] = Idle /\ ~ Quotable(key)
      <4>1. ~ Storable(key)
        BY <3>2 DEF Storable
      <4>2. QED
        BY <1>1, <1>3, <3>1, <3>2, <4>1 DEF Agree, RowsStorable
    <3>3. CASE rpc'[w] = [rpc[w] EXCEPT !.op = "delete_members"] /\ DOMAIN communities' = DOMAIN communities \ {key}
      <4>1. rpc'[w].op = "delete_members" /\ rpc'[w].key = key
        BY <3>1, <3>3 DEF Deleting
      <4>2. rpc'[w] # Idle
        BY <4>1 DEF Idle
      <4>3. Progress(w)'
        BY <1>1, <2>1, <3>1, <3>3, <4>1 DEF Progress
      <4>4. QED
        BY <4>1, <4>2, <4>3
    <3>4. QED
      BY <1>4, <2>4, <3>2, <3>3 DEF DeleteCommunity, TypeInv
  <2>5. CASE DeleteMembers(w)
    <3>1. c \notin followed /\ key \notin DOMAIN communities' /\ rpc'[w] = Idle
      BY <1>4, <2>1, <2>5 DEF DeleteMembers, Progress, TypeInv
    <3>2. \A m \in members' : m[1] # key
      BY <2>5 DEF DeleteMembers
    <3>3. QED
      BY <1>1, <3>1, <3>2 DEF Agree
  <2>6. QED
    BY <2>2, <2>3, <2>4, <2>5 DEF RequestSteps
<1>7. QED
  BY <1>5, <1>6

\* A crash cuts requests off; a chain that no request was about stays as it was.
LEMMA CrashSettles == ASSUME RequestInv, TypeInv', Crash PROVE RequestInv'
<1>1. UNCHANGED <<communities, members, followed>> /\ \A w \in Workers : rpc'[w] = Idle
  BY DEF Crash, dbVars, sessionVars
<1>2. RowsStorable'
  BY <1>1 DEF RowsStorable, RequestInv, Storable, Quotable, Idle
<1>3. ASSUME NEW c \in Chains PROVE Lone(c)'
  <2>1. alone'[c] = IF Busy(c) THEN NoKey ELSE alone[c]
    BY DEF Crash
  <2>2. CASE Busy(c)
    BY <2>1, <2>2 DEF Lone, NoKey
  <2>3. CASE ~ Busy(c)
    <3>1. \A v \in Workers : ~ OnChain(v, c)' /\ ~ OnChain(v, c)
      BY <1>1, <2>3 DEF OnChain, Busy, Idle
    <3>2. QED
      BY <1>1, <2>1, <2>3, <3>1, LoneElsewhere DEF RequestInv
  <2>4. QED
    BY <2>2, <2>3
<1>4. QED
  BY <1>2, <1>3 DEF RequestInv

\* The session and main leave requests, memberships and the set of rows alone.
LEMMA RowsStay ==
  ASSUME SessionSteps \/ MainSteps \/ UNCHANGED vars
  PROVE  UNCHANGED <<rpc, alone, members, followed>> /\ DOMAIN communities' = DOMAIN communities
<1>1. UNCHANGED <<rpc, alone, members, followed>>
  BY DEF SessionSteps, SessionNewHead, SessionRollback, SessionPoint, MainSteps, PopAlerts, InsertTx,
         InsertBlock, UpdateHead, HandleNewTail, HandleNewConsensusPoint, DeleteTx, DeleteBlock,
         vars, dbVars, sessionVars
<1>2. DOMAIN communities' = DOMAIN communities
  BY DEF SessionSteps, SessionNewHead, SessionRollback, SessionPoint, MainSteps, PopAlerts, InsertTx,
         InsertBlock, UpdateHead, HandleNewTail, HandleNewConsensusPoint, DeleteTx, DeleteBlock,
         vars, dbVars, UpdateStatus
<1>3. QED
  BY <1>1, <1>2

\* Every step keeps RequestInv.
LEMMA RequestInvKept ==
  ASSUME RequestInv, TypeInv', [Next]_vars PROVE RequestInv'
<1>1. CASE SessionSteps \/ MainSteps \/ UNCHANGED vars
  <2>1. UNCHANGED <<rpc, alone, members, followed>> /\ DOMAIN communities' = DOMAIN communities
    BY <1>1, RowsStay
  <2>2. RowsStorable'
    BY <2>1 DEF RowsStorable, RequestInv, Storable, Quotable
  <2>3. \A c \in Chains : Lone(c)'
    BY <2>1, LoneElsewhere DEF RequestInv
  <2>4. QED
    BY <2>2, <2>3 DEF RequestInv
<1>2. ASSUME NEW w \in Workers, Requests(w) \/ RequestSteps(w) PROVE RequestInv'
  <2>1. RowsStorable'
    BY <1>2, StorableKept DEF RequestInv
  <2>2. \A c \in Chains : Lone(c)'
    BY <1>2, <2>1, StartKeeps, StatementKeeps
  <2>3. QED
    BY <2>1, <2>2 DEF RequestInv
<1>3. QED
  BY <1>1, <1>2, CrashSettles DEF Next

\* The requests start with no rows.
LEMMA RequestInvInit == ASSUME Init, TypeInv PROVE RequestInv
<1>1. Idle.op # "insert_members"
  BY DEF Idle
<1>2. RowsStorable
  BY <1>1 DEF Init, RowsStorable
<1>3. \A c \in Chains : alone[c] = NoKey
  BY DEF Init
<1>4. QED
  BY <1>2, <1>3 DEF RequestInv, Lone

\* RequestInv holds in every reachable state.
LEMMA RequestInvariant == Spec => []RequestInv
<1>1. Init /\ TypeInv => RequestInv
  BY RequestInvInit
<1>2. RequestInv /\ TypeInv' /\ [Next]_vars => RequestInv'
  BY RequestInvKept
<1>3. QED
  BY <1>1, <1>2, TypeInvariant, PTL DEF Spec

\* With either schema, any overlap of requests, both forms of the id and a crash
\* between any two statements: a request that runs alone to its end leaves a row
\* under its key exactly if the session follows the chain and a row can be stored.
\* With the schema as shipped no row can, so then there is none.
THEOREM RowsFollowSession == Spec => []LoneRequestSettlesRow
<1>1. RequestInv => LoneRequestSettlesRow
  BY DEF RequestInv, Lone, LoneRequestSettlesRow, Settled, Agree
<1>2. QED
  BY <1>1, RequestInvariant, PTL

\* Under the same conditions it leaves no members without a community.
THEOREM NoOrphanMembers == Spec => []LoneRequestSettlesMembers
<1>1. RequestInv => LoneRequestSettlesMembers
  BY DEF RequestInv, Lone, LoneRequestSettlesMembers, Settled, Agree
<1>2. QED
  BY <1>1, RequestInvariant, PTL

-------------------------------------------------------------------------------
(* The head of a community *)

\* Alert i of those that wait is a new head of c.
HeadAt(i, c) == Pending[i][1] = "head" /\ ChainOf[Pending[i][2]] = c

HeadLost(c) == <<"head", c>> \in stale

\* The last head that waits is the one the session announced last; without one,
\* the row has it, or nothing, unless a crash lost it.
LatestHead(c) ==
  \/ \E i \in 1 .. Len(Pending) :
       /\ HeadAt(i, c)
       /\ Pending[i][2] = announced["head"][c]
       /\ \A j \in 1 .. Len(Pending) : j > i => ~ HeadAt(j, c)
  \/ /\ \A i \in 1 .. Len(Pending) : ~ HeadAt(i, c)
     /\ HeadLost(c) \/ ChainState(c, "head") \in {NoBlock, announced["head"][c]}

HeadInv == \A c \in Chains : LatestHead(c)

\* Alerts and announcement stay, and the row is kept, emptied, inserted or gone.
LEMMA HeadStays ==
  ASSUME NEW c \in Chains, LatestHead(c), Pending' = Pending, UNCHANGED announced,
         ChainState(c, "head")' \in {NoBlock, ChainState(c, "head")}, UNCHANGED stale
  PROVE  LatestHead(c)'
BY DEF LatestHead, HeadAt, HeadLost

\* A head that the session announces is the latest of its chain.
LEMMA HeadPosted ==
  ASSUME TypeInv, NEW c \in Chains, LatestHead(c), NEW kind, NEW b, Post(kind, b),
         UNCHANGED <<communities, stale>>,
         announced'["head"][c] = IF kind = "head" /\ ChainOf[b] = c THEN b ELSE announced["head"][c]
  PROVE  LatestHead(c)'
<1> SUFFICES ASSUME NEW n, n = Len(Pending) PROVE LatestHead(c)'
  OBVIOUS
<1>1. /\ Len(Pending') = n + 1 /\ n \in Nat
      /\ \A i \in 1 .. n : Pending'[i] = Pending[i]
      /\ Pending'[n + 1] = <<kind, b>>
  BY PendingPost, PendingFirst DEF TypeInv, TypeOK
<1>2. \A i \in 1 .. n : HeadAt(i, c)' <=> HeadAt(i, c)
  BY <1>1 DEF HeadAt
<1>3. HeadAt(n + 1, c)' <=> kind = "head" /\ ChainOf[b] = c
  BY <1>1 DEF HeadAt
<1>4. ChainState(c, "head")' = ChainState(c, "head")
  BY DEF ChainState
<1>5. CASE kind = "head" /\ ChainOf[b] = c
  <2>1. n + 1 \in 1 .. Len(Pending') /\ \A j \in 1 .. Len(Pending') : ~ (j > n + 1)
    BY <1>1
  <2>2. Pending'[n + 1][2] = announced'["head"][c]
    BY <1>1, <1>5
  <2>3. QED
    BY <1>3, <1>5, <2>1, <2>2 DEF LatestHead
<1>6. CASE ~ (kind = "head" /\ ChainOf[b] = c)
  <2>1. /\ 1 .. Len(Pending') = (1 .. n) \cup {n + 1} /\ 1 .. Len(Pending) = 1 .. n
        /\ ~ HeadAt(n + 1, c)'
    BY <1>1, <1>3, <1>6
  <2>2. CASE \E i \in 1 .. Len(Pending) : HeadAt(i, c)
    <3>1. PICK i \in 1 .. n : /\ HeadAt(i, c) /\ Pending[i][2] = announced["head"][c]
                              /\ \A j \in 1 .. n : j > i => ~ HeadAt(j, c)
      BY <2>1, <2>2 DEF LatestHead
    <3>2. /\ HeadAt(i, c)' /\ Pending'[i][2] = announced'["head"][c] /\ i \in 1 .. Len(Pending')
          /\ \A j \in 1 .. Len(Pending') : j > i => ~ HeadAt(j, c)'
      BY <1>1, <1>2, <1>6, <2>1, <3>1
    <3>3. QED
      BY <3>2 DEF LatestHead
  <2>3. CASE ~ \E i \in 1 .. Len(Pending) : HeadAt(i, c)
    BY <1>2, <1>4, <1>6, <2>1, <2>3 DEF LatestHead, HeadLost
  <2>4. QED
    BY <2>2, <2>3
<1>7. QED
  BY <1>5, <1>6

\* A handler that returns: if its alert was a head of c, the row has it.
LEMMA HeadHandled ==
  ASSUME TypeInv, NEW c \in Chains, LatestHead(c), batch # <<>>, Handled, UNCHANGED announced,
         ChainState(c, "head")' \in
           IF Head(batch)[1] = "head" /\ ChainOf[Current] = c THEN {NoBlock, Current} ELSE {ChainState(c, "head")}
  PROVE  LatestHead(c)'
<1>1. /\ Len(Pending) \in Nat /\ Len(Pending) >= 1 /\ Pending[1] = Head(batch)
      /\ Len(Pending') = Len(Pending) - 1
      /\ \A i \in 1 .. Len(Pending') : Pending'[i] = Pending[i + 1]
  BY PendingReturn, PendingFirst DEF Handled, TypeInv, TypeOK
<1>2. \A i \in 1 .. Len(Pending') : HeadAt(i, c)' <=> HeadAt(i + 1, c)
  BY <1>1 DEF HeadAt
<1>3. CASE \E i \in 2 .. Len(Pending) : HeadAt(i, c)
  <2>1. PICK i \in 1 .. Len(Pending) : /\ HeadAt(i, c) /\ Pending[i][2] = announced["head"][c]
                                       /\ \A j \in 1 .. Len(Pending) : j > i => ~ HeadAt(j, c)
    BY <1>1, <1>3 DEF LatestHead
  <2>2. i - 1 \in 1 .. Len(Pending')
    BY <1>1, <1>3, <2>1
  <2>3. i - 1 + 1 = i /\ \A j \in 1 .. Len(Pending') : j > i - 1 => j + 1 > i /\ j + 1 \in 1 .. Len(Pending)
    BY <1>1
  <2>4. HeadAt(i - 1, c)' /\ Pending'[i - 1][2] = announced'["head"][c]
    BY <1>1, <1>2, <2>1, <2>2, <2>3
  <2>5. \A j \in 1 .. Len(Pending') : j > i - 1 => ~ HeadAt(j, c)'
    BY <1>2, <2>1, <2>3
  <2>6. QED
    BY <2>2, <2>4, <2>5 DEF LatestHead
<1>4. CASE ~ \E i \in 2 .. Len(Pending) : HeadAt(i, c)
  <2>1. \A i \in 1 .. Len(Pending') : ~ HeadAt(i, c)'
    <3>1. \A i \in 1 .. Len(Pending') : i + 1 \in 2 .. Len(Pending)
      BY <1>1
    <3>2. QED
      BY <1>2, <1>4, <3>1
  <2>2. HeadAt(1, c) <=> Head(batch)[1] = "head" /\ ChainOf[Current] = c
    BY <1>1 DEF HeadAt, Current
  <2>3. HeadAt(1, c) => Current = announced["head"][c]
    <3>1. ASSUME HeadAt(1, c) PROVE Pending[1][2] = announced["head"][c]
      <4>1. PICK i \in 1 .. Len(Pending) : HeadAt(i, c) /\ Pending[i][2] = announced["head"][c]
        BY <1>1, <3>1 DEF LatestHead
      <4>2. i = 1
        BY <1>1, <1>4, <4>1
      <4>3. QED
        BY <4>1, <4>2
    <3>2. QED
      BY <1>1, <3>1 DEF Current
  <2>4. ~ HeadAt(1, c) => \A i \in 1 .. Len(Pending) : ~ HeadAt(i, c)
    BY <1>1, <1>4
  <2>5. HeadLost(c) => HeadLost(c)' \/ HeadAt(1, c)
    BY <2>2 DEF HeadLost, Handled, Touches, Current
  <2>6. HeadLost(c)' \/ ChainState(c, "head")' \in {NoBlock, announced["head"][c]}
    BY <2>2, <2>3, <2>4, <2>5 DEF LatestHead
  <2>7. QED
    BY <2>1, <2>6 DEF LatestHead
<1>5. QED
  BY <1>3, <1>4

\* What an UPDATE of a point does to the heads.
LEMMA StatusUpdated ==
  ASSUME TypeInv, batch # <<>>, NEW type \in {0, 1, 2}, UpdateStatus(type), NEW c \in Chains
  PROVE  ChainState(c, "head")' \in IF type = 0 /\ ChainOf[Current] = c THEN {NoBlock, Current}
                                    ELSE {ChainState(c, "head")}
<1> DEFINE key == <<"str", ChainOf[Current]>>
<1>1. /\ DOMAIN communities' = DOMAIN communities
      /\ \A k \in DOMAIN communities :
           communities'[k] = IF k = key THEN [communities[k] EXCEPT ![Column(type)] = Current] ELSE communities[k]
  BY DEF UpdateStatus
<1>2. \A k \in DOMAIN communities : communities[k] \in [Points -> Blocks \cup {NoBlock}]
  BY DEF TypeInv, TypeOK, Row
<1>3. "head" \in Points /\ (Column(type) = "head" <=> type = 0)
  BY DEF Points, Column
<1>4. \A k \in DOMAIN communities :
        communities'[k]["head"] = IF k = key /\ type = 0 THEN Current ELSE communities[k]["head"]
  BY <1>1, <1>2, <1>3
<1>5. <<"str", c>> = key <=> ChainOf[Current] = c
  OBVIOUS
<1> HIDE DEF key
<1>6. QED
  BY <1>1, <1>4, <1>5 DEF ChainState

\* Every step keeps HeadInv.
LEMMA HeadKept == ASSUME TypeInv, HeadInv, [Next]_vars PROVE HeadInv'
<1>1. CASE UNCHANGED <<communities, batch, alerts, announced, stale>>
  <2>1. Pending' = Pending /\ \A c \in Chains : ChainState(c, "head")' = ChainState(c, "head")
    BY <1>1 DEF ChainState, Pending
  <2>2. QED
    BY <1>1, <2>1, HeadStays DEF HeadInv
<1>2. ASSUME NEW w \in Workers, InsertCommunity(w) \/ DeleteCommunity(w) PROVE HeadInv'
  <2>1. Pending' = Pending /\ UNCHANGED <<announced, stale>>
    BY <1>2 DEF InsertCommunity, DeleteCommunity, loopVars, sessionVars, Pending
  <2>2. \A k \in DOMAIN communities' :
          communities'[k] = EmptyRow \/ (k \in DOMAIN communities /\ communities'[k] = communities[k])
    BY <1>2 DEF InsertCommunity, DeleteCommunity
  <2>3. EmptyRow["head"] = NoBlock
    BY DEF EmptyRow
  <2>4. \A c \in Chains : ChainState(c, "head")' \in {NoBlock, ChainState(c, "head")}
    BY <2>2, <2>3 DEF ChainState
  <2>5. QED
    BY <2>1, <2>4, HeadStays DEF HeadInv
<1>3. ASSUME NEW b \in Blocks, SessionNewHead(b) PROVE HeadInv'
  <2>1. Post("head", b) /\ UNCHANGED <<communities, stale>>
    BY <1>3 DEF SessionNewHead, dbVars
  <2>2. \A c \in Chains : announced'["head"][c] = IF ChainOf[b] = c THEN b ELSE announced["head"][c]
    BY <1>3 DEF SessionNewHead, TypeInv, TypeOK, Points
  <2>3. QED
    BY <2>1, <2>2, HeadPosted DEF HeadInv
<1>4. ASSUME NEW c \in Chains, SessionRollback(c) PROVE HeadInv'
  <2>1. PICK b : Post("rollback", b) /\ UNCHANGED <<communities, announced, stale>>
    BY <1>4 DEF SessionRollback, dbVars
  <2>2. ASSUME NEW d \in Chains PROVE LatestHead(d)'
    BY <2>1, HeadPosted DEF HeadInv
  <2>3. QED
    BY <2>2 DEF HeadInv
<1>5. ASSUME NEW b \in Blocks, NEW point \in {"tail", "consensus"}, SessionPoint(point, b) PROVE HeadInv'
  <2>1. Post(point, b) /\ UNCHANGED <<communities, stale>>
    BY <1>5 DEF SessionPoint, dbVars
  <2>2. \A c \in Chains : announced'["head"][c] = announced["head"][c]
    BY <1>5 DEF SessionPoint, TypeInv, TypeOK, Points
  <2>3. QED
    BY <2>1, <2>2, HeadPosted DEF HeadInv
<1>6. CASE PopAlerts
  <2>1. Pending' = Pending /\ UNCHANGED <<communities, announced, stale>>
    BY <1>6, PendingPop DEF PopAlerts, TypeInv, TypeOK, dbVars, sessionVars
  <2>2. QED
    <3>1. \A c \in Chains : ChainState(c, "head")' = ChainState(c, "head")
      BY <2>1 DEF ChainState
    <3>2. QED
      BY <2>1, <3>1, HeadStays DEF HeadInv
<1>7. CASE UpdateHead \/ HandleNewTail \/ HandleNewConsensusPoint
  <2>1. PICK type \in {0, 1, 2} :
          UpdateStatus(type) /\ batch # <<>> /\ Handled /\ (type = 0 <=> Head(batch)[1] = "head")
    BY <1>7 DEF UpdateHead, HandleNewTail, HandleNewConsensusPoint, At
  <2>2. UNCHANGED announced
    BY <1>7 DEF UpdateHead, HandleNewTail, HandleNewConsensusPoint, sessionVars
  <2>3. ASSUME NEW c \in Chains PROVE LatestHead(c)'
    <3>1. ChainState(c, "head")' \in IF Head(batch)[1] = "head" /\ ChainOf[Current] = c THEN {NoBlock, Current}
                                      ELSE {ChainState(c, "head")}
      BY <2>1, StatusUpdated
    <3>2. QED
      BY <2>1, <2>2, <3>1, HeadHandled DEF HeadInv
  <2>4. QED
    BY <2>3 DEF HeadInv
<1>8. CASE DeleteBlock
  <2>1. batch # <<>> /\ Head(batch)[1] # "head" /\ Handled /\ UNCHANGED <<communities, announced>>
    BY <1>8 DEF DeleteBlock, At, sessionVars
  <2>2. \A c \in Chains : ChainState(c, "head")' = ChainState(c, "head")
    BY <2>1 DEF ChainState
  <2>3. QED
    BY <2>1, <2>2, HeadHandled DEF HeadInv
<1>9. CASE InsertTx \/ InsertBlock \/ DeleteTx
  BY <1>1, <1>9 DEF InsertTx, InsertBlock, DeleteTx, Continue, sessionVars
<1>10. ASSUME NEW w \in Workers, Requests(w) \/ (\E p \in Peers : InsertMember(w, p)) \/ DeleteMembers(w)
       PROVE HeadInv'
  <2>1. UNCHANGED <<communities, batch, alerts, announced, stale>>
    BY <1>10 DEF Requests, FollowChain, UnfollowChain, InsertMember, DeleteMembers, dbVars, loopVars, sessionVars
  <2>2. QED
    BY <1>1, <2>1
<1>11. CASE UNCHANGED vars
  BY <1>1, <1>11 DEF vars, dbVars, loopVars, sessionVars
<1>12. CASE Crash
  <2>1. UNCHANGED <<communities, announced>> /\ batch' = <<>> /\ alerts' = <<>>
    BY <1>12 DEF Crash, Forget, dbVars, sessionVars
  <2>2. Len(Pending') = 0
    BY <2>1 DEF Pending
  <2>3. Pending \in Seq(Alert) /\ DOMAIN Pending = 1 .. Len(Pending)
    BY PendingFirst, LenProperties DEF TypeInv, TypeOK, Alert
  <2>4. ASSUME NEW c \in Chains PROVE HeadLost(c)' \/ ChainState(c, "head")' \in {NoBlock, announced'["head"][c]}
    <3>1. ASSUME NEW i \in 1 .. Len(Pending), HeadAt(i, c) PROVE HeadLost(c)'
      <4>1. <<"head", c>> \in Touches(Pending[i])
        BY <3>1 DEF HeadAt, Touches, Points
      <4>2. QED
        BY <1>12, <2>3, <4>1 DEF Crash, HeadLost
    <3>2. HeadLost(c) => HeadLost(c)'
      BY <1>12 DEF Crash, HeadLost
    <3>3. ChainState(c, "head")' = ChainState(c, "head")
      BY <2>1 DEF ChainState
    <3>4. QED
      BY <2>1, <3>1, <3>2, <3>3 DEF HeadInv, LatestHead
  <2>5. QED
    BY <2>2, <2>4 DEF HeadInv, LatestHead
<1>13. QED
  BY <1>2, <1>3, <1>4, <1>5, <1>6, <1>7, <1>8, <1>9, <1>10, <1>11, <1>12, ChainStoreAssumption DEF Next, RequestSteps, SessionSteps, MainSteps

\* get-chain-state never reports an outdated head once the alerts are handled,
\* however rows are inserted and deleted while heads are announced and handled,
\* unless a crash lost the last alert of a head of the chain.
THEOREM HeadCurrent == Spec => []HeadIsLatest
<1>1. Init => HeadInv
  <2>1. ASSUME Init PROVE HeadInv
    <3>1. DOMAIN communities = {} /\ Len(Pending) = 0
      BY <2>1 DEF Init, LoopInit, Pending
    <3>2. QED
      BY <3>1 DEF HeadInv, LatestHead, ChainState
  <2>2. QED
    BY <2>1
<1>2. TypeInv /\ HeadInv /\ [Next]_vars => HeadInv'
  BY HeadKept
<1>3. TypeInv /\ HeadInv => HeadIsLatest
  <2> SUFFICES ASSUME TypeInv, HeadInv, Drained, NEW c \in Chains, ~ HeadLost(c)
               PROVE  ChainState(c, "head") \in {NoBlock, announced["head"][c]}
    BY DEF HeadIsLatest, HeadLost
  <2>1. Len(Pending) = 0
    BY PendingFirst DEF TypeInv, TypeOK
  <2>2. QED
    BY <2>1 DEF HeadInv, LatestHead
<1>4. QED
  BY <1>1, <1>2, <1>3, TypeInvariant, PTL DEF Spec

-------------------------------------------------------------------------------
(* The tables of blocks and transactions *)

AllTxs == {TxOf[b] : b \in Blocks} \ {NoTx}

\* Blocks of which no two carry the same transaction.
RivalFree(S) ==
  /\ S \subseteq Blocks
  /\ \A b, d \in S : TxOf[b] = TxOf[d] /\ TxOf[b] # NoTx => b = d

\* A block of S that the tables should show carries the transaction.
HasTx(t, S) == \E b \in S : TxOf[b] = t /\ ChainOf[b] \notin Unquotable

\* The blocks of the best chains after an alert.
Apply(S, alert) ==
  IF alert[1] = "head" THEN S \cup {alert[2]}
  ELSE IF alert[1] = "rollback" THEN S \ {alert[2]}
  ELSE S

\* The sets of connected blocks that the session has gone through, from the one
\* before the first alert that waits to the one it has now.
History(H) ==
  /\ H[Len(Pending)] = Connected
  /\ \A i \in 0 .. Len(Pending) : RivalFree(H[i])
  /\ \A i \in 1 .. Len(Pending) :
       /\ H[i] = Apply(H[i - 1], Pending[i])
       /\ Pending[i][1] = "rollback" => Pending[i][2] \in H[i - 1]

\* No alert after the first i of those that wait writes to the row.
Untouched(i, row) == \A j \in 1 .. Len(Pending) : j > i => row \notin Touches(Pending[j])

\* What the alerts after the first i do not touch is as it was.
Carried(H) ==
  \A i \in 0 .. Len(Pending) :
    /\ \A b \in Blocks : Untouched(i, <<"block", b>>) => (b \in H[i] <=> b \in Connected)
    /\ \A t \in AllTxs : Untouched(i, <<"tx", t>>) => (HasTx(t, H[i]) <=> HasTx(t, Connected))

\* The sets that Blocks and Txs should show if the first alert finds S: a new head
\* changes Txs first and then Blocks, and a rollback does so too.
BlocksGoal(S) == IF At("head", 2) THEN Apply(S, Head(batch)) ELSE S

TxsGoal(S) == IF step = 0 THEN S ELSE Apply(S, Head(batch))

BlockRow(b, S) == b \in blocks <=> b \in S /\ ChainOf[b] \notin Unquotable

TxRow(t, S) == t \in txs <=> HasTx(t, S)

\* A row is right if no alert about it was lost, or once main has written it.
BlockFresh(b) == <<"block", b>> \notin stale \/ (At("head", 2) /\ b = Current)

TxFresh(t) == <<"tx", t>> \notin stale \/ (step # 0 /\ t = TxOf[Current])

TablesShow(S) ==
  /\ step # 0 => At("head", 1) \/ At("head", 2) \/ At("rollback", 1)
  /\ \A b \in Blocks : BlockFresh(b) => BlockRow(b, BlocksGoal(S))
  /\ \A t \in AllTxs : TxFresh(t) => TxRow(t, TxsGoal(S))

\* Only chains whose name can be quoted have rows.
RowsQuotable ==
  /\ \A b \in blocks : ChainOf[b] \notin Unquotable
  /\ \A b \in Blocks : TxOf[b] \in txs => ChainOf[b] \notin Unquotable

\* A block is connected once, and to its own chain.
ConnectedOnce ==
  \A c \in Chains : \A i \in DOMAIN connected[c] :
    /\ ChainOf[connected[c][i]] = c
    /\ \A j \in DOMAIN connected[c] : connected[c][i] = connected[c][j] => i = j

TablesInv ==
  /\ ConnectedOnce
  /\ RowsQuotable
  /\ \E H : History(H) /\ Carried(H) /\ TablesShow(H[0])

\* An alert changes nothing but what it touches.
LEMMA ApplyElsewhere ==
  ASSUME NEW S, NEW alert
  PROVE  /\ \A b : <<"block", b>> \notin Touches(alert) => (b \in Apply(S, alert) <=> b \in S)
         /\ \A t : <<"tx", t>> \notin Touches(alert) => (HasTx(t, Apply(S, alert)) <=> HasTx(t, S))
<1>1. CASE alert[1] \in {"head", "rollback"}
  <2>1. <<"block", alert[2]>> \in Touches(alert) /\ <<"tx", TxOf[alert[2]]>> \in Touches(alert)
    BY <1>1 DEF Touches
  <2>2. \A b : b # alert[2] => (b \in Apply(S, alert) <=> b \in S)
    BY <1>1 DEF Apply
  <2>3. QED
    BY <2>1, <2>2 DEF HasTx
<1>2. CASE alert[1] \notin {"head", "rollback"}
  BY <1>2 DEF Apply
<1>3. QED
  BY <1>1, <1>2

\* The session connects a block: it is added to the connected ones.
LEMMA HeadConnects ==
  ASSUME TypeInv, ConnectedOnce, NEW b \in Blocks, SessionNewHead(b)
  PROVE  Connected' = Connected \cup {b} /\ ConnectedOnce'
<1> DEFINE e == ChainOf[b]
           s == connected[e]
           t == connected'[e]
<1>1. e \in Chains /\ s \in Seq(Blocks)
  BY ChainStoreAssumption DEF TypeInv, TypeOK
<1>2. t = Append(s, b) /\ \A c \in Chains : c # e => connected'[c] = connected[c]
  BY <1>1 DEF SessionNewHead, TypeInv, TypeOK
<1>3. /\ Len(s) \in Nat /\ DOMAIN s = 1 .. Len(s) /\ DOMAIN t = 1 .. (Len(s) + 1)
      /\ \A i \in 1 .. Len(s) : t[i] = s[i]
      /\ t[Len(s) + 1] = b
  BY <1>1, <1>2, AppendProperties, LenProperties
<1>4. DOMAIN t = DOMAIN s \cup {Len(s) + 1}
  BY <1>3
<1>5. b \notin Connected
  BY DEF SessionNewHead
<1>6. \A c \in Chains : \A i \in DOMAIN connected[c] : connected[c][i] \in Connected
  BY DEF Connected
<1>7. Connected' = Connected \cup {b}
  <2>1. ASSUME NEW x \in Connected' PROVE x \in Connected \cup {b}
    <3>1. PICK c \in Chains : \E i \in DOMAIN connected'[c] : x = connected'[c][i]
      BY <2>1 DEF Connected
    <3>2. CASE c = e
      BY <1>1, <1>3, <1>4, <1>6, <3>1, <3>2
    <3>3. CASE c # e
      BY <1>2, <1>6, <3>1, <3>3
    <3>4. QED
      BY <3>2, <3>3
  <2>2. ASSUME NEW x \in Connected PROVE x \in Connected'
    <3>1. PICK c \in Chains : \E i \in DOMAIN connected[c] : x = connected[c][i]
      BY <2>2 DEF Connected
    <3>2. \E i \in DOMAIN connected'[c] : x = connected'[c][i]
      BY <1>2, <1>3, <1>4, <3>1
    <3>3. QED
      BY <3>2 DEF Connected
  <2>3. b \in Connected'
    BY <1>1, <1>3, <1>4 DEF Connected
  <2>4. QED
    BY <2>1, <2>2, <2>3
<1>8. ConnectedOnce'
  <2>1. ASSUME NEW c \in Chains, NEW i \in DOMAIN connected'[c]
        PROVE  /\ ChainOf[connected'[c][i]] = c
               /\ \A j \in DOMAIN connected'[c] : connected'[c][i] = connected'[c][j] => i = j
    <3>1. CASE c = e
      <4>1. \A k \in DOMAIN s : s[k] # b /\ t[k] = s[k]
        BY <1>1, <1>3, <1>5, <1>6
      <4>2. \A k, j \in DOMAIN s : ChainOf[s[k]] = e /\ (s[k] = s[j] => k = j)
        BY <1>1 DEF ConnectedOnce
      <4> HIDE DEF s, t, e
      <4>3. \A k, j \in DOMAIN t : ChainOf[t[k]] = e /\ (t[k] = t[j] => k = j)
        BY <1>3, <1>4, <4>1, <4>2 DEF e
      <4>4. QED
        BY <2>1, <3>1, <4>3 DEF t
    <3>2. CASE c # e
      BY <1>2, <2>1, <3>2 DEF ConnectedOnce
    <3>3. QED
      BY <3>1, <3>2
  <2>2. QED
    BY <2>1 DEF ConnectedOnce
<1>9. QED
  BY <1>7, <1>8

\* The session rolls its newest block back: it is taken from the connected ones.
LEMMA RollbackDisconnects ==
  ASSUME TypeInv, ConnectedOnce, NEW e \in Chains, SessionRollback(e),
         NEW b, b = connected[e][Len(connected[e])]
  PROVE  Connected' = Connected \ {b} /\ b \in Connected /\ ConnectedOnce'
<1> DEFINE s == connected[e]
           t == connected'[e]
<1>1. s \in Seq(Blocks) /\ s # <<>> /\ Len(s) \in Nat \ {0} /\ DOMAIN s = 1 .. Len(s)
  BY EmptySeq, LenProperties DEF SessionRollback, TypeInv, TypeOK
<1>2. t = SubSeq(s, 1, Len(s) - 1) /\ \A c \in Chains : c # e => connected'[c] = connected[c]
  BY DEF SessionRollback, TypeInv, TypeOK
<1>3. /\ t \in Seq(Blocks) /\ Len(t) = Len(s) - 1
      /\ \A i \in 1 .. (Len(s) - 1) : t[i] = s[i]
  <2>1. \A i \in 1 .. (Len(s) - 1) : s[i] \in Blocks
    BY <1>1, ElementOfSeq
  <2>2. /\ t \in Seq(Blocks)
        /\ Len(t) = IF 1 <= Len(s) - 1 THEN Len(s) - 1 - 1 + 1 ELSE 0
        /\ \A i \in 1 .. Len(s) - 1 - 1 + 1 : t[i] = s[1 + i - 1]
    BY <1>1, <1>2, <2>1, SubSeqProperties
  <2>3. QED
    BY <1>1, <2>2
<1>4. DOMAIN t = 1 .. (Len(s) - 1) /\ DOMAIN s = DOMAIN t \cup {Len(s)} /\ Len(s) \notin DOMAIN t
  <2>1. DOMAIN t = 1 .. (Len(s) - 1)
    BY <1>3, LenProperties
  <2>2. QED
    BY <1>1, <2>1
<1>5. \A i \in DOMAIN t : t[i] = s[i] /\ t[i] # b
  BY <1>1, <1>3, <1>4 DEF ConnectedOnce
<1>6. \A c \in Chains : c # e => \A i \in DOMAIN connected[c] : connected[c][i] # b
  BY <1>1, <1>4 DEF ConnectedOnce
<1>7. b \in Connected
  BY <1>1, <1>4 DEF Connected
<1>8. Connected' = Connected \ {b}
  <2>1. ASSUME NEW x \in Connected' PROVE x \in Connected \ {b}
    <3>1. PICK c \in Chains : \E i \in DOMAIN connected'[c] : x = connected'[c][i]
      BY <2>1 DEF Connected
    <3>2. \E i \in DOMAIN connected[c] : x = connected[c][i] /\ x # b
      BY <1>2, <1>4, <1>5, <1>6, <3>1
    <3>3. QED
      BY <3>2 DEF Connected
  <2>2. ASSUME NEW x \in Connected, x # b PROVE x \in Connected'
    <3>1. PICK c \in Chains : \E i \in DOMAIN connected[c] : x = connected[c][i]
      BY <2>2 DEF Connected
    <3>2. \E i \in DOMAIN connected'[c] : x = connected'[c][i]
      BY <1>2, <1>4, <1>5, <2>2, <3>1
    <3>3. QED
      BY <3>2 DEF Connected
  <2>3. QED
    BY <2>1, <2>2
<1>9. ConnectedOnce'
  <2>1. \A c \in Chains : /\ DOMAIN connected'[c] \subseteq DOMAIN connected[c]
                          /\ \A i \in DOMAIN connected'[c] : connected'[c][i] = connected[c][i]
    BY <1>2, <1>4, <1>5
  <2>2. QED
    BY <2>1 DEF ConnectedOnce
<1>10. QED
  BY <1>7, <1>8, <1>9

\* An alert that the session posts extends the history by what it did.
LEMMA HistoryPosted ==
  ASSUME TypeInv, NEW H, History(H), Carried(H), TablesShow(H[0]), NEW kind, NEW b, Post(kind, b),
         Connected' = Apply(Connected, <<kind, b>>), RivalFree(Connected'),
         kind = "rollback" => b \in Connected,
         UNCHANGED <<blocks, txs, stale>>
  PROVE  \E G : History(G)' /\ Carried(G)' /\ TablesShow(G[0])'
<1> SUFFICES ASSUME NEW n, n = Len(Pending) PROVE \E G : History(G)' /\ Carried(G)' /\ TablesShow(G[0])'
  OBVIOUS
<1>1. /\ Len(Pending') = n + 1 /\ n \in Nat
      /\ \A i \in 1 .. n : Pending'[i] = Pending[i]
      /\ Pending'[n + 1] = <<kind, b>>
  BY PendingPost, PendingFirst DEF TypeInv, TypeOK
<1> SUFFICES ASSUME NEW G, G = [i \in 0 .. n + 1 |-> IF i = n + 1 THEN Connected' ELSE H[i]]
             PROVE  History(G)' /\ Carried(G)' /\ TablesShow(G[0])'
  OBVIOUS
<1>2. G[n + 1] = Connected' /\ \A i \in 0 .. n : G[i] = H[i]
  BY <1>1
<1>3. G[0] = H[0] /\ G[n] = Connected
  BY <1>1, <1>2 DEF History
<1>4. \A i \in 0 .. n + 1 : RivalFree(G[i])
  BY <1>1, <1>2 DEF History
<1>5. ASSUME NEW i \in 1 .. n + 1
      PROVE  /\ G[i] = Apply(G[i - 1], Pending'[i])
             /\ Pending'[i][1] = "rollback" => Pending'[i][2] \in G[i - 1]
  <2>1. CASE i = n + 1
    <3>1. i - 1 = n
      BY <1>1, <2>1
    <3>2. G[i] = Connected' /\ G[i - 1] = Connected /\ Pending'[i] = <<kind, b>>
      BY <1>1, <1>2, <1>3, <2>1, <3>1
    <3>3. QED
      BY <3>2
  <2>2. CASE i # n + 1
    <3>1. i \in 1 .. n /\ i \in 0 .. n /\ i - 1 \in 0 .. n
      BY <1>1, <2>2
    <3>2. QED
      BY <1>1, <1>2, <3>1 DEF History
  <2>3. QED
    BY <2>1, <2>2
<1>6. History(G)'
  BY <1>1, <1>2, <1>4, <1>5 DEF History, RivalFree, Apply
<1>7. ASSUME NEW i \in 0 .. n, NEW row, Untouched(i, row)'
      PROVE  Untouched(i, row) /\ row \notin Touches(<<kind, b>>)
  <2>1. \A alert : Touches(alert)' = Touches(alert)
    BY DEF Touches
  <2>2. n + 1 \in 1 .. Len(Pending') /\ n + 1 > i /\ \A j \in 1 .. n : j \in 1 .. Len(Pending')
    BY <1>1
  <2>3. QED
    BY <1>1, <1>7, <2>1, <2>2 DEF Untouched
<1>8. ASSUME NEW i \in 0 .. n + 1
      PROVE  /\ \A d \in Blocks : Untouched(i, <<"block", d>>)' => (d \in G[i] <=> d \in Connected')
             /\ \A t \in AllTxs : Untouched(i, <<"tx", t>>)' => (HasTx(t, G[i]) <=> HasTx(t, Connected'))
  <2>1. CASE i = n + 1
    BY <1>2, <2>1
  <2>2. CASE i # n + 1
    <3>1. i \in 0 .. n /\ i \in 0 .. Len(Pending) /\ G[i] = H[i]
      BY <1>1, <1>2, <2>2
    <3>2. ASSUME NEW d \in Blocks, Untouched(i, <<"block", d>>)' PROVE d \in G[i] <=> d \in Connected'
      BY <1>7, <3>1, <3>2, ApplyElsewhere DEF Carried
    <3>3. ASSUME NEW t \in AllTxs, Untouched(i, <<"tx", t>>)' PROVE HasTx(t, G[i]) <=> HasTx(t, Connected')
      BY <1>7, <3>1, <3>3, ApplyElsewhere DEF Carried
    <3>4. QED
      BY <3>2, <3>3
  <2>3. QED
    BY <2>1, <2>2
<1>9. Carried(G)'
  BY <1>1, <1>8 DEF Carried, AllTxs, HasTx
<1>10. TablesShow(G[0])'
  <2>1. batch' = batch /\ step' = step
    BY DEF Post
  <2>2. QED
    BY <1>3, <2>1 DEF TablesShow, At, Apply, BlockFresh, TxFresh, BlockRow, TxRow, BlocksGoal, TxsGoal, HasTx,
                      AllTxs, Current
<1>11. QED
  BY <1>6, <1>9, <1>10

\* A handler that returns moves the history on by one alert.
LEMMA HistoryHandled ==
  ASSUME TypeInv, NEW H, History(H), Carried(H), batch # <<>>, Handled, UNCHANGED connected,
         NEW S, S = Apply(H[0], Head(batch)), TablesShow(S)'
  PROVE  \E G : History(G)' /\ Carried(G)' /\ TablesShow(G[0])'
<1> SUFFICES ASSUME NEW n, n = Len(Pending) PROVE \E G : History(G)' /\ Carried(G)' /\ TablesShow(G[0])'
  OBVIOUS
<1>1. /\ n \in Nat /\ n >= 1 /\ Pending[1] = Head(batch) /\ Len(Pending') = n - 1
      /\ \A i \in 1 .. n - 1 : Pending'[i] = Pending[i + 1]
  BY PendingReturn, PendingFirst DEF TypeInv, TypeOK, Handled
<1> SUFFICES ASSUME NEW G, G = [i \in 0 .. n - 1 |-> H[i + 1]]
             PROVE  History(G)' /\ Carried(G)' /\ TablesShow(G[0])'
  OBVIOUS
<1>2. \A i \in 0 .. n - 1 : G[i] = H[i + 1]
  OBVIOUS
<1>3. G[0] = S
  <2>1. 0 \in 0 .. n - 1 /\ 1 \in 1 .. n /\ 0 + 1 = 1 /\ 1 - 1 = 0
    BY <1>1
  <2>2. QED
    BY <1>1, <1>2, <2>1 DEF History
<1>4. Connected' = Connected
  BY DEF Connected
<1>5. G[n - 1] = Connected' /\ \A i \in 0 .. n - 1 : RivalFree(G[i])
  <2>1. n - 1 \in 0 .. n - 1 /\ n - 1 + 1 = n /\ \A i \in 0 .. n - 1 : i + 1 \in 0 .. n
    BY <1>1
  <2>2. QED
    BY <1>2, <1>4, <2>1 DEF History
<1>6. ASSUME NEW i \in 1 .. n - 1
      PROVE  /\ G[i] = Apply(G[i - 1], Pending'[i])
             /\ Pending'[i][1] = "rollback" => Pending'[i][2] \in G[i - 1]
  <2>1. /\ i \in 0 .. n - 1 /\ i - 1 \in 0 .. n - 1 /\ i - 1 + 1 = i
        /\ i + 1 \in 1 .. n /\ i + 1 - 1 = i
    BY <1>1
  <2>2. QED
    BY <1>1, <1>2, <2>1 DEF History
<1>7. History(G)'
  BY <1>1, <1>5, <1>6 DEF History, RivalFree, Apply
<1>8. ASSUME NEW i \in 0 .. n - 1, NEW row, Untouched(i, row)' PROVE Untouched(i + 1, row)
  <2>1. ASSUME NEW j \in 1 .. n, j > i + 1 PROVE row \notin Touches(Pending[j])
    <3>1. j - 1 \in 1 .. n - 1 /\ j - 1 > i /\ j - 1 + 1 = j
      BY <1>1, <2>1
    <3>2. Pending'[j - 1] = Pending[j] /\ j - 1 \in 1 .. Len(Pending')
      BY <1>1, <3>1
    <3>3. QED
      BY <1>8, <3>1, <3>2 DEF Untouched, Touches
  <2>2. QED
    BY <2>1 DEF Untouched
<1>9. ASSUME NEW i \in 0 .. n - 1
      PROVE  /\ \A d \in Blocks : Untouched(i, <<"block", d>>)' => (d \in G[i] <=> d \in Connected')
             /\ \A t \in AllTxs : Untouched(i, <<"tx", t>>)' => (HasTx(t, G[i]) <=> HasTx(t, Connected'))
  <2>1. i + 1 \in 0 .. Len(Pending) /\ G[i] = H[i + 1]
    BY <1>1, <1>2
  <2>2. QED
    BY <1>4, <1>8, <2>1 DEF Carried
<1>10. Carried(G)'
  BY <1>1, <1>9 DEF Carried, AllTxs, HasTx
<1>11. QED
  BY <1>3, <1>7, <1>10

\* The history is the same while the alerts and the connected blocks are.
LEMMA HistoryStays ==
  ASSUME NEW H, History(H), Carried(H), Pending' = Pending, UNCHANGED connected
  PROVE  History(H)' /\ Carried(H)'
<1>1. Connected' = Connected
  BY DEF Connected
<1>2. History(H)'
  BY <1>1 DEF History, RivalFree, Apply
<1>3. \A i, row : Untouched(i, row)' <=> Untouched(i, row)
  BY DEF Untouched, Touches
<1>4. QED
  BY <1>1, <1>2, <1>3 DEF Carried, AllTxs, HasTx

\* The first alert that waits, against the set it finds.
LEMMA FirstAlert ==
  ASSUME TypeInv, NEW H, History(H), batch # <<>>
  PROVE  /\ RivalFree(H[0]) /\ Current \in Blocks /\ Head(batch) = <<Head(batch)[1], Current>>
         /\ Head(batch)[1] = "rollback" => Current \in H[0]
<1>1. Len(Pending) \in Nat /\ Len(Pending) >= 1 /\ Pending[1] = Head(batch)
  BY PendingFirst DEF TypeInv, TypeOK
<1>2. 0 \in 0 .. Len(Pending) /\ 1 \in 1 .. Len(Pending) /\ 1 - 1 = 0
  BY <1>1
<1>3. QED
  BY <1>1, <1>2, CurrentTyped DEF History, Current

\* One statement of a handler: Txs and Blocks move towards the next set.
LEMMA StatementShows ==
  ASSUME TypeInv, RowsQuotable, NEW H, History(H), TablesShow(H[0]),
         InsertTx \/ InsertBlock \/ DeleteTx
  PROVE  TablesShow(H[0])' /\ RowsQuotable'
<1>1. batch # <<>> /\ batch' = batch /\ step' = step + 1 /\ stale' = stale /\ Current' = Current
  BY DEF InsertTx, InsertBlock, DeleteTx, At, Continue, Current
<1>2. /\ RivalFree(H[0]) /\ Current \in Blocks /\ Head(batch) = <<Head(batch)[1], Current>>
      /\ Head(batch)[1] = "rollback" => Current \in H[0]
  BY <1>1, FirstAlert
<1> SUFFICES ASSUME NEW S, S = H[0], NEW d, d = Current, NEW T, T = Apply(S, Head(batch))
             PROVE  TablesShow(S)' /\ RowsQuotable'
  OBVIOUS
<1>3. CurrentQuotable <=> ChainOf[d] \notin Unquotable
  BY DEF CurrentQuotable, Quotable
<1>4. T = Apply(S, Head(batch))'
  BY <1>1 DEF Apply
<1>5. CASE InsertTx
  <2>1. /\ step = 0 /\ Head(batch)[1] = "head" /\ blocks' = blocks
        /\ txs' = IF TxOf[d] = NoTx \/ ChainOf[d] \in Unquotable THEN txs ELSE txs \cup {TxOf[d]}
    BY <1>3, <1>5 DEF InsertTx, At
  <2>2. T = S \cup {d}
    BY <1>2, <2>1 DEF Apply
  <2>3. step' = 1 /\ At("head", 1)' /\ ~ At("head", 2)' /\ ~ At("head", 2)
    BY <1>1, <2>1 DEF At
  <2>4. \A b \in Blocks : BlockFresh(b)' => BlockRow(b, BlocksGoal(S))'
    <3>1. BlocksGoal(S)' = S /\ BlocksGoal(S) = S
      BY <2>3 DEF BlocksGoal
    <3>2. QED
      BY <1>1, <2>1, <2>3, <3>1 DEF TablesShow, BlockFresh, BlockRow
  <2>5. RowsQuotable'
    BY <1>2, <2>1, ChainStoreAssumption DEF RowsQuotable
  <2>6. ASSUME NEW t \in AllTxs, TxFresh(t)' PROVE TxRow(t, T)'
    <3>1. CASE t = TxOf[d]
      <4>1. \A b \in S : TxOf[b] = t => ChainOf[b] = ChainOf[d]
        BY <1>2, <3>1, ChainStoreAssumption DEF RivalFree, AllTxs
      <4>2. HasTx(t, T) <=> ChainOf[d] \notin Unquotable
        BY <2>2, <3>1, <4>1 DEF HasTx
      <4>3. t \in txs' <=> ChainOf[d] \notin Unquotable
        BY <1>2, <2>1, <2>5, <3>1 DEF RowsQuotable, AllTxs
      <4>4. QED
        BY <4>2, <4>3 DEF TxRow, HasTx
    <3>2. CASE t # TxOf[d]
      <4>1. TxFresh(t)
        BY <1>1, <2>6, <3>2 DEF TxFresh
      <4>2. TxRow(t, S)
        BY <2>1, <4>1 DEF TablesShow, TxsGoal
      <4>3. (t \in txs' <=> t \in txs) /\ (HasTx(t, T) <=> HasTx(t, S))
        BY <2>1, <2>2, <3>2 DEF HasTx
      <4>4. QED
        BY <4>2, <4>3 DEF TxRow, HasTx
    <3>3. QED
      BY <3>1, <3>2
  <2>7. TxsGoal(S)' = T
    BY <1>4, <2>3 DEF TxsGoal, Apply
  <2>8. QED
    BY <2>3, <2>4, <2>5, <2>6, <2>7 DEF TablesShow, AllTxs
<1>6. CASE InsertBlock
  <2>1. /\ step = 1 /\ Head(batch)[1] = "head" /\ txs' = txs
        /\ blocks' = IF ChainOf[d] \notin Unquotable THEN blocks \cup {d} ELSE blocks
    BY <1>3, <1>6 DEF InsertBlock, At
  <2>2. T = S \cup {d}
    BY <1>2, <2>1 DEF Apply
  <2>3. step' = 2 /\ At("head", 2)' /\ ~ At("head", 2)
    BY <1>1, <2>1 DEF At
  <2>4. RowsQuotable'
    BY <1>2, <2>1 DEF RowsQuotable
  <2>5. ASSUME NEW b \in Blocks, BlockFresh(b)' PROVE BlockRow(b, T)'
    <3>1. CASE b = d
      BY <1>2, <2>1, <2>2, <2>4, <3>1 DEF BlockRow, RowsQuotable
    <3>2. CASE b # d
      <4>1. BlockFresh(b)
        BY <1>1, <2>5, <3>2 DEF BlockFresh
      <4>2. BlockRow(b, S)
        BY <2>3, <4>1 DEF TablesShow, BlocksGoal
      <4>3. QED
        BY <2>1, <2>2, <3>2, <4>2 DEF BlockRow
    <3>3. QED
      BY <3>1, <3>2
  <2>6. BlocksGoal(S)' = T /\ TxsGoal(S)' = T /\ TxsGoal(S) = T
    BY <1>4, <2>1, <2>3 DEF BlocksGoal, TxsGoal, Apply
  <2>7. \A t \in AllTxs : TxFresh(t)' => TxRow(t, T)'
    BY <1>1, <2>1, <2>3, <2>6 DEF TablesShow, TxFresh, TxRow, HasTx
  <2>8. QED
    BY <2>3, <2>4, <2>5, <2>6, <2>7 DEF TablesShow, AllTxs
<1>7. CASE DeleteTx
  <2>1. step = 0 /\ Head(batch)[1] = "rollback" /\ blocks' = blocks /\ txs' = txs \ {TxOf[d]}
    BY <1>7 DEF DeleteTx, At
  <2>2. T = S \ {d} /\ d \in S
    BY <1>2, <2>1 DEF Apply
  <2>3. step' = 1 /\ At("rollback", 1)' /\ ~ At("head", 2)' /\ ~ At("head", 2)
    BY <1>1, <2>1 DEF At
  <2>4. \A b \in Blocks : BlockFresh(b)' => BlockRow(b, BlocksGoal(S))'
    <3>1. BlocksGoal(S)' = S /\ BlocksGoal(S) = S
      BY <2>3 DEF BlocksGoal
    <3>2. QED
      BY <1>1, <2>1, <2>3, <3>1 DEF TablesShow, BlockFresh, BlockRow
  <2>5. RowsQuotable'
    BY <2>1 DEF RowsQuotable
  <2>6. ASSUME NEW t \in AllTxs, TxFresh(t)' PROVE TxRow(t, T)'
    <3>1. CASE t = TxOf[d]
      <4>1. ~ HasTx(t, T)
        BY <1>2, <2>2, <3>1 DEF HasTx, RivalFree, AllTxs
      <4>2. QED
        BY <2>1, <3>1, <4>1 DEF TxRow, HasTx
    <3>2. CASE t # TxOf[d]
      <4>1. TxFresh(t)
        BY <1>1, <2>6, <3>2 DEF TxFresh
      <4>2. TxRow(t, S)
        BY <2>1, <4>1 DEF TablesShow, TxsGoal
      <4>3. (t \in txs' <=> t \in txs) /\ (HasTx(t, T) <=> HasTx(t, S))
        BY <2>1, <2>2, <3>2 DEF HasTx
      <4>4. QED
        BY <4>2, <4>3 DEF TxRow, HasTx
    <3>3. QED
      BY <3>1, <3>2
  <2>7. TxsGoal(S)' = T
    BY <1>4, <2>3 DEF TxsGoal, Apply
  <2>8. QED
    BY <2>3, <2>4, <2>5, <2>6, <2>7 DEF TablesShow, AllTxs
<1>8. QED
  BY <1>5, <1>6, <1>7

\* The last statement of a handler completes the next set.
LEMMA LastStatementShows ==
  ASSUME TypeInv, RowsQuotable, NEW H, History(H), TablesShow(H[0]),
         UpdateHead \/ HandleNewTail \/ HandleNewConsensusPoint \/ DeleteBlock,
         NEW T, T = Apply(H[0], Head(batch))
  PROVE  batch # <<>> /\ Handled /\ UNCHANGED connected /\ TablesShow(T)' /\ RowsQuotable'
<1>1. batch # <<>> /\ Handled /\ step' = 0 /\ UNCHANGED <<connected, txs>> /\ blocks' \subseteq blocks
  BY DEF UpdateHead, HandleNewTail, HandleNewConsensusPoint, DeleteBlock, At, sessionVars, Handled, Return
<1>2. RivalFree(H[0]) /\ Current \in Blocks /\ Head(batch) = <<Head(batch)[1], Current>>
  BY <1>1, FirstAlert
<1>3. RowsQuotable'
  BY <1>1 DEF RowsQuotable
<1> SUFFICES ASSUME NEW S, S = H[0], NEW d, d = Current, T = Apply(S, Head(batch)) PROVE TablesShow(T)'
  BY <1>1, <1>3
<1>4. \A row : row \notin stale' => row \notin stale \/ row \in Touches(Head(batch))
  BY <1>1 DEF Handled
<1> SUFFICES /\ \A b \in Blocks : <<"block", b>> \notin stale' => BlockRow(b, T)'
             /\ \A t \in AllTxs : <<"tx", t>> \notin stale' => TxRow(t, T)'
  <2>1. BlocksGoal(T)' = T /\ TxsGoal(T)' = T /\ ~ At("head", 2)'
    BY <1>1 DEF BlocksGoal, TxsGoal, At
  <2>2. QED
    BY <1>1, <2>1 DEF TablesShow, BlockFresh, TxFresh, AllTxs
<1>5. CASE UpdateHead
  <2>1. At("head", 2) /\ step # 0 /\ blocks' = blocks
    BY <1>5 DEF UpdateHead, At
  <2>2. Touches(Head(batch)) \subseteq {<<"head", ChainOf[d]>>, <<"block", d>>, <<"tx", TxOf[d]>>}
    BY <1>2, <2>1 DEF Touches, At
  <2>3. \A b \in Blocks : <<"block", b>> \notin stale' => BlockRow(b, T)
    BY <1>4, <2>1, <2>2 DEF TablesShow, BlockFresh, BlocksGoal
  <2>4. \A t \in AllTxs : <<"tx", t>> \notin stale' => TxRow(t, T)
    BY <1>4, <2>1, <2>2 DEF TablesShow, TxFresh, TxsGoal
  <2>5. QED
    BY <1>1, <2>1, <2>3, <2>4 DEF BlockRow, TxRow, HasTx
<1>6. CASE HandleNewTail \/ HandleNewConsensusPoint
  <2>1. step = 0 /\ Head(batch)[1] \in {"tail", "consensus"} /\ blocks' = blocks
    BY <1>6 DEF HandleNewTail, HandleNewConsensusPoint, At
  <2>2. T = S /\ BlocksGoal(S) = S /\ TxsGoal(S) = S
    BY <2>1 DEF Apply, BlocksGoal, TxsGoal, At
  <2>3. \A x : <<"block", x>> \notin Touches(Head(batch)) /\ <<"tx", x>> \notin Touches(Head(batch))
    BY <2>1 DEF Touches
  <2>4. \A b \in Blocks : <<"block", b>> \notin stale' => BlockRow(b, T)
    BY <1>4, <2>2, <2>3 DEF TablesShow, BlockFresh
  <2>5. \A t \in AllTxs : <<"tx", t>> \notin stale' => TxRow(t, T)
    BY <1>4, <2>2, <2>3 DEF TablesShow, TxFresh
  <2>6. QED
    BY <1>1, <2>1, <2>4, <2>5 DEF BlockRow, TxRow, HasTx
<1>7. CASE DeleteBlock
  <2>1. step = 1 /\ ~ At("head", 2) /\ Head(batch)[1] = "rollback" /\ blocks' = blocks \ {d}
    BY <1>7 DEF DeleteBlock, At
  <2>2. T = S \ {d} /\ BlocksGoal(S) = S /\ TxsGoal(S) = T
    BY <1>2, <2>1 DEF Apply, BlocksGoal, TxsGoal
  <2>3. Touches(Head(batch)) = {<<"block", d>>, <<"tx", TxOf[d]>>}
    BY <1>2, <2>1 DEF Touches, Points
  <2>4. ASSUME NEW b \in Blocks, <<"block", b>> \notin stale' PROVE BlockRow(b, T)'
    <3>1. CASE b = d
      BY <2>1, <2>2, <3>1 DEF BlockRow
    <3>2. CASE b # d
      <4>1. BlockRow(b, S)
        BY <1>4, <2>2, <2>3, <2>4, <3>2 DEF TablesShow, BlockFresh
      <4>2. QED
        BY <2>1, <2>2, <3>2, <4>1 DEF BlockRow
    <3>3. QED
      BY <3>1, <3>2
  <2>5. ASSUME NEW t \in AllTxs, <<"tx", t>> \notin stale' PROVE TxRow(t, T)
    <3>1. <<"tx", t>> \notin stale \/ t = TxOf[d]
      BY <1>4, <2>3, <2>5
    <3>2. TxFresh(t)
      BY <2>1, <3>1 DEF TxFresh
    <3>3. QED
      BY <2>2, <3>2 DEF TablesShow
  <2>6. QED
    BY <1>1, <2>4, <2>5 DEF TxRow, HasTx
<1>8. QED
  BY <1>5, <1>6, <1>7

\* A crash loses the alerts that wait: rows that none of them touches stay right,
\* and the session's blocks are the new beginning.
LEMMA CrashShows ==
  ASSUME TypeInv, NEW H, History(H), Carried(H), TablesShow(H[0]), Crash
  PROVE  \E G : History(G)' /\ Carried(G)' /\ TablesShow(G[0])'
<1>1. /\ UNCHANGED <<blocks, txs, connected>> /\ batch' = <<>> /\ alerts' = <<>> /\ step' = 0
      /\ \A row : row \notin stale' => row \notin stale /\ \A i \in DOMAIN Pending : row \notin Touches(Pending[i])
  BY DEF Crash, Forget, dbVars, sessionVars
<1>2. Len(Pending') = 0
  BY <1>1 DEF Pending
<1>3. Len(Pending) \in Nat /\ DOMAIN Pending = 1 .. Len(Pending) /\ (batch # <<>> => 1 \in DOMAIN Pending /\ Pending[1] = Head(batch))
  BY PendingFirst, LenProperties DEF TypeInv, TypeOK, Alert
<1>4. \A row : row \notin stale' => Untouched(0, row)
  BY <1>1, <1>3 DEF Untouched
<1>5. step # 0 => batch # <<>>
  BY DEF TypeInv
<1>6. Connected' = Connected /\ RivalFree(Connected)
  <2>1. Connected' = Connected
    BY <1>1 DEF Connected
  <2>2. QED
    BY <1>3, <2>1 DEF History
<1> SUFFICES ASSUME NEW G, G = [i \in {0} |-> Connected] PROVE History(G)' /\ Carried(G)' /\ TablesShow(G[0])'
  OBVIOUS
<1>7. G[0] = Connected
  OBVIOUS
<1>8. History(G)'
  BY <1>2, <1>6, <1>7 DEF History, RivalFree
<1>9. Carried(G)'
  BY <1>2, <1>6, <1>7 DEF Carried, HasTx, AllTxs
<1>10. \A b \in Blocks : <<"block", b>> \notin stale' => BlockRow(b, Connected)'
  <2>1. ASSUME NEW b \in Blocks, <<"block", b>> \notin stale' PROVE BlockRow(b, Connected)
    <3>1. BlockRow(b, BlocksGoal(H[0]))
      BY <1>1, <2>1 DEF TablesShow, BlockFresh
    <3>2. b \in BlocksGoal(H[0]) <=> b \in H[0]
      BY <1>1, <1>3, <2>1, ApplyElsewhere DEF BlocksGoal, At
    <3>3. b \in H[0] <=> b \in Connected
      BY <1>3, <1>4, <2>1 DEF Carried
    <3>4. QED
      BY <3>1, <3>2, <3>3 DEF BlockRow
  <2>2. QED
    BY <1>1, <1>6, <2>1 DEF BlockRow
<1>11. \A t \in AllTxs : <<"tx", t>> \notin stale' => TxRow(t, Connected)'
  <2>1. ASSUME NEW t \in AllTxs, <<"tx", t>> \notin stale' PROVE TxRow(t, Connected)
    <3>1. TxRow(t, TxsGoal(H[0]))
      BY <1>1, <2>1 DEF TablesShow, TxFresh
    <3>2. HasTx(t, TxsGoal(H[0])) <=> HasTx(t, H[0])
      BY <1>1, <1>3, <1>5, <2>1, ApplyElsewhere DEF TxsGoal
    <3>3. HasTx(t, H[0]) <=> HasTx(t, Connected)
      BY <1>3, <1>4, <2>1 DEF Carried
    <3>4. QED
      BY <3>1, <3>2, <3>3 DEF TxRow
  <2>2. QED
    BY <1>1, <1>6, <2>1 DEF TxRow, HasTx
<1>12. TablesShow(G[0])'
  <2>1. BlocksGoal(Connected)' = Connected /\ TxsGoal(Connected)' = Connected /\ ~ At("head", 2)'
    BY <1>1, <1>6 DEF BlocksGoal, TxsGoal, At
  <2>2. QED
    BY <1>1, <1>6, <1>7, <1>10, <1>11, <2>1 DEF TablesShow, BlockFresh, TxFresh, AllTxs
<1>13. QED
  BY <1>8, <1>9, <1>12

\* The tables stay right while nothing they depend on changes.
LEMMA TablesStay ==
  ASSUME TablesInv, Pending' = Pending, UNCHANGED <<blocks, txs, stale, step, connected>>,
         batch' = batch \/ step = 0
  PROVE  TablesInv'
<1>1. PICK H : History(H) /\ Carried(H) /\ TablesShow(H[0])
  BY DEF TablesInv
<1>2. History(H)' /\ Carried(H)'
  BY <1>1, HistoryStays
<1>3. CASE step = 0
  <2>1. \A S : BlocksGoal(S) = S /\ BlocksGoal(S)' = S /\ TxsGoal(S) = S /\ TxsGoal(S)' = S
    BY <1>3 DEF BlocksGoal, TxsGoal, At
  <2>2. \A x : (BlockFresh(x)' <=> BlockFresh(x)) /\ (TxFresh(x)' <=> TxFresh(x))
    BY <1>3 DEF BlockFresh, TxFresh, At
  <2>3. \A x, S : (BlockRow(x, S)' <=> BlockRow(x, S)) /\ (TxRow(x, S)' <=> TxRow(x, S))
    BY DEF BlockRow, TxRow, HasTx
  <2>4. (\A b \in Blocks : BlockFresh(b) => BlockRow(b, H[0]))'
    BY <1>1, <2>1, <2>2, <2>3 DEF TablesShow
  <2>5. (\A t \in AllTxs : TxFresh(t) => TxRow(t, H[0]))'
    BY <1>1, <2>1, <2>2, <2>3 DEF TablesShow, AllTxs
  <2>6. QED
    BY <1>2, <1>3, <2>1, <2>4, <2>5 DEF TablesInv, TablesShow, ConnectedOnce, RowsQuotable
<1>4. CASE batch' = batch
  <2>1. TablesShow(H[0])'
    BY <1>1, <1>4 DEF TablesShow, At, Apply, BlockFresh, TxFresh, BlockRow, TxRow, BlocksGoal, TxsGoal,
                      HasTx, AllTxs, Current
  <2>2. QED
    BY <1>2, <2>1 DEF TablesInv, ConnectedOnce, RowsQuotable
<1>5. QED
  BY <1>3, <1>4

\* Every step keeps TablesInv.
LEMMA TablesKept == ASSUME TypeInv, TablesInv, [Next]_vars PROVE TablesInv'
<1>1. PICK H : History(H) /\ Carried(H) /\ TablesShow(H[0])
  BY DEF TablesInv
<1>2. RivalFree(Connected)
  <2>1. Len(Pending) \in Nat
    BY PendingFirst DEF TypeInv, TypeOK
  <2>2. QED
    BY <1>1, <2>1 DEF History
<1>3. ASSUME NEW b \in Blocks, SessionNewHead(b) PROVE TablesInv'
  <2>1. Connected' = Connected \cup {b} /\ ConnectedOnce'
    BY <1>3, HeadConnects DEF TablesInv
  <2>2. RivalFree(Connected')
    BY <1>2, <1>3, <2>1 DEF RivalFree, SessionNewHead
  <2>3. Connected' = Apply(Connected, <<"head", b>>)
    BY <2>1 DEF Apply
  <2>4. Post("head", b) /\ UNCHANGED <<blocks, txs, stale>>
    BY <1>3 DEF SessionNewHead, dbVars
  <2>5. \E G : History(G)' /\ Carried(G)' /\ TablesShow(G[0])'
    BY <1>1, <2>2, <2>3, <2>4, HistoryPosted
  <2>6. QED
    BY <2>1, <2>4, <2>5 DEF TablesInv, RowsQuotable
<1>4. ASSUME NEW c \in Chains, SessionRollback(c) PROVE TablesInv'
  <2> DEFINE b == connected[c][Len(connected[c])]
  <2>1. Connected' = Connected \ {b} /\ b \in Connected /\ ConnectedOnce'
    BY <1>4, RollbackDisconnects DEF TablesInv
  <2>2. Post("rollback", b) /\ UNCHANGED <<blocks, txs, stale>>
    BY <1>4 DEF SessionRollback, dbVars
  <2> HIDE DEF b
  <2>3. RivalFree(Connected')
    BY <1>2, <2>1 DEF RivalFree
  <2>4. Connected' = Apply(Connected, <<"rollback", b>>)
    BY <2>1 DEF Apply
  <2>5. \E G : History(G)' /\ Carried(G)' /\ TablesShow(G[0])'
    BY <1>1, <2>1, <2>2, <2>3, <2>4, HistoryPosted
  <2>6. QED
    BY <2>1, <2>2, <2>5 DEF TablesInv, RowsQuotable
<1>5. ASSUME NEW b \in Blocks, NEW point \in {"tail", "consensus"}, SessionPoint(point, b) PROVE TablesInv'
  <2>1. Post(point, b) /\ UNCHANGED <<blocks, txs, stale, connected>>
    BY <1>5 DEF SessionPoint, dbVars
  <2>2. Connected' = Connected /\ ConnectedOnce'
    BY <2>1 DEF Connected, ConnectedOnce, TablesInv
  <2>3. Connected' = Apply(Connected, <<point, b>>)
    BY <2>2 DEF Apply
  <2>4. \E G : History(G)' /\ Carried(G)' /\ TablesShow(G[0])'
    <3>1. RivalFree(Connected') /\ point # "rollback"
      BY <1>2, <2>2 DEF RivalFree
    <3>2. QED
      BY <1>1, <2>1, <2>3, <3>1, HistoryPosted
  <2>5. QED
    BY <2>1, <2>2, <2>4 DEF TablesInv, RowsQuotable
<1>6. CASE PopAlerts
  <2>1. Pending' = Pending /\ UNCHANGED <<connected, blocks, txs, stale>>
    BY <1>6, PendingPop DEF PopAlerts, TypeInv, TypeOK, dbVars, sessionVars
  <2>2. step = 0 /\ step' = 0
    BY <1>6 DEF PopAlerts, Pop, TypeInv
  <2>3. QED
    BY <2>1, <2>2, TablesStay
<1>7. CASE InsertTx \/ InsertBlock \/ DeleteTx
  <2>1. Pending' = Pending /\ UNCHANGED connected
    BY <1>7 DEF InsertTx, InsertBlock, DeleteTx, Continue, Pending, sessionVars
  <2>2. History(H)' /\ Carried(H)'
    BY <1>1, <2>1, HistoryStays
  <2>3. TablesShow(H[0])' /\ RowsQuotable'
    BY <1>1, <1>7, StatementShows DEF TablesInv
  <2>4. QED
    BY <2>1, <2>2, <2>3 DEF TablesInv, ConnectedOnce
<1>8. CASE UpdateHead \/ HandleNewTail \/ HandleNewConsensusPoint \/ DeleteBlock
  <2> SUFFICES ASSUME NEW T, T = Apply(H[0], Head(batch)) PROVE TablesInv'
    OBVIOUS
  <2>1. batch # <<>> /\ Handled /\ UNCHANGED connected /\ TablesShow(T)' /\ RowsQuotable'
    BY <1>1, <1>8, LastStatementShows DEF TablesInv
  <2>2. \E G : History(G)' /\ Carried(G)' /\ TablesShow(G[0])'
    BY <1>1, <2>1, HistoryHandled
  <2>3. QED
    BY <2>1, <2>2 DEF TablesInv, ConnectedOnce
<1>9. ASSUME NEW w \in Workers, Requests(w) \/ RequestSteps(w) PROVE TablesInv'
  <2>1. UNCHANGED <<blocks, txs, loopVars, stale, connected>>
    BY <1>9 DEF Requests, RequestSteps, FollowChain, UnfollowChain, InsertCommunity, InsertMember,
                DeleteCommunity, DeleteMembers, dbVars, sessionVars
  <2>2. QED
    BY <2>1, TablesStay DEF loopVars, Pending
<1>10. CASE Crash
  <2>1. UNCHANGED <<blocks, txs, connected>>
    BY <1>10 DEF Crash, dbVars, sessionVars
  <2>2. \E G : History(G)' /\ Carried(G)' /\ TablesShow(G[0])'
    BY <1>1, <1>10, CrashShows
  <2>3. QED
    BY <2>1, <2>2 DEF TablesInv, ConnectedOnce, RowsQuotable
<1>11. CASE UNCHANGED vars
  BY <1>11, TablesStay DEF vars, dbVars, sessionVars, loopVars, Pending
<1>12. QED
  BY <1>3, <1>4, <1>5, <1>6, <1>7, <1>8, <1>9, <1>10, <1>11, ChainStoreAssumption
  DEF Next, SessionSteps, MainSteps

\* The tables start empty, as the session does.
LEMMA TablesInit == ASSUME Init PROVE TablesInv
<1>1. Len(Pending) = 0 /\ blocks = {} /\ txs = {} /\ step = 0
  BY DEF Init, LoopInit, Pending
<1>2. \A c \in Chains : connected[c] = <<>>
  BY DEF Init
<1>3. Connected = {} /\ ConnectedOnce /\ RowsQuotable
  BY <1>1, <1>2 DEF Connected, ConnectedOnce, RowsQuotable
<1> SUFFICES ASSUME NEW H, H = [i \in {0} |-> {}] PROVE History(H) /\ Carried(H) /\ TablesShow(H[0])
  BY <1>3 DEF TablesInv
<1>4. H[0] = {}
  OBVIOUS
<1>5. History(H)
  BY <1>1, <1>3, <1>4 DEF History, RivalFree
<1>6. Carried(H)
  BY <1>1, <1>3, <1>4 DEF Carried
<1>7. BlocksGoal({}) = {} /\ TxsGoal({}) = {}
  BY <1>1 DEF BlocksGoal, TxsGoal, At
<1>8. QED
  BY <1>1, <1>4, <1>5, <1>6, <1>7 DEF TablesShow, BlockRow, TxRow, HasTx

\* TablesInv holds in every reachable state.
LEMMA TablesInvariant == Spec => [](TypeInv /\ TablesInv)
<1>1. Init => TablesInv
  BY TablesInit
<1>2. TypeInv /\ TablesInv /\ [Next]_vars => TablesInv'
  BY TablesKept
<1>3. QED
  BY <1>1, <1>2, TypeInvariant, PTL DEF Spec

\* Once the alerts are handled, Blocks and Txs hold exactly the best chains of the
\* session whose name can be quoted, after any number of reorganisations that let
\* blocks with the same transaction take turns, and any number of crashes, but for
\* the rows whose last alert a crash lost.
THEOREM TablesMirror == Spec => []TablesMirrorChain
<1>1. TypeInv /\ TablesInv => TablesMirrorChain
  <2> SUFFICES ASSUME TypeInv, TablesInv, Drained PROVE TablesMirrorChain
    BY DEF TablesMirrorChain
  <2>1. PICK H : History(H) /\ TablesShow(H[0])
    BY DEF TablesInv
  <2>2. Len(Pending) = 0 /\ step = 0
    BY PendingFirst DEF TypeInv, TypeOK, Drained
  <2>3. H[0] = Connected
    BY <2>1, <2>2 DEF History
  <2>4. BlocksGoal(Connected) = Connected /\ TxsGoal(Connected) = Connected
    BY <2>2 DEF BlocksGoal, TxsGoal, At
  <2>5. \A b \in Blocks : <<"block", b>> \notin stale => (b \in blocks <=> b \in Shown)
    BY <2>1, <2>3, <2>4 DEF TablesShow, BlockFresh, BlockRow, Shown
  <2>6. \A t \in AllTxs : <<"tx", t>> \notin stale => (t \in txs <=> \E b \in Shown : TxOf[b] = t)
    BY <2>1, <2>3, <2>4 DEF TablesShow, TxFresh, TxRow, HasTx, Shown
  <2>7. QED
    BY <2>5, <2>6 DEF TablesMirrorChain, AllTxs
<1>2. QED
  BY <1>1, TablesInvariant, PTL

\* A block in the table has its transaction there, except between the two DELETEs
\* that take the two away, and unless a crash lost the last alert about one of them.
THEOREM BlocksHaveTxs == Spec => []BlockHasTx
<1>1. TypeInv /\ TablesInv => BlockHasTx
  <2> SUFFICES ASSUME TypeInv, TablesInv, NEW b \in blocks, TxOf[b] # NoTx,
                      <<"block", b>> \notin stale, <<"tx", TxOf[b]>> \notin stale,
                      ~ (At("rollback", 1) /\ Current = b)
               PROVE  TxOf[b] \in txs
    BY DEF BlockHasTx
  <2>1. PICK H : History(H) /\ TablesShow(H[0])
    BY DEF TablesInv
  <2>2. b \in Blocks /\ TxOf[b] \in AllTxs
    BY DEF TypeInv, TypeOK, AllTxs
  <2>3. BlockRow(b, BlocksGoal(H[0])) /\ TxRow(TxOf[b], TxsGoal(H[0]))
    BY <2>1, <2>2 DEF TablesShow, BlockFresh, TxFresh
  <2>4. b \in BlocksGoal(H[0]) /\ ChainOf[b] \notin Unquotable
    BY <2>3 DEF BlockRow
  <2>5. b \in TxsGoal(H[0])
    <3>1. CASE step = 0
      BY <2>4, <3>1 DEF BlocksGoal, TxsGoal, At
    <3>2. CASE At("head", 1) \/ At("head", 2)
      BY <2>4, <3>2 DEF BlocksGoal, TxsGoal, At, Apply
    <3>3. CASE At("rollback", 1)
      BY <2>4, <3>3 DEF BlocksGoal, TxsGoal, At, Apply, Current
    <3>4. QED
      BY <2>1, <3>1, <3>2, <3>3 DEF TablesShow
  <2>6. QED
    BY <2>3, <2>4, <2>5 DEF TxRow, HasTx
<1>2. QED
  BY <1>1, TablesInvariant, PTL
===============================================================================
