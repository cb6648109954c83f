------------------------------ MODULE ChainStore ------------------------------
(***************************************************************************)
(* How the daemon keeps its own record of blockchain communities.          *)
(*                                                                         *)
(* Web server workers run the follow and unfollow requests of tau_handler: *)
(* first a call into the libTAU session, then the SQL statements of        *)
(* db_follow_chain or db_unfollow_chain.  Meanwhile the main thread pops   *)
(* the session's alerts and alert_handler writes blocks, transactions and  *)
(* chain points to the same tables.  A statement is atomic (autocommit),   *)
(* a request or an alert is not: one action is one statement.  The process *)
(* may end between any two of them and be started again by                 *)
(* python_monitor.py: the tables and the session's own store survive,      *)
(* running requests and alerts do not.                                     *)
(*                                                                         *)
(* A community row is keyed by the text of the chain id.  follow-chain,    *)
(* create-new-community and unfollow-chain use the full hexadecimal text,  *)
(* the mobile requests and everything that starts from a block use the     *)
(* text of bytes_chain_id_to_string; the two differ for every chain with   *)
(* a name, so a key is a pair of the form and the chain.  Keys are pasted  *)
(* into the SQL text between quotation marks: the second form of a chain   *)
(* whose name has such a mark makes every statement that names it fail.    *)
(***************************************************************************)
EXTENDS AlertLoop

CONSTANTS
  Workers,          \* web server threads that run requests
  Chains,           \* chain ids (bytes)
  Peers,            \* public keys a request may list
  Blocks,           \* blocks the session may connect
  ChainOf,          \* blk.chain_id()
  TxOf,             \* hash of blk.tx(), or NoTx when its chain id is empty
  NoTx, NoBlock,
  Forms,            \* forms of the chain id the clients use
  Unquotable,       \* chains with a quotation mark in their name
  Tracked,          \* points besides the head that the session announces
  IsBannedRequired  \* the configured schema has isBanned NOT NULL, no default

ASSUME ChainStoreAssumption ==
  /\ ChainOf \in [Blocks -> Chains]
  /\ NoBlock \notin Blocks
  \* A transaction names its chain.
  /\ \A b, d \in Blocks : TxOf[b] = TxOf[d] /\ TxOf[b] # NoTx => ChainOf[b] = ChainOf[d]
  /\ Forms \subseteq {"hex", "str"}
  /\ Unquotable \subseteq Chains
  /\ Tracked \subseteq {"tail", "consensus"}
  /\ IsBannedRequired \in BOOLEAN

VARIABLES
  communities,  \* rows of Communities: key -> its three chain points
  members,      \* rows of Members: pairs of key and peer
  blocks,       \* rows of Blocks
  txs,          \* rows of Txs
  rpc,          \* the request each worker is running
  followed,     \* session: chains it follows
  connected,    \* session: its best chain, per chain id
  announced,    \* session: last block announced per kind of alert and chain
  alone,        \* history: per chain, the key of the last request if it ran alone
  stale         \* history: what a lost alert would have written

dbVars == <<communities, members, blocks, txs>>
sessionVars == <<followed, connected, announced>>
vars == <<dbVars, rpc, alone, loopVars, stale, sessionVars>>

Idle == [op |-> "idle"]

NoKey == <<>>

\* SQL text that names the community parses.
Quotable(key) == key[1] = "hex" \/ key[2] \notin Unquotable

Busy(c) == \E w \in Workers : rpc[w] # Idle /\ rpc[w].key[2] = c

EmptyRow == [head |-> NoBlock, tail |-> NoBlock, consensus |-> NoBlock]

Points == {"head", "tail", "consensus"}

Init ==
  /\ communities = <<>>
  /\ members = {}
  /\ blocks = {}
  /\ txs = {}
  /\ rpc = [w \in Workers |-> Idle]
  /\ LoopInit
  /\ followed = {}
  /\ connected = [c \in Chains |-> <<>>]
  /\ announced = [p \in Points |-> [c \in Chains |-> NoBlock]]
  /\ alone = [c \in Chains |-> NoKey]
  /\ stale = {}

-------------------------------------------------------------------------------
(* Requests: tau_handler on a web server worker *)

\* A request begins; it is no longer alone once another for the chain begins.
Start(w, c, request) ==
  /\ rpc[w] = Idle
  /\ rpc' = [rpc EXCEPT ![w] = request]
  /\ alone' = [alone EXCEPT ![c] = IF Busy(c) THEN NoKey ELSE request.key]

\* follow-chain, follow-chain-mobile and create-new-community: the session
\* call comes first, whatever happens to the database afterwards.
FollowChain(w, c, form, ps) ==
  /\ Start(w, c, [op |-> "insert_community", key |-> <<form, c>>, peers |-> ps])
  /\ followed' = followed \cup {c}
  /\ UNCHANGED <<dbVars, loopVars, stale, connected, announced>>

\* The configured schema and the text of the key let a row be inserted.
Storable(key) == Quotable(key) /\ ~ IsBannedRequired

\* The INSERT names neither isBanned nor the hashes: it fails on a duplicate
\* key, on the NOT NULL column if the schema has one, and on text that does not
\* parse.  Then the members are left out.
InsertCommunity(w) ==
  LET key == rpc[w].key
  IN  /\ rpc[w].op = "insert_community"
      /\ IF key \in DOMAIN communities \/ ~ Storable(key)
           THEN /\ rpc' = [rpc EXCEPT ![w] = Idle]
                /\ UNCHANGED communities
           ELSE /\ communities' = [k \in DOMAIN communities \cup {key} |->
                                     IF k = key THEN EmptyRow ELSE communities[k]]
                /\ rpc' = [rpc EXCEPT ![w] = IF rpc[w].peers = {} THEN Idle
                                             ELSE [rpc[w] EXCEPT !.op = "insert_members"]]
      /\ UNCHANGED <<members, blocks, txs, alone, loopVars, stale, sessionVars>>

\* One INSERT per peer; a duplicate is reported and skipped.
InsertMember(w, p) ==
  /\ rpc[w].op = "insert_members"
  /\ p \in rpc[w].peers
  /\ members' = members \cup {<<rpc[w].key, p>>}
  /\ rpc' = [rpc EXCEPT ![w] = IF rpc[w].peers = {p} THEN Idle
                               ELSE [rpc[w] EXCEPT !.peers = @ \ {p}]]
  /\ UNCHANGED <<communities, blocks, txs, alone, loopVars, stale, sessionVars>>

\* unfollow-chain and unfollow-chain-mobile.
UnfollowChain(w, c, form) ==
  /\ Start(w, c, [op |-> "delete_community", key |-> <<form, c>>])
  /\ followed' = followed \ {c}
  /\ UNCHANGED <<dbVars, loopVars, stale, connected, announced>>

\* Mutant: the row of the community is kept.
DeleteCommunityKeepsRow(w) ==
  /\ rpc[w].op = "delete_community"
  /\ rpc' = [rpc EXCEPT ![w].op = "delete_members"]
  /\ UNCHANGED <<dbVars, alone, loopVars, stale, sessionVars>>

\* If the first DELETE fails the second is left out.
DeleteCommunity(w) ==
  /\ rpc[w].op = "delete_community"
  /\ IF Quotable(rpc[w].key)
       THEN /\ communities' = [k \in DOMAIN communities \ {rpc[w].key} |-> communities[k]]
            /\ rpc' = [rpc EXCEPT ![w] = [@ EXCEPT !.op = "delete_members"]]
       ELSE /\ rpc' = [rpc EXCEPT ![w] = Idle]
            /\ UNCHANGED communities
  /\ UNCHANGED <<members, blocks, txs, alone, loopVars, stale, sessionVars>>

\* Mutant: the rows of the members are kept.
DeleteMembersKeepsRows(w) ==
  /\ rpc[w].op = "delete_members"
  /\ rpc' = [rpc EXCEPT ![w] = Idle]
  /\ UNCHANGED <<dbVars, alone, loopVars, stale, sessionVars>>

DeleteMembers(w) ==
  /\ rpc[w].op = "delete_members"
  /\ members' = {m \in members : m[1] # rpc[w].key}
  /\ rpc' = [rpc EXCEPT ![w] = Idle]
  /\ UNCHANGED <<communities, blocks, txs, alone, loopVars, stale, sessionVars>>

-------------------------------------------------------------------------------
(* The libTAU session, as far as its alerts show it *)

Connected == UNION {{connected[c][i] : i \in DOMAIN connected[c]} : c \in Chains}

\* A transaction is in at most one block of the best chain.
SessionNewHead(b) ==
  /\ ChainOf[b] \in followed
  /\ b \notin Connected
  /\ TxOf[b] # NoTx => \A d \in Connected : TxOf[d] # TxOf[b]
  /\ connected' = [connected EXCEPT ![ChainOf[b]] = Append(@, b)]
  /\ announced' = [announced EXCEPT !["head"][ChainOf[b]] = b]
  /\ Post("head", b)
  /\ UNCHANGED <<dbVars, rpc, alone, stale, followed>>

SessionRollback(c) ==
  /\ c \in followed
  /\ connected[c] # <<>>
  /\ connected' = [connected EXCEPT ![c] = SubSeq(@, 1, Len(@) - 1)]
  /\ Post("rollback", connected[c][Len(connected[c])])
  /\ UNCHANGED <<dbVars, rpc, alone, stale, followed, announced>>

\* The tail or the consensus point of the chain moves to a connected block.
SessionPoint(point, b) ==
  /\ b \in Connected
  /\ ChainOf[b] \in followed
  /\ announced[point][ChainOf[b]] # b
  /\ announced' = [announced EXCEPT ![point][ChainOf[b]] = b]
  /\ Post(point, b)
  /\ UNCHANGED <<dbVars, rpc, alone, stale, followed, connected>>

-------------------------------------------------------------------------------
(* The main thread: the alert loop and alert_handler *)

\* What the handler of an alert writes: a point of the chain, or rows of the block.
Touches(alert) ==
  (IF alert[1] \in Points THEN {<<alert[1], ChainOf[alert[2]]>>} ELSE {}) \cup
  (IF alert[1] \in {"head", "rollback"} THEN {<<"block", alert[2]>>, <<"tx", TxOf[alert[2]]>>} ELSE {})

\* The handler of the first alert returns, all it writes is up to date.
Handled ==
  /\ Return
  /\ stale' = stale \ Touches(Head(batch))

PopAlerts ==
  /\ Pop
  /\ UNCHANGED <<dbVars, rpc, alone, stale, sessionVars>>

\* Mutant: a transaction without chain id is stored.
InsertAnyTx ==
  /\ At("head", 0)
  /\ txs' = txs \cup {TxOf[Current]}
  /\ Continue
  /\ UNCHANGED <<communities, blocks, members, rpc, alone, stale, sessionVars>>

\* The INSERTs for the current alert name its chain in the string form.
CurrentQuotable == Quotable(<<"str", ChainOf[Current]>>)

\* db_add_new_transaction: a transaction without chain id is not stored, and an
\* INSERT of a duplicate or with the name of an unquotable chain fails; its
\* result is ignored.
InsertTx ==
  /\ At("head", 0)
  /\ txs' = IF TxOf[Current] = NoTx \/ ~ CurrentQuotable THEN txs ELSE txs \cup {TxOf[Current]}
  /\ Continue
  /\ UNCHANGED <<communities, blocks, members, rpc, alone, stale, sessionVars>>

\* Mutant: only blocks of chains in Communities are stored.
InsertBlockOfCommunity ==
  /\ At("head", 1)
  /\ blocks' = IF <<"str", ChainOf[Current]>> \in DOMAIN communities THEN blocks \cup {Current} ELSE blocks
  /\ Continue
  /\ UNCHANGED <<communities, txs, members, rpc, alone, stale, sessionVars>>

\* The rest of db_add_new_block, whose result is ignored too.
InsertBlock ==
  /\ At("head", 1)
  /\ blocks' = IF CurrentQuotable THEN blocks \cup {Current} ELSE blocks
  /\ Continue
  /\ UNCHANGED <<communities, txs, members, rpc, alone, stale, sessionVars>>

\* db_update_community_status: type 0 writes headBlock, type 1 tailBlock, any
\* other type consensusBlock, in the row keyed by the string form, if any; an
\* unquotable chain has none and the statement fails.
Column(type) == IF type = 0 THEN "head" ELSE IF type = 1 THEN "tail" ELSE "consensus"

\* Mutant: a point that the row already has is kept.
UpdateStatusOnce(type) ==
  LET key == <<"str", ChainOf[Current]>>
  IN  communities' = [k \in DOMAIN communities |->
                        IF k = key /\ communities[k][Column(type)] = NoBlock
                          THEN [communities[k] EXCEPT ![Column(type)] = Current]
                        ELSE communities[k]]

UpdateStatus(type) ==
  LET key == <<"str", ChainOf[Current]>>
  IN  communities' = [k \in DOMAIN communities |->
                        IF k = key THEN [communities[k] EXCEPT ![Column(type)] = Current]
                        ELSE communities[k]]

UpdateHead ==
  /\ At("head", 2)
  /\ UpdateStatus(0)
  /\ Handled
  /\ UNCHANGED <<blocks, txs, members, rpc, alone, sessionVars>>

HandleNewTail ==
  /\ At("tail", 0)
  /\ UpdateStatus(2)
  /\ Handled
  /\ UNCHANGED <<blocks, txs, members, rpc, alone, sessionVars>>

HandleNewConsensusPoint ==
  /\ At("consensus", 0)
  /\ UpdateStatus(1)
  /\ Handled
  /\ UNCHANGED <<blocks, txs, members, rpc, alone, sessionVars>>

\* Mutant: a rollback keeps the transaction.
DeleteTxKeepsRow ==
  /\ At("rollback", 0)
  /\ Continue
  /\ UNCHANGED <<dbVars, rpc, alone, stale, sessionVars>>

\* alert_on_rollback_block: the transaction goes first, then the block.  Both are
\* named by their hashes, so these statements parse for every chain.
DeleteTx ==
  /\ At("rollback", 0)
  /\ txs' = txs \ {TxOf[Current]}
  /\ Continue
  /\ UNCHANGED <<communities, blocks, members, rpc, alone, stale, sessionVars>>

\* Mutant: a rollback keeps the block.
DeleteBlockKeepsRow ==
  /\ At("rollback", 1)
  /\ Handled
  /\ UNCHANGED <<dbVars, rpc, alone, sessionVars>>

DeleteBlock ==
  /\ At("rollback", 1)
  /\ blocks' = blocks \ {Current}
  /\ Handled
  /\ UNCHANGED <<communities, txs, members, rpc, alone, sessionVars>>

-------------------------------------------------------------------------------
(* The process *)

\* The process is killed, dies, or leaves main, and is started again on the same
\* files; requests are cut off between two statements, alerts are lost.
Crash ==
  /\ rpc' = [w \in Workers |-> Idle]
  /\ alone' = [c \in Chains |-> IF Busy(c) THEN NoKey ELSE alone[c]]
  /\ Forget
  /\ stale' = stale \cup UNION {Touches(Pending[i]) : i \in DOMAIN Pending}
  /\ UNCHANGED <<dbVars, sessionVars>>

-------------------------------------------------------------------------------
RequestSteps(w) ==
  \/ InsertCommunity(w)
  \/ \E p \in Peers : InsertMember(w, p)
  \/ DeleteCommunity(w)
  \/ DeleteMembers(w)

Requests(w) ==
  \/ \E c \in Chains, form \in Forms, ps \in SUBSET Peers : FollowChain(w, c, form, ps)
  \/ \E c \in Chains, form \in Forms : UnfollowChain(w, c, form)

SessionSteps ==
  \/ \E b \in Blocks : SessionNewHead(b)
  \/ \E c \in Chains : SessionRollback(c)
  \/ \E point \in Tracked, b \in Blocks : SessionPoint(point, b)

MainSteps ==
  \/ PopAlerts
  \/ InsertTx \/ InsertBlock \/ UpdateHead
  \/ HandleNewTail \/ HandleNewConsensusPoint
  \/ DeleteTx \/ DeleteBlock

Next ==
  \/ \E w \in Workers : Requests(w) \/ RequestSteps(w)
  \/ SessionSteps
  \/ MainSteps
  \/ Crash

Spec == Init /\ [][Next]_vars

\* The main loop waits at most 500 ms for the next alert and a request runs to
\* its end.
Fairness ==
  /\ WF_vars(MainSteps)
  /\ \A w \in Workers : WF_vars(RequestSteps(w))

FairSpec == Spec /\ Fairness

-------------------------------------------------------------------------------
(* Properties *)

Keys == {"hex", "str"} \X Chains

Row == [Points -> Blocks \cup {NoBlock}]

Ops == {"insert_community", "insert_members", "delete_community", "delete_members"}

\* Type invariant of the tables, the requests and the main loop.
TypeOK ==
  /\ DOMAIN communities \subseteq Keys
  /\ \A k \in DOMAIN communities : communities[k] \in Row
  /\ members \subseteq Keys \X Peers
  /\ blocks \subseteq Blocks
  /\ txs \subseteq {TxOf[b] : b \in Blocks} \ {NoTx}
  /\ \A w \in Workers : rpc[w] # Idle => rpc[w].op \in Ops /\ rpc[w].key \in Keys
  /\ alerts \in Seq((Points \cup {"rollback"}) \X Blocks)
  /\ batch \in Seq((Points \cup {"rollback"}) \X Blocks)
  /\ step \in 0 .. 2
  /\ followed \subseteq Chains
  /\ connected \in [Chains -> Seq(Blocks)]
  /\ announced \in [Points -> [Chains -> Blocks \cup {NoBlock}]]
  /\ alone \in [Chains -> (Forms \X Chains) \cup {NoKey}]
  /\ stale \subseteq UNION {Touches(alert) : alert \in (Points \cup {"rollback"}) \X Blocks}

\* What get-chain-state answers for a chain: the row of the string form.
ChainState(c, point) ==
  IF <<"str", c>> \in DOMAIN communities THEN communities[<<"str", c>>][point] ELSE NoBlock

\* The blocks that the tables should show.
Shown == {b \in Connected : ChainOf[b] \notin Unquotable}

\* Once the alerts are handled, Blocks and Txs hold exactly the best chains of the
\* session, of the chains whose name can be quoted: reorganisations that roll a
\* block back and connect another with the same transaction leave no stale row
\* and lose none.  A crash spoils only the rows of the alerts it loses, and each
\* only until the next alert about it.
TablesMirrorChain ==
  Drained =>
    /\ \A b \in Blocks : <<"block", b>> \notin stale => (b \in blocks <=> b \in Shown)
    /\ \A t \in {TxOf[b] : b \in Blocks} \ {NoTx} :
         <<"tx", t>> \notin stale => (t \in txs <=> \E b \in Shown : TxOf[b] = t)

\* A block that get-tx-state or the Blocks table can see has its transaction
\* there too, except while the main thread is between the two DELETEs of
\* db_delete_block, and unless the last alert about one of the two was lost.
BlockHasTx ==
  \A b \in blocks :
    \/ TxOf[b] \in txs \cup {NoTx}
    \/ At("rollback", 1) /\ Current = b
    \/ stale \cap {<<"block", b>>, <<"tx", TxOf[b]>>} # {}

\* get-chain-state reports as head the last announced head, or nothing if the
\* row is younger than that alert; never an older head, although rows come and
\* go under the main loop, unless a crash lost that alert.
HeadIsLatest ==
  Drained => \A c \in Chains :
    <<"head", c>> \notin stale => ChainState(c, "head") \in {NoBlock, announced["head"][c]}

\* get-chain-state reports as tail the last announced tail, in the column
\* tailBlock and under the label tailBlockNumber.
TailIsLatest ==
  Drained => \A c \in Chains :
    <<"tail", c>> \notin stale => ChainState(c, "tail") \in {NoBlock, announced["tail"][c]}

\* The last request about the chain ran to its end with no other one about the
\* chain at its side.
Settled(c) == ~ Busy(c) /\ alone[c] # NoKey

\* After such a request the chain has a row, under the key of the request,
\* exactly if the session follows it.
RowIffFollowed ==
  \A c \in Chains : Settled(c) => (alone[c] \in DOMAIN communities <=> c \in followed)

\* One request that runs alone to its end repairs what came before it: however
\* many earlier requests about the chain overlapped, used another form of the id
\* or were cut off by a crash between the session and the tables, the chain then
\* has a row exactly if the session follows it and a row can be stored.
LoneRequestSettlesRow ==
  \A c \in Chains :
    Settled(c) => (alone[c] \in DOMAIN communities <=> c \in followed /\ Storable(alone[c]))

\* The same request leaves no members without community under its key, although
\* a crash between the two DELETEs, or a follow that inserts its members after
\* them, does.
LoneRequestSettlesMembers ==
  \A c \in Chains :
    Settled(c) => \A m \in members : m[1] = alone[c] => alone[c] \in DOMAIN communities

\* Every block the session connects gets into the Blocks table, unless it is
\* rolled back before, the name of its chain cannot be quoted, or the process
\* ends before main has handled the alert.
EveryBlockStored ==
  \A b \in Blocks :
    ChainOf[b] \notin Unquotable =>
      (b \in Connected ~> (b \in blocks \/ b \notin Connected \/ <<"block", b>> \in stale))
===============================================================================
