------------------------------ MODULE RpcMethods -------------------------------
(***************************************************************************)
(* The methods of tau_handler and the arguments they look up.  A method    *)
(* looks all of them up first and uses them without asking whether they    *)
(* were found: a missing one is a null pointer.                            *)
(***************************************************************************)
EXTENDS Sequences

\* Methods that never look at their arguments.
Argless == {"udp-analysis", "session-stats", "stop-io-service", "restart-io-service", "crash-test",
            "get-all-chains", "get-friend-info", "update-friend-info"}

\* Methods about one chain and nothing else.
ChainOnly == {"unfollow-chain", "unfollow-chain-mobile", "start-chain", "put-all-chain-data",
              "get-access-list", "get-ban-list", "get-mining-time", "get-median-tx-fee", "get-chain-state"}

\* Methods that take a list of peers.
WithPeers == {"create-new-community", "follow-chain", "follow-chain-mobile", "add-new-bs-peers"}

Str(key) == <<key, "STRING">>

Num(key) == <<key, "PRIMITIVE">>

\* The table handlers: the calls of find_key of every other method, in order.
Lookups(method) ==
  CASE method \in Argless   -> <<>>
    [] method \in ChainOnly -> <<Str("chain_id")>>
    [] method \in WithPeers -> <<Str("chain_id"), <<"peers", "ARRAY">>>>
    [] method = "set-loop-time-interval" -> <<Num("time-interval")>>
    [] method \in {"add-new-friend", "delete-friend"} -> <<Str("friend")>>
    [] method = "add-new-message" -> <<Str("sender"), Str("receiver"), Str("payload")>>
    [] method = "publish-data" -> <<Str("key"), Str("value")>>
    [] method \in {"subscribe-from-peer", "send-to-peer"} -> <<Str("peer"), Str("data")>>
    [] method = "create-chain-id" -> <<Str("community_name")>>
    [] method = "is-tx-in-fee-pool" -> <<Str("chain_id"), Str("tx_hash")>>
    [] method = "request-chain-data" -> <<Str("chain_id"), Str("peer")>>
    [] method = "submit-note-transaction" ->
         <<Str("chain_id"), Str("sender"), Num("fee"), Str("payload")>>
    [] method = "submit-transaction" ->
         <<Str("chain_id"), Str("sender"), Str("receiver"), Num("amount"), Num("fee"), Str("payload")>>
    [] method = "get-account-info" -> <<Str("chain_id"), Str("pubkey")>>
    [] method = "get-block-by-number" -> <<Str("chain_id"), Num("number")>>
    [] method = "get-block-by-hash" -> <<Str("chain_id"), Str("block_hash")>>
    [] method = "get-tx-state" -> <<Str("tx_hash")>>
    [] method = "send-data" -> <<Str("receiver"), Str("payload"), Num("alpha"), Num("beta"),
                                 Num("invoke_limit"), Num("hit_limit")>>

Methods ==
  Argless \cup ChainOnly \cup WithPeers \cup
  {"set-loop-time-interval", "add-new-friend", "delete-friend", "add-new-message", "publish-data",
   "subscribe-from-peer", "send-to-peer", "create-chain-id", "is-tx-in-fee-pool", "request-chain-data",
   "submit-note-transaction", "submit-transaction", "get-account-info", "get-block-by-number",
   "get-block-by-hash", "get-tx-state", "send-data"}

\* The strings that a method ends with a zero before it reads them; the others are
\* read by their length.
Cut(method) ==
  {Lookups(method)[k][1] : k \in {i \in DOMAIN Lookups(method) : Lookups(method)[i][2] = "STRING"}} \
  (IF method = "send-data" THEN {} ELSE {"payload", "key", "value", "data"})

\* Methods that do so after their loop over the peers.
CutsLate == {"follow-chain", "follow-chain-mobile"}

\* The keys whose value is used; the payload of a transaction is fixed.
Used(method) ==
  {Lookups(method)[k][1] : k \in DOMAIN Lookups(method)} \
  (IF method \in {"submit-transaction", "submit-note-transaction"} THEN {"payload"} ELSE {})
===============================================================================
