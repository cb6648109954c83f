------------------------------ MODULE TauHandler -------------------------------
(***************************************************************************)
(* The methods of tau_handler as sequences of calls into the objects main  *)
(* has given it: the libTAU session ses and the database tau_sql.  Other   *)
(* threads run between two calls.                                          *)
(***************************************************************************)
EXTENDS RpcMethods, Integers

Ses(call) == <<"ses", call>>

Db(call) == <<"tau_sql", call>>

\* Nonce from the account; the fee is the session's median if a negative one is given.
submit_transaction(ownFee) ==
  IF ownFee
    THEN <<Ses("get_account_info"), Ses("get_session_time"), Ses("submit_transaction")>>
    ELSE <<Ses("get_account_info"), Ses("get_median_tx_free"),
           Ses("get_session_time"), Ses("submit_transaction")>>

\* The fee is asked for and not used: a note has none.
submit_note_transaction(ownFee) ==
  IF ownFee
    THEN <<Ses("get_session_time"), Ses("submit_transaction")>>
    ELSE <<Ses("get_median_tx_free"), Ses("get_session_time"), Ses("submit_transaction")>>

\* Mutant: the session is asked for the account first.
AccountFirst == <<Ses("request_chain_state"), Ses("get_account_info"), Db("db_get_chain_state")>>

get_account_info == <<Ses("request_chain_state"), Db("db_get_chain_state"), Ses("get_account_info")>>

get_chain_state == <<Ses("request_chain_state"), Db("db_get_chain_state")>>

get_tx_state == <<Db("db_get_tx_state")>>

add_new_message == <<Ses("get_session_time"), Ses("add_new_message")>>

add_new_friend == <<Ses("add_new_friend"), Db("db_add_new_friend")>>

delete_friend == <<Ses("delete_friend"), Db("db_delete_friend")>>

\* The time is read once for each peer; here there is one.
create_new_community == <<Ses("get_session_time"), Ses("create_new_community"), Db("db_follow_chain")>>

follow_chain == <<Ses("follow_chain"), Db("db_follow_chain")>>

unfollow_chain == <<Ses("unfollow_chain"), Db("db_unfollow_chain")>>

\* Methods that make the one session call they are named after: about the session
\* itself, about data of peers, and about a chain.
SessionControl == {"session-stats", "stop-io-service", "restart-io-service", "crash-test",
                   "get-all-chains", "set-loop-time-interval"}

PeerData == {"publish-data", "subscribe-from-peer", "send-to-peer", "create-chain-id"}

ChainControl == {"start-chain", "put-all-chain-data", "get-access-list", "get-ban-list", "get-mining-time"}

AddPeers == {"add-new-bs-peers"}

RequestData == {"request-chain-data"}

ChainQueries == {"get-median-tx-fee", "get-block-by-number"}

SendData == {"send-data"}

HashQueries == {"get-block-by-hash", "is-tx-in-fee-pool"}

OneCall == SessionControl \cup PeerData \cup ChainControl \cup AddPeers \cup RequestData
           \cup ChainQueries \cup SendData \cup HashQueries

\* udp-analysis is commented out, the two about friend information are empty.
Calls(method, ownFee) ==
  CASE method \in {"udp-analysis", "get-friend-info", "update-friend-info"} -> <<>>
    [] method \in OneCall                                  -> <<Ses(method)>>
    [] method = "submit-transaction"                       -> submit_transaction(ownFee)
    [] method = "submit-note-transaction"                  -> submit_note_transaction(ownFee)
    [] method = "get-account-info"                         -> get_account_info
    [] method = "get-chain-state"                          -> get_chain_state
    [] method = "get-tx-state"                             -> get_tx_state
    [] method = "add-new-message"                          -> add_new_message
    [] method = "add-new-friend"                           -> add_new_friend
    [] method = "delete-friend"                            -> delete_friend
    [] method = "create-new-community"                     -> create_new_community
    [] method \in {"follow-chain", "follow-chain-mobile"}  -> follow_chain
    [] method \in {"unfollow-chain", "unfollow-chain-mobile"} -> unfollow_chain

\* The number of bytes HashQueries ask for, given the number of characters of the
\* hash: (start - end + 1) / 2, rounded to zero.
HashBytes(len) == IF len < 2 THEN (1 - len) \div 2 ELSE 0 - ((len - 1) \div 2)

\* What a request does to the process before its first call: an argument that is
\* not there is a null pointer, a negative size an exception nobody catches.
Fatal(request) ==
  \/ ~ request.complete /\ Used(request.method) # {}
  \/ request.method \in HashQueries /\ HashBytes(request.hashLen) < 0
===============================================================================
