----------------------------- MODULE ContactStore -----------------------------
(***************************************************************************)
(* How the daemon keeps its own record of friends and chat messages.       *)
(*                                                                         *)
(* add-new-friend and delete-friend call the libTAU session and then       *)
(* db_util; the main thread stores received messages and friends' last     *)
(* seen times from alerts.  The process may end at any moment and be       *)
(* started again by python_monitor.py: tables and session state survive,   *)
(* running requests and alerts do not.                                     *)
(*                                                                         *)
(* A friend's row is keyed by the hexadecimal text the client sent, an     *)
(* update by the lower-case text of aux::toHex, so a key is a pair of the  *)
(* spelling and the public key.                                            *)
(***************************************************************************)
EXTENDS AlertLoop, Integers, FiniteSets

CONSTANTS
  Workers,     \* web server threads that run requests
  Keys,        \* public keys of possible friends
  Spellings,   \* how clients spell a key: "lower", or "mixed" case
  Messages,    \* chat messages, by hash
  Unquotable,  \* messages whose payload has a quote that ends the SQL string
  MaxTime,     \* bound on last seen times
  MaxCrashes   \* bound on the number of times the process ends

ASSUME ContactStoreAssumption ==
  /\ Spellings \subseteq {"lower", "mixed"}
  /\ Unquotable \subseteq Messages
  /\ MaxTime \in Nat
  /\ MaxCrashes \in Nat

VARIABLES
  friendRows,   \* rows of Friends: spelled key -> lastSeenTime
  messageRows,  \* rows of ChatMessages
  logRows,      \* rows of ChatMsgLogs, all with status 1
  rpc,          \* the spelled key a worker is adding, or NoRequest
  friends,      \* session: current friends
  received,     \* session: messages it has posted
  lastSeen,     \* session: last time it has posted for a key
  crashes       \* number of times the process has ended

dbVars == <<friendRows, messageRows, logRows>>
sessionVars == <<friends, received, lastSeen>>
vars == <<dbVars, rpc, loopVars, sessionVars, crashes>>

NoRequest == <<"none", "none">>

Never == -1

Init ==
  /\ friendRows = <<>>
  /\ messageRows = {}
  /\ logRows = {}
  /\ rpc = [w \in Workers |-> NoRequest]
  /\ LoopInit
  /\ friends = {}
  /\ received = {}
  /\ lastSeen = [k \in Keys |-> Never]
  /\ crashes = 0

-------------------------------------------------------------------------------
(* Requests: tau_handler on a web server worker *)

\* add_new_friend, up to the session call.
AddNewFriend(w, spelling, k) ==
  /\ rpc[w] = NoRequest
  /\ friends' = friends \cup {k}
  /\ rpc' = [rpc EXCEPT ![w] = <<spelling, k>>]
  /\ UNCHANGED <<dbVars, loopVars, received, lastSeen, crashes>>

\* Mutant: the row is inserted whether or not a friend was named.
InsertAnyFriend(w) ==
  /\ friendRows' = [x \in DOMAIN friendRows \cup {rpc[w]} |->
                      IF x \in DOMAIN friendRows THEN friendRows[x] ELSE Never]
  /\ rpc' = [rpc EXCEPT ![w] = NoRequest]
  /\ UNCHANGED <<messageRows, logRows, loopVars, sessionVars, crashes>>

\* Mutant: the friend is not stored.
InsertNoFriend(w) ==
  /\ rpc[w] # NoRequest
  /\ rpc' = [rpc EXCEPT ![w] = NoRequest]
  /\ UNCHANGED <<dbVars, loopVars, sessionVars, crashes>>

\* db_add_new_friend: a new row starts with time -1, a duplicate fails.
InsertFriend(w) ==
  LET key == rpc[w]
  IN  /\ key # NoRequest
      /\ friendRows' = [x \in DOMAIN friendRows \cup {key} |->
                          IF x \in DOMAIN friendRows THEN friendRows[x] ELSE Never]
      /\ rpc' = [rpc EXCEPT ![w] = NoRequest]
      /\ UNCHANGED <<messageRows, logRows, loopVars, sessionVars, crashes>>

\* delete_friend: the session call, and db_delete_friend, which is empty.
DeleteFriend(k) ==
  /\ friends' = friends \ {k}
  /\ UNCHANGED <<dbVars, rpc, loopVars, received, lastSeen, crashes>>

-------------------------------------------------------------------------------
(* The libTAU session, as far as its alerts show it *)

\* A message arrives, possibly again.
SessionMessage(m) ==
  /\ received' = received \cup {m}
  /\ Post("message", m)
  /\ UNCHANGED <<dbVars, rpc, friends, lastSeen, crashes>>

SessionLastSeen(k) ==
  /\ k \in friends
  /\ lastSeen[k] < MaxTime
  /\ lastSeen' = [lastSeen EXCEPT ![k] = @ + 1]
  /\ Post("seen", <<k, lastSeen[k] + 1>>)
  /\ UNCHANGED <<dbVars, rpc, friends, received, crashes>>

\* A confirmation root or the progress of a synchronisation.
SessionStatus(m) ==
  /\ m \in received
  /\ Post("status", m)
  /\ UNCHANGED <<dbVars, rpc, sessionVars, crashes>>

-------------------------------------------------------------------------------
(* The main thread: the alert loop and alert_handler *)

PopAlerts ==
  /\ Pop
  /\ UNCHANGED <<dbVars, rpc, sessionVars, crashes>>

\* Mutant: the handler goes on after a failed INSERT.
InsertMessageIgnoresError ==
  /\ At("message", 0)
  /\ messageRows' = messageRows \cup ({Current} \ Unquotable)
  /\ Continue
  /\ UNCHANGED <<friendRows, logRows, rpc, sessionVars, crashes>>

\* First statement of db_add_new_message; if it fails the second is skipped.
InsertMessage ==
  /\ At("message", 0)
  /\ IF Current \in messageRows \cup Unquotable
       THEN UNCHANGED messageRows /\ Return
       ELSE messageRows' = messageRows \cup {Current} /\ Continue
  /\ UNCHANGED <<friendRows, logRows, rpc, sessionVars, crashes>>

\* Mutant: the log row is never written.
InsertNoLog ==
  /\ At("message", 1)
  /\ Return
  /\ UNCHANGED <<dbVars, rpc, sessionVars, crashes>>

InsertLog ==
  /\ At("message", 1)
  /\ logRows' = logRows \cup {Current}
  /\ Return
  /\ UNCHANGED <<friendRows, messageRows, rpc, sessionVars, crashes>>

\* db_update_friend_last_seen: the row keyed by the lower-case spelling, if any.
UpdateLastSeen ==
  /\ At("seen", 0)
  /\ friendRows' = [x \in DOMAIN friendRows |->
                      IF x = <<"lower", Current[1]>> THEN Current[2] ELSE friendRows[x]]
  /\ Return
  /\ UNCHANGED <<messageRows, logRows, rpc, sessionVars, crashes>>

\* db_update_message_status only writes to the log of the process.
UpdateMessageStatus ==
  /\ At("status", 0)
  /\ Return
  /\ UNCHANGED <<dbVars, rpc, sessionVars, crashes>>

-------------------------------------------------------------------------------
\* The process is killed, dies, or leaves main; python_monitor.py starts it
\* again on the same files.
Crash ==
  /\ crashes < MaxCrashes
  /\ crashes' = crashes + 1
  /\ rpc' = [w \in Workers |-> NoRequest]
  /\ Forget
  /\ UNCHANGED <<dbVars, sessionVars>>

MainSteps ==
  \/ PopAlerts
  \/ InsertMessage \/ InsertLog
  \/ UpdateLastSeen \/ UpdateMessageStatus

Next ==
  \/ \E w \in Workers, s \in Spellings, k \in Keys : AddNewFriend(w, s, k)
  \/ \E w \in Workers : InsertFriend(w)
  \/ \E k \in Keys : DeleteFriend(k) \/ SessionLastSeen(k)
  \/ \E m \in Messages : SessionMessage(m) \/ SessionStatus(m)
  \/ MainSteps
  \/ Crash

Spec == Init /\ [][Next]_vars

\* The main loop waits at most 500 ms for the next alert.
FairSpec == Spec /\ WF_vars(MainSteps)

-------------------------------------------------------------------------------
(* Properties *)

\* Type invariant of the tables, the requests and the main loop.
TypeOK ==
  /\ DOMAIN friendRows \subseteq Spellings \X Keys
  /\ \A x \in DOMAIN friendRows : friendRows[x] \in Never .. MaxTime
  /\ messageRows \subseteq Messages
  /\ logRows \subseteq Messages
  /\ rpc \in [Workers -> (Spellings \X Keys) \cup {NoRequest}]
  /\ step \in 0 .. 1
  /\ friends \subseteq Keys
  /\ received \subseteq Messages
  /\ lastSeen \in [Keys -> Never .. MaxTime]
  /\ crashes \in 0 .. MaxCrashes

\* Main is between the two INSERTs of db_add_new_message.
Logging(m) == At("message", 1) /\ Current = m

\* The log table never speaks of a message the message table does not have,
\* wherever the process is cut off and however often a message is delivered.
LogHasMessage == logRows \subseteq messageRows

\* A crash costs at most one log row: only the message whose INSERTs it cut in
\* two stays without one, since a second delivery fails at the first INSERT.
UnloggedBound ==
  Cardinality({m \in messageRows \ logRows : ~ Logging(m)}) <= crashes

\* Every friend of the session has a row, unless a request is about to insert
\* it or a crash cut that request off.
FriendHasRow ==
  crashes = 0 =>
    \A k \in friends : \E s \in Spellings :
      <<s, k>> \in DOMAIN friendRows \/ \E w \in Workers : rpc[w] = <<s, k>>

\* Once the alerts are handled, a row shows the last time the session posted or
\* none, if the row is younger or spelled otherwise; unless a crash lost alerts.
LastSeenIsLatest ==
  crashes = 0 /\ Drained =>
    \A x \in DOMAIN friendRows : friendRows[x] \in {Never, lastSeen[x[2]]}

\* Every message the session posts is stored, if its payload can be quoted and
\* the process keeps running.
EveryMessageStored ==
  \A m \in Messages \ Unquotable : m \in received ~> (m \in messageRows \/ crashes > 0)
===============================================================================
