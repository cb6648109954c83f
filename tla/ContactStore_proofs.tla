------------------------- MODULE ContactStore_proofs -------------------------
(***************************************************************************)
(* What a crash can and cannot do to the chat tables, and what the table   *)
(* of friends shows, for any messages, friends and workers, any order and  *)
(* number of deliveries and any number of crashes.                         *)
(***************************************************************************)
EXTENDS ContactStore, AlertLoop_proofs, FiniteSetTheorems

Unlogged == messageRows \ logRows

\* Between the two INSERTs the message has its row and no log row yet; at any
\* other moment only crashes can have left a message without log row.
ChatInv ==
  /\ logRows \subseteq messageRows
  /\ IsFiniteSet(messageRows)
  /\ crashes \in Nat
  /\ step \in {0, 1}
  /\ step = 1 => At("message", 1) /\ Current \in Unlogged
  /\ Cardinality(Unlogged) <= crashes + step

\* Only finitely many messages can lack a log row.
LEMMA UnloggedFinite ==
  ASSUME ChatInv PROVE IsFiniteSet(Unlogged) /\ Cardinality(Unlogged) \in Nat
<1>1. Unlogged \subseteq messageRows /\ IsFiniteSet(messageRows)
  BY DEF ChatInv, Unlogged
<1>2. QED
  BY <1>1, FS_Subset, FS_CardinalityType

\* Every step keeps ChatInv.
LEMMA ChatInvPreserved == ChatInv /\ [Next]_vars => ChatInv'
<1> SUFFICES ASSUME ChatInv, [Next]_vars PROVE ChatInv'
  OBVIOUS
<1>1. CASE UNCHANGED <<messageRows, logRows, step, batch, crashes>>
  BY <1>1 DEF ChatInv, Unlogged, At, Current
<1>2. CASE PopAlerts
  <2>1. step = 0
    BY <1>2 DEF PopAlerts, Pop, ChatInv, At
  <2>2. QED
    BY <1>2, <2>1 DEF PopAlerts, Pop, dbVars, ChatInv, Unlogged
<1>3. CASE InsertMessage
  <2>1. step = 0 /\ batch # <<>> /\ Head(batch)[1] = "message"
    BY <1>3 DEF InsertMessage, At
  <2>2. CASE Current \in messageRows \cup Unquotable
    BY <1>3, <2>1, <2>2 DEF InsertMessage, Return, ChatInv, Unlogged
  <2>3. CASE Current \notin messageRows \cup Unquotable
    <3>1. /\ messageRows' = messageRows \cup {Current}
          /\ step' = 1 /\ batch' = batch /\ logRows' = logRows /\ crashes' = crashes
      BY <1>3, <2>1, <2>3 DEF InsertMessage, Continue
    <3>2. Current' = Current
      BY <3>1 DEF Current
    <3>3. Current \notin Unlogged /\ Unlogged' = Unlogged \cup {Current}
      BY <2>3, <3>1 DEF Unlogged, ChatInv
    <3>4. Cardinality(Unlogged') = Cardinality(Unlogged) + 1
      BY <3>3, UnloggedFinite, FS_AddElement
    <3>5. Cardinality(Unlogged') <= crashes' + step'
      BY <2>1, <3>1, <3>4, UnloggedFinite DEF ChatInv
    <3>6. IsFiniteSet(messageRows')
      BY <3>1, FS_AddElement DEF ChatInv
    <3>7. At("message", 1)'
      BY <2>1, <3>1 DEF At
    <3>8. QED
      BY <3>1, <3>2, <3>3, <3>5, <3>6, <3>7 DEF ChatInv
  <2>4. QED
    BY <2>2, <2>3
<1>4. CASE InsertLog
  <2>1. step = 1 /\ Current \in Unlogged
    BY <1>4 DEF InsertLog, At, ChatInv
  <2>2. Unlogged' = Unlogged \ {Current}
    BY <1>4 DEF InsertLog, Unlogged
  <2>3. Cardinality(Unlogged') = Cardinality(Unlogged) - 1
    BY <2>1, <2>2, UnloggedFinite, FS_RemoveElement
  <2>4. QED
    BY <1>4, <2>1, <2>3, UnloggedFinite DEF InsertLog, Return, Unlogged, ChatInv
<1>5. CASE UpdateLastSeen \/ UpdateMessageStatus
  BY <1>5 DEF UpdateLastSeen, UpdateMessageStatus, At, Return, dbVars, ChatInv, Unlogged
<1>6. CASE Crash
  BY <1>6, UnloggedFinite DEF Crash, Forget, dbVars, ChatInv, Unlogged
<1>7. QED
  BY <1>1, <1>2, <1>3, <1>4, <1>5, <1>6
  DEF Next, vars, dbVars, loopVars, AddNewFriend, InsertFriend, DeleteFriend,
      SessionMessage, SessionLastSeen, SessionStatus, Post, MainSteps

\* The invariant holds in every reachable state.
THEOREM ChatInvariant == Spec => []ChatInv
<1>1. Init => ChatInv
  <2> SUFFICES ASSUME Init PROVE ChatInv
    OBVIOUS
  <2>1. Unlogged = {}
    BY DEF Init, Unlogged
  <2>2. QED
    BY <2>1, FS_EmptySet DEF Init, LoopInit, ChatInv
<1>2. QED
  BY <1>1, ChatInvPreserved, PTL DEF Spec

\* Wherever the process is cut off, ChatMsgLogs has no row without its message.
THEOREM LogsComplete == Spec => []LogHasMessage
<1>1. ChatInv => LogHasMessage
  BY DEF ChatInv, LogHasMessage
<1>2. QED
  BY <1>1, ChatInvariant, PTL

\* However often messages are delivered again, each crash costs at most one
\* log row.
THEOREM OneLogRowPerCrash == Spec => []UnloggedBound
<1> DEFINE Missing == {m \in messageRows \ logRows : ~ Logging(m)}
<1>1. ASSUME ChatInv PROVE UnloggedBound
  <2>1. CASE step = 1
    <3>1. Missing = Unlogged \ {Current} /\ Current \in Unlogged
      BY <1>1, <2>1 DEF ChatInv, Unlogged, Logging
    <3>2. Cardinality(Missing) = Cardinality(Unlogged) - 1
      BY <1>1, <3>1, UnloggedFinite, FS_RemoveElement
    <3>3. Cardinality(Missing) <= crashes
      BY <1>1, <2>1, <3>2, UnloggedFinite DEF ChatInv
    <3>4. QED
      BY <3>3 DEF UnloggedBound
  <2>2. CASE step = 0
    <3>1. Missing = Unlogged
      BY <2>2 DEF Unlogged, Logging, At
    <3>2. QED
      BY <1>1, <2>2, <3>1, UnloggedFinite DEF ChatInv, UnloggedBound
  <2>3. QED
    BY <1>1, <2>1, <2>2 DEF ChatInv
<1>2. QED
  BY <1>1, ChatInvariant, PTL

-------------------------------------------------------------------------------
(* Types *)

Contacts == {<<"seen", <<k, t>>>> : k \in Keys, t \in Never .. MaxTime}
Chats == {<<kind, m>> : kind \in {"message", "status"}, m \in Messages}

\* The type invariant, with the alerts that wait and where main is in a handler.
TypeInv ==
  /\ TypeOK
  /\ batch \in Seq(Contacts \cup Chats)
  /\ alerts \in Seq(Contacts \cup Chats)
  /\ step = 1 => At("message", 1)

\* The alert that main is handling, by its kind.
LEMMA CurrentTyped ==
  ASSUME TypeInv, batch # <<>>
  PROVE  /\ Head(batch)[1] \in {"message", "status"} => Current \in Messages
         /\ Head(batch)[1] = "seen" =>
              Current[1] \in Keys /\ Current[2] \in Never .. MaxTime
         /\ Tail(batch) \in Seq(Contacts \cup Chats)
<1>1. Head(batch) \in Contacts \cup Chats /\ Tail(batch) \in Seq(Contacts \cup Chats)
  BY HeadTailProperties DEF TypeInv
<1>2. QED
  BY <1>1 DEF Contacts, Chats, Current

\* Requests, and the rows they insert, keep their types.
LEMMA RequestsTyped ==
  ASSUME TypeInv,
         \/ \E w \in Workers, s \in Spellings, k \in Keys : AddNewFriend(w, s, k)
         \/ \E w \in Workers : InsertFriend(w)
         \/ \E k \in Keys : DeleteFriend(k)
  PROVE  TypeInv'
<1>1. CASE \E w \in Workers, s \in Spellings, k \in Keys : AddNewFriend(w, s, k)
  BY <1>1 DEF TypeInv, TypeOK, AddNewFriend, dbVars, loopVars, At
<1>2. CASE \E w \in Workers : InsertFriend(w)
  <2>1. PICK w \in Workers : InsertFriend(w)
    BY <1>2
  <2>2. rpc[w] \in Spellings \X Keys
    BY <2>1 DEF InsertFriend, TypeInv, TypeOK
  <2>3. /\ DOMAIN friendRows' \subseteq Spellings \X Keys
        /\ \A x \in DOMAIN friendRows' : friendRows'[x] \in Never .. MaxTime
    BY <2>1, <2>2, ContactStoreAssumption DEF InsertFriend, TypeInv, TypeOK, Never
  <2>4. rpc' \in [Workers -> (Spellings \X Keys) \cup {NoRequest}]
    BY <2>1 DEF InsertFriend, TypeInv, TypeOK
  <2>5. UNCHANGED <<messageRows, logRows, loopVars, sessionVars, crashes>>
    BY <2>1 DEF InsertFriend
  <2>6. QED
    BY <2>3, <2>4, <2>5 DEF TypeInv, TypeOK, loopVars, sessionVars, At
<1>3. CASE \E k \in Keys : DeleteFriend(k)
  BY <1>3 DEF TypeInv, TypeOK, DeleteFriend, dbVars, loopVars, At
<1>4. QED
  BY <1>1, <1>2, <1>3

\* What the session posts is of one of the kinds that main handles.
LEMMA SessionTyped ==
  ASSUME TypeInv,
         \/ \E k \in Keys : SessionLastSeen(k)
         \/ \E m \in Messages : SessionMessage(m) \/ SessionStatus(m)
  PROVE  TypeInv'
<1>1. PICK kind, subject : Post(kind, subject) /\ <<kind, subject>> \in Contacts \cup Chats
  <2>1. CASE \E k \in Keys : SessionLastSeen(k)
    <3>1. PICK k \in Keys : SessionLastSeen(k)
      BY <2>1
    <3>2. lastSeen[k] + 1 \in Never .. MaxTime
      BY <3>1, ContactStoreAssumption DEF SessionLastSeen, TypeInv, TypeOK, Never
    <3>3. QED
      BY <3>1, <3>2 DEF SessionLastSeen, Contacts
  <2>2. CASE \E m \in Messages : SessionMessage(m) \/ SessionStatus(m)
    BY <2>2 DEF SessionMessage, SessionStatus, Chats
  <2>3. QED
    BY <2>1, <2>2
<1>2. alerts' \in Seq(Contacts \cup Chats) /\ batch' = batch /\ step' = step
  BY <1>1, AppendProperties DEF Post, TypeInv
<1>3. received' \subseteq Messages /\ lastSeen' \in [Keys -> Never .. MaxTime]
  <2>1. CASE \E k \in Keys : SessionLastSeen(k)
    BY <2>1, ContactStoreAssumption DEF SessionLastSeen, TypeInv, TypeOK, Never
  <2>2. CASE \E m \in Messages : SessionMessage(m) \/ SessionStatus(m)
    BY <2>2 DEF SessionMessage, SessionStatus, sessionVars, TypeInv, TypeOK
  <2>3. QED
    BY <2>1, <2>2
<1>4. UNCHANGED <<dbVars, rpc, friends, crashes>>
  BY DEF SessionLastSeen, SessionMessage, SessionStatus, sessionVars
<1>5. QED
  BY <1>2, <1>3, <1>4 DEF TypeInv, TypeOK, dbVars, At

\* Main stores what the alerts carry.
LEMMA MainTyped == ASSUME TypeInv, MainSteps PROVE TypeInv'
<1>1. CASE PopAlerts
  <2>1. step = 0
    BY <1>1 DEF PopAlerts, Pop, TypeInv, TypeOK, At
  <2>2. TypeOK'
    BY <1>1, <2>1 DEF PopAlerts, Pop, TypeInv, TypeOK, dbVars, sessionVars
  <2>3. batch' = alerts /\ alerts' = <<>> /\ step' = 0
    BY <1>1, <2>1 DEF PopAlerts, Pop
  <2>4. QED
    BY <2>2, <2>3 DEF TypeInv
<1>2. CASE InsertMessage \/ InsertLog
  <2>1. batch # <<>> /\ Head(batch)[1] = "message"
    BY <1>2 DEF InsertMessage, InsertLog, At
  <2>2. Current \in Messages /\ Tail(batch) \in Seq(Contacts \cup Chats)
    BY <2>1, CurrentTyped
  <2>3. messageRows' \subseteq Messages /\ logRows' \subseteq Messages
    BY <1>2, <2>2 DEF InsertMessage, InsertLog, TypeInv, TypeOK
  <2>4. UNCHANGED <<friendRows, rpc, sessionVars, crashes, alerts>>
    BY <1>2 DEF InsertMessage, InsertLog, Return, Continue
  <2>5. \/ step' = 0 /\ batch' = Tail(batch)
        \/ step' = 1 /\ batch' = batch
    BY <1>2 DEF InsertMessage, InsertLog, Return, Continue, At
  <2>6. TypeOK'
    BY <2>3, <2>4, <2>5 DEF TypeInv, TypeOK, sessionVars
  <2>7. batch' \in Seq(Contacts \cup Chats) /\ (step' = 1 => At("message", 1)')
    BY <2>1, <2>2, <2>5 DEF TypeInv, At
  <2>8. QED
    BY <2>4, <2>6, <2>7 DEF TypeInv
<1>3. CASE UpdateLastSeen \/ UpdateMessageStatus
  <2>1. batch # <<>> /\ Head(batch)[1] \in {"seen", "status"}
    BY <1>3 DEF UpdateLastSeen, UpdateMessageStatus, At
  <2>2. /\ Head(batch)[1] = "seen" => Current[2] \in Never .. MaxTime
        /\ Tail(batch) \in Seq(Contacts \cup Chats)
    BY <2>1, CurrentTyped
  <2>3. /\ DOMAIN friendRows' \subseteq Spellings \X Keys
        /\ \A x \in DOMAIN friendRows' : friendRows'[x] \in Never .. MaxTime
    BY <1>3, <2>2 DEF UpdateLastSeen, UpdateMessageStatus, dbVars, TypeInv, TypeOK, At
  <2>4. /\ step' = 0 /\ batch' = Tail(batch)
        /\ UNCHANGED <<messageRows, logRows, rpc, sessionVars, crashes, alerts>>
    BY <1>3 DEF UpdateLastSeen, UpdateMessageStatus, Return, dbVars
  <2>5. TypeOK'
    BY <2>3, <2>4 DEF TypeInv, TypeOK, sessionVars
  <2>6. QED
    BY <2>2, <2>4, <2>5 DEF TypeInv
<1>4. QED
  BY <1>1, <1>2, <1>3 DEF MainSteps

\* The types hold in every reachable state.
LEMMA TypeInvariant == Spec => []TypeInv
<1>1. Init => TypeInv
  <2>1. ASSUME Init PROVE TypeInv
    <3>1. Never \in Never .. MaxTime /\ 0 \in 0 .. MaxCrashes /\ 0 \in 0 .. 1
      BY ContactStoreAssumption DEF Never
    <3>2. QED
      BY <2>1, <3>1 DEF Init, LoopInit, TypeInv, TypeOK
  <2>2. QED
    BY <2>1
<1>2. TypeInv /\ [Next]_vars => TypeInv'
  <2> SUFFICES ASSUME TypeInv, [Next]_vars PROVE TypeInv'
    OBVIOUS
  <2>1. CASE UNCHANGED vars
    BY <2>1 DEF vars, dbVars, loopVars, sessionVars, TypeInv, TypeOK, At
  <2>2. CASE Crash
    BY <2>2, ContactStoreAssumption DEF Crash, Forget, dbVars, sessionVars, TypeInv, TypeOK
  <2>3. QED
    BY <2>1, <2>2, RequestsTyped, SessionTyped, MainTyped DEF Next
<1>3. QED
  BY <1>1, <1>2, PTL DEF Spec

\* Tables, requests and loop keep their types.
THEOREM ContactTypes == Spec => []TypeOK
<1>1. TypeInv => TypeOK
  BY DEF TypeInv
<1>2. QED
  BY <1>1, TypeInvariant, PTL

-------------------------------------------------------------------------------
(* The table of friends *)

\* No request of a friend is lost on its way from the session to the table.
LEMMA FriendKept == ASSUME TypeInv, FriendHasRow, [Next]_vars PROVE FriendHasRow'
<1> DEFINE Has(k) == \E s \in Spellings :
             <<s, k>> \in DOMAIN friendRows \/ \E w \in Workers : rpc[w] = <<s, k>>
<1>1. CASE Crash
  BY <1>1 DEF Crash, FriendHasRow, TypeInv, TypeOK
<1>2. CASE /\ DOMAIN friendRows \subseteq DOMAIN friendRows'
           /\ friends' \subseteq friends /\ UNCHANGED <<rpc, crashes>>
  BY <1>2 DEF FriendHasRow
<1>3. ASSUME NEW w \in Workers, NEW s \in Spellings, NEW k \in Keys, AddNewFriend(w, s, k)
      PROVE  FriendHasRow'
  <2>1. rpc' \in [Workers -> (Spellings \X Keys) \cup {NoRequest}] /\ rpc'[w] = <<s, k>>
    BY <1>3 DEF AddNewFriend, TypeInv, TypeOK
  <2>2. \A v \in Workers : rpc[v] # NoRequest => rpc'[v] = rpc[v]
    BY <1>3 DEF AddNewFriend, TypeInv, TypeOK
  <2>3. \A t \in Spellings, i \in Keys : <<t, i>> # NoRequest
    BY ContactStoreAssumption DEF NoRequest
  <2>4. friends' = friends \cup {k} /\ UNCHANGED <<friendRows, crashes>> /\ friends \subseteq Keys
    BY <1>3 DEF AddNewFriend, dbVars, TypeInv, TypeOK
  <2>5. QED
    BY <2>1, <2>2, <2>3, <2>4 DEF FriendHasRow
<1>4. ASSUME NEW w \in Workers, InsertFriend(w)
      PROVE  FriendHasRow'
  <2>1. DOMAIN friendRows' = DOMAIN friendRows \cup {rpc[w]}
    BY <1>4 DEF InsertFriend
  <2>2. \A v \in Workers : v # w => rpc'[v] = rpc[v]
    BY <1>4 DEF InsertFriend, TypeInv, TypeOK
  <2>3. UNCHANGED <<friends, crashes>>
    BY <1>4 DEF InsertFriend, sessionVars
  <2>4. QED
    BY <2>1, <2>2, <2>3 DEF FriendHasRow
<1>5. CASE UpdateLastSeen
  BY <1>2, <1>5 DEF UpdateLastSeen, sessionVars
<1>6. CASE PopAlerts \/ InsertMessage \/ InsertLog \/ UpdateMessageStatus
  BY <1>2, <1>6 DEF PopAlerts, InsertMessage, InsertLog, UpdateMessageStatus, dbVars, sessionVars
<1>7. CASE \/ \E k \in Keys : DeleteFriend(k) \/ SessionLastSeen(k)
           \/ \E m \in Messages : SessionMessage(m) \/ SessionStatus(m)
  BY <1>2, <1>7 DEF DeleteFriend, SessionLastSeen, SessionMessage, SessionStatus, dbVars, sessionVars
<1>8. CASE UNCHANGED vars
  BY <1>2, <1>8 DEF vars, dbVars, sessionVars
<1>9. QED
  BY <1>1, <1>3, <1>4, <1>5, <1>6, <1>7, <1>8 DEF Next, MainSteps

\* As long as the process does not end, every friend of the session has its row
\* or a worker that is about to insert it, with any number of workers adding and
\* deleting friends at once.
THEOREM FriendsStored == Spec => []FriendHasRow
<1>1. Init => FriendHasRow
  BY DEF Init, FriendHasRow
<1>2. TypeInv /\ FriendHasRow /\ [Next]_vars => FriendHasRow'
  BY FriendKept
<1>3. QED
  BY <1>1, <1>2, TypeInvariant, PTL DEF Spec

\* Alert i of those that wait says that k was seen.
SeenAt(i, k) == Pending[i][1] = "seen" /\ Pending[i][2][1] = k

\* The last alert that waits about k carries the time of the session; without
\* one, the row has it.
Latest(k) ==
  \/ \E i \in 1 .. Len(Pending) :
       /\ SeenAt(i, k)
       /\ Pending[i][2][2] = lastSeen[k]
       /\ \A j \in 1 .. Len(Pending) : j > i => ~ SeenAt(j, k)
  \/ /\ \A i \in 1 .. Len(Pending) : ~ SeenAt(i, k)
     /\ <<"lower", k>> \in DOMAIN friendRows => friendRows[<<"lower", k>>] \in {Never, lastSeen[k]}

SeenInv ==
  crashes = 0 =>
    /\ \A k \in Keys : Latest(k)
    /\ \A k \in Keys : <<"mixed", k>> \in DOMAIN friendRows => friendRows[<<"mixed", k>>] = Never

\* A row that is not touched, and alerts that stay, keep what they show.
LEMMA LatestStays ==
  ASSUME NEW k \in Keys, Latest(k), UNCHANGED <<batch, alerts, lastSeen>>,
         <<"lower", k>> \in DOMAIN friendRows' =>
           \/ friendRows'[<<"lower", k>>] = Never
           \/ /\ <<"lower", k>> \in DOMAIN friendRows
              /\ friendRows'[<<"lower", k>>] = friendRows[<<"lower", k>>]
  PROVE  Latest(k)'
BY DEF Latest, Pending, SeenAt

\* An alert that the session posts is the latest of its key and leaves the others.
LEMMA LatestPosted ==
  ASSUME TypeInv, NEW k \in Keys, Latest(k), NEW kind, NEW subject, Post(kind, subject),
         UNCHANGED friendRows,
         IF kind = "seen" /\ subject[1] = k THEN lastSeen'[k] = subject[2] ELSE lastSeen'[k] = lastSeen[k]
  PROVE  Latest(k)'
<1> SUFFICES ASSUME NEW n, n = Len(Pending) PROVE Latest(k)'
  OBVIOUS
<1>1. /\ Len(Pending') = n + 1 /\ n \in Nat
      /\ \A i \in 1 .. n : Pending'[i] = Pending[i]
      /\ Pending'[n + 1] = <<kind, subject>>
  BY PendingPost, PendingFirst DEF TypeInv
<1>2. \A i \in 1 .. n : SeenAt(i, k)' <=> SeenAt(i, k)
  BY <1>1 DEF SeenAt
<1>3. SeenAt(n + 1, k)' <=> kind = "seen" /\ subject[1] = k
  BY <1>1 DEF SeenAt
<1>4. CASE kind = "seen" /\ subject[1] = k
  <2>1. n + 1 \in 1 .. Len(Pending') /\ \A j \in 1 .. Len(Pending') : ~ (j > n + 1)
    BY <1>1
  <2>2. Pending'[n + 1][2][2] = lastSeen'[k]
    BY <1>1, <1>4
  <2>3. QED
    BY <1>3, <1>4, <2>1, <2>2 DEF Latest
<1>5. CASE ~ (kind = "seen" /\ subject[1] = k)
  <2>1. /\ 1 .. Len(Pending') = (1 .. n) \cup {n + 1} /\ 1 .. Len(Pending) = 1 .. n
        /\ ~ SeenAt(n + 1, k)'
    BY <1>1, <1>3, <1>5
  <2>2. CASE \E i \in 1 .. Len(Pending) : SeenAt(i, k)
    <3>1. PICK i \in 1 .. n : /\ SeenAt(i, k) /\ Pending[i][2][2] = lastSeen[k]
                              /\ \A j \in 1 .. n : j > i => ~ SeenAt(j, k)
      BY <2>1, <2>2 DEF Latest
    <3>2. /\ SeenAt(i, k)' /\ Pending'[i][2][2] = lastSeen'[k] /\ i \in 1 .. Len(Pending')
          /\ \A j \in 1 .. Len(Pending') : j > i => ~ SeenAt(j, k)'
      BY <1>1, <1>2, <1>5, <2>1, <3>1
    <3>3. QED
      BY <3>2 DEF Latest
  <2>3. CASE ~ \E i \in 1 .. Len(Pending) : SeenAt(i, k)
    BY <1>2, <1>5, <2>1, <2>3 DEF Latest
  <2>4. QED
    BY <2>2, <2>3
<1>6. QED
  BY <1>4, <1>5

\* A handler that returns: if its alert was about k, the row has its time.
LEMMA LatestHandled ==
  ASSUME TypeInv, NEW k \in Keys, Latest(k), batch # <<>>, Return, UNCHANGED lastSeen,
         DOMAIN friendRows' = DOMAIN friendRows,
         <<"lower", k>> \in DOMAIN friendRows =>
           friendRows'[<<"lower", k>>] =
             IF Head(batch)[1] = "seen" /\ Current[1] = k THEN Current[2] ELSE friendRows[<<"lower", k>>]
  PROVE  Latest(k)'
<1>1. /\ Len(Pending) \in Nat /\ Len(Pending) >= 1 /\ Pending[1] = Head(batch)
      /\ Len(Pending') = Len(Pending) - 1
      /\ \A i \in 1 .. Len(Pending') : Pending'[i] = Pending[i + 1]
  BY PendingReturn, PendingFirst DEF TypeInv
<1>2. \A i \in 1 .. Len(Pending') : SeenAt(i, k)' <=> SeenAt(i + 1, k)
  BY <1>1 DEF SeenAt
<1>3. CASE \E i \in 2 .. Len(Pending) : SeenAt(i, k)
  <2>1. PICK i \in 1 .. Len(Pending) : /\ SeenAt(i, k) /\ Pending[i][2][2] = lastSeen[k]
                                       /\ \A j \in 1 .. Len(Pending) : j > i => ~ SeenAt(j, k)
    BY <1>1, <1>3 DEF Latest
  <2>2. i - 1 \in 1 .. Len(Pending')
    BY <1>1, <1>3, <2>1
  <2>3. i - 1 + 1 = i /\ \A j \in 1 .. Len(Pending') : j > i - 1 => j + 1 > i /\ j + 1 \in 1 .. Len(Pending)
    BY <1>1
  <2>4. SeenAt(i - 1, k)' /\ Pending'[i - 1][2][2] = lastSeen'[k]
    BY <1>1, <1>2, <2>1, <2>2, <2>3
  <2>5. \A j \in 1 .. Len(Pending') : j > i - 1 => ~ SeenAt(j, k)'
    BY <1>2, <2>1, <2>3
  <2>6. QED
    BY <2>2, <2>4, <2>5 DEF Latest
<1>4. CASE ~ \E i \in 2 .. Len(Pending) : SeenAt(i, k)
  <2>1. \A i \in 1 .. Len(Pending') : ~ SeenAt(i, k)'
    BY <1>1, <1>2, <1>4
  <2>2. SeenAt(1, k) <=> Head(batch)[1] = "seen" /\ Current[1] = k
    BY <1>1 DEF SeenAt, Current
  <2>3. SeenAt(1, k) => Current[2] = lastSeen[k]
    <3>1. ASSUME SeenAt(1, k) PROVE Pending[1][2][2] = lastSeen[k]
      <4>1. PICK i \in 1 .. Len(Pending) : SeenAt(i, k) /\ Pending[i][2][2] = lastSeen[k]
        BY <1>1, <3>1 DEF Latest
      <4>2. i = 1
        BY <1>1, <1>4, <4>1
      <4>3. QED
        BY <4>1, <4>2
    <3>2. QED
      BY <1>1, <3>1 DEF Current
  <2>4. ~ SeenAt(1, k) => \A i \in 1 .. Len(Pending) : ~ SeenAt(i, k)
    BY <1>1, <1>4
  <2>5. <<"lower", k>> \in DOMAIN friendRows => friendRows'[<<"lower", k>>] \in {Never, lastSeen[k]}
    BY <2>2, <2>3, <2>4 DEF Latest
  <2>6. QED
    BY <2>1, <2>5 DEF Latest
<1>5. QED
  BY <1>3, <1>4

\* Every step keeps SeenInv.
LEMMA SeenKept == ASSUME TypeInv, SeenInv, [Next]_vars PROVE SeenInv'
<1>0. CASE crashes' # 0
  BY <1>0 DEF SeenInv
<1> SUFFICES ASSUME crashes' = 0 PROVE SeenInv'
  BY <1>0
<1>1. crashes = 0 /\ ~ Crash
  <2>1. crashes \in Nat
    BY DEF TypeInv, TypeOK
  <2>2. ~ Crash
    BY <2>1 DEF Crash
  <2>3. QED
    BY <2>2 DEF Next, vars, dbVars, loopVars, sessionVars, AddNewFriend, InsertFriend, DeleteFriend,
                SessionMessage, SessionLastSeen, SessionStatus, MainSteps, PopAlerts, InsertMessage,
                InsertLog, UpdateLastSeen, UpdateMessageStatus
<1>2. /\ \A k \in Keys : Latest(k)
      /\ \A k \in Keys : <<"mixed", k>> \in DOMAIN friendRows => friendRows[<<"mixed", k>>] = Never
  BY <1>1 DEF SeenInv
<1>3. CASE UNCHANGED <<friendRows, batch, alerts, lastSeen>>
  BY <1>2, <1>3, LatestStays DEF SeenInv
<1>4. ASSUME NEW w \in Workers, InsertFriend(w) PROVE SeenInv'
  <2>1. UNCHANGED <<batch, alerts, lastSeen>>
    BY <1>4 DEF InsertFriend, loopVars, sessionVars
  <2>2. \A x \in DOMAIN friendRows' :
          \/ friendRows'[x] = Never
          \/ x \in DOMAIN friendRows /\ friendRows'[x] = friendRows[x]
    BY <1>4 DEF InsertFriend
  <2>3. QED
    BY <1>2, <2>1, <2>2, LatestStays DEF SeenInv
<1>5. ASSUME NEW m \in Messages, SessionMessage(m) \/ SessionStatus(m) PROVE SeenInv'
  <2>1. PICK kind \in {"message", "status"} : Post(kind, m)
    BY <1>5 DEF SessionMessage, SessionStatus
  <2>2. UNCHANGED <<friendRows, lastSeen>>
    BY <1>5 DEF SessionMessage, SessionStatus, dbVars, sessionVars
  <2>3. QED
    BY <1>2, <2>1, <2>2, LatestPosted DEF SeenInv
<1>6. ASSUME NEW k \in Keys, SessionLastSeen(k) PROVE SeenInv'
  <2> DEFINE subject == <<k, lastSeen[k] + 1>>
  <2>1. Post("seen", subject) /\ UNCHANGED friendRows
    BY <1>6 DEF SessionLastSeen, dbVars
  <2>2. subject[1] = k /\ lastSeen'[k] = subject[2] /\ \A i \in Keys : i # k => lastSeen'[i] = lastSeen[i]
    BY <1>6 DEF SessionLastSeen, TypeInv, TypeOK
  <2> HIDE DEF subject
  <2>3. \A i \in Keys : Latest(i)'
    BY <1>2, <2>1, <2>2, LatestPosted
  <2>4. QED
    BY <1>2, <2>1, <2>3 DEF SeenInv
<1>7. CASE PopAlerts
  <2>1. Pending' = Pending /\ UNCHANGED <<friendRows, lastSeen>>
    BY <1>7, PendingPop DEF PopAlerts, TypeInv, dbVars, sessionVars
  <2>2. QED
    BY <1>2, <2>1 DEF SeenInv, Latest, SeenAt
<1>8. CASE /\ batch # <<>> /\ Head(batch)[1] # "seen" /\ Return
           /\ UNCHANGED <<friendRows, lastSeen>>
  BY <1>2, <1>8, LatestHandled DEF SeenInv
<1>9. CASE UpdateLastSeen
  <2>1. /\ batch # <<>> /\ Head(batch)[1] = "seen" /\ Return /\ UNCHANGED lastSeen
        /\ DOMAIN friendRows' = DOMAIN friendRows
        /\ \A x \in DOMAIN friendRows :
             friendRows'[x] = IF x = <<"lower", Current[1]>> THEN Current[2] ELSE friendRows[x]
    BY <1>9 DEF UpdateLastSeen, At, sessionVars
  <2>2. \A k \in Keys : <<"lower", k>> = <<"lower", Current[1]>> <=> Current[1] = k
    OBVIOUS
  <2>3. \A k \in Keys : Latest(k)'
    BY <1>2, <2>1, <2>2, LatestHandled
  <2>4. QED
    BY <1>2, <2>1, <2>3 DEF SeenInv
<1>10. CASE InsertMessage \/ InsertLog \/ UpdateMessageStatus
  <2>1. batch # <<>> /\ Head(batch)[1] # "seen" /\ UNCHANGED <<friendRows, lastSeen>>
    BY <1>10 DEF InsertMessage, InsertLog, UpdateMessageStatus, At, dbVars, sessionVars
  <2>2. Return \/ Continue
    BY <1>10 DEF InsertMessage, InsertLog, UpdateMessageStatus
  <2>3. QED
    BY <1>3, <1>8, <2>1, <2>2 DEF Continue
<1>11. CASE \/ \E w \in Workers, s \in Spellings, k \in Keys : AddNewFriend(w, s, k)
            \/ \E k \in Keys : DeleteFriend(k)
            \/ UNCHANGED vars
  BY <1>3, <1>11 DEF AddNewFriend, DeleteFriend, vars, dbVars, loopVars, sessionVars
<1>12. QED
  BY <1>1, <1>4, <1>5, <1>6, <1>7, <1>9, <1>10, <1>11 DEF Next, MainSteps

\* Once the alerts are handled, no row shows an outdated time, in whatever order
\* rows are inserted, times posted and alerts handled.
THEOREM LastSeenCurrent == Spec => []LastSeenIsLatest
<1>1. Init => SeenInv
  <2>1. ASSUME Init PROVE SeenInv
    <3>1. DOMAIN friendRows = {} /\ Len(Pending) = 0
      BY <2>1 DEF Init, LoopInit, Pending
    <3>2. QED
      BY <3>1 DEF SeenInv, Latest
  <2>2. QED
    BY <2>1
<1>2. TypeInv /\ SeenInv /\ [Next]_vars => SeenInv'
  BY SeenKept
<1>3. TypeInv /\ SeenInv => LastSeenIsLatest
  <2> SUFFICES ASSUME TypeInv, SeenInv, crashes = 0, Drained, NEW x \in DOMAIN friendRows
               PROVE  friendRows[x] \in {Never, lastSeen[x[2]]}
    BY DEF LastSeenIsLatest
  <2>1. Len(Pending) = 0
    BY PendingFirst DEF TypeInv
  <2>2. PICK s \in {"lower", "mixed"}, k \in Keys : x = <<s, k>>
    <3>1. x \in {"lower", "mixed"} \X Keys
      BY ContactStoreAssumption DEF TypeInv, TypeOK
    <3>2. QED
      BY <3>1
  <2>3. QED
    BY <2>1, <2>2 DEF SeenInv, Latest
<1>4. QED
  BY <1>1, <1>2, <1>3, TypeInvariant, PTL DEF Spec
===============================================================================
