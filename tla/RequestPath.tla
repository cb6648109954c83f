------------------------------ MODULE RequestPath ------------------------------
(***************************************************************************)
(* What the daemon makes of one request that HttpConnection has delivered: *)
(* handle_request of mongoose.c turns the URI into a path and either       *)
(* serves a file or calls tau_handler::handle_http, which checks the       *)
(* credentials, tokenizes the body and calls a method; the method takes    *)
(* its arguments out of the body.  An argument that is not there is a null *)
(* pointer, credentials without a colon an exception nobody catches: both  *)
(* end the process.                                                        *)
(***************************************************************************)
EXTENDS JsonUtil, Auth, HexUtil, FileServing, RpcMethods

CONSTANTS
  Uris,      \* URIs of requests
  HttpMethods,
  Files,     \* what a path may name
  Ranges,    \* Range headers
  UserFiles, \* contents of users.conf
  Headers,   \* Authorization headers
  PastBytes, \* bytes that may follow the decoding table of base64
  ChainIds,  \* chain ids the session may create
  Nothing    \* a variable is not in use

\* is_valid_uri has let the URI through: it begins with a slash or is an asterisk.
\* The name of a chain is text that create-chain-id has taken from a request, so it
\* holds no zero.  A field of users.conf that fscanf has read is not empty.
ASSUME RequestAssumption ==
  /\ \A uri \in Uris : uri \in Seq(STRING) /\ (uri = <<"*">> \/ (Len(uri) > 0 /\ uri[1] = "/"))
  /\ \A file \in Files : file \in FileStates(Nat)
  /\ \A range \in Ranges : range \in [n : Int, r1 : Int, r2 : Int]
  /\ \A file \in UserFiles \ {NoFile} :
       /\ Len(file) \in Nat
       /\ \A k \in 1 .. Len(file) :
            /\ k % 4 = 1 => file[k].value # <<>>
            /\ file[k].kind = "number" => file[k].value \in Int
  /\ DefaultUser # <<>>
  /\ \A header \in Headers : header.basic \in BOOLEAN /\ header.code \in Seq(Byte)
  /\ PastBytes \subseteq -128 .. 127
  /\ \A id \in ChainIds :
       /\ id \in Seq(Byte) /\ Len(id) >= CID_KEY_CHAR_LEN
       /\ \A k \in DOMAIN id : k > CID_KEY_CHAR_LEN => id[k] # 0

Rpc == <<"/", "rpc">>

VARIABLES
  phase,     \* where the request is
  web,       \* the URI as received and its buffer, or the answer to a file request
  cred,      \* users.conf, the header and the outcome of parse_http_auth
  buf,       \* post_body
  call,      \* the method and the token of its arguments
  found,     \* results of find_key so far
  peers,     \* results of find_key_in_array so far
  chain      \* a chain id, as created, as text and as a request gives it back

callVars == <<buf, call, found, peers>>
vars == <<parserVars, phase, web, cred, callVars, chain>>

NoCall == buf = <<>> /\ call = Nothing /\ found = <<>> /\ peers = <<>>

Init ==
  /\ ParserInit
  /\ phase = "idle"
  /\ web = Nothing
  /\ cred = Nothing
  /\ NoCall
  /\ chain = Nothing

\* The request is answered, or the process has ended.
Finish(how) ==
  /\ phase' = how
  /\ UNCHANGED <<parserVars, web, cred, callVars, chain>>

\* handle_request decodes and cleans the URI.
Receive ==
  /\ phase = "idle"
  /\ \E uri \in Uris : web' = [uri |-> uri, clean |-> CleanUri(uri)]
  /\ phase' = "mapped"
  /\ UNCHANGED <<parserVars, cred, callVars, chain>>

\* A digest password is asked for first, but not of PUT and DELETE.  Then
\* begin_request, which is tau_handler::handle_http, takes the request if the URI
\* is /rpc; everything else is a request for a file.
BeginRequest(method, digestOk) ==
  /\ phase = "mapped"
  /\ IF ~ digestOk /\ ~ IsPutOrDelete(method)
       THEN phase' = "answered" /\ web' = Nothing
       ELSE IF Text(web.clean) = Rpc
         THEN phase' = "auth" /\ web' = Nothing
         ELSE phase' = "file" /\ web' = [method |-> method, last |-> web.clean[Len(web.uri)]]
  /\ UNCHANGED <<parserVars, cred, callVars, chain>>

ServeFile ==
  /\ phase = "file"
  /\ \E file \in Files, range \in Ranges :
       LET action == Decide(web.method, web.last, file)
       IN  web' = [action |-> action, method |-> web.method, file |-> file, range |-> range,
                   answer |-> IF action = "file" THEN HandleFileRequest(web.method, file, range) ELSE Nothing]
  /\ phase' = "answered"
  /\ UNCHANGED <<parserVars, cred, callVars, chain>>

\* parse_http_auth, with the accounts that were loaded when main started.
Authenticate ==
  /\ phase = "auth"
  /\ \E file \in UserFiles, header \in Headers, past \in PastBytes :
       LET outcome == ParseHttpAuth(AccountsAtStart(file), header, past)
       IN  /\ cred' = [file |-> file, header |-> header, past |-> past, outcome |-> outcome]
           /\ phase' = CASE outcome = "throws" -> "dead" [] outcome = "denied" -> "answered"
                         [] OTHER -> "granted"
  /\ UNCHANGED <<parserVars, web, callVars, chain>>

\* The body is there, or handle_http answers that it is missing.
TakeBody(there) ==
  /\ phase = "granted"
  /\ phase' = IF there THEN "body" ELSE "answered"
  /\ web' = Nothing
  /\ cred' = Nothing
  /\ UNCHANGED <<parserVars, callVars, chain>>

Tokenize ==
  /\ phase = "body"
  /\ ParserStep
  /\ UNCHANGED <<phase, web, cred, callVars, chain>>

\* jsmn_parse has failed, and the answer says how.
RejectBody == phase = "body" /\ mode \in Errors /\ Finish("answered")

\* handle_json_rpc: no method and an unknown method are answered at once.
Dispatch ==
  LET m == FindKey(tokens, js, 1, "method", "STRING")
      named == Terminate(m.buf, tokens[m.at].end)
      name == CString(named, tokens[m.at].start)
      a == FindKey(tokens, named, 1, "arguments", "OBJECT")
      tag == FindInt(tokens, a.buf, 1, "tag")
  IN  /\ phase = "body"
      /\ mode = "SUCCESS"
      /\ IF m.at = 0 \/ name \notin {<<n>> : n \in Methods} THEN Finish("answered")
         ELSE /\ buf' = IF a.at = 0 THEN tag.buf ELSE Terminate(tag.buf, tokens[a.at].end)
              /\ call' = [method |-> name[1], args |-> a.at]
              /\ phase' = "call"
              /\ UNCHANGED <<parserVars, web, cred, found, peers, chain>>

\* The method's next call of find_key.
LookUp ==
  LET next == Lookups(call.method)[Len(found) + 1]
      r == FindKey(tokens, buf, call.args, next[1], next[2])
  IN  /\ phase = "call"
      /\ Len(found) < Len(Lookups(call.method))
      /\ IF call.args = 0 THEN Finish("dead")
         ELSE /\ found' = Append(found, r.at)
              /\ buf' = r.buf
              /\ UNCHANGED <<parserVars, phase, web, cred, call, peers, chain>>

Argument(key) == found[CHOOSE k \in DOMAIN found : Lookups(call.method)[k][1] = key]

\* The body with a zero after each string found for the keys: buffer[x->end] = 0.
CutOff(keys) ==
  LET strings == {k \in DOMAIN found : Lookups(call.method)[k][2] = "STRING" /\ Lookups(call.method)[k][1] \in keys}
  IN  TerminateAll(buf, {tokens[x].end : x \in {found[k] : k \in strings} \ {0}})

\* All lookups are done: the method uses their results.
UseArguments ==
  /\ phase = "call"
  /\ Len(found) = Len(Lookups(call.method))
  /\ IF \E key \in Used(call.method) : Argument(key) = 0 THEN Finish("dead")
     ELSE /\ phase' = IF call.method \in WithPeers THEN "peers"
                      ELSE IF call.method = "create-chain-id" THEN "create" ELSE "called"
          /\ buf' = IF call.method \in CutsLate THEN buf ELSE CutOff(Cut(call.method))
          /\ UNCHANGED <<parserVars, web, cred, call, found, peers, chain>>

\* One round of the loop over the peers.
NextPeer ==
  LET r == FindKeyInArray(tokens, buf, call.args, "peer_key", Len(peers),
                          tokens[call.args].size * 2 + 2, "STRING")
  IN  /\ phase = "peers"
      /\ Len(peers) < tokens[Argument("peers")].size
      /\ IF r.at = 0 THEN Finish("dead")
         ELSE /\ peers' = Append(peers, r.at)
              /\ buf' = Terminate(r.buf, tokens[r.at].end)
              /\ UNCHANGED <<parserVars, phase, web, cred, call, found, chain>>

PeersDone ==
  /\ phase = "peers"
  /\ Len(peers) = tokens[Argument("peers")].size
  /\ phase' = "called"
  /\ buf' = IF call.method \in CutsLate THEN CutOff(Cut(call.method)) ELSE buf
  /\ UNCHANGED <<parserVars, web, cred, call, found, peers, chain>>

\* create_chain_id: the session makes an id, which is answered as text.
CreateChainId(id) ==
  /\ phase = "create"
  /\ chain' = [id |-> id, text |-> bytes_chain_id_to_string(id)]
  /\ phase' = "created"
  /\ UNCHANGED <<parserVars, web, cred, callVars>>

\* A later request names the chain: follow-chain-mobile by the text of the answer,
\* follow-chain by its hexadecimal form.
NameChain(form) ==
  /\ phase = "created"
  /\ chain' = [id |-> chain.id, text |-> chain.text,
               given |-> IF form = "str" THEN string_chain_id_to_bytes(chain.text)
                         ELSE hex_chain_id_to_bytes(ToHex(chain.id))]
  /\ phase' = "called"
  /\ UNCHANGED <<parserVars, web, cred, callVars>>

\* The next request; after the process has ended, python_monitor.py has started
\* another one.
NextRequest ==
  /\ phase \in {"answered", "called", "dead"}
  /\ phase' = "idle"
  /\ js' = <<>> /\ pos' = 0 /\ tokens' = <<>> /\ toksuper' = 0 /\ mode' = "value" /\ start' = 0
  /\ web' = Nothing
  /\ cred' = Nothing
  /\ buf' = <<>> /\ call' = Nothing /\ found' = <<>> /\ peers' = <<>>
  /\ chain' = Nothing

Next ==
  \/ Receive
  \/ \E m \in HttpMethods, ok \in BOOLEAN : BeginRequest(m, ok)
  \/ ServeFile
  \/ Authenticate
  \/ \E there \in BOOLEAN : TakeBody(there)
  \/ Tokenize
  \/ RejectBody
  \/ Dispatch
  \/ LookUp
  \/ UseArguments
  \/ NextPeer
  \/ PeersDone
  \/ \E id \in ChainIds : CreateChainId(id)
  \/ \E form \in {"str", "hex"} : NameChain(form)
  \/ NextRequest

Spec == Init /\ [][Next]_vars

-------------------------------------------------------------------------------
(* Properties *)

\* Handlers get the arguments the client wrote.  In every object of every body
\* that parses, find_key finds the member of that name, whatever is nested in
\* the members before it.  And although the lookups of handle_json_rpc, of the
\* method and of its loop over the peers cut zeros into the body they search,
\* the text of each argument is complete when the method reads it.
ArgumentsAsSent ==
  /\ phase = "body" /\ mode = "SUCCESS" =>
       \A o \in DOMAIN tokens, key \in Words :
         \A type \in {"STRING", "PRIMITIVE", "OBJECT"} :
           tokens[o].type = "OBJECT" =>
             FindKey(tokens, js, o, key, type).at = Member(o, key, type)
  /\ phase \in {"peers", "create", "called"} /\ call # Nothing =>
       \A k \in DOMAIN found :
         LET t == tokens[found[k]]
         IN  /\ found[k] = Member(call.args, Lookups(call.method)[k][1], Lookups(call.method)[k][2])
             /\ found[k] # 0 /\ t.type # "ARRAY" =>
                  SubSeq(buf, t.start + 1, t.end) = SubSeq(js, t.start + 1, t.end)

\* The loops of follow-chain, follow-chain-mobile, create-new-community and
\* add-new-bs-peers do not look into the list of peers: they search the tokens that
\* follow the object of the arguments, whatever their nesting, and how many of them
\* are in sight depends on the number of arguments only.  If every peer has its key
\* and nothing else in sight is called peer_key, they still take the keys of all
\* peers in the order of the list, and the process ends only for a key out of sight.
PeersInOrder ==
  LET list == Argument("peers")
      key(k) == Member(Nth(Children(list), k), "peer_key", "STRING")
      inSight(j) == j - call.args <= tokens[call.args].size * 2 + 2
      named(j) == SubSeq(js, tokens[j].start + 1, tokens[j].end) = <<"peer_key">>
      places == 1 .. tokens[list].size
      here == /\ call # Nothing /\ call.method \in WithPeers
              /\ Len(found) = 2 /\ Argument("chain_id") # 0 /\ list # 0
      plain == /\ \A k \in places : key(k) # 0
               /\ \A j \in DOMAIN tokens :
                    call.args < j /\ inSight(j) /\ named(j) => \E k \in places : key(k) = j + 1
  IN  here /\ plain =>
        /\ \A k \in DOMAIN peers : k \in places /\ peers[k] = key(k)
        /\ phase = "called" => Len(peers) = tokens[list].size
        /\ phase = "dead" => \E k \in places : ~ inSight(key(k) - 1)

\* base64_decode_block, with its state machine and its writes ahead of the end,
\* produces the bytes that the characters stand for and stays inside the buffer
\* that base64decode has sized for it, whatever the length and the padding.
CredentialsDecoded ==
  cred # Nothing =>
    LET code == cred.header.code
        s == DecodeBlock(code, cred.past)
    IN  Len(code) >= 4 =>
          /\ s.out = BytesOf(Sextets(code, cred.past))
          /\ s.touched <= DecodeCapacity(code)

\* Field i of record k of users.conf.
FieldOf(file, k, i) == file[4 * (k - 1) + i]

\* The records that count for a user: all records up to them are complete, and they
\* can be used.
RecordsOf(file, user) ==
  {k \in 1 .. Len(file) \div 4 :
     /\ \A j \in 1 .. k : FieldOf(file, j, 4).kind = "number"
     /\ FieldOf(file, k, 1).value = user
     /\ FieldOf(file, k, 2).kind = "hash"
     /\ FieldOf(file, k, 3).kind = "salt"
     /\ FieldOf(file, k, 4).value >= 0}

\* The last record of a user has this password and a group that exists.
RecordMatches(file, user, pwd) ==
  \E k \in RecordsOf(file, user) :
    /\ \A j \in RecordsOf(file, user) : j <= k
    /\ FieldOf(file, k, 2).value = <<FieldOf(file, k, 3).value, pwd>>
    /\ FieldOf(file, k, 4).value \in Groups

\* A call gets past handle_http exactly if its header holds the name and the
\* password of an account of users.conf with a group that exists, or of the
\* default account if the file could not be opened when the daemon started.  (Fewer
\* than four characters are no credentials.)
OnlyAccountsPass ==
  cred # Nothing =>
    LET bytes == BytesOf(Sextets(cred.header.code, cred.past))
        matches(user, pwd) ==
          IF cred.file = NoFile THEN user = DefaultUser /\ pwd = DefaultPassword
          ELSE RecordMatches(cred.file, user, pwd)
    IN  cred.outcome = "granted" <=>
          /\ cred.header.basic
          /\ Len(cred.header.code) >= 4
          /\ \E k \in DOMAIN bytes :
               /\ bytes[k] = Colon
               /\ \A j \in 1 .. k - 1 : bytes[j] # Colon
               /\ matches(SubSeq(bytes, 1, k - 1), SubSeq(bytes, k + 1, Len(bytes)))

\* A chain id survives its way to the client and back: the text create-chain-id
\* answers, given to follow-chain-mobile, and the hexadecimal form, given to
\* follow-chain, name the chain the session has created.
ChainIdSurvives ==
  chain # Nothing /\ "given" \in DOMAIN chain => chain.given = chain.id

\* The path of a file request stays below the document root: after decoding and
\* cleaning no segment of it is "..", and it begins with a slash if it is not the
\* lone asterisk.
PathStaysInside ==
  phase = "mapped" =>
    LET path == Text(web.clean)
        ends == {0, Len(path) + 1} \cup {k \in DOMAIN path : path[k] \in Slashes}
    IN  /\ path = <<"*">> \/ path[1] = "/"
        /\ ~ \E k \in ends : k + 3 \in ends /\ SubSeq(path, k + 1, k + 2) = <<".", ".">>

\* How many bytes of the announced length never come if the file is as it was when
\* it was looked up: one for a range that ends past the last byte, because the end
\* is cut to the size and not to the size less one; the bytes before the first one
\* asked for if the end is negative, because the range is then not announced but
\* still skipped to; none for any other range, and none without.
Missing(size, range) ==
  IF InForce(range) THEN (IF range.n = 2 /\ range.r2 >= size THEN 1 ELSE 0)
  ELSE IF range.n > 0 THEN Min({size, Max({0, range.r1})})
  ELSE 0

\* A file answer never sends more than the Content-Length it announced, even if
\* the file grows after it was looked up.  It may send less, and then the client of a
\* kept-alive connection takes the beginning of the next answer for the rest of
\* this one: for an unchanged file exactly the bytes that Missing counts are left
\* out, if any were announced, so that an answer is whole unless the range ends
\* past the last byte or its end is negative.
FileShortfall ==
  phase = "answered" /\ web # Nothing /\ web.answer # Nothing =>
    LET a == web.answer
    IN  /\ a.sent <= Max({a.length, 0})
        /\ /\ a.status \in {200, 206} /\ web.method # "HEAD"
           /\ web.file.actual = web.file.size /\ a.length > 0
           => a.length - a.sent = Missing(web.file.size, web.range)
===============================================================================
