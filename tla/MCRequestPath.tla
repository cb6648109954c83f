----------------------------- MODULE MCRequestPath -----------------------------
(* Requests for TLC: short bodies of every shape, a body for every method and  *)
(* variations of it, and the URIs, headers and files that go with them.        *)
EXTENDS RequestPath, SequencesExt

CONSTANTS FreeLen, UriLen

Keys == UNION {{Lookups(m)[k][1] : k \in DOMAIN Lookups(m)} : m \in Methods}
DocWords == {"method", "arguments", "tag", "extra"}
FirstWords == {"method", "tag"}
MCWords == Methods \cup Keys \cup DocWords \cup {"peer_key", "k1", "k2", "k3", "one", "other"}

Commas(parts) ==
  FoldLeft(LAMBDA s, p : IF s = <<>> THEN p ELSE s \o <<"separator">> \o p, <<>>, parts)
Quoted(w) == <<"quote", w, "quote">>
Pair(key, value) == Quoted(key) \o <<"separator">> \o value
Obj(members) == <<"{">> \o Commas(members) \o <<"}">>
Arr(items) == <<"[">> \o Commas(items) \o <<"]">>

PeerList(n) == Arr([k \in 1 .. n |-> Obj(<<Pair("peer_key", Quoted(<<"k1", "k2", "k3">>[k]))>>)])

\* Lists whose first peer comes with other members, is a list itself, has no key, or has two.
Peer1(items) == <<Pair("chain_id", Quoted("other")), Pair("peers", Arr(<<items, Obj(<<Pair("peer_key", Quoted("k2"))>>)>>))>>
OddPeers ==
  {Peer1(Obj(<<Pair("other", <<"one">>), Pair("peer_key", Quoted("k1"))>>)),
   Reverse(Peer1(Obj(<<Pair("other", Arr(<<Quoted("peer_key")>>)), Pair("peer_key", Quoted("k1"))>>))),
   Reverse(Peer1(Arr(<<Quoted("peer_key"), Quoted("k1")>>))),
   Peer1(Obj(<<Pair("peer_key", <<"one">>)>>)),
   Peer1(Obj(<<Pair("peer_key", Quoted("k1")), Pair("peer_key", Quoted("k3"))>>))}

Value(type, n) ==
  CASE type = "STRING" -> Quoted("other") [] type = "PRIMITIVE" -> <<"one">> [] type = "ARRAY" -> PeerList(n)
Args(m, n) ==
  [k \in DOMAIN Lookups(m) |-> Pair(Lookups(m)[k][1], Value(Lookups(m)[k][2], n))]

\* Members in the way: one whose value has the name of an argument, one that holds such a member.
Decoys == <<Pair("other", Quoted("chain_id")), Pair("extra", Obj(<<Pair("chain_id", Arr(<<Quoted("k1"), <<"one">>>>))>>))>>

Call(m, args) == Obj(<<Pair("method", Quoted(m)), Pair("arguments", Obj(args))>>)

Docs ==
  UNION {{Call(m, Args(m, 1)),
          Call(m, Reverse(Args(m, 2))),
          Call(m, Decoys \o Args(m, 1)),
          Call(m, Tail(Args(m, 1) \o <<Pair("other", <<"one">>)>>)),
          Obj(<<Pair("tag", <<"one">>), Pair("arguments", Obj(Args(m, 2))), Pair("method", Quoted(m))>>),
          Obj(<<Pair("method", Quoted(m)), Pair("tag", <<"one">>)>>)} : m \in Methods}
  \cup {Call("follow-chain", Args("follow-chain", 3)),
        Call("follow-chain", Reverse(Args("follow-chain", 3))),
        Call("follow-chain", Args("follow-chain", 0)),
        Call("other", <<>>),
        Obj(<<Pair("tag", <<"one">>)>>)}
  \cup {Call("follow-chain", args) : args \in OddPeers}

FreeChars == (Chars \ Words) \cup {"k1", NUL}

MCMayFollow(s, c) ==
  IF Len(s) >= 3 /\ s[3] \in FirstWords
    THEN \E d \in Docs : IF Len(s) < Len(d) THEN d[Len(s) + 1] = c /\ IsPrefix(s, d) ELSE c = NUL /\ s = d
    ELSE \/ Len(s) < FreeLen /\ c \in FreeChars
         \/ Len(s) = FreeLen /\ c = NUL
         \/ s = <<"{", "quote">> /\ c \in FirstWords

MCHexPairs == (<<"2", "e">> :> ".") @@ (<<"2", "f">> :> "/") @@ (<<"0", "0">> :> Zero)
MCUris ==
  {<<"/">> \o u : u \in UNION {[1 .. n -> {"/", "\\", ".", "%", "2", "e", "f", "0", "rpc"}] : n \in 0 .. UriLen}}
  \cup {<<"*">>, <<"/", "%", "2", "e", "%", "2", "e", "/", "rpc">>}

MCFiles ==
  {f \in FileStates(0 .. 2) :
     /\ f.kind # "directory" => f.index = "none"
     /\ Served(f) # "plain" => f.size = 0 /\ f.actual = 0 /\ ~ f.gzipped /\ f.opens
     /\ f.hidden => ~ f.notModified /\ f.size = f.actual}
MCRanges ==
  {ByteRange(0, 0, 0)} \cup {ByteRange(1, r1, 0) : r1 \in -1 .. 3}
  \cup {ByteRange(2, r1, r2) : r1 \in -1 .. 3, r2 \in -1 .. 3}

Fields(name, hash, salt, group) == <<Field("name", name), hash, salt, group>>
Good(name, pwd, group) ==
  Fields(name, Field("hash", <<"s", pwd>>), Field("salt", "s"), Field("number", group))
a == <<97>>
b == <<98>>
c0 == <<99>>
MCDefault == <<100>>
MCUserFiles ==
  {NoFile, <<>>, Good(a, b, 0), Good(a, b, -1), Good(a, b, 0) \o Good(a, b, 2),
   Fields(c0, Field("junk", 0), Field("salt", "s"), Field("number", 0)) \o Good(a, b, 1),
   Good(c0, b, 1) \o Fields(a, Field("hash", <<"s", b>>), Field("salt", "s"), Field("junk", 0)) \o Good(a, b, 0)}

\* "a:b", "c:b", "d:d" and "a:", and every short text over a few characters.
Code(text) == [basic |-> TRUE, code |-> text]
MCHeaders ==
  {NoHeader, Code(<<89, 84, 112, 105>>), Code(<<89, 122, 112, 105>>), Code(<<90, 68, 112, 107>>),
   Code(<<89, 84, 111, 61>>), Code(<<45, 89, 84, 112, 105, 61>>)}
  \cup {Code(t) : t \in UNION {[1 .. n -> {65, 47, 122, 61, 123}] : n \in 3 .. 5}}

MCPastBytes == {-1, 100}

MCChainIds ==
  {key \o name : key \in [1 .. CID_KEY_CHAR_LEN -> {0, 15, 171}], name \in UNION {[1 .. n -> {48, 65}] : n \in 0 .. 2}}
===============================================================================
