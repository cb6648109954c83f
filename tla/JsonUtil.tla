------------------------------- MODULE JsonUtil -------------------------------
(***************************************************************************)
(* json_util.cpp: how handlers find the members of a parsed request.  The  *)
(* functions walk over the token array and cut strings out of the body by  *)
(* overwriting the character after them with a NUL, so each returns the    *)
(* body it leaves behind: [at |-> token number or 0, buf |-> body].        *)
(***************************************************************************)
EXTENDS Jsmn

\* The token in slot i of the array; jsmn_parse has initialised the free ones.
\* What lies behind the array is never reached by the requests explored.
Slot(toks, i) == IF i <= Len(toks) THEN toks[i] ELSE Token("PRIMITIVE", -1, -1)

\* buf[p] = 0.
Terminate(buf, p) == [buf EXCEPT ![p + 1] = NUL]

\* The same for several places.
TerminateAll(buf, places) == [k \in DOMAIN buf |-> IF k - 1 \in places THEN NUL ELSE buf[k]]

\* What strcmp sees at buf + p.
CString(buf, p) ==
  SubSeq(buf, p + 1, Min({k \in p + 1 .. Len(buf) : buf[k] = NUL}) - 1)

\* Mutant: the members of a container are skipped as if they were leaves.
SkipItemFlat(toks, i) == i + 1 + Slot(toks, i).size

\* skip_item: the number of the token after item i and all its members.
SkipItem(toks, i) ==
  LET skip[k \in 1 .. NumTokens + 1] ==
        LET after[n \in 0 .. NumTokens] == IF n = 0 THEN k + 1 ELSE skip[after[n - 1]]
        IN  after[Slot(toks, k).size]
  IN  skip[i]

\* find_key: the value of the first member of object o with this key and type.
FindKey(toks, buf, o, key, type) ==
  LET scan[n \in 0 .. NumTokens] ==
        IF n = 0 THEN [i |-> o + 1, at |-> 0, buf |-> buf]
        ELSE LET s == scan[n - 1]
                 t == Slot(toks, s.i)
                 b == IF t.type = "STRING" THEN Terminate(s.buf, t.end) ELSE s.buf
                 hit == t.type = "STRING" /\ CString(b, t.start) = <<key>>
                        /\ Slot(toks, s.i + 1).type = type
             IN  IF s.at # 0 THEN s
                 ELSE [i |-> IF hit THEN s.i ELSE SkipItem(toks, SkipItem(toks, s.i)),
                       at |-> IF hit THEN s.i + 1 ELSE 0,
                       buf |-> b]
      last == scan[Slot(toks, o).size \div 2]
  IN  IF Slot(toks, o).type # "OBJECT" THEN [at |-> 0, buf |-> buf]
      ELSE [at |-> last.at, buf |-> last.buf]

\* find_int: a member that is a primitive, which is cut out of the body.
FindInt(toks, buf, o, key) ==
  LET k == FindKey(toks, buf, o, key, "PRIMITIVE")
  IN  IF k.at = 0 THEN k ELSE [k EXCEPT !.buf = Terminate(k.buf, toks[k.at].end)]

\* Mutant: a match that is not wanted yet is not counted.
FindKeyInArrayFirst(toks, buf, o, key, s, num_keys, type) ==
  FindKey(toks, buf, o + 3, key, type)

\* find_key_in_array: the value after the match number s, counted from 0, of
\* key among the num_keys tokens after object o, whatever their nesting.
FindKeyInArray(toks, buf, o, key, s, num_keys, type) ==
  LET scan[n \in 0 .. num_keys] ==
        IF n = 0 THEN [left |-> s, at |-> 0, buf |-> buf]
        ELSE LET r == scan[n - 1]
                 t == Slot(toks, o + n)
                 b == Terminate(r.buf, t.end)
             IN  IF r.at # 0 \/ t.start = -1 THEN r
                 ELSE IF CString(b, t.start) # <<key>> \/ Slot(toks, o + n + 1).type # type
                   THEN [r EXCEPT !.buf = b]
                 ELSE IF r.left = 0 THEN [r EXCEPT !.buf = b, !.at = o + n + 1]
                 ELSE [r EXCEPT !.buf = b, !.left = @ - 1]
      last == scan[num_keys]
  IN  IF Slot(toks, o).type # "OBJECT" THEN [at |-> 0, buf |-> buf]
      ELSE [at |-> last.at, buf |-> last.buf]

-------------------------------------------------------------------------------
(* What the lookups should find *)

\* Number k of a set of numbers.
Nth(S, k) == CHOOSE x \in S : Cardinality({y \in S : y <= x}) = k

\* What find_key should find: the members of object o are its children two by
\* two; the first pair with this key and a value of this type counts.
Member(o, key, type) ==
  LET kids == Children(o)
      hits == {k \in 1 .. Cardinality(kids) \div 2 :
                 LET t == tokens[Nth(kids, 2 * k - 1)]
                 IN  /\ t.type = "STRING"
                     /\ SubSeq(js, t.start + 1, t.end) = <<key>>
                     /\ tokens[Nth(kids, 2 * k)].type = type}
  IN  IF hits = {} THEN 0 ELSE Nth(kids, 2 * Min(hits))
===============================================================================
