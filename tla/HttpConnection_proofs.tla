------------------------- MODULE HttpConnection_proofs -------------------------
(***************************************************************************)
(* Proofs about HttpConnection, for requests of any shape, heads, bodies   *)
(* and buffers of any size, any number of requests and connections, and    *)
(* any way to cut the stream into packets.                                 *)
(***************************************************************************)
EXTENDS HttpConnection, SequenceTheorems, FiniteSetTheorems, TLAPS

-------------------------------------------------------------------------------
(* What the operators compute *)

\* A set of numbers that is not empty has a least one.
LEMMA LeastExists == ASSUME NEW S \in SUBSET Nat, S # {} PROVE \E k \in S : \A j \in S : k <= j
<1> DEFINE R == {p \in Nat \X Nat : p[1] < p[2]}
<1>1. IsWellFoundedOn(R, Nat)
  BY NatLessThanWellFounded DEF OpToRel
<1>2. PICK x \in S : \A y \in S : ~ (<<y, x>> \in R)
  <2> HIDE DEF R
  <2>1. QED
    BY <1>1, WFMin
<1>3. \A y \in S : <<y, x>> \in Nat \X Nat /\ ~ (y < x)
  BY <1>2
<1>4. \A y \in S : x <= y
  <2>1. ASSUME NEW y \in S PROVE x <= y
    <3>1. x \in Nat /\ y \in Nat /\ ~ (y < x)
      BY <1>3
    <3>2. QED
      BY <3>1
  <2>2. QED
    BY <2>1
<1>5. QED
  BY <1>4

\* get_request_len finds a place within the data, or none.
LEMMA RequestLenInside ==
  ASSUME buf \in Seq(Units) PROVE RequestLen \in 0 .. Len(buf)
<1> DEFINE ends == {k \in DOMAIN buf : buf[k][3] = HeadLen}
<1>1. ends \in SUBSET Nat /\ ends \subseteq 1 .. Len(buf) /\ Len(buf) \in Nat
  BY LenProperties
<1>2. CASE ends = {}
  BY <1>1, <1>2 DEF RequestLen
<1>3. CASE ends # {}
  <2>1. \E k \in ends : \A j \in ends : k <= j
    BY <1>1, <1>3, LeastExists
  <2>2. RequestLen \in ends
    BY <1>3, <2>1 DEF RequestLen
  <2>3. QED
    BY <1>1, <2>2
<1>4. QED
  BY <1>2, <1>3

\* recv takes units from the front of what has arrived.
LEMMA Receive ==
  ASSUME wire \in Seq(Units), NEW n \in 1 .. Len(wire)
  PROVE  /\ Received(n) \in Seq(Units) /\ Len(Received(n)) = n
         /\ \A i \in 1 .. n : Received(n)[i] = wire[i]
         /\ Remaining(n) \in Seq(Units) /\ Len(Remaining(n)) = Len(wire) - n
         /\ \A i \in 1 .. (Len(wire) - n) : Remaining(n)[i] = wire[n + i]
<1>1. Len(wire) \in Nat /\ \A i \in 1 .. Len(wire) : wire[i] \in Units
  BY ElementOfSeq
<1>2. n \in Int /\ n + 1 \in Int /\ n >= 1 /\ n <= Len(wire)
  BY <1>1
<1>3. /\ Received(n) \in Seq(Units) /\ Len(Received(n)) = n
      /\ \A i \in 1 .. n : Received(n)[i] = wire[i]
  <2>1. \A i \in 1 .. n : wire[i] \in Units
    BY <1>1, <1>2
  <2>2. /\ SubSeq(wire, 1, n) \in Seq(Units)
        /\ Len(SubSeq(wire, 1, n)) = IF 1 <= n THEN n - 1 + 1 ELSE 0
        /\ \A i \in 1 .. n - 1 + 1 : SubSeq(wire, 1, n)[i] = wire[1 + i - 1]
    BY <1>2, <2>1, SubSeqProperties
  <2>3. QED
    BY <1>2, <2>2 DEF Received
<1>4. /\ Remaining(n) \in Seq(Units) /\ Len(Remaining(n)) = Len(wire) - n
      /\ \A i \in 1 .. (Len(wire) - n) : Remaining(n)[i] = wire[n + i]
  <2>1. \A i \in n + 1 .. Len(wire) : wire[i] \in Units
    BY <1>1, <1>2
  <2>2. /\ SubSeq(wire, n + 1, Len(wire)) \in Seq(Units)
        /\ Len(SubSeq(wire, n + 1, Len(wire))) = IF n + 1 <= Len(wire) THEN Len(wire) - (n + 1) + 1 ELSE 0
        /\ \A i \in 1 .. Len(wire) - (n + 1) + 1 : SubSeq(wire, n + 1, Len(wire))[i] = wire[n + 1 + i - 1]
    BY <1>1, <1>2, <2>1, SubSeqProperties
  <2>3. QED
    BY <1>1, <1>2, <2>2 DEF Remaining
<1>5. QED
  BY <1>3, <1>4

\* Part of the buffer.
LEMMA BufferPart ==
  ASSUME buf \in Seq(Units), NEW a \in Nat, NEW b \in Nat, a <= b, b <= Len(buf)
  PROVE  /\ SubSeq(buf, a + 1, b) \in Seq(Units) /\ Len(SubSeq(buf, a + 1, b)) = b - a
         /\ \A i \in 1 .. (b - a) : SubSeq(buf, a + 1, b)[i] = buf[a + i]
<1>1. Len(buf) \in Nat /\ \A i \in 1 .. Len(buf) : buf[i] \in Units
  BY ElementOfSeq
<1>2. \A i \in a + 1 .. b : buf[i] \in Units
  BY <1>1
<1>3. /\ SubSeq(buf, a + 1, b) \in Seq(Units)
      /\ Len(SubSeq(buf, a + 1, b)) = IF a + 1 <= b THEN b - (a + 1) + 1 ELSE 0
      /\ \A i \in 1 .. b - (a + 1) + 1 : SubSeq(buf, a + 1, b)[i] = buf[a + 1 + i - 1]
  BY <1>2, SubSeqProperties
<1>4. QED
  BY <1>3

\* What is received is put after what is there.
LEMMA Joined ==
  ASSUME NEW s \in Seq(Units), NEW t \in Seq(Units)
  PROVE  /\ s \o t \in Seq(Units) /\ Len(s \o t) = Len(s) + Len(t)
         /\ \A i \in 1 .. Len(s) : (s \o t)[i] = s[i]
         /\ \A i \in 1 .. Len(t) : (s \o t)[Len(s) + i] = t[i]
<1>1. Len(s) \in Nat /\ Len(t) \in Nat
  OBVIOUS
<1>2. /\ s \o t \in Seq(Units) /\ Len(s \o t) = Len(s) + Len(t)
      /\ \A i \in 1 .. Len(s) + Len(t) : (s \o t)[i] = IF i <= Len(s) THEN s[i] ELSE t[i - Len(s)]
  BY ConcatProperties
<1>3. \A i \in 1 .. Len(s) : (s \o t)[i] = s[i]
  BY <1>1, <1>2
<1>4. \A i \in 1 .. Len(t) : (s \o t)[Len(s) + i] = t[i]
  <2>1. ASSUME NEW i \in 1 .. Len(t) PROVE (s \o t)[Len(s) + i] = t[i]
    <3>1. Len(s) + i \in 1 .. Len(s) + Len(t) /\ ~ (Len(s) + i <= Len(s)) /\ Len(s) + i - Len(s) = i
      BY <1>1
    <3>2. QED
      BY <1>2, <3>1
  <2>2. QED
    BY <2>1
<1>5. QED
  BY <1>2, <1>3, <1>4

-------------------------------------------------------------------------------
(* The stream of a client *)

\* The units of request r.
Total(s, r) == HeadLen + s[r].body

\* The unit a client sends after u.
After(s, u) == IF u[3] < Total(s, u[2]) THEN <<u[1], u[2], u[3] + 1>> ELSE <<u[1], u[2] + 1, 1>>

\* L[1] to L[m] are the last m units of what the client of connection c has
\* sent: the requests s, of the last of them off units.
Follows(L, m, c, s, off) ==
  /\ \A i \in 1 .. m : \E r \in 1 .. Len(s) : \E p \in 1 .. Total(s, r) : L[i] = <<c, r, p>>
  /\ \A i \in 1 .. m : i < m => L[i + 1] = After(s, L[i])
  /\ m > 0 => L[m] = <<c, Len(s), off>>

\* Request r begins at place i of the line; the line begins with request r.
BeginsAt(L, i, c, r) == L[i] = <<c, r, 1>>
Begins(L, c, r) == L[1] = <<c, r, 1>>

\* A request has at least one unit.
LEMMA TotalType ==
  ASSUME NEW s \in Seq(Shapes), NEW r \in 1 .. Len(s)
  PROVE  s[r] \in Shapes /\ s[r].body \in Nat /\ Total(s, r) \in Nat /\ Total(s, r) > 0
<1>1. s[r] \in Shapes
  OBVIOUS
<1>2. s[r].body \in Nat
  BY <1>1, ShapeAssumption
<1>3. QED
  BY <1>1, <1>2, SizeAssumption DEF Total

\* Dropping units from the front leaves the last ones.
LEMMA FollowsSuffix ==
  ASSUME NEW L, NEW K, NEW m \in Nat, NEW d \in 0 .. m, NEW c, NEW s, NEW off,
         Follows(L, m, c, s, off), \A i \in 1 .. (m - d) : K[i] = L[d + i]
  PROVE  Follows(K, m - d, c, s, off)
<1>1. m - d \in Nat /\ \A i \in 1 .. (m - d) : d + i \in 1 .. m
  OBVIOUS
<1>2. \A i \in 1 .. (m - d) : \E r \in 1 .. Len(s) : \E p \in 1 .. Total(s, r) : K[i] = <<c, r, p>>
  BY <1>1 DEF Follows
<1>3. ASSUME NEW i \in 1 .. (m - d), i < m - d PROVE K[i + 1] = After(s, K[i])
  <2>1. i + 1 \in 1 .. (m - d) /\ d + i \in 1 .. m /\ d + i < m /\ d + (i + 1) = (d + i) + 1
    BY <1>3
  <2>2. L[(d + i) + 1] = After(s, L[d + i])
    BY <2>1 DEF Follows
  <2>3. K[i] = L[d + i] /\ K[i + 1] = L[(d + i) + 1]
    BY <2>1
  <2>4. QED
    BY <2>2, <2>3
<1>4. ASSUME m - d > 0 PROVE K[m - d] = <<c, Len(s), off>>
  <2>1. m - d \in 1 .. (m - d) /\ d + (m - d) = m /\ m > 0
    BY <1>4
  <2>2. K[m - d] = L[m]
    BY <2>1
  <2>3. QED
    BY <2>1, <2>2 DEF Follows
<1>5. QED
  BY <1>2, <1>3, <1>4 DEF Follows

\* The client sends one more unit of its last request.
LEMMA FollowsMore ==
  ASSUME NEW L, NEW K, NEW m \in Nat, NEW c, NEW s \in Seq(Shapes), NEW off \in Nat,
         Follows(L, m, c, s, off), Len(s) > 0, off < Total(s, Len(s)),
         \A i \in 1 .. m : K[i] = L[i],
         K[m + 1] = <<c, Len(s), off + 1>>
  PROVE  Follows(K, m + 1, c, s, off + 1)
<1>1. Len(s) \in 1 .. Len(s) /\ Total(s, Len(s)) \in Nat
  BY TotalType
<1>2. off + 1 \in 1 .. Total(s, Len(s))
  BY <1>1
<1>3. ASSUME NEW i \in 1 .. m + 1
      PROVE  \E r \in 1 .. Len(s) : \E p \in 1 .. Total(s, r) : K[i] = <<c, r, p>>
  <2>1. CASE i = m + 1
    BY <2>1, <1>1, <1>2
  <2>2. CASE i # m + 1
    <3>1. i \in 1 .. m
      BY <2>2
    <3>2. QED
      BY <3>1 DEF Follows
  <2>3. QED
    BY <2>1, <2>2
<1>4. ASSUME NEW i \in 1 .. m + 1, i < m + 1 PROVE K[i + 1] = After(s, K[i])
  <2>1. CASE i = m
    <3>1. K[i] = <<c, Len(s), off>>
      BY <2>1, <1>4 DEF Follows
    <3>2. QED
      BY <2>1, <3>1 DEF After
  <2>2. CASE i # m
    <3>1. i \in 1 .. m /\ i + 1 \in 1 .. m /\ i < m
      BY <1>4, <2>2
    <3>2. QED
      BY <3>1 DEF Follows
  <2>3. QED
    BY <2>1, <2>2
<1>5. QED
  BY <1>3, <1>4 DEF Follows

\* The client begins another request.
LEMMA FollowsNew ==
  ASSUME NEW L, NEW K, NEW m \in Nat, NEW c, NEW s \in Seq(Shapes), NEW off \in Nat, NEW shape \in Shapes,
         Follows(L, m, c, s, off), Len(s) > 0 => off = Total(s, Len(s)),
         \A i \in 1 .. m : K[i] = L[i],
         K[m + 1] = <<c, Len(s) + 1, 1>>
  PROVE  Follows(K, m + 1, c, Append(s, shape), 1)
<1> DEFINE t == Append(s, shape)
<1>1. t \in Seq(Shapes) /\ Len(t) = Len(s) + 1 /\ Len(s) \in Nat /\ \A r \in 1 .. Len(s) : t[r] = s[r]
  BY AppendProperties
<1> HIDE DEF t
<1>2. \A r \in 1 .. Len(s) : Total(t, r) = Total(s, r)
  BY <1>1 DEF Total
<1>3. Len(s) + 1 \in 1 .. Len(t) /\ \A r \in 1 .. Len(s) : r \in 1 .. Len(t)
  BY <1>1
<1>4. Total(t, Len(s) + 1) \in Nat /\ Total(t, Len(s) + 1) > 0
  BY <1>1, <1>3, TotalType
<1>5. 1 \in 1 .. Total(t, Len(s) + 1)
  BY <1>4
<1>6. ASSUME NEW i \in 1 .. m + 1
      PROVE  \E r \in 1 .. Len(t) : \E p \in 1 .. Total(t, r) : K[i] = <<c, r, p>>
  <2>1. CASE i = m + 1
    BY <2>1, <1>3, <1>5
  <2>2. CASE i # m + 1
    <3>1. i \in 1 .. m
      BY <2>2
    <3>2. PICK r \in 1 .. Len(s) : \E p \in 1 .. Total(s, r) : K[i] = <<c, r, p>>
      BY <3>1 DEF Follows
    <3>3. QED
      BY <3>2, <1>2, <1>3
  <2>3. QED
    BY <2>1, <2>2
<1>7. ASSUME NEW i \in 1 .. m + 1, i < m + 1 PROVE K[i + 1] = After(t, K[i])
  <2>1. CASE i = m
    <3>1. K[i] = <<c, Len(s), off>>
      BY <2>1, <1>7 DEF Follows
    <3>2. PICK r \in 1 .. Len(s) : \E p \in 1 .. Total(s, r) : K[i] = <<c, r, p>>
      BY <2>1, <1>7 DEF Follows
    <3>3. Len(s) \in 1 .. Len(s) /\ Len(s) > 0
      BY <3>2
    <3>4. Total(t, Len(s)) = off
      BY <3>3, <1>2
    <3>5. ~ (off < Total(t, Len(s)))
      BY <3>4
    <3>6. After(t, <<c, Len(s), off>>) = <<c, Len(s) + 1, 1>>
      BY <3>5 DEF After
    <3>7. QED
      BY <2>1, <3>1, <3>6
  <2>2. CASE i # m
    <3>1. i \in 1 .. m /\ i + 1 \in 1 .. m /\ i < m
      BY <1>7, <2>2
    <3>2. K[i + 1] = After(s, K[i])
      BY <3>1 DEF Follows
    <3>3. PICK r \in 1 .. Len(s) : \E p \in 1 .. Total(s, r) : L[i] = <<c, r, p>>
      BY <3>1 DEF Follows
    <3>4. Total(t, K[i][2]) = Total(s, K[i][2])
      BY <3>1, <3>3, <1>2
    <3>5. QED
      BY <3>2, <3>4 DEF After
  <2>3. QED
    BY <2>1, <2>2
<1>8. K[m + 1] = <<c, Len(t), 1>>
  BY <1>1
<1>9. Follows(K, m + 1, c, t, 1)
  BY <1>6, <1>7, <1>8 DEF Follows
<1>10. QED
  BY <1>9 DEF t

\* From the first unit of a request on, the line is that request.
LEMMA FollowsRequest ==
  ASSUME NEW L, NEW m \in Nat, NEW c, NEW s \in Seq(Shapes), NEW off, NEW r \in 1 .. Len(s),
         Follows(L, m, c, s, off), Begins(L, c, r),
         NEW n \in 1 .. m, n <= Total(s, r)
  PROVE  L[n] = <<c, r, n>>
<1> DEFINE S == {i \in 1 .. m : i <= Total(s, r) /\ L[i] # <<c, r, i>>}
<1>1. Total(s, r) \in Nat
  BY TotalType
<1>2. SUFFICES ASSUME S # {} PROVE FALSE
  OBVIOUS
<1>3. S \in SUBSET Nat
  OBVIOUS
<1>4. PICK k \in S : \A j \in S : k <= j
  <2> HIDE DEF S
  <2>1. QED
    BY <1>2, <1>3, LeastExists
<1>5. k # 1
  BY DEF Begins
<1>6. k - 1 \in 1 .. m /\ k - 1 < m /\ k - 1 < Total(s, r) /\ k - 1 <= Total(s, r) /\ (k - 1) + 1 = k /\ ~ (k <= k - 1)
  BY <1>1, <1>5
<1>7. L[k - 1] = <<c, r, k - 1>>
  BY <1>4, <1>6
<1>8. L[(k - 1) + 1] = After(s, L[k - 1])
  BY <1>6 DEF Follows
<1>9. After(s, L[k - 1]) = <<c, r, (k - 1) + 1>>
  BY <1>6, <1>7 DEF After
<1>10. QED
  BY <1>6, <1>8, <1>9

\* After the last unit of a request comes the first unit of the next one, or
\* there is nothing more.
LEMMA FollowsNext ==
  ASSUME NEW L, NEW m \in Nat, NEW c, NEW s \in Seq(Shapes), NEW off, NEW r \in 1 .. Len(s),
         Follows(L, m, c, s, off), Begins(L, c, r), Total(s, r) <= m
  PROVE  /\ Total(s, r) < m => BeginsAt(L, Total(s, r) + 1, c, r + 1)
         /\ Total(s, r) = m => Len(s) = r /\ off = m
<1>1. Total(s, r) \in 1 .. m
  BY TotalType
<1>2. L[Total(s, r)] = <<c, r, Total(s, r)>>
  <2>1. ASSUME NEW n \in 1 .. m, n = Total(s, r) PROVE L[n] = <<c, r, n>>
    <3>1. n <= Total(s, r)
      BY <2>1
    <3>2. QED
      BY <3>1, FollowsRequest
  <2>2. QED
    BY <1>1, <2>1
<1>3. ASSUME Total(s, r) < m PROVE L[Total(s, r) + 1] = <<c, r + 1, 1>>
  <2>1. L[Total(s, r) + 1] = After(s, L[Total(s, r)])
    BY <1>1, <1>3 DEF Follows
  <2>2. QED
    BY <1>1, <1>2, <2>1 DEF After
<1>4. ASSUME Total(s, r) = m PROVE Len(s) = r /\ off = m
  <2>1. L[m] = <<c, Len(s), off>>
    BY <1>1, <1>4 DEF Follows
  <2>2. QED
    BY <1>2, <1>4, <2>1
<1>5. QED
  BY <1>3, <1>4 DEF BeginsAt

-------------------------------------------------------------------------------
(* The inductive invariant *)

Serving == pc \in {"body", "answer", "end"}

\* Units of the line that the worker holds: in the buffer, and beyond it the part
\* of a body that mg_read took straight from the socket.
Held ==
  IF Len(buf) < request_len + Len(post_body) THEN request_len + Len(post_body) ELSE Len(buf)

Size == Held + Len(wire)

\* Everything the worker holds or will receive, in the order it was sent.
Line ==
  [i \in 1 .. Size |->
     IF i <= Len(buf) THEN buf[i]
     ELSE IF i <= Held THEN post_body[i - request_len] ELSE wire[i - Held]]

\* The client and the buffer stay within their bounds.
Bounds ==
  /\ cn \in 1 .. MaxConnections
  /\ Len(stream) <= MaxRequests
  /\ Len(buf) <= BufSize
  /\ Len(stream) > 0 => offset \in 1 .. Total(stream, Len(stream))

\* What the connection object holds of the current request.  mg_read takes from
\* the socket only when the buffer has nothing more of the body.
Current ==
  /\ ~ Serving => request_len = 0 /\ post_body = <<>>
  /\ Serving =>
       /\ request_len = HeadLen /\ HeadLen <= Len(buf)
       /\ cur[1] = cn /\ cur[2] \in 1 .. Len(stream)
       /\ Len(post_body) <= Shape(cur).body
  /\ pc = "body" /\ Len(post_body) < Shape(cur).body => Len(buf) <= HeadLen + Len(post_body)

\* The line is the end of the client's stream, and while a request is served it
\* begins with that request; the handler's copy of the body is part of it.
OnLine ==
  /\ pc # "done" => Follows(Line, Size, cn, stream, offset)
  /\ Serving =>
       /\ Begins(Line, cn, cur[2])
       /\ \A k \in 1 .. Len(post_body) : post_body[k] = Line[HeadLen + k]

\* Request r comes next, now or when the client sends it.
NextIs(r) ==
  /\ Size > 0 => Begins(Line, cn, r)
  /\ Size = 0 => Len(stream) = r - 1 /\ (r > 1 => offset = Total(stream, r - 1))

\* Requests are served in the order they were sent.
InTurn ==
  ~ unread =>
    /\ pc = "read" => NextIs(Len(answers) + 1)
    /\ pc \in {"body", "answer"} => cur[2] = Len(answers) + 1
    /\ pc = "end" => cur[2] = Len(answers)

Inv == TypeOK /\ Bounds /\ Current /\ OnLine /\ InTurn

\* The lengths are numbers.
LEMMA Lengths ==
  ASSUME TypeOK
  PROVE  /\ Len(buf) \in Nat /\ Len(wire) \in Nat /\ Len(post_body) \in Nat
         /\ Len(stream) \in Nat /\ Len(answers) \in Nat /\ request_len \in Nat
         /\ Held \in Nat /\ Size \in Nat /\ Len(buf) <= Held /\ Held <= Size
<1>1. /\ Len(buf) \in Nat /\ Len(wire) \in Nat /\ Len(post_body) \in Nat
      /\ Len(stream) \in Nat /\ Len(answers) \in Nat /\ request_len \in Nat
  BY LenProperties DEF TypeOK
<1>2. Held \in Nat /\ Len(buf) <= Held
  BY <1>1 DEF Held
<1>3. QED
  BY <1>1, <1>2 DEF Size

\* The line by its parts.
LEMMA LineParts ==
  ASSUME TypeOK
  PROVE  /\ \A i \in 1 .. Len(buf) : i \in 1 .. Size /\ Line[i] = buf[i]
         /\ \A i \in 1 .. Len(wire) : Held + i \in 1 .. Size /\ Line[Held + i] = wire[i]
<1>1. /\ Len(buf) \in Nat /\ Held \in Nat /\ Len(buf) <= Held /\ Len(wire) \in Nat /\ Size = Held + Len(wire)
  BY Lengths DEF Size
<1>2. ASSUME NEW i \in 1 .. Len(buf) PROVE i \in 1 .. Size /\ Line[i] = buf[i]
  <2>1. i \in 1 .. Size /\ i <= Len(buf)
    BY <1>1
  <2>2. QED
    BY <2>1 DEF Line
<1>3. ASSUME NEW i \in 1 .. Len(wire) PROVE Held + i \in 1 .. Size /\ Line[Held + i] = wire[i]
  <2>1. ASSUME NEW j, j = Held + i PROVE j \in 1 .. Size /\ Line[j] = wire[i]
    <3>1. j \in 1 .. Size /\ ~ (j <= Len(buf)) /\ ~ (j <= Held) /\ j - Held = i
      BY <1>1, <2>1
    <3>2. QED
      BY <3>1 DEF Line
  <2>2. QED
    BY <2>1
<1>4. QED
  BY <1>2, <1>3

\* Between requests the handler has no data, so the worker holds the buffer.
LEMMA BufferOnly ==
  ASSUME TypeOK, Current, ~ Serving PROVE Held = Len(buf) /\ Size = Len(buf) + Len(wire)
<1>1. Len(post_body) = 0 /\ request_len = 0 /\ Len(buf) \in Nat
  BY Lengths DEF Current
<1>2. QED
  BY <1>1 DEF Held, Size

\* In the first state nothing has been sent.
LEMMA InitInv == Init => Inv
<1> SUFFICES ASSUME Init PROVE Inv
  OBVIOUS
<1>1. TypeOK
  <2>1. <<>> \in Seq(Shapes) /\ <<>> \in Seq(Units) /\ <<>> \in Seq([to : Nat \X Nat, excess : 0 .. 1])
    OBVIOUS
  <2>2. 0 \in 0 .. 1 /\ 1 \in Nat /\ 0 \in Nat
    OBVIOUS
  <2>3. QED
    BY <2>1, <2>2 DEF Init, TypeOK
<1>2. Len(stream) = 0 /\ Len(buf) = 0 /\ Len(wire) = 0 /\ Len(answers) = 0
  BY DEF Init
<1>3. Bounds
  BY <1>2, SizeAssumption DEF Init, Bounds
<1>4. ~ Serving /\ pc = "read"
  BY DEF Init, Serving
<1>5. Current
  BY <1>4 DEF Init, Current
<1>6. Size = 0
  BY <1>1, <1>2, <1>4, <1>5, BufferOnly
<1>7. OnLine
  BY <1>4, <1>6 DEF OnLine, Follows
<1>8. InTurn
  BY <1>2, <1>4, <1>6 DEF InTurn, NextIs
<1>9. QED
  BY <1>1, <1>3, <1>5, <1>7, <1>8 DEF Inv

\* What does not touch the connection keeps the invariant.
LEMMA StopKeeps ==
  ASSUME Inv, stop_flag' \in 0 .. 1,
         UNCHANGED <<cn, clientVars, pc, buf, request_len, cur, post_body, answers, unread>>
  PROVE  Inv'
<1>1. TypeOK'
  BY DEF Inv, TypeOK, clientVars
<1>2. Bounds'
  BY DEF Inv, Bounds, clientVars, Total
<1>3. Serving' = Serving /\ Held' = Held /\ Size' = Size /\ Line' = Line
  BY DEF Serving, Held, Size, Line, clientVars
<1>4. Current'
  BY <1>3 DEF Inv, Current, Shape, clientVars
<1>5. OnLine'
  BY <1>3 DEF Inv, OnLine, clientVars
<1>6. InTurn'
  BY <1>3 DEF Inv, InTurn, NextIs, clientVars
<1>7. QED
  BY <1>1, <1>2, <1>4, <1>5, <1>6 DEF Inv

\* Stream, answers and connection unchanged and the line kept: the steps in which
\* the worker receives, and those of the handler, only cut the line elsewhere.
LEMMA LineKept ==
  ASSUME Inv, UNCHANGED <<cn, stream, offset>>, Size' = Size, Line' = Line, pc' # "done",
         pc # "done"
  PROVE  /\ Follows(Line, Size, cn, stream, offset)'
         /\ \A r : Begins(Line, cn, r)' <=> Begins(Line, cn, r)
         /\ \A r : NextIs(r)' <=> NextIs(r)
<1>1. Follows(Line, Size, cn, stream, offset)'
  BY DEF Inv, OnLine
<1>2. \A r : Begins(Line, cn, r)' <=> Begins(Line, cn, r)
  OBVIOUS
<1>3. \A r : NextIs(r)' <=> NextIs(r)
  BY DEF NextIs
<1>4. QED
  BY <1>1, <1>2, <1>3

\* The client sends one more unit of its last request, or begins another one.
LEMMA Sent ==
  ASSUME Inv, ClientSends
  PROVE  /\ stream' \in Seq(Shapes) /\ offset' \in Nat
         /\ Len(stream') \in Nat /\ Len(stream') <= MaxRequests /\ Len(stream) <= Len(stream')
         /\ \A r \in 1 .. Len(stream) : stream'[r] = stream[r]
         /\ Len(stream') > 0 /\ offset' \in 1 .. Total(stream', Len(stream'))
         /\ wire' = Append(wire, <<cn, Len(stream'), offset'>>)
         /\ (Len(stream) > 0 => offset = Total(stream, Len(stream))) =>
              Len(stream') = Len(stream) + 1 /\ offset' = 1
         /\ \A K : /\ \A i \in 1 .. Size : K[i] = Line[i]
                   /\ K[Size + 1] = <<cn, Len(stream'), offset'>>
                   => Follows(K, Size + 1, cn, stream', offset')
<1> USE DEF Inv
<1>1. Len(stream) \in Nat /\ Size \in Nat /\ Follows(Line, Size, cn, stream, offset)
  BY Lengths DEF OnLine, ClientSends
<1>2. stream \in Seq(Shapes) /\ offset \in Nat /\ MaxRequests \in Nat /\ Len(stream) <= MaxRequests
  BY SizeAssumption DEF TypeOK, Bounds
<1>3. CASE /\ Len(stream) > 0
           /\ offset < HeadLen + stream[Len(stream)].body
           /\ offset' = offset + 1
           /\ wire' = Append(wire, <<cn, Len(stream), offset + 1>>)
           /\ UNCHANGED stream
  <2>1. Len(stream) \in 1 .. Len(stream) /\ offset < Total(stream, Len(stream))
    BY <1>1, <1>3 DEF Total
  <2>2. Total(stream, Len(stream)) \in Nat
    BY <1>2, <2>1, TotalType
  <2>3. offset' \in Nat /\ offset' \in 1 .. Total(stream, Len(stream))
    BY <1>2, <1>3, <2>1, <2>2
  <2>4. ASSUME NEW K, \A i \in 1 .. Size : K[i] = Line[i], K[Size + 1] = <<cn, Len(stream), offset + 1>>
        PROVE  Follows(K, Size + 1, cn, stream, offset + 1)
    BY <1>1, <1>2, <1>3, <2>1, <2>4, FollowsMore
  <2>5. ~ (Len(stream) > 0 => offset = Total(stream, Len(stream)))
    BY <1>2, <1>3, <2>1, <2>2
  <2>6. QED
    BY <1>1, <1>2, <1>3, <2>3, <2>4, <2>5
<1>4. CASE /\ Len(stream) > 0 => offset = HeadLen + stream[Len(stream)].body
           /\ Len(stream) < MaxRequests
           /\ \E shape \in Shapes : stream' = Append(stream, shape)
           /\ offset' = 1
           /\ wire' = Append(wire, <<cn, Len(stream) + 1, 1>>)
  <2>1. PICK shape \in Shapes : stream' = Append(stream, shape)
    BY <1>4
  <2>2. stream' \in Seq(Shapes) /\ Len(stream') = Len(stream) + 1 /\ \A r \in 1 .. Len(stream) : stream'[r] = stream[r]
    BY <1>2, <2>1, AppendProperties
  <2>3. Len(stream') \in 1 .. Len(stream') /\ Len(stream') <= MaxRequests /\ Len(stream') > 0 /\ Len(stream) <= Len(stream')
    BY <1>1, <1>2, <1>4, <2>2
  <2>4. Total(stream', Len(stream')) \in Nat /\ Total(stream', Len(stream')) > 0
    BY <2>2, <2>3, TotalType
  <2>5. 1 \in 1 .. Total(stream', Len(stream'))
    BY <2>4
  <2>6. Len(stream) > 0 => offset = Total(stream, Len(stream))
    BY <1>4 DEF Total
  <2>7. ASSUME NEW K, \A i \in 1 .. Size : K[i] = Line[i], K[Size + 1] = <<cn, Len(stream) + 1, 1>>
        PROVE  Follows(K, Size + 1, cn, stream', 1)
    BY <1>1, <1>2, <2>1, <2>6, <2>7, FollowsNew
  <2>8. QED
    BY <1>1, <1>4, <2>2, <2>3, <2>5, <2>7
<1>5. QED
  BY <1>3, <1>4 DEF ClientSends

\* The client sends one more unit.
LEMMA ClientSendsKeeps == ASSUME Inv, ClientSends PROVE Inv'
<1> USE DEF Inv
<1>1. /\ Len(buf) \in Nat /\ Len(wire) \in Nat /\ Len(stream) \in Nat
      /\ Held \in Nat /\ Size \in Nat /\ Len(buf) <= Held /\ Size = Held + Len(wire)
  BY Lengths DEF Size
<1>2. UNCHANGED <<cn, stop_flag, pc, buf, request_len, cur, post_body, answers, unread>> /\ pc # "done"
  BY DEF ClientSends
<1> DEFINE u == <<cn, Len(stream'), offset'>>
<1>3. u \in Units
  <2>1. cn \in 1 .. MaxConnections /\ Len(stream') \in 1 .. MaxRequests /\ offset' \in Nat
    BY Sent, SizeAssumption DEF Bounds
  <2>2. QED
    BY <2>1 DEF Units
<1>4. wire' \in Seq(Units) /\ Len(wire') = Len(wire) + 1 /\ (\A i \in 1 .. Len(wire) : wire'[i] = wire[i]) /\ wire'[Len(wire) + 1] = u
  <2>1. wire' = Append(wire, u) /\ wire \in Seq(Units)
    BY Sent DEF TypeOK
  <2> HIDE DEF u
  <2>2. QED
    BY <1>3, <2>1, AppendProperties
<1>5. TypeOK'
  BY <1>2, <1>4, Sent DEF TypeOK
<1>6. Bounds'
  BY <1>2, Sent DEF Bounds
<1>7. Held' = Held /\ Serving' = Serving /\ Size' = Size + 1
  <2>1. Held' = Held /\ Serving' = Serving
    BY <1>2 DEF Held, Serving
  <2>2. QED
    BY <1>1, <1>4, <2>1 DEF Size
<1>8. \A i \in 1 .. Size : Line'[i] = Line[i]
  <2>1. ASSUME NEW i \in 1 .. Size PROVE Line'[i] = Line[i]
    <3>1. i \in 1 .. Size' /\ (~ (i <= Held) => i - Held \in 1 .. Len(wire))
      BY <1>1, <1>7
    <3>2. Line'[i] = IF i <= Len(buf) THEN buf[i]
                     ELSE IF i <= Held THEN post_body[i - request_len] ELSE wire'[i - Held]
      BY <1>2, <1>7, <3>1 DEF Line
    <3>3. QED
      BY <1>4, <3>1, <3>2 DEF Line
  <2>2. QED
    BY <2>1
<1>9. Line'[Size + 1] = u
  <2>1. ASSUME NEW j, j = Size + 1 PROVE Line'[j] = u
    <3>1. j \in 1 .. Size' /\ ~ (j <= Len(buf')) /\ ~ (j <= Held') /\ j - Held' = Len(wire) + 1
      BY <1>1, <1>2, <1>7, <2>1
    <3>2. Line'[j] = wire'[j - Held']
      BY <3>1 DEF Line
    <3>3. QED
      BY <1>4, <3>1, <3>2
  <2>2. QED
    BY <2>1
<1>10. Follows(Line, Size, cn, stream, offset)'
  BY <1>2, <1>7, <1>8, <1>9, Sent
<1>11. Serving => cur[2] \in 1 .. Len(stream') /\ Shape(cur)' = Shape(cur) /\ 1 \in 1 .. Size
  <2>1. SUFFICES ASSUME Serving PROVE cur[2] \in 1 .. Len(stream') /\ Shape(cur)' = Shape(cur) /\ 1 \in 1 .. Size
    OBVIOUS
  <2>2. cur[2] \in 1 .. Len(stream)
    BY <2>1 DEF Current
  <2>3. 1 \in 1 .. Size
    BY <1>1, <2>1, SizeAssumption DEF Current
  <2>4. QED
    BY <1>1, <1>2, <2>2, <2>3, Sent DEF Shape
<1>12. Current'
  <2>1. CASE ~ Serving
    BY <1>2, <1>7, <2>1 DEF Current, Serving
  <2>2. CASE Serving
    BY <1>2, <1>7, <1>11, <2>2 DEF Current
  <2>3. QED
    BY <2>1, <2>2
<1>13. \A r : Size > 0 => (Begins(Line, cn, r)' <=> Begins(Line, cn, r))
  BY <1>1, <1>2, <1>8 DEF Begins
<1>14. OnLine'
  <2>1. ASSUME Serving PROVE Begins(Line, cn, cur[2])'
    BY <1>1, <1>2, <1>11, <1>13, <2>1 DEF OnLine
  <2>2. ASSUME Serving, NEW k \in 1 .. Len(post_body) PROVE post_body[k] = Line'[HeadLen + k]
    <3>1. HeadLen + k \in 1 .. Size
      BY <1>1, <2>2, Lengths, SizeAssumption DEF Current, Held
    <3>2. QED
      BY <1>8, <2>2, <3>1 DEF OnLine
  <2>3. QED
    BY <1>2, <1>7, <1>10, <2>1, <2>2 DEF OnLine
<1>15. InTurn'
  <2>1. SUFFICES ASSUME ~ unread, pc = "read" PROVE NextIs(Len(answers) + 1)'
    BY <1>2 DEF InTurn
  <2> DEFINE r == Len(answers) + 1
  <2>2. NextIs(r) /\ r \in Nat /\ r >= 1 /\ Len(answers)' = Len(answers)
    BY <1>2, <2>1, Lengths DEF InTurn
  <2>3. CASE Size > 0
    BY <1>1, <1>2, <1>7, <1>13, <2>2, <2>3 DEF NextIs
  <2>4. CASE Size = 0
    <3>1. Len(stream) = r - 1 /\ (r > 1 => offset = Total(stream, r - 1))
      BY <2>2, <2>4 DEF NextIs
    <3>2. Len(stream') = r /\ offset' = 1
      BY <2>2, <3>1, Sent
    <3>3. Begins(Line, cn, r)'
      BY <1>2, <1>9, <2>2, <2>4, <3>2 DEF Begins
    <3>4. QED
      BY <1>7, <2>2, <2>4, <3>3 DEF NextIs
  <2>5. QED
    BY <1>1, <2>3, <2>4
<1>16. QED
  BY <1>5, <1>6, <1>12, <1>14, <1>15

\* read_request moves units from the socket to the end of the buffer, within
\* the buffer's size: the line stays as it is.
LEMMA ReadMoreKeeps == ASSUME Inv, ReadMore PROVE Inv'
<1> USE DEF Inv
<1>1. pc = "read" /\ ~ Serving /\ request_len = 0 /\ post_body = <<>>
  BY DEF ReadMore, Serving, Current
<1>2. UNCHANGED <<cn, stream, offset, stop_flag, pc, request_len, cur, post_body, answers, unread>>
  BY DEF ReadMore
<1>3. Len(buf) \in Nat /\ Len(wire) \in Nat /\ BufSize \in Nat /\ Len(buf) <= BufSize
  BY Lengths, SizeAssumption DEF Bounds
<1>4. PICK n \in 1 .. Least(Len(wire), BufSize - Len(buf)) : buf' = buf \o Received(n) /\ wire' = Remaining(n)
  BY DEF ReadMore
<1>5. n \in 1 .. Len(wire) /\ Len(buf) + n <= BufSize
  BY <1>3, <1>4 DEF Least
<1>6. /\ Received(n) \in Seq(Units) /\ Len(Received(n)) = n
      /\ \A i \in 1 .. n : Received(n)[i] = wire[i]
      /\ wire' \in Seq(Units) /\ Len(wire') = Len(wire) - n
      /\ \A i \in 1 .. (Len(wire) - n) : wire'[i] = wire[n + i]
  BY <1>4, <1>5, Receive DEF TypeOK
<1>7. /\ buf' \in Seq(Units) /\ Len(buf') = Len(buf) + n
      /\ \A i \in 1 .. Len(buf) : buf'[i] = buf[i]
      /\ \A i \in 1 .. n : buf'[Len(buf) + i] = wire[i]
  <2>1. buf \in Seq(Units)
    BY DEF TypeOK
  <2>2. QED
    BY <1>4, <1>6, <2>1, Joined
<1>8. TypeOK'
  BY <1>2, <1>6, <1>7 DEF TypeOK
<1>9. Bounds'
  BY <1>2, <1>5, <1>7 DEF Bounds, Total
<1>10. ~ Serving' /\ Current'
  BY <1>1, <1>2 DEF Serving, Current
<1>11. Held = Len(buf) /\ Size = Len(buf) + Len(wire)
  BY <1>1, BufferOnly
<1>12. Held' = Len(buf) + n /\ Size' = Size
  <2>1. Len(post_body') = 0 /\ request_len' = 0
    BY <1>1, <1>2
  <2>2. Held' = Len(buf')
    BY <1>3, <1>7, <2>1 DEF Held
  <2>3. QED
    BY <1>3, <1>5, <1>6, <1>7, <1>11, <2>2 DEF Size
<1>13. Line' = Line
  <2>1. ASSUME NEW i \in 1 .. Size PROVE Line'[i] = Line[i]
    <3>1. CASE i <= Len(buf)
      <4>1. i \in 1 .. Size' /\ i <= Len(buf') /\ i \in 1 .. Len(buf)
        BY <1>3, <1>5, <1>7, <1>12, <3>1
      <4>2. QED
        BY <1>7, <4>1 DEF Line
    <3>2. CASE ~ (i <= Len(buf)) /\ i <= Len(buf) + n
      <4>1. i \in 1 .. Size' /\ i <= Len(buf') /\ ~ (i <= Len(buf)) /\ ~ (i <= Held)
        BY <1>3, <1>7, <1>11, <1>12, <3>2
      <4>2. i - Len(buf) \in 1 .. n /\ Len(buf) + (i - Len(buf)) = i
        BY <1>3, <1>5, <3>2
      <4>3. Line'[i] = buf'[i] /\ Line[i] = wire[i - Len(buf)]
        BY <1>11, <4>1 DEF Line
      <4>4. QED
        BY <1>7, <4>2, <4>3
    <3>3. CASE ~ (i <= Len(buf) + n)
      <4>1. /\ i \in 1 .. Size' /\ ~ (i <= Len(buf')) /\ ~ (i <= Held')
            /\ ~ (i <= Len(buf)) /\ ~ (i <= Held)
        BY <1>3, <1>5, <1>7, <1>11, <1>12, <3>3
      <4>2. /\ i - (Len(buf) + n) \in 1 .. (Len(wire) - n)
            /\ n + (i - (Len(buf) + n)) = i - Len(buf)
        BY <1>3, <1>5, <1>11, <3>3
      <4>3. Line'[i] = wire'[i - (Len(buf) + n)] /\ Line[i] = wire[i - Len(buf)]
        BY <1>11, <1>12, <4>1 DEF Line
      <4>4. QED
        BY <1>6, <4>2, <4>3
    <3>4. QED
      BY <3>1, <3>2, <3>3
  <2>2. QED
    BY <1>12, <2>1 DEF Line
<1>14. OnLine'
  BY <1>1, <1>2, <1>10, <1>12, <1>13, LineKept DEF OnLine
<1>15. InTurn'
  BY <1>1, <1>2, <1>12, <1>13, LineKept DEF InTurn
<1>16. QED
  BY <1>8, <1>9, <1>10, <1>14, <1>15

\* getreq fails: the connection is over.
LEMMA RejectKeeps == ASSUME Inv, Reject PROVE Inv'
<1> USE DEF Inv
<1>1. /\ pc = "read" /\ pc' = "done" /\ request_len' = 0 /\ buf' = <<>>
      /\ answers' = Append(answers, [to |-> <<cn, 0>>, excess |-> 0])
      /\ UNCHANGED <<cn, clientVars, stop_flag, cur, post_body, unread>>
  BY DEF Reject
<1>2. TypeOK'
  <2>1. buf' \in Seq(Units)
    BY <1>1
  <2>2. [to |-> <<cn, 0>>, excess |-> 0] \in [to : Nat \X Nat, excess : 0 .. 1]
    BY DEF TypeOK
  <2>3. answers' \in Seq([to : Nat \X Nat, excess : 0 .. 1])
    BY <1>1, <2>2, AppendProperties DEF TypeOK
  <2>4. QED
    BY <1>1, <2>1, <2>3 DEF TypeOK, clientVars
<1>3. Bounds'
  <2>1. Len(buf') = 0 /\ 0 <= BufSize
    BY <1>1, SizeAssumption
  <2>2. QED
    BY <1>1, <2>1 DEF Bounds, Total, clientVars
<1>4. Current'
  BY <1>1 DEF Current, Serving
<1>5. OnLine' /\ InTurn'
  BY <1>1 DEF OnLine, InTurn, Serving
<1>6. QED
  BY <1>2, <1>3, <1>4, <1>5

\* mg_read returns, and the answer is sent.
LEMMA BodyDoneKeeps == ASSUME Inv, BodyDone PROVE Inv'
<1> USE DEF Inv
<1>1. /\ pc = "body" /\ pc' = "answer" /\ Serving /\ Serving'
      /\ UNCHANGED <<cn, clientVars, stop_flag, buf, request_len, cur, post_body, answers, unread>>
  BY DEF BodyDone, Serving
<1>2. TypeOK'
  BY <1>1 DEF TypeOK, clientVars
<1>3. Bounds'
  BY <1>1 DEF Bounds, Total, clientVars
<1>4. Current'
  BY <1>1 DEF Current, Shape, clientVars
<1>5. Held' = Held /\ Size' = Size /\ Line' = Line
  BY <1>1 DEF Held, Size, Line, clientVars
<1>6. OnLine'
  BY <1>1, <1>5, LineKept DEF OnLine, clientVars
<1>7. InTurn'
  BY <1>1 DEF InTurn
<1>8. QED
  BY <1>2, <1>3, <1>4, <1>6, <1>7

\* One more answer is sent, for the current request.
LEMMA AnswerKeeps == ASSUME Inv, Answer PROVE Inv'
<1> USE DEF Inv
<1>1. /\ pc = "answer" /\ pc' = "end" /\ Serving /\ Serving'
      /\ UNCHANGED <<cn, clientVars, stop_flag, buf, request_len, cur, post_body, unread>>
  BY DEF Answer, Serving
<1>2. PICK excess \in Excess(cur) : answers' = Append(answers, [to |-> cur, excess |-> excess])
  BY DEF Answer
<1>3. [to |-> cur, excess |-> excess] \in [to : Nat \X Nat, excess : 0 .. 1]
  <2>1. excess \in 0 .. 1
    BY DEF Excess
  <2>2. QED
    BY <2>1 DEF TypeOK
<1>4. answers' \in Seq([to : Nat \X Nat, excess : 0 .. 1]) /\ Len(answers') = Len(answers) + 1
  BY <1>2, <1>3, AppendProperties DEF TypeOK
<1>5. TypeOK'
  BY <1>1, <1>4 DEF TypeOK, clientVars
<1>6. Bounds'
  BY <1>1 DEF Bounds, Total, clientVars
<1>7. Current'
  BY <1>1 DEF Current, Shape, clientVars
<1>8. Held' = Held /\ Size' = Size /\ Line' = Line
  BY <1>1 DEF Held, Size, Line, clientVars
<1>9. OnLine'
  BY <1>1, <1>8, LineKept DEF OnLine, clientVars
<1>10. InTurn'
  BY <1>1, <1>4 DEF InTurn
<1>11. QED
  BY <1>5, <1>6, <1>7, <1>9, <1>10

\* Another connection is served: nothing of the last one is left.
LEMMA NextConnectionKeeps == ASSUME Inv, NextConnection PROVE Inv'
<1> USE DEF Inv
<1>1. /\ pc = "done" /\ pc' = "read" /\ ~ Serving /\ ~ Serving'
      /\ cn < MaxConnections /\ cn' = cn + 1 /\ offset' = 0 /\ wire' = <<>> /\ buf' = <<>>
      /\ answers' = <<>> /\ unread' = FALSE /\ stream' = <<>>
      /\ UNCHANGED <<stop_flag, request_len, cur, post_body>>
  BY DEF NextConnection, Serving
<1>2. <<>> \in Seq(Shapes) /\ <<>> \in Seq(Units) /\ <<>> \in Seq([to : Nat \X Nat, excess : 0 .. 1])
  OBVIOUS
<1>3. cn' \in 1 .. MaxConnections /\ cn' \in Nat
  BY <1>1, SizeAssumption DEF Bounds
<1>4. TypeOK'
  BY <1>1, <1>2, <1>3 DEF TypeOK
<1>5. Len(stream') = 0 /\ Len(buf') = 0 /\ Len(wire') = 0 /\ Len(answers') = 0 /\ Len(post_body') = 0 /\ request_len' = 0
  BY <1>1 DEF Current
<1>6. Bounds'
  BY <1>3, <1>5, SizeAssumption DEF Bounds
<1>7. Current'
  BY <1>1 DEF Current
<1>8. Size' = 0
  BY <1>5 DEF Size, Held
<1>9. OnLine'
  BY <1>1, <1>8 DEF OnLine, Follows
<1>10. InTurn'
  BY <1>1, <1>5, <1>8 DEF InTurn, NextIs
<1>11. QED
  BY <1>4, <1>6, <1>7, <1>9, <1>10

\* mg_read finds the first units of the body in the buffer, and never more than
\* the buffer or the body has.
LEMMA Buffered ==
  ASSUME buf \in Seq(Units), RequestLen = HeadLen, HeadLen <= Len(buf), NEW len \in Nat
  PROVE  /\ BufferedBody(len) \in Seq(Units)
         /\ Len(BufferedBody(len)) \in Nat /\ Len(BufferedBody(len)) <= len
         /\ HeadLen + Len(BufferedBody(len)) <= Len(buf)
         /\ Len(BufferedBody(len)) < len => Len(buf) <= HeadLen + Len(BufferedBody(len))
         /\ \A k \in 1 .. Len(BufferedBody(len)) : BufferedBody(len)[k] = buf[HeadLen + k]
<1> DEFINE e == Least(Len(buf), HeadLen + len)
<1>1. Len(buf) \in Nat /\ HeadLen \in Nat
  BY SizeAssumption, LenProperties
<1>2. e \in Nat /\ HeadLen <= e /\ e <= Len(buf) /\ e <= HeadLen + len /\ (e < HeadLen + len => e = Len(buf))
  BY <1>1 DEF Least
<1> HIDE DEF e
<1>3. /\ SubSeq(buf, HeadLen + 1, e) \in Seq(Units) /\ Len(SubSeq(buf, HeadLen + 1, e)) = e - HeadLen
      /\ \A i \in 1 .. (e - HeadLen) : SubSeq(buf, HeadLen + 1, e)[i] = buf[HeadLen + i]
  BY <1>1, <1>2, BufferPart
<1>4. BufferedBody(len) = SubSeq(buf, HeadLen + 1, e)
  BY DEF BufferedBody, e
<1>5. QED
  BY <1>1, <1>2, <1>3, <1>4

\* getreq succeeds: the first request of the line becomes the current one.
LEMMA ParseKeeps == ASSUME Inv, Parse PROVE Inv'
<1> USE DEF Inv
<1> DEFINE r == <<buf[1][1], buf[1][2]>>
<1>1. /\ pc = "read" /\ ~ Serving /\ request_len = 0 /\ post_body = <<>>
      /\ RequestLen > 0 /\ WellFormed
      /\ request_len' = RequestLen /\ cur' = r
      /\ post_body' = IF ReadsBody(r) THEN BufferedBody(Shape(r).body) ELSE <<>>
      /\ pc' = IF ReadsBody(r) THEN "body" ELSE "answer"
      /\ UNCHANGED <<cn, clientVars, stop_flag, buf, answers, unread>>
  BY DEF Parse, Serving, Current
<1>2. /\ Len(buf) \in Nat /\ Len(wire) \in Nat /\ HeadLen \in Nat /\ HeadLen > 0 /\ Len(buf) <= BufSize
      /\ Held = Len(buf) /\ Size = Len(buf) + Len(wire) /\ buf \in Seq(Units)
  BY <1>1, Lengths, BufferOnly, SizeAssumption DEF Bounds, TypeOK
<1>3. RequestLen = HeadLen /\ HeadLen <= Len(buf) /\ 1 \in 1 .. HeadLen /\ 1 \in 1 .. Len(buf) /\ 1 \in 1 .. Size
  <2>1. RequestLen \in 0 .. Len(buf) /\ RequestLen = HeadLen
    BY <1>1, <1>2, RequestLenInside DEF WellFormed
  <2>2. QED
    BY <1>2, <2>1
<1>4. buf[1] = <<buf[1][1], buf[1][2], 1>> /\ Line[1] = buf[1]
  <2>1. Line[1] = buf[1]
    BY <1>3, LineParts
  <2>2. buf[1] = <<buf[1][1], buf[1][2], 1>>
    BY <1>1, <1>3 DEF WellFormed
  <2>3. QED
    BY <2>1, <2>2
<1>5. PICK q \in 1 .. Len(stream) : \E p \in 1 .. Total(stream, q) : Line[1] = <<cn, q, p>>
  BY <1>1, <1>3 DEF OnLine, Follows
<1>6. buf[1] = <<cn, q, 1>> /\ cur' = <<cn, q>> /\ r = <<cn, q>>
  BY <1>1, <1>4, <1>5
<1> HIDE DEF r
<1>7. Shape(r) = stream[q] /\ stream[q].body \in Nat /\ Len(stream) \in Nat /\ cn \in Nat
  <2>1. stream \in Seq(Shapes) /\ cn \in Nat
    BY DEF TypeOK
  <2>2. stream[q].body \in Nat
    BY <2>1, TotalType
  <2>3. QED
    BY <1>6, <2>1, <2>2, Lengths DEF Shape
<1>8. /\ post_body' \in Seq(Units) /\ Len(post_body') \in Nat /\ Len(post_body') <= stream[q].body
      /\ HeadLen + Len(post_body') <= Len(buf)
      /\ pc' = "body" /\ Len(post_body') < stream[q].body => Len(buf) <= HeadLen + Len(post_body')
      /\ \A k \in 1 .. Len(post_body') : post_body'[k] = buf[HeadLen + k]
  <2>1. CASE ReadsBody(r)
    BY <1>1, <1>2, <1>3, <1>7, <2>1, Buffered
  <2>2. CASE ~ ReadsBody(r)
    <3>1. post_body' = <<>> /\ pc' = "answer"
      BY <1>1, <2>2
    <3>2. post_body' \in Seq(Units) /\ Len(post_body') = 0
      BY <3>1
    <3>3. QED
      BY <1>2, <1>3, <1>7, <3>1, <3>2
  <2>3. QED
    BY <2>1, <2>2
<1>9. Serving' /\ pc' # "done" /\ pc' # "read" /\ pc' \in {"body", "answer"}
  BY <1>1 DEF Serving
<1>10. TypeOK'
  <2>1. cur' \in Nat \X Nat
    BY <1>6, <1>7
  <2>2. request_len' \in Nat /\ pc' \in {"read", "body", "answer", "end", "done"}
    BY <1>1, <1>2, <1>3, <1>9
  <2>3. QED
    BY <1>1, <1>8, <2>1, <2>2 DEF TypeOK, clientVars
<1>11. Bounds'
  BY <1>1 DEF Bounds, Total, clientVars
<1>12. cur'[1] = cn /\ cur'[2] = q /\ Shape(cur)' = stream[q]
  BY <1>1, <1>6 DEF Shape, clientVars
<1>13. Current'
  <2>1. request_len' = HeadLen /\ buf' = buf /\ cn' = cn /\ stream' = stream
    BY <1>1, <1>3 DEF clientVars
  <2>2. QED
    BY <1>3, <1>8, <1>9, <1>12, <2>1 DEF Current
<1>14. Held' = Held /\ Size' = Size /\ Line' = Line
  <2>1. Held' = Len(buf)
    BY <1>1, <1>2, <1>3, <1>8 DEF Held
  <2>2. Size' = Size
    BY <1>1, <1>2, <2>1 DEF Size, clientVars
  <2>3. ASSUME NEW i \in 1 .. Size PROVE Line'[i] = Line[i]
    <3>1. buf' = buf /\ wire' = wire /\ i \in 1 .. Size' /\ Held' = Held
      BY <1>1, <1>2, <2>1, <2>2 DEF clientVars
    <3>2. CASE i <= Len(buf)
      BY <3>1, <3>2 DEF Line
    <3>3. CASE ~ (i <= Len(buf))
      <4>1. ~ (i <= Held)
        BY <1>2, <3>3
      <4>2. QED
        BY <3>1, <3>3, <4>1 DEF Line
    <3>4. QED
      BY <3>2, <3>3
  <2>4. QED
    BY <1>2, <2>1, <2>2, <2>3 DEF Line
<1>15. OnLine'
  <2>1. Follows(Line, Size, cn, stream, offset)'
    BY <1>1, <1>9, <1>14, LineKept DEF clientVars
  <2>2. Begins(Line, cn, cur[2])'
    BY <1>1, <1>4, <1>6, <1>12, <1>14 DEF Begins
  <2>3. ASSUME NEW k \in 1 .. Len(post_body') PROVE post_body'[k] = Line'[HeadLen + k]
    <3>1. HeadLen + k \in 1 .. Len(buf)
      BY <1>2, <1>8
    <3>2. Line[HeadLen + k] = buf[HeadLen + k]
      BY <3>1, LineParts
    <3>3. QED
      BY <1>8, <1>14, <3>2
  <2>4. QED
    BY <2>1, <2>2, <2>3 DEF OnLine
<1>16. InTurn'
  <2>1. SUFFICES ASSUME ~ unread PROVE cur'[2] = Len(answers) + 1
    BY <1>1, <1>9 DEF InTurn
  <2>2. Size > 0 /\ NextIs(Len(answers) + 1)
    BY <1>1, <1>2, <1>3, <2>1 DEF InTurn
  <2>3. Begins(Line, cn, Len(answers) + 1)
    BY <2>2 DEF NextIs
  <2>4. QED
    BY <1>4, <1>6, <1>12, <2>3 DEF Begins
<1>17. QED
  BY <1>10, <1>11, <1>13, <1>15, <1>16

\* pull_all takes the next units from the socket, and only what the buffer does
\* not hold of the body.
LEMMA ReadBodyKeeps == ASSUME Inv, ReadBody PROVE Inv'
<1> USE DEF Inv
<1>1. /\ pc = "body" /\ Serving /\ request_len = HeadLen /\ HeadLen <= Len(buf)
      /\ UNCHANGED <<cn, stream, offset, stop_flag, pc, buf, request_len, cur, answers, unread>>
      /\ Len(post_body) <= Shape(cur).body /\ cur[2] \in 1 .. Len(stream)
  BY DEF ReadBody, Serving, Current
<1>2. /\ Len(buf) \in Nat /\ Len(wire) \in Nat /\ Len(post_body) \in Nat /\ HeadLen \in Nat /\ HeadLen > 0
      /\ wire \in Seq(Units) /\ post_body \in Seq(Units) /\ Shape(cur).body \in Nat
  <2>1. Shape(cur).body \in Nat
    BY <1>1, TotalType DEF Shape, TypeOK
  <2>2. QED
    BY <2>1, Lengths, SizeAssumption DEF TypeOK
<1>3. PICK n \in 1 .. Least(Len(wire), Shape(cur).body - Len(post_body)) :
        post_body' = post_body \o Received(n) /\ wire' = Remaining(n)
  BY DEF ReadBody
<1>4. n \in 1 .. Len(wire) /\ Len(post_body) + n <= Shape(cur).body /\ Len(post_body) < Shape(cur).body
  BY <1>2, <1>3 DEF Least
<1>5. /\ Received(n) \in Seq(Units) /\ Len(Received(n)) = n
      /\ \A i \in 1 .. n : Received(n)[i] = wire[i]
      /\ wire' \in Seq(Units) /\ Len(wire') = Len(wire) - n
      /\ \A i \in 1 .. (Len(wire) - n) : wire'[i] = wire[n + i]
  BY <1>2, <1>3, <1>4, Receive
<1>6. /\ post_body' \in Seq(Units) /\ Len(post_body') = Len(post_body) + n
      /\ \A i \in 1 .. Len(post_body) : post_body'[i] = post_body[i]
      /\ \A i \in 1 .. n : post_body'[Len(post_body) + i] = wire[i]
  BY <1>2, <1>3, <1>5, Joined
<1>7. Len(buf) <= HeadLen + Len(post_body)
  BY <1>1, <1>4 DEF Current
<1> DEFINE h == HeadLen + Len(post_body)
<1>8. h \in Nat /\ Held = h /\ Size = h + Len(wire)
  BY <1>1, <1>2, <1>7 DEF Held, Size
<1>9. Held' = h + n /\ Size' = Size
  <2>1. Len(buf') < request_len' + Len(post_body') /\ request_len' + Len(post_body') = h + n
    BY <1>1, <1>2, <1>4, <1>6, <1>7
  <2>2. Held' = h + n
    BY <2>1 DEF Held
  <2>3. QED
    BY <1>2, <1>4, <1>5, <1>8, <2>2 DEF Size
<1> HIDE DEF h
<1>10. h = HeadLen + Len(post_body)
  BY DEF h
<1>11. Line' = Line
  <2>1. ASSUME NEW i \in 1 .. Size PROVE Line'[i] = Line[i]
    <3>1. i \in 1 .. Size' /\ buf' = buf /\ request_len' = HeadLen
      BY <1>1, <1>9
    <3>2. CASE i <= Len(buf)
      BY <3>1, <3>2 DEF Line
    <3>3. CASE ~ (i <= Len(buf)) /\ i <= h
      <4>1. i <= Held /\ i <= Held' /\ i - HeadLen \in 1 .. Len(post_body)
        BY <1>1, <1>2, <1>4, <1>8, <1>9, <1>10, <3>3
      <4>2. Line'[i] = post_body'[i - HeadLen] /\ Line[i] = post_body[i - HeadLen]
        BY <1>1, <3>1, <3>3, <4>1 DEF Line
      <4>3. QED
        BY <1>6, <4>1, <4>2
    <3>4. CASE ~ (i <= Len(buf)) /\ ~ (i <= h) /\ i <= h + n
      <4>1. /\ ~ (i <= Held) /\ i <= Held' /\ i - h \in 1 .. n
            /\ Len(post_body) + (i - h) = i - HeadLen
        BY <1>1, <1>2, <1>4, <1>8, <1>9, <1>10, <3>4
      <4>2. Line'[i] = post_body'[i - HeadLen] /\ Line[i] = wire[i - h]
        BY <1>8, <3>1, <3>4, <4>1 DEF Line
      <4>3. QED
        BY <1>6, <4>1, <4>2
    <3>5. CASE ~ (i <= Len(buf)) /\ ~ (i <= h) /\ ~ (i <= h + n)
      <4>1. /\ ~ (i <= Held) /\ ~ (i <= Held') /\ i - (h + n) \in 1 .. (Len(wire) - n)
            /\ n + (i - (h + n)) = i - h
        BY <1>2, <1>4, <1>8, <1>9, <3>5
      <4>2. Line'[i] = wire'[i - (h + n)] /\ Line[i] = wire[i - h]
        BY <1>8, <1>9, <3>1, <3>5, <4>1 DEF Line
      <4>3. QED
        BY <1>5, <4>1, <4>2
    <3>6. QED
      BY <3>2, <3>3, <3>4, <3>5
  <2>2. QED
    BY <1>9, <2>1 DEF Line
<1>12. TypeOK'
  BY <1>1, <1>5, <1>6 DEF TypeOK
<1>13. Bounds'
  BY <1>1 DEF Bounds, Total
<1>14. Serving' /\ Shape(cur)' = Shape(cur)
  BY <1>1 DEF Serving, Shape
<1>15. Current'
  BY <1>1, <1>2, <1>4, <1>6, <1>7, <1>14 DEF Current
<1>16. OnLine'
  <2>1. Follows(Line, Size, cn, stream, offset)' /\ Begins(Line, cn, cur[2])'
    BY <1>1, <1>9, <1>11, LineKept DEF OnLine
  <2>2. ASSUME NEW k \in 1 .. Len(post_body') PROVE post_body'[k] = Line'[HeadLen + k]
    <3>1. CASE k <= Len(post_body)
      <4>1. k \in 1 .. Len(post_body)
        BY <1>2, <3>1
      <4>2. QED
        BY <1>1, <1>6, <1>11, <4>1 DEF OnLine
    <3>2. CASE ~ (k <= Len(post_body))
      <4>1. k - Len(post_body) \in 1 .. Len(wire) /\ k - Len(post_body) \in 1 .. n
            /\ Held + (k - Len(post_body)) = HeadLen + k /\ Len(post_body) + (k - Len(post_body)) = k
        BY <1>2, <1>4, <1>6, <1>8, <1>10, <3>2
      <4>2. Line[Held + (k - Len(post_body))] = wire[k - Len(post_body)]
        BY <4>1, LineParts
      <4>3. QED
        BY <1>6, <1>11, <4>1, <4>2
    <3>3. QED
      BY <3>1, <3>2
  <2>3. QED
    BY <2>1, <2>2 DEF OnLine
<1>17. InTurn'
  BY <1>1 DEF InTurn
<1>18. QED
  BY <1>12, <1>13, <1>15, <1>16, <1>17

\* The worker cannot have received more units of the current request than it
\* holds.
LEMMA ArrivedHeld == ASSUME Inv, Serving PROVE Cardinality(Arrived) \in Nat /\ Cardinality(Arrived) <= Held
<1> USE DEF Inv
<1> DEFINE S == 1 .. Held
<1> DEFINE U == {Line[i] : i \in S}
<1> DEFINE f == [i \in S |-> Line[i]]
<1>1. /\ Held \in Nat /\ Len(buf) <= Held /\ Len(buf) \in Nat /\ Len(post_body) \in Nat
      /\ HeadLen \in Nat /\ HeadLen + Len(post_body) <= Held
  BY Lengths, SizeAssumption DEF Current, Held
<1>2. f \in Surjection(S, U)
  BY DEF Surjection
<1>3. IsFiniteSet(S) /\ Cardinality(S) = Held
  BY <1>1, FS_Interval
<1>4. IsFiniteSet(U) /\ Cardinality(U) <= Held
  <2> HIDE DEF S, U, f
  <2>1. QED
    BY <1>2, <1>3, FS_Surjection
<1>5. Arrived \subseteq U
  <2>1. \A k \in DOMAIN buf : buf[k] \in U
    <3>1. ASSUME NEW k \in 1 .. Len(buf) PROVE buf[k] \in U
      <4>1. k \in S /\ buf[k] = Line[k]
        BY <1>1, LineParts
      <4>2. QED
        BY <4>1
    <3>2. DOMAIN buf = 1 .. Len(buf)
      BY DEF TypeOK
    <3>3. QED
      BY <3>1, <3>2
  <2>2. \A k \in DOMAIN post_body : post_body[k] \in U
    <3>1. ASSUME NEW k \in 1 .. Len(post_body) PROVE post_body[k] \in U
      <4>1. HeadLen + k \in S
        BY <1>1
      <4>2. post_body[k] = Line[HeadLen + k]
        BY DEF OnLine
      <4>3. QED
        BY <4>1, <4>2
    <3>2. DOMAIN post_body = 1 .. Len(post_body)
      BY DEF TypeOK
    <3>3. QED
      BY <3>1, <3>2
  <2> HIDE DEF S, U, f
  <2>3. QED
    BY <2>1, <2>2 DEF Arrived
<1>6. Cardinality(Arrived) <= Cardinality(U) /\ Cardinality(Arrived) \in Nat /\ Cardinality(U) \in Nat
  <2> HIDE DEF S, U, f
  <2>1. IsFiniteSet(Arrived) /\ Cardinality(Arrived) <= Cardinality(U)
    BY <1>4, <1>5, FS_Subset
  <2>2. QED
    BY <1>4, <2>1, FS_CardinalityType
<1> HIDE DEF S, U, f
<1>7. QED
  BY <1>1, <1>4, <1>6

\* At the end of a request the line loses its first units: all those of the
\* request that the worker holds, and all of the request if it has arrived.
LEMMA Dropped ==
  ASSUME Inv, EndRequest
  PROVE  \E d \in 0 .. Size :
           /\ buf' \in Seq(Units) /\ Len(buf') <= Len(buf) /\ Len(buf') + Len(wire) = Size - d
           /\ \A i \in 1 .. Len(buf') : buf'[i] = Line[d + i]
           /\ \A i \in 1 .. Len(wire) : wire[i] = Line[d + (Len(buf') + i)]
           /\ (Total(stream, cur[2]) <= Held /\ ContentLen >= 0) => d = Total(stream, cur[2])
<1> USE DEF Inv
<1>1. /\ pc = "end" /\ Serving /\ buf' = SubSeq(buf, DiscardLen + 1, Len(buf))
      /\ request_len = HeadLen /\ HeadLen <= Len(buf) /\ cur[2] \in 1 .. Len(stream)
      /\ Len(post_body) <= Shape(cur).body
  BY DEF EndRequest, Serving, Current
<1>2. /\ Len(buf) \in Nat /\ Len(wire) \in Nat /\ Len(post_body) \in Nat /\ HeadLen \in Nat /\ HeadLen > 0
      /\ Held \in Nat /\ Len(buf) <= Held /\ Size = Held + Len(wire) /\ buf \in Seq(Units)
  BY Lengths, SizeAssumption DEF TypeOK, Size
<1>3. Shape(cur).body \in Nat /\ Total(stream, cur[2]) = HeadLen + Shape(cur).body
  BY <1>1, TotalType DEF Shape, TypeOK, Total
<1>4. ContentLen \in Int /\ (ContentLen >= 0 => ContentLen = Shape(cur).body)
  BY <1>3 DEF ContentLen
<1>5. DiscardLen \in Nat /\ DiscardLen <= Len(buf) /\ (DiscardLen # Len(buf) => ContentLen >= 0 /\ DiscardLen = HeadLen + ContentLen /\ DiscardLen < Len(buf))
  BY <1>1, <1>2, <1>4 DEF DiscardLen
<1>6. ContentLen >= 0 /\ HeadLen + ContentLen <= Len(buf) => DiscardLen = HeadLen + ContentLen
  BY <1>1, <1>2, <1>4 DEF DiscardLen
<1>7. /\ buf' \in Seq(Units) /\ Len(buf') = Len(buf) - DiscardLen
      /\ \A i \in 1 .. (Len(buf) - DiscardLen) : buf'[i] = buf[DiscardLen + i]
  BY <1>1, <1>2, <1>5, BufferPart
<1>8. CASE Held = Len(buf)
  <2>1. DiscardLen \in 0 .. Size /\ Len(buf') <= Len(buf) /\ Len(buf') + Len(wire) = Size - DiscardLen
    <3>1. Size = Len(buf) + Len(wire) /\ DiscardLen <= Size /\ Size \in Nat
      BY <1>2, <1>5, <1>8
    <3>2. QED
      BY <1>2, <1>5, <1>7, <3>1
  <2>2. ASSUME NEW i \in 1 .. Len(buf') PROVE buf'[i] = Line[DiscardLen + i]
    <3>1. DiscardLen + i \in 1 .. Len(buf) /\ i \in 1 .. (Len(buf) - DiscardLen)
      BY <1>2, <1>5, <1>7
    <3>2. Line[DiscardLen + i] = buf[DiscardLen + i]
      BY <3>1, LineParts
    <3>3. QED
      BY <1>7, <3>1, <3>2
  <2>3. ASSUME NEW i \in 1 .. Len(wire) PROVE wire[i] = Line[DiscardLen + (Len(buf') + i)]
    <3>1. DiscardLen + (Len(buf') + i) = Held + i
      BY <1>2, <1>5, <1>7, <1>8
    <3>2. Line[Held + i] = wire[i]
      BY LineParts
    <3>3. QED
      BY <3>1, <3>2
  <2>4. (Total(stream, cur[2]) <= Held /\ ContentLen >= 0) => DiscardLen = Total(stream, cur[2])
    BY <1>2, <1>3, <1>4, <1>6, <1>8
  <2>5. QED
    BY <1>7, <2>1, <2>2, <2>3, <2>4
<1>9. CASE Held # Len(buf)
  <2>1. Held = HeadLen + Len(post_body) /\ Len(buf) < HeadLen + Len(post_body)
    BY <1>1, <1>9 DEF Held
  <2>2. DiscardLen = Len(buf)
    BY <1>1, <1>2, <1>3, <1>4, <1>5, <2>1
  <2>3. Len(buf') = 0 /\ Held \in 0 .. Size /\ Len(buf') <= Len(buf) /\ Len(buf') + Len(wire) = Size - Held
    BY <1>2, <1>7, <2>2
  <2>4. ASSUME NEW i \in 1 .. Len(wire) PROVE wire[i] = Line[Held + (Len(buf') + i)]
    <3>1. Len(buf') + i = i
      BY <2>3
    <3>2. QED
      BY <3>1, LineParts
  <2>5. \A i \in 1 .. Len(buf') : buf'[i] = Line[Held + i]
    BY <2>3
  <2>6. Total(stream, cur[2]) <= Held => Held = Total(stream, cur[2])
    BY <1>1, <1>2, <1>3, <2>1
  <2>7. QED
    BY <1>7, <2>3, <2>4, <2>5, <2>6
<1>10. QED
  BY <1>8, <1>9

\* The request is dropped from the buffer; the next one, if the connection is
\* kept, begins where it ended.
LEMMA EndRequestKeeps == ASSUME Inv, EndRequest PROVE Inv'
<1> USE DEF Inv
<1>1. /\ pc = "end" /\ Serving /\ request_len' = 0 /\ post_body' = <<>>
      /\ pc' = IF stop_flag = 0 /\ ContentLen >= 0 /\ ShouldKeepAlive THEN "read" ELSE "done"
      /\ unread' = (unread \/ Cardinality(Arrived) < HeadLen + Shape(cur).body)
      /\ cur[2] \in 1 .. Len(stream)
      /\ UNCHANGED <<cn, clientVars, stop_flag, cur, answers>>
  BY DEF EndRequest, Serving, Current
<1>2. PICK d \in 0 .. Size :
        /\ buf' \in Seq(Units) /\ Len(buf') <= Len(buf) /\ Len(buf') + Len(wire) = Size - d
        /\ \A i \in 1 .. Len(buf') : buf'[i] = Line[d + i]
        /\ \A i \in 1 .. Len(wire) : wire[i] = Line[d + (Len(buf') + i)]
        /\ (Total(stream, cur[2]) <= Held /\ ContentLen >= 0) => d = Total(stream, cur[2])
  BY Dropped
<1>3. /\ Len(buf) \in Nat /\ Len(buf') \in Nat /\ Len(wire) \in Nat /\ Size \in Nat /\ Held \in Nat
      /\ BufSize \in Nat /\ Held <= Size
  BY <1>2, Lengths, LenProperties, SizeAssumption
<1>4. ~ Serving' /\ pc' \in {"read", "done"}
  BY <1>1 DEF Serving
<1>5. TypeOK'
  <2>1. post_body' \in Seq(Units) /\ request_len' \in Nat
    BY <1>1
  <2>2. unread' \in BOOLEAN
    BY <1>1
  <2>3. pc' \in {"read", "body", "answer", "end", "done"}
    BY <1>4
  <2>4. QED
    BY <1>1, <1>2, <2>1, <2>2, <2>3 DEF TypeOK, clientVars
<1>6. Bounds'
  BY <1>1, <1>2, <1>3 DEF Bounds, Total, clientVars
<1>7. Current'
  BY <1>1, <1>4 DEF Current, Serving
<1>8. Held' = Len(buf') /\ Size' = Size - d
  <2>1. Len(post_body') = 0 /\ wire' = wire
    BY <1>1 DEF clientVars
  <2>2. Held' = Len(buf')
    BY <1>1, <1>3, <2>1 DEF Held
  <2>3. QED
    BY <1>2, <2>1, <2>2 DEF Size
<1>9. \A i \in 1 .. (Size - d) : Line'[i] = Line[d + i]
  <2>1. ASSUME NEW i \in 1 .. (Size - d) PROVE Line'[i] = Line[d + i]
    <3>1. i \in 1 .. Size' /\ wire' = wire
      BY <1>1, <1>8 DEF clientVars
    <3>2. CASE i <= Len(buf')
      <4>1. i \in 1 .. Len(buf')
        BY <1>3, <3>2
      <4>2. Line'[i] = buf'[i]
        BY <3>1, <3>2 DEF Line
      <4>3. QED
        BY <1>2, <4>1, <4>2
    <3>3. CASE ~ (i <= Len(buf'))
      <4>1. i - Len(buf') \in 1 .. Len(wire) /\ Len(buf') + (i - Len(buf')) = i
        BY <1>2, <1>3, <3>3
      <4>2. Line'[i] = wire[i - Len(buf')]
        BY <1>8, <3>1, <3>3 DEF Line
      <4>3. wire[i - Len(buf')] = Line[d + (Len(buf') + (i - Len(buf')))]
        BY <1>2, <4>1
      <4>4. QED
        BY <4>1, <4>2, <4>3
    <3>4. QED
      BY <3>2, <3>3
  <2>2. QED
    BY <2>1
<1>10. Follows(Line, Size, cn, stream, offset)'
  <2>1. Follows(Line, Size, cn, stream, offset)
    BY <1>1 DEF OnLine
  <2>2. Follows(Line', Size - d, cn, stream, offset)
    BY <1>2, <1>3, <1>9, <2>1, FollowsSuffix
  <2>3. QED
    BY <1>1, <1>8, <2>2 DEF clientVars
<1>11. OnLine'
  BY <1>4, <1>10 DEF OnLine
<1>12. InTurn'
  <2>1. SUFFICES ASSUME ~ unread', pc' = "read" PROVE NextIs(Len(answers) + 1)'
    BY <1>4 DEF InTurn
  <2> DEFINE r == cur[2]
  <2>2. ~ unread /\ ContentLen >= 0 /\ ~ (Cardinality(Arrived) < HeadLen + Shape(cur).body)
    BY <1>1, <2>1
  <2>3. r = Len(answers) /\ r \in Nat /\ answers' = answers /\ stream \in Seq(Shapes)
    BY <1>1, <2>2, Lengths DEF InTurn, TypeOK
  <2>4. Total(stream, r) = HeadLen + Shape(cur).body /\ Total(stream, r) \in Nat
    BY <1>1, <2>3, TotalType DEF Shape, Total
  <2>5. Total(stream, r) <= Held
    <3>1. Cardinality(Arrived) <= Held /\ Cardinality(Arrived) \in Nat
      BY <1>1, ArrivedHeld
    <3>2. QED
      BY <1>3, <2>2, <2>4, <3>1
  <2>6. d = Total(stream, r)
    BY <1>2, <2>2, <2>5
  <2>7. Follows(Line, Size, cn, stream, offset) /\ Begins(Line, cn, r)
    BY <1>1 DEF OnLine
  <2>8. /\ Total(stream, r) < Size => BeginsAt(Line, Total(stream, r) + 1, cn, r + 1)
        /\ Total(stream, r) = Size => Len(stream) = r /\ offset = Size
    <3>1. Total(stream, r) <= Size
      BY <1>3, <2>4, <2>5
    <3>2. r \in 1 .. Len(stream)
      BY <1>1
    <3>3. ASSUME NEW L, NEW m \in Nat, NEW q \in 1 .. Len(stream), Follows(L, m, cn, stream, offset),
                 Begins(L, cn, q), Total(stream, q) <= m
          PROVE  /\ Total(stream, q) < m => BeginsAt(L, Total(stream, q) + 1, cn, q + 1)
                 /\ Total(stream, q) = m => Len(stream) = q /\ offset = m
      BY <2>3, <3>3, FollowsNext
    <3> HIDE DEF r
    <3>4. QED
      BY <1>3, <2>7, <3>1, <3>2, <3>3
  <2>9. CASE d < Size
    <3>1. 1 \in 1 .. (Size - d) /\ Size' > 0 /\ Size' # 0
      BY <1>3, <1>8, <2>9
    <3>2. Line'[1] = <<cn, r + 1, 1>>
      BY <1>9, <2>6, <2>8, <2>9, <3>1 DEF BeginsAt
    <3>3. QED
      BY <1>1, <2>3, <3>1, <3>2 DEF NextIs, Begins
  <2>10. CASE d = Size
    <3>1. Size' = 0 /\ Len(stream) = r /\ offset = Total(stream, r)
      BY <1>3, <1>8, <2>6, <2>8, <2>10
    <3>2. stream' = stream /\ offset' = offset
      BY <1>1 DEF clientVars
    <3>3. (r + 1) - 1 = r
      BY <2>3
    <3>4. QED
      BY <2>3, <3>1, <3>2, <3>3 DEF NextIs, Total
  <2>11. QED
    BY <1>3, <2>9, <2>10
<1>13. QED
  BY <1>5, <1>6, <1>7, <1>11, <1>12

\* Every step keeps the invariant.
LEMMA StepKeeps == ASSUME Inv, [Next]_vars PROVE Inv'
<1>1. CASE UNCHANGED vars
  <2>1. stop_flag' \in 0 .. 1 /\ UNCHANGED <<cn, clientVars, pc, buf, request_len, cur, post_body, answers, unread>>
    BY <1>1 DEF vars, Inv, TypeOK
  <2>2. QED
    BY <2>1, StopKeeps
<1>2. CASE Stop
  <2>1. stop_flag' \in 0 .. 1 /\ UNCHANGED <<cn, clientVars, pc, buf, request_len, cur, post_body, answers, unread>>
    BY <1>2 DEF Stop
  <2>2. QED
    BY <2>1, StopKeeps
<1>3. CASE Finished
  BY <1>1, <1>3 DEF Finished
<1>4. CASE ClientSends
  BY <1>4, ClientSendsKeeps
<1>5. CASE ReadMore
  BY <1>5, ReadMoreKeeps
<1>6. CASE Reject
  BY <1>6, RejectKeeps
<1>7. CASE Parse
  BY <1>7, ParseKeeps
<1>8. CASE ReadBody
  BY <1>8, ReadBodyKeeps
<1>9. CASE BodyDone
  BY <1>9, BodyDoneKeeps
<1>10. CASE Answer
  BY <1>10, AnswerKeeps
<1>11. CASE EndRequest
  BY <1>11, EndRequestKeeps
<1>12. CASE NextConnection
  BY <1>12, NextConnectionKeeps
<1>13. QED
  BY <1>1, <1>2, <1>3, <1>4, <1>5, <1>6, <1>7, <1>8, <1>9, <1>10, <1>11, <1>12 DEF Next, WorkerSteps

\* The invariant holds in every state.
THEOREM Invariant == Spec => []Inv
<1>1. Inv /\ [Next]_vars => Inv'
  BY StepKeeps
<1>2. QED
  BY <1>1, InitInv, PTL DEF Spec

-------------------------------------------------------------------------------
(* What the worker guarantees *)

\* Whatever the client sends, the connection object keeps its types.
THEOREM ConnectionTypes == Spec => []TypeOK
<1>1. Inv => TypeOK
  BY DEF Inv
<1>2. QED
  BY <1>1, Invariant, PTL

\* No assertion of mongoose.c about the buffer fails: the data fits the buffer,
\* the head is within the data, and no more is discarded than there is.
THEOREM AssertionsNeverFail == Spec => []AssertionsHold
<1>1. Inv => AssertionsHold
  <2> SUFFICES ASSUME Inv PROVE AssertionsHold
    OBVIOUS
  <2>1. Len(buf) <= BufSize
    BY DEF Inv, Bounds
  <2>2. ASSUME pc \in {"body", "answer", "end"} PROVE request_len <= Len(buf)
    BY <2>2 DEF Inv, Current, Serving
  <2>3. ASSUME pc = "end" PROVE DiscardLen \in 0 .. Len(buf)
    <3>1. Serving /\ cur[2] \in 1 .. Len(stream) /\ stream \in Seq(Shapes)
      BY <2>3 DEF Serving, Inv, Current, TypeOK
    <3>2. Shape(cur).body \in Nat
      BY <3>1, TotalType DEF Shape
    <3>3. ContentLen \in Int /\ Len(buf) \in Nat /\ request_len \in Nat
      BY <3>2, Lengths DEF ContentLen, Inv
    <3>4. QED
      BY <3>3 DEF DiscardLen
  <2>4. QED
    BY <2>1, <2>2, <2>3 DEF AssertionsHold
<1>2. QED
  BY <1>1, Invariant, PTL

\* What mg_read returns is the body of the current request, from its first unit on,
\* however it is cut between the buffer and the socket.
THEOREM BodyNeverMixed == Spec => []BodyIntact
<1>1. Inv => BodyIntact
  <2> SUFFICES ASSUME Inv, pc \in {"body", "answer"}, NEW k \in DOMAIN post_body
               PROVE  post_body[k] = <<cur[1], cur[2], HeadLen + k>>
    BY DEF BodyIntact
  <2>1. Serving /\ pc # "done"
    BY DEF Serving
  <2>2. /\ cur[1] = cn /\ cur[2] \in 1 .. Len(stream) /\ Len(post_body) <= Shape(cur).body
        /\ request_len = HeadLen /\ stream \in Seq(Shapes) /\ HeadLen \in Nat /\ HeadLen > 0
    BY <2>1, SizeAssumption DEF Inv, Current, TypeOK
  <2>3. k \in 1 .. Len(post_body)
    BY DEF Inv, TypeOK
  <2>4. /\ Len(post_body) \in Nat /\ Len(buf) \in Nat /\ Size \in Nat /\ Held <= Size /\ Held \in Nat
        /\ Shape(cur).body \in Nat /\ Total(stream, cur[2]) = HeadLen + Shape(cur).body
    BY <2>2, Lengths, TotalType DEF Inv, Shape, Total
  <2>5. HeadLen + Len(post_body) <= Held
    BY <2>2, <2>4 DEF Held
  <2>6. HeadLen + k \in 1 .. Size /\ HeadLen + k <= Total(stream, cur[2])
    BY <2>2, <2>3, <2>4, <2>5
  <2>7. Follows(Line, Size, cn, stream, offset) /\ Begins(Line, cn, cur[2]) /\ post_body[k] = Line[HeadLen + k]
    BY <2>1, <2>3 DEF Inv, OnLine
  <2>8. ASSUME NEW n \in 1 .. Size, n <= Total(stream, cur[2]) PROVE Line[n] = <<cn, cur[2], n>>
    <3>1. ASSUME NEW L, NEW m \in Nat, NEW q \in 1 .. Len(stream), Follows(L, m, cn, stream, offset),
                 Begins(L, cn, q), NEW j \in 1 .. m, j <= Total(stream, q)
          PROVE  L[j] = <<cn, q, j>>
      BY <2>2, <3>1, FollowsRequest
    <3>2. QED
      BY <2>2, <2>4, <2>7, <2>8, <3>1
  <2>9. QED
    BY <2>2, <2>6, <2>7, <2>8
<1>2. QED
  BY <1>1, Invariant, PTL

\* The worker stays in step with the client: between requests the next unit is the
\* first one of the request that has not been answered yet, unless a request was
\* left before its body had arrived.
THEOREM StaysInStep == Spec => []InStep
<1>1. Inv => InStep
  <2> SUFFICES ASSUME Inv, pc = "read", ~ unread, buf \o wire # <<>>
               PROVE  Head(buf \o wire) = <<cn, Len(answers) + 1, 1>>
    BY DEF InStep
  <2>1. ~ Serving /\ buf \in Seq(Units) /\ wire \in Seq(Units)
    BY DEF Serving, Inv, TypeOK
  <2>2. Len(buf) \in Nat /\ Len(wire) \in Nat /\ Held = Len(buf) /\ Size = Len(buf) + Len(wire)
    BY <2>1, Lengths, BufferOnly DEF Inv
  <2>3. /\ buf \o wire \in Seq(Units) /\ Len(buf \o wire) = Size
        /\ \A i \in 1 .. Len(buf) : (buf \o wire)[i] = buf[i]
        /\ \A i \in 1 .. Len(wire) : (buf \o wire)[Len(buf) + i] = wire[i]
    BY <2>1, <2>2, Joined
  <2>4. Size > 0 /\ Head(buf \o wire) = (buf \o wire)[1]
    BY <2>2, <2>3, EmptySeq
  <2>5. (buf \o wire)[1] = Line[1]
    <3>1. CASE Len(buf) > 0
      <4>1. 1 \in 1 .. Len(buf)
        BY <2>2, <3>1
      <4>2. QED
        BY <2>3, <4>1, LineParts DEF Inv
    <3>2. CASE Len(buf) = 0
      <4>1. 1 \in 1 .. Len(wire) /\ Len(buf) + 1 = 1 /\ Held + 1 = 1
        BY <2>2, <2>4, <3>2
      <4>2. (buf \o wire)[Len(buf) + 1] = wire[1] /\ Line[Held + 1] = wire[1]
        BY <2>3, <4>1, LineParts DEF Inv
      <4>3. QED
        BY <4>1, <4>2
    <3>3. QED
      BY <2>2, <3>1, <3>2
  <2>6. NextIs(Len(answers) + 1)
    BY DEF Inv, InTurn
  <2>7. QED
    BY <2>4, <2>5, <2>6 DEF NextIs, Begins
<1>2. QED
  BY <1>1, Invariant, PTL
===============================================================================
