-------------------------- MODULE RequestPath_proofs ---------------------------
(***************************************************************************)
(* Proofs about RequestPath: the forms of a chain id, the answer to a      *)
(* request for a file, the tree of a body, the arguments and the peers of  *)
(* a call, the path of a URI, and the credentials with their accounts; for *)
(* texts and files of any length.                                          *)
(***************************************************************************)
EXTENDS RequestPath, Jsmn_proofs, SequenceTheorems, TLAPS

-------------------------------------------------------------------------------
(* Chain ids *)

\* to_hex writes a digit for each half of a byte.
LEMMA Digit ==
  ASSUME NEW n \in 0 .. 15
  PROVE  /\ HexDigit(n) \in 48 .. 102 /\ IsHex(HexDigit(n)) /\ HexToInt(HexDigit(n)) = n
<1>1. CASE n < 10
  <2>1. HexDigit(n) = n + 48 /\ n + 48 \in 48 .. 57
    BY <1>1 DEF HexDigit
  <2>2. QED
    BY <2>1 DEF IsHex, HexToInt
<1>2. CASE ~ (n < 10)
  <2>1. HexDigit(n) = n + 87 /\ n + 87 \in 97 .. 102
    BY <1>2 DEF HexDigit
  <2>2. HexDigit(n) \notin 48 .. 57 /\ HexDigit(n) \notin 65 .. 70
    BY <2>1
  <2>3. QED
    BY <2>1, <2>2 DEF IsHex, HexToInt
<1>3. QED
  BY <1>1, <1>2

\* The two halves of a byte.
LEMMA Halves ==
  ASSUME NEW b \in Byte
  PROVE  b \div 16 \in 0 .. 15 /\ b % 16 \in 0 .. 15 /\ 16 * (b \div 16) + (b % 16) = b
BY DEF Byte

\* A function on the first m numbers is a sequence.
LEMMA SeqIs == ASSUME NEW S, NEW m \in Nat, NEW f \in [1 .. m -> S] PROVE f \in Seq(S) /\ Len(f) = m
<1>1. f \in UNION {[1 .. i -> S] : i \in Nat}
  <2>1. [1 .. m -> S] \in {[1 .. i -> S] : i \in Nat}
    OBVIOUS
  <2>2. QED
    BY <2>1
<1>2. f \in Seq(S)
  BY <1>1, SeqDef
<1>3. DOMAIN f = 1 .. m /\ DOMAIN f = 1 .. Len(f) /\ Len(f) \in Nat
  BY <1>2
<1>4. QED
  BY <1>2, <1>3

\* The digits of a sequence of bytes, two for each.
LEMMA Digits ==
  ASSUME NEW bytes \in Seq(Byte)
  PROVE  /\ ToHex(bytes) \in Seq(48 .. 102) /\ Len(ToHex(bytes)) = 2 * Len(bytes)
         /\ \A k \in 1 .. 2 * Len(bytes) : IsHex(ToHex(bytes)[k])
         /\ \A j \in 1 .. Len(bytes) :
              /\ HexToInt(ToHex(bytes)[2 * j - 1]) = bytes[j] \div 16
              /\ HexToInt(ToHex(bytes)[2 * j]) = bytes[j] % 16
<1> DEFINE n == Len(bytes)
<1> DEFINE half(k) == LET b == bytes[(k + 1) \div 2] IN IF k % 2 = 1 THEN b \div 16 ELSE b % 16
<1>1. n \in Nat
  OBVIOUS
<1>2. ASSUME NEW k \in 1 .. 2 * n PROVE half(k) \in 0 .. 15
  <2>1. (k + 1) \div 2 \in 1 .. n
    BY <1>1
  <2>2. bytes[(k + 1) \div 2] \in Byte
    BY <2>1
  <2>3. QED
    BY <2>2, Halves
<1>3. ToHex(bytes) = [k \in 1 .. 2 * n |-> HexDigit(half(k))]
  BY DEF ToHex
<1> HIDE DEF half
<1>4. \A k \in 1 .. 2 * n : /\ HexDigit(half(k)) \in 48 .. 102 /\ IsHex(HexDigit(half(k)))
                            /\ HexToInt(HexDigit(half(k))) = half(k)
  BY <1>2, Digit
<1>5. 2 * n \in Nat
  BY <1>1
<1>6. ToHex(bytes) \in Seq(48 .. 102) /\ Len(ToHex(bytes)) = 2 * n
  <2>1. ToHex(bytes) \in [1 .. 2 * n -> 48 .. 102]
    BY <1>3, <1>4
  <2>2. ToHex(bytes) \in Seq(48 .. 102)
    BY <1>5, <2>1, SeqIs
  <2>3. DOMAIN ToHex(bytes) = 1 .. 2 * n
    BY <1>3
  <2>4. QED
    BY <1>5, <2>2, <2>3
<1>7. \A k \in 1 .. 2 * n : IsHex(ToHex(bytes)[k]) /\ HexToInt(ToHex(bytes)[k]) = half(k)
  BY <1>3, <1>4
<1>8. ASSUME NEW j \in 1 .. n
      PROVE  HexToInt(ToHex(bytes)[2 * j - 1]) = bytes[j] \div 16 /\ HexToInt(ToHex(bytes)[2 * j]) = bytes[j] % 16
  <2>1. /\ 2 * j - 1 \in 1 .. 2 * n /\ (2 * j - 1) % 2 = 1 /\ ((2 * j - 1) + 1) \div 2 = j
        /\ 2 * j \in 1 .. 2 * n /\ (2 * j) % 2 = 0 /\ (2 * j + 1) \div 2 = j
    BY <1>1
  <2>2. half(2 * j - 1) = bytes[j] \div 16 /\ half(2 * j) = bytes[j] % 16
    BY <2>1 DEF half
  <2>3. QED
    BY <1>7, <2>1, <2>2
<1>9. QED
  BY <1>6, <1>7, <1>8

\* from_hex undoes to_hex.
LEMMA HexRoundTrip == ASSUME NEW bytes \in Seq(Byte) PROVE FromHex(ToHex(bytes)) = bytes
<1> DEFINE hex == ToHex(bytes)
<1> DEFINE n == Len(bytes)
<1>1. /\ hex \in Seq(48 .. 102) /\ Len(hex) = 2 * n /\ n \in Nat
      /\ \A k \in 1 .. 2 * n : IsHex(hex[k])
      /\ \A j \in 1 .. n : HexToInt(hex[2 * j - 1]) = bytes[j] \div 16 /\ HexToInt(hex[2 * j]) = bytes[j] % 16
  BY Digits
<1> HIDE DEF hex
<1>2. {k \in DOMAIN hex : ~ IsHex(hex[k])} = {}
  BY <1>1
<1> DEFINE nibble(k) == IF k < 2 * n + 1 THEN HexToInt(hex[k]) ELSE 0
<1>3. FromHex(hex) = [j \in 1 .. (2 * n) \div 2 |->
                        IF 2 * j - 1 < 2 * n + 1 THEN 16 * nibble(2 * j - 1) + nibble(2 * j) ELSE Unset]
  BY <1>1, <1>2 DEF FromHex
<1>4. (2 * n) \div 2 = n
  BY <1>1
<1>5. ASSUME NEW j \in 1 .. n
      PROVE  2 * j - 1 < 2 * n + 1 /\ 16 * nibble(2 * j - 1) + nibble(2 * j) = bytes[j]
  <2>1. 2 * j - 1 < 2 * n + 1 /\ 2 * j < 2 * n + 1
    BY <1>1
  <2>2. nibble(2 * j - 1) = bytes[j] \div 16 /\ nibble(2 * j) = bytes[j] % 16
    BY <1>1, <2>1
  <2>3. bytes[j] \in Byte
    OBVIOUS
  <2>4. QED
    BY <2>1, <2>2, <2>3, Halves
<1> HIDE DEF nibble
<1>6. FromHex(hex) = [j \in 1 .. n |-> bytes[j]]
  BY <1>3, <1>4, <1>5
<1>7. bytes = [j \in 1 .. n |-> bytes[j]]
  OBVIOUS
<1>8. QED
  BY <1>6, <1>7 DEF hex

\* Whole ids: a key of CID_KEY_CHAR_LEN bytes and a name without zeros.
Ids == {id \in Seq(Byte) : Len(id) >= CID_KEY_CHAR_LEN
                           /\ \A k \in DOMAIN id : k > CID_KEY_CHAR_LEN => id[k] # 0}

\* bytes_chain_id_to_string cuts nothing off: the digits of the key come first, then
\* the name as it is.
LEMMA TextOfId ==
  ASSUME NEW id \in Ids, NEW K, K = CID_KEY_CHAR_LEN
  PROVE  LET text == bytes_chain_id_to_string(id)
         IN  /\ K \in Nat /\ Len(id) \in Nat /\ SubSeq(id, 1, K) \in Seq(Byte) /\ Len(SubSeq(id, 1, K)) = K
             /\ \A i \in 1 .. K : SubSeq(id, 1, K)[i] = id[i]
             /\ text \in Seq(Byte) /\ Len(text) = Len(id) + K
             /\ \A i \in 1 .. 2 * K : text[i] = ToHex(SubSeq(id, 1, K))[i]
             /\ \A i \in 1 .. (Len(id) - K) : text[2 * K + i] = id[K + i]
<1> DEFINE n == Len(id)
<1> DEFINE key == SubSeq(id, 1, K)
<1> DEFINE name == SubSeq(id, K + 1, n)
<1> DEFINE hex == ToHex(key)
<1> DEFINE all == hex \o name
<1>1. K \in Nat /\ n \in Nat /\ K <= n /\ id \in Seq(Byte) /\ \A i \in 1 .. n : id[i] \in Byte
  BY HexUtilAssumption DEF Ids
<1>2. key \in Seq(Byte) /\ Len(key) = K /\ \A i \in 1 .. K : key[i] = id[i]
  <2>1. \A i \in 1 .. K : id[i] \in Byte
    BY <1>1
  <2>2. /\ SubSeq(id, 1, K) \in Seq(Byte)
        /\ Len(SubSeq(id, 1, K)) = IF 1 <= K THEN K - 1 + 1 ELSE 0
        /\ \A i \in 1 .. K - 1 + 1 : SubSeq(id, 1, K)[i] = id[1 + i - 1]
    BY <1>1, <2>1, SubSeqProperties
  <2>3. QED
    BY <1>1, <2>2
<1>3. name \in Seq(Byte) /\ Len(name) = n - K /\ \A i \in 1 .. (n - K) : name[i] = id[K + i]
  <2>1. \A i \in K + 1 .. n : id[i] \in Byte
    BY <1>1
  <2>2. /\ SubSeq(id, K + 1, n) \in Seq(Byte)
        /\ Len(SubSeq(id, K + 1, n)) = IF K + 1 <= n THEN n - (K + 1) + 1 ELSE 0
        /\ \A i \in 1 .. n - (K + 1) + 1 : SubSeq(id, K + 1, n)[i] = id[K + 1 + i - 1]
    BY <1>1, <2>1, SubSeqProperties
  <2>3. QED
    BY <1>1, <2>2
<1>4. hex \in Seq(Byte) /\ Len(hex) = 2 * K /\ \A i \in 1 .. 2 * K : hex[i] # 0
  <2> HIDE DEF key
  <2>1. hex \in Seq(48 .. 102) /\ Len(hex) = 2 * K
    BY <1>2, Digits
  <2> HIDE DEF hex
  <2>2. 48 .. 102 \subseteq Byte
    BY DEF Byte
  <2>3. hex \in Seq(Byte)
    BY <2>1, <2>2, SeqMonotonic
  <2>4. ASSUME NEW i \in 1 .. 2 * K PROVE hex[i] # 0
    <3>1. hex[i] \in 48 .. 102
      BY <2>1, ElementOfSeq
    <3>2. QED
      BY <3>1
  <2>5. QED
    BY <2>1, <2>3, <2>4
<1> HIDE DEF key, name, hex
<1>5. /\ all \in Seq(Byte) /\ Len(all) = 2 * K + (n - K)
      /\ \A i \in 1 .. 2 * K + (n - K) : all[i] = IF i <= 2 * K THEN hex[i] ELSE name[i - 2 * K]
  <2>1. /\ all \in Seq(Byte) /\ Len(all) = Len(hex) + Len(name)
        /\ \A i \in 1 .. Len(hex) + Len(name) : all[i] = IF i <= Len(hex) THEN hex[i] ELSE name[i - Len(hex)]
    BY <1>3, <1>4, ConcatProperties
  <2>2. Len(hex) = 2 * K /\ Len(name) = n - K
    BY <1>3, <1>4
  <2> HIDE DEF all
  <2>3. QED
    BY <2>1, <2>2
<1> HIDE DEF all
<1>6. \A i \in 1 .. 2 * K : all[i] = hex[i]
  BY <1>1, <1>5
<1>7. ASSUME NEW i \in 1 .. (n - K) PROVE all[2 * K + i] = id[K + i]
  <2>1. 2 * K + i \in 1 .. 2 * K + (n - K) /\ ~ (2 * K + i <= 2 * K) /\ (2 * K + i) - 2 * K = i
    BY <1>1
  <2>2. QED
    BY <1>3, <1>5, <2>1
<1>8. \A k \in DOMAIN all : all[k] # 0
  <2>1. ASSUME NEW k \in 1 .. 2 * K + (n - K) PROVE all[k] # 0
    <3>1. CASE k <= 2 * K
      <4>1. k \in 1 .. 2 * K
        BY <1>1, <3>1
      <4>2. QED
        BY <1>4, <1>6, <4>1
    <3>2. CASE ~ (k <= 2 * K)
      <4>1. k - 2 * K \in 1 .. (n - K) /\ 2 * K + (k - 2 * K) = k
        BY <1>1, <3>2
      <4>2. K + (k - 2 * K) \in 1 .. n /\ K + (k - 2 * K) > K
        BY <1>1, <4>1
      <4>3. id[K + (k - 2 * K)] # 0
        BY <1>1, <4>2 DEF Ids
      <4>4. QED
        BY <1>7, <4>1, <4>3
    <3>3. QED
      BY <3>1, <3>2
  <2>2. QED
    BY <1>5, <2>1
<1>9. bytes_chain_id_to_string(id) = all
  BY <1>8 DEF bytes_chain_id_to_string, CutAtZero, all, hex, key, name
<1>10. 2 * K + (n - K) = n + K
  BY <1>1
<1>11. QED
  BY <1>1, <1>2, <1>5, <1>6, <1>7, <1>9, <1>10 DEF hex, key

\* string_chain_id_to_bytes undoes bytes_chain_id_to_string.
LEMMA TextRoundTrip ==
  ASSUME NEW id \in Ids PROVE string_chain_id_to_bytes(bytes_chain_id_to_string(id)) = id
<1> DEFINE n == Len(id)
<1>1. PICK K : K = CID_KEY_CHAR_LEN
  OBVIOUS
<1> DEFINE key == SubSeq(id, 1, K)
<1>2. PICK text : text = bytes_chain_id_to_string(id)
  OBVIOUS
<1>3. /\ K \in Nat /\ n \in Nat /\ key \in Seq(Byte) /\ Len(key) = K
      /\ \A i \in 1 .. K : key[i] = id[i]
      /\ text \in Seq(Byte) /\ Len(text) = n + K
      /\ \A i \in 1 .. 2 * K : text[i] = ToHex(key)[i]
      /\ \A i \in 1 .. (n - K) : text[2 * K + i] = id[K + i]
  BY <1>1, <1>2, TextOfId
<1>4. K <= n /\ id \in Seq(Byte)
  BY <1>1 DEF Ids
<1> HIDE DEF key
<1>5. SubSeq(text, 1, 2 * K) = ToHex(key)
  <2>1. 2 * K \in Nat /\ 2 * K <= n + K
    BY <1>3, <1>4
  <2>2. \A i \in 1 .. 2 * K : text[i] \in Byte
    BY <1>3, <2>1, ElementOfSeq
  <2>3. /\ SubSeq(text, 1, 2 * K) \in Seq(Byte)
        /\ Len(SubSeq(text, 1, 2 * K)) = IF 1 <= 2 * K THEN 2 * K - 1 + 1 ELSE 0
        /\ \A i \in 1 .. 2 * K - 1 + 1 : SubSeq(text, 1, 2 * K)[i] = text[1 + i - 1]
    BY <2>1, <2>2, SubSeqProperties
  <2>4. ToHex(key) \in Seq(48 .. 102) /\ Len(ToHex(key)) = 2 * K
    BY <1>3, Digits
  <2>5. ToHex(key) \in Seq(Byte)
    <3>1. 48 .. 102 \subseteq Byte
      BY DEF Byte
    <3>2. QED
      BY <2>4, <3>1, SeqMonotonic
  <2>6. Len(SubSeq(text, 1, 2 * K)) = 2 * K /\ \A i \in 1 .. 2 * K : SubSeq(text, 1, 2 * K)[i] = text[i]
    BY <2>1, <2>3
  <2>7. QED
    BY <1>3, <2>3, <2>4, <2>5, <2>6, SeqEqual
<1>6. FromHex(SubSeq(text, 1, 2 * K)) = key
  BY <1>3, <1>5, HexRoundTrip
<1>7. string_chain_id_to_bytes(text) =
        [k \in 1 .. n |-> IF k <= K THEN key[k] ELSE text[K + k]]
  <2>1. chain_id_size(Len(text)) = n
    BY <1>1, <1>3 DEF chain_id_size
  <2>2. QED
    BY <1>1, <1>6, <2>1 DEF string_chain_id_to_bytes, CID_KEY_HEX_LEN
<1>8. ASSUME NEW k \in 1 .. n PROVE (IF k <= K THEN key[k] ELSE text[K + k]) = id[k]
  <2>1. CASE k <= K
    <3>1. k \in 1 .. K
      BY <1>3, <2>1
    <3>2. QED
      BY <1>3, <2>1, <3>1
  <2>2. CASE ~ (k <= K)
    <3>1. k - K \in 1 .. (n - K) /\ 2 * K + (k - K) = K + k /\ K + (k - K) = k
      BY <1>3, <2>2
    <3>2. text[2 * K + (k - K)] = id[K + (k - K)]
      BY <1>3, <3>1
    <3>3. QED
      BY <2>2, <3>1, <3>2
  <2>3. QED
    BY <2>1, <2>2
<1>9. id = [k \in 1 .. n |-> id[k]]
  BY <1>4
<1>10. [k \in 1 .. n |-> IF k <= K THEN key[k] ELSE text[K + k]] = [k \in 1 .. n |-> id[k]]
  BY <1>8
<1>11. QED
  BY <1>2, <1>7, <1>9, <1>10

-------------------------------------------------------------------------------
(* Files *)

\* The larger and the smaller of two numbers.
LEMMA OfTwo ==
  ASSUME NEW x \in Int, NEW y \in Int
  PROVE  /\ Max({x, y}) = IF x >= y THEN x ELSE y
         /\ Min({x, y}) = IF x <= y THEN x ELSE y
BY DEF Max, Min

\* send_file_data sends no more than it is asked for, and what the file has of it.
LEMMA SentBounded ==
  ASSUME NEW file \in FileStates(Nat), NEW offset \in Int, NEW len \in Int
  PROVE  /\ SendFileData(file, offset, len) \in Int
         /\ SendFileData(file, offset, len) <= Max({len, 0})
         /\ 0 < len /\ file.actual = file.size =>
              LET at == Min({file.size, Max({0, offset})})
              IN  SendFileData(file, offset, len) = IF len <= file.size - at THEN len ELSE file.size - at
<1>1. file.size \in Int /\ file.size >= 0 /\ file.actual \in Int
  BY DEF FileStates
<1> DEFINE from == Max({0, offset})
<1> DEFINE at == Min({file.size, from})
<1>2. from \in Int /\ from = IF 0 >= offset THEN 0 ELSE offset
  BY OfTwo
<1> HIDE DEF from
<1>3. at \in Int /\ at = IF file.size <= from THEN file.size ELSE from
  BY <1>1, <1>2, OfTwo
<1> HIDE DEF at
<1> DEFINE rest == file.actual - at
<1>4. rest \in Int
  BY <1>1, <1>3
<1> DEFINE part == Min({len, rest})
<1>5. part \in Int /\ part = IF len <= rest THEN len ELSE rest
  BY <1>4, OfTwo
<1> HIDE DEF part
<1>6. Max({0, part}) = IF 0 >= part THEN 0 ELSE part
  BY <1>5, OfTwo
<1>7. SendFileData(file, offset, len) = IF len > 0 THEN Max({0, part}) ELSE 0
  BY DEF SendFileData, part, at, from
<1>8. Max({len, 0}) = IF len >= 0 THEN len ELSE 0
  BY OfTwo
<1>9. SendFileData(file, offset, len) \in Int /\ SendFileData(file, offset, len) <= Max({len, 0})
  BY <1>5, <1>6, <1>7, <1>8
<1>10. ASSUME 0 < len, file.actual = file.size
       PROVE  SendFileData(file, offset, len) = IF len <= file.size - at THEN len ELSE file.size - at
  <2>1. at <= file.size
    BY <1>1, <1>2, <1>3
  <2>2. rest = file.size - at
    BY <1>10
  <2> HIDE DEF rest
  <2>3. QED
    BY <1>1, <1>3, <1>4, <1>5, <1>6, <1>7, <1>10, <2>1, <2>2
<1>11. QED
  BY <1>9, <1>10 DEF at, from

\* What handle_request leaves of a request for a file.
FileAnswer(w) ==
  \E method, action : \E file \in Files, range \in Ranges :
    w = [action |-> action, method |-> method, file |-> file, range |-> range,
         answer |-> IF action = "file" THEN HandleFileRequest(method, file, range) ELSE Nothing]

\* Whatever Range header comes and however the file changes, the answer keeps to the
\* length it has announced; and for an unchanged file the missing bytes are known.
LEMMA AnswerFits ==
  ASSUME NEW method, NEW file \in Files, NEW range \in Ranges, NEW a, a = HandleFileRequest(method, file, range)
  PROVE  /\ a.sent <= Max({a.length, 0})
         /\ a.status \in {200, 206} /\ method # "HEAD" /\ file.actual = file.size /\ a.length > 0
            => a.length - a.sent = Missing(file.size, range)
<1>1. /\ file \in FileStates(Nat) /\ file.size \in Nat
      /\ range.n \in Int /\ range.r1 \in Int /\ range.r2 \in Int
  BY RequestAssumption DEF FileStates
<1> DEFINE cl == ContentLength(file.size, range)
<1> DEFINE r1 == IF range.n > 0 THEN range.r1 ELSE 0
<1>2. cl \in Int /\ r1 \in Int
  BY <1>1 DEF ContentLength
<1>3. Max({0, 0}) = 0
  BY OfTwo
<1>4. CASE ~ file.opens
  <2>1. a = [status |-> 500, length |-> 0, sent |-> 0]
    BY <1>4 DEF HandleFileRequest
  <2>2. QED
    BY <1>3, <2>1
<1>5. CASE file.opens /\ InForce(range) /\ file.gzipped
  <2>1. a = [status |-> 501, length |-> 0, sent |-> 0]
    BY <1>5 DEF HandleFileRequest
  <2>2. QED
    BY <1>3, <2>1
<1>6. CASE file.opens /\ ~ (InForce(range) /\ file.gzipped)
  <2>1. a.length = cl /\ a.sent = IF method = "HEAD" THEN 0 ELSE SendFileData(file, r1, cl)
    BY <1>6 DEF HandleFileRequest
  <2> HIDE DEF cl, r1
  <2>2. a.sent <= Max({a.length, 0})
    <3>1. Max({cl, 0}) = IF cl >= 0 THEN cl ELSE 0
      BY <1>2, OfTwo
    <3>2. 0 <= Max({cl, 0})
      BY <1>2, <3>1
    <3>3. SendFileData(file, r1, cl) <= Max({cl, 0})
      BY <1>1, <1>2, SentBounded
    <3>4. QED
      BY <2>1, <3>2, <3>3
  <2>3. ASSUME method # "HEAD", file.actual = file.size, cl > 0
        PROVE  cl - SendFileData(file, r1, cl) = Missing(file.size, range)
    <3> DEFINE from == Max({0, r1})
    <3> DEFINE at == Min({file.size, from})
    <3>1. from \in Int /\ from = IF 0 >= r1 THEN 0 ELSE r1
      BY <1>2, OfTwo
    <3>2. SendFileData(file, r1, cl) = IF cl <= file.size - at THEN cl ELSE file.size - at
      BY <1>1, <1>2, <2>3, SentBounded
    <3> HIDE DEF from
    <3>3. at \in Int /\ at = IF file.size <= from THEN file.size ELSE from
      <4>1. file.size \in Int /\ from \in Int
        BY <1>1, <3>1
      <4>2. QED
        BY <4>1, OfTwo
    <3>4. CASE InForce(range)
      <4>1. range.n > 0 /\ range.r1 >= 0 /\ range.r2 >= 0 /\ r1 = range.r1
        BY <3>4 DEF InForce, r1
      <4>2. from = range.r1
        BY <1>1, <3>1, <4>1
      <4>3. cl = IF range.n = 2 THEN (IF range.r2 > file.size THEN file.size ELSE range.r2) - range.r1 + 1
                 ELSE file.size - range.r1
        BY <3>4 DEF ContentLength, cl
      <4>4. Missing(file.size, range) = IF range.n = 2 /\ range.r2 >= file.size THEN 1 ELSE 0
        BY <3>4 DEF Missing
      <4> HIDE DEF at
      <4>5. CASE range.n = 2
        BY <1>1, <1>2, <2>3, <3>2, <3>3, <4>1, <4>2, <4>3, <4>4, <4>5
      <4>6. CASE range.n # 2
        BY <1>1, <1>2, <2>3, <3>2, <3>3, <4>1, <4>2, <4>3, <4>4, <4>6
      <4>7. QED
        BY <4>5, <4>6
    <3>5. CASE ~ InForce(range)
      <4>1. cl = file.size
        BY <3>5 DEF ContentLength, cl
      <4>2. cl - SendFileData(file, r1, cl) = at
        <5> HIDE DEF at
        <5>1. QED
          BY <1>1, <3>1, <3>2, <3>3, <4>1
      <4>3. CASE range.n > 0
        BY <3>5, <4>2, <4>3 DEF Missing, r1, from
      <4>4. CASE ~ (range.n > 0)
        <5>1. r1 = 0 /\ Missing(file.size, range) = 0
          BY <3>5, <4>4 DEF Missing, r1
        <5> HIDE DEF at
        <5>2. QED
          BY <1>1, <3>1, <3>3, <4>2, <5>1
      <4>5. QED
        BY <4>3, <4>4
    <3>6. QED
      BY <3>4, <3>5
  <2>4. QED
    BY <2>1, <2>2, <2>3
<1>7. QED
  BY <1>4, <1>5, <1>6

-------------------------------------------------------------------------------
(* The invariants of a request *)

AfterAuth == {"auth", "granted", "body", "call", "peers", "create", "created", "called", "dead"}

\* A request that the handler takes leaves the URI behind; an answered one may
\* have been for a file.
WebInv ==
  /\ phase \in AfterAuth => web = Nothing
  /\ phase = "answered" => web = Nothing \/ FileAnswer(web)

\* The created id and its text belong together.
ChainInv ==
  /\ phase = "created" => \E id \in ChainIds : chain = [id |-> id, text |-> bytes_chain_id_to_string(id)]
  /\ ChainIdSurvives

\* Every step keeps what is known of the file answer.
LEMMA WebKept == ASSUME WebInv, [Next]_vars PROVE WebInv'
<1> USE DEF WebInv, AfterAuth
<1>1. CASE Receive
  BY <1>1 DEF Receive
<1>2. ASSUME NEW m \in HttpMethods, NEW ok \in BOOLEAN, BeginRequest(m, ok) PROVE WebInv'
  BY <1>2 DEF BeginRequest
<1>3. CASE ServeFile
  <2>1. FileAnswer(web') /\ phase' = "answered"
    BY <1>3 DEF ServeFile, FileAnswer
  <2>2. QED
    BY <2>1 DEF FileAnswer
<1>4. CASE Authenticate
  <2>1. web = Nothing /\ web' = web
    BY <1>4 DEF Authenticate
  <2>2. QED
    BY <2>1
<1>5. ASSUME NEW there \in BOOLEAN, TakeBody(there) PROVE WebInv'
  BY <1>5 DEF TakeBody
<1>6. CASE Tokenize \/ RejectBody \/ Dispatch \/ LookUp \/ UseArguments \/ NextPeer \/ PeersDone
  <2>1. web' = web /\ phase \in AfterAuth
    BY <1>6 DEF Tokenize, RejectBody, Dispatch, LookUp, UseArguments, NextPeer, PeersDone, Finish
  <2>2. QED
    BY <2>1
<1>7. ASSUME NEW id \in ChainIds, CreateChainId(id) PROVE WebInv'
  BY <1>7 DEF CreateChainId
<1>8. ASSUME NEW form \in {"str", "hex"}, NameChain(form) PROVE WebInv'
  BY <1>8 DEF NameChain
<1>9. CASE NextRequest
  BY <1>9 DEF NextRequest
<1>10. CASE UNCHANGED vars
  BY <1>10 DEF vars, FileAnswer
<1>11. QED
  BY <1>1, <1>2, <1>3, <1>4, <1>5, <1>6, <1>7, <1>8, <1>9, <1>10 DEF Next

\* Every step keeps what is known of the chain id.
LEMMA ChainKept == ASSUME ChainInv, [Next]_vars PROVE ChainInv'
<1> USE DEF ChainInv
<1>1. ASSUME UNCHANGED chain, phase' # "created" PROVE ChainInv'
  BY <1>1 DEF ChainIdSurvives
<1>2. CASE Receive \/ ServeFile \/ Authenticate
  BY <1>1, <1>2 DEF Receive, ServeFile, Authenticate
<1>3. ASSUME NEW m \in HttpMethods, NEW ok \in BOOLEAN, BeginRequest(m, ok) PROVE ChainInv'
  BY <1>1, <1>3 DEF BeginRequest
<1>4. ASSUME NEW there \in BOOLEAN, TakeBody(there) PROVE ChainInv'
  BY <1>1, <1>4 DEF TakeBody
<1>5. CASE Tokenize \/ RejectBody \/ Dispatch \/ LookUp \/ UseArguments \/ NextPeer \/ PeersDone
  <2>1. chain' = chain /\ phase' # "created"
    BY <1>5 DEF Tokenize, RejectBody, Dispatch, LookUp, UseArguments, NextPeer, PeersDone, Finish
  <2>2. QED
    BY <1>1, <2>1
<1>6. ASSUME NEW id \in ChainIds, CreateChainId(id) PROVE ChainInv'
  <2>1. chain' = [id |-> id, text |-> bytes_chain_id_to_string(id)] /\ phase' = "created"
    BY <1>6 DEF CreateChainId
  <2>2. DOMAIN chain' = {"id", "text"}
    BY <2>1
  <2>3. "given" \notin DOMAIN chain'
    BY <2>2
  <2>4. QED
    BY <2>1, <2>3 DEF ChainIdSurvives
<1>7. ASSUME NEW form \in {"str", "hex"}, NameChain(form) PROVE ChainInv'
  <2>1. PICK id \in ChainIds : chain = [id |-> id, text |-> bytes_chain_id_to_string(id)]
    BY <1>7 DEF NameChain
  <2>2. id \in Ids /\ id \in Seq(Byte)
    BY RequestAssumption DEF Ids
  <2>3. chain.id = id /\ chain.text = bytes_chain_id_to_string(id)
    BY <2>1
  <2>4. (IF form = "str" THEN string_chain_id_to_bytes(chain.text) ELSE hex_chain_id_to_bytes(ToHex(chain.id))) = id
    BY <2>2, <2>3, TextRoundTrip, HexRoundTrip DEF hex_chain_id_to_bytes
  <2>5. chain' = [id |-> id, text |-> chain.text, given |-> id] /\ phase' = "called"
    BY <1>7, <2>3, <2>4 DEF NameChain
  <2>6. chain'.given = id /\ chain'.id = id
    BY <2>5
  <2>7. QED
    BY <2>5, <2>6 DEF ChainIdSurvives
<1>8. CASE NextRequest
  BY <1>8 DEF NextRequest, ChainIdSurvives
<1>9. CASE UNCHANGED vars
  BY <1>9 DEF vars, ChainIdSurvives
<1>10. QED
  BY <1>2, <1>3, <1>4, <1>5, <1>6, <1>7, <1>8, <1>9 DEF Next

\* A chain id of any length survives its way to the client and back, in both forms.
THEOREM IdsRoundTrip == Spec => []ChainIdSurvives
<1>1. Init => ChainInv
  BY DEF Init, ChainInv, ChainIdSurvives
<1>2. ChainInv /\ [Next]_vars => ChainInv'
  BY ChainKept
<1>3. ChainInv => ChainIdSurvives
  BY DEF ChainInv
<1>4. QED
  BY <1>1, <1>2, <1>3, PTL DEF Spec

\* No file answer outgrows its Content-Length, for files of any size, any range and
\* any change of the file; of an unchanged file exactly the bytes that Missing
\* counts are announced and not sent.
THEOREM ShortfallKnown == Spec => []FileShortfall
<1>1. Init => WebInv
  BY DEF Init, WebInv, AfterAuth
<1>2. WebInv /\ [Next]_vars => WebInv'
  BY WebKept
<1>3. WebInv => FileShortfall
  <2> SUFFICES ASSUME WebInv, phase = "answered", web # Nothing, web.answer # Nothing PROVE FileShortfall
    BY DEF FileShortfall
  <2>1. FileAnswer(web)
    BY DEF WebInv
  <2>2. PICK method, action : \E file \in Files, range \in Ranges :
          web = [action |-> action, method |-> method, file |-> file, range |-> range,
                 answer |-> IF action = "file" THEN HandleFileRequest(method, file, range) ELSE Nothing]
    BY <2>1 DEF FileAnswer
  <2>3. PICK file \in Files, range \in Ranges :
          web = [action |-> action, method |-> method, file |-> file, range |-> range,
                 answer |-> IF action = "file" THEN HandleFileRequest(method, file, range) ELSE Nothing]
    BY <2>2
  <2>4. web.method = method /\ web.file = file /\ web.range = range /\ web.answer = HandleFileRequest(method, file, range)
    BY <2>3
  <2>5. /\ web.answer.sent <= Max({web.answer.length, 0})
        /\ /\ web.answer.status \in {200, 206} /\ method # "HEAD" /\ file.actual = file.size
           /\ web.answer.length > 0
           => web.answer.length - web.answer.sent = Missing(file.size, range)
    BY <2>4, AnswerFits
  <2>6. QED
    BY <2>4, <2>5 DEF FileShortfall
<1>4. QED
  BY <1>1, <1>2, <1>3, PTL DEF Spec

-------------------------------------------------------------------------------
(* Bodies *)

\* Only jsmn_parse touches the parser, until the next request initialises it.
LEMMA ParserKept == ASSUME ParserInv, [Next]_vars PROVE ParserInv'
<1>1. CASE Tokenize
  BY <1>1, ParserKeeps DEF Tokenize
<1>2. CASE NextRequest
  <2>1. ParserInit'
    BY <1>2 DEF NextRequest, ParserInit
  <2>2. (ParserInit => ParserInv)'
    BY ParserStarts, PTL
  <2>3. QED
    BY <2>1, <2>2
<1>3. CASE ~ Tokenize /\ ~ NextRequest
  <2>1. UNCHANGED parserVars
    BY <1>3 DEF Next, vars, Receive, BeginRequest, ServeFile, Authenticate, TakeBody, RejectBody, Dispatch,
                LookUp, UseArguments, NextPeer, PeersDone, CreateChainId, NameChain, Finish
  <2>2. QED
    BY <2>1, ParserKeeps
<1>4. QED
  BY <1>1, <1>2, <1>3

\* The tokens of every body that jsmn_parse accepts form a tree, whatever the body
\* and however many tokens there is room for.
THEOREM BodiesFormTrees == Spec => []TokensFormTree
<1>1. Init => ParserInv
  BY ParserStarts DEF Init
<1>2. ParserInv /\ [Next]_vars => ParserInv'
  BY ParserKept
<1>3. ParserInv => TokensFormTree
  BY ParserTree
<1>4. QED
  BY <1>1, <1>2, <1>3, PTL DEF Spec

-------------------------------------------------------------------------------
(* Arguments *)

\* The lookups of the methods are for strings, numbers and lists; the methods that cut
\* peers out of a list look for no numbers.
LEMMA LookupTypes ==
  ASSUME NEW method \in Methods, NEW L, L = Lookups(method)
  PROVE  /\ Len(L) \in Nat /\ DOMAIN L = 1 .. Len(L)
         /\ \A k \in 1 .. Len(L) : L[k][2] \in {"STRING", "PRIMITIVE", "ARRAY"}
         /\ method \in WithPeers => Len(L) # 0 /\ \A k \in 1 .. Len(L) : L[k][2] # "PRIMITIVE"
<1>1. CASE method \in Argless
  <2>1. L = <<>>
    BY <1>1 DEF Lookups, Argless, ChainOnly, WithPeers
  <2>2. QED
    BY <1>1, <2>1 DEF Argless, ChainOnly, WithPeers, Str, Num
<1>2. CASE method \in ChainOnly
  <2>1. L = <<Str("chain_id")>>
    BY <1>2 DEF Lookups, Argless, ChainOnly, WithPeers
  <2>2. QED
    BY <1>2, <2>1 DEF Argless, ChainOnly, WithPeers, Str, Num
<1>3. CASE method \in WithPeers
  <2>1. L = <<Str("chain_id"), <<"peers", "ARRAY">>>>
    BY <1>3 DEF Lookups, Argless, ChainOnly, WithPeers
  <2>2. QED
    BY <1>3, <2>1 DEF Argless, ChainOnly, WithPeers, Str, Num
<1>4. CASE method = "set-loop-time-interval"
  <2>1. L = <<Num("time-interval")>>
    BY <1>4 DEF Lookups, Argless, ChainOnly, WithPeers
  <2>2. QED
    BY <1>4, <2>1 DEF Argless, ChainOnly, WithPeers, Str, Num
<1>5. CASE method \in {"add-new-friend", "delete-friend"}
  <2>1. L = <<Str("friend")>>
    BY <1>5 DEF Lookups, Argless, ChainOnly, WithPeers
  <2>2. QED
    BY <1>5, <2>1 DEF Argless, ChainOnly, WithPeers, Str, Num
<1>6. CASE method = "add-new-message"
  <2>1. L = <<Str("sender"), Str("receiver"), Str("payload")>>
    BY <1>6 DEF Lookups, Argless, ChainOnly, WithPeers
  <2>2. QED
    BY <1>6, <2>1 DEF Argless, ChainOnly, WithPeers, Str, Num
<1>7. CASE method = "publish-data"
  <2>1. L = <<Str("key"), Str("value")>>
    BY <1>7 DEF Lookups, Argless, ChainOnly, WithPeers
  <2>2. QED
    BY <1>7, <2>1 DEF Argless, ChainOnly, WithPeers, Str, Num
<1>8. CASE method \in {"subscribe-from-peer", "send-to-peer"}
  <2>1. L = <<Str("peer"), Str("data")>>
    BY <1>8 DEF Lookups, Argless, ChainOnly, WithPeers
  <2>2. QED
    BY <1>8, <2>1 DEF Argless, ChainOnly, WithPeers, Str, Num
<1>9. CASE method = "create-chain-id"
  <2>1. L = <<Str("community_name")>>
    BY <1>9 DEF Lookups, Argless, ChainOnly, WithPeers
  <2>2. QED
    BY <1>9, <2>1 DEF Argless, ChainOnly, WithPeers, Str, Num
<1>10. CASE method = "is-tx-in-fee-pool"
  <2>1. L = <<Str("chain_id"), Str("tx_hash")>>
    BY <1>10 DEF Lookups, Argless, ChainOnly, WithPeers
  <2>2. QED
    BY <1>10, <2>1 DEF Argless, ChainOnly, WithPeers, Str, Num
<1>11. CASE method = "request-chain-data"
  <2>1. L = <<Str("chain_id"), Str("peer")>>
    BY <1>11 DEF Lookups, Argless, ChainOnly, WithPeers
  <2>2. QED
    BY <1>11, <2>1 DEF Argless, ChainOnly, WithPeers, Str, Num
<1>12. CASE method = "submit-note-transaction"
  <2>1. L = <<Str("chain_id"), Str("sender"), Num("fee"), Str("payload")>>
    BY <1>12 DEF Lookups, Argless, ChainOnly, WithPeers
  <2>2. QED
    BY <1>12, <2>1 DEF Argless, ChainOnly, WithPeers, Str, Num
<1>13. CASE method = "submit-transaction"
  <2>1. L = <<Str("chain_id"), Str("sender"), Str("receiver"), Num("amount"), Num("fee"), Str("payload")>>
    BY <1>13 DEF Lookups, Argless, ChainOnly, WithPeers
  <2>2. QED
    BY <1>13, <2>1 DEF Argless, ChainOnly, WithPeers, Str, Num
<1>14. CASE method = "get-account-info"
  <2>1. L = <<Str("chain_id"), Str("pubkey")>>
    BY <1>14 DEF Lookups, Argless, ChainOnly, WithPeers
  <2>2. QED
    BY <1>14, <2>1 DEF Argless, ChainOnly, WithPeers, Str, Num
<1>15. CASE method = "get-block-by-number"
  <2>1. L = <<Str("chain_id"), Num("number")>>
    BY <1>15 DEF Lookups, Argless, ChainOnly, WithPeers
  <2>2. QED
    BY <1>15, <2>1 DEF Argless, ChainOnly, WithPeers, Str, Num
<1>16. CASE method = "get-block-by-hash"
  <2>1. L = <<Str("chain_id"), Str("block_hash")>>
    BY <1>16 DEF Lookups, Argless, ChainOnly, WithPeers
  <2>2. QED
    BY <1>16, <2>1 DEF Argless, ChainOnly, WithPeers, Str, Num
<1>17. CASE method = "get-tx-state"
  <2>1. L = <<Str("tx_hash")>>
    BY <1>17 DEF Lookups, Argless, ChainOnly, WithPeers
  <2>2. QED
    BY <1>17, <2>1 DEF Argless, ChainOnly, WithPeers, Str, Num
<1>18. CASE method = "send-data"
  <2>1. L = <<Str("receiver"), Str("payload"), Num("alpha"), Num("beta"), Num("invoke_limit"), Num("hit_limit")>>
    BY <1>18 DEF Lookups, Argless, ChainOnly, WithPeers
  <2>2. QED
    BY <1>18, <2>1 DEF Argless, ChainOnly, WithPeers, Str, Num
<1>19. QED
  BY <1>1, <1>2, <1>3, <1>4, <1>5, <1>6, <1>7, <1>8, <1>9, <1>10, <1>11, <1>12, <1>13, <1>14, <1>15, <1>16, <1>17, <1>18 DEF Methods

\* The lookups so far have found what they should find.
RightlyFound(args, L, at) ==
  \A k \in 1 .. Len(at) :
    /\ at[k] = Member(args, L[k][1], L[k][2])
    /\ at[k] # 0 => at[k] \in 1 .. Len(tokens) /\ tokens[at[k]].type = L[k][2] /\ Covers(tokens, args, at[k])

\* The object with the arguments, if there is one.
IsObject(x) == x \in 1 .. Len(tokens) /\ tokens[x].type = "OBJECT"

\* The numbers among the arguments have their text.
NumbersIntact(args, b) ==
  \A i \in 1 .. Len(tokens) : tokens[i].type = "PRIMITIVE" /\ Covers(tokens, args, i) => Intact(b, i)

\* A method runs with these arguments, on this body.
CallIs(c, b, at) ==
  /\ c.method \in Methods
  /\ Copy(b) /\ Texts(b)
  /\ at \in Seq(Nat) /\ Len(at) <= Len(Lookups(c.method))
  /\ c.args = 0 => Len(at) = 0
  /\ c.args # 0 =>
       /\ IsObject(c.args)
       /\ RightlyFound(c.args, Lookups(c.method), at)
       /\ c.method \notin WithPeers => NumbersIntact(c.args, b)

Calling == {"call", "peers", "create", "created", "called"}

CallInv ==
  /\ phase \in {"idle", "mapped", "file", "auth", "granted", "body"} => found = <<>>
  /\ phase \in Calling => mode = "SUCCESS" /\ CallIs(call, buf, found)
  /\ phase = "peers" => call.args # 0 /\ call.method \in WithPeers

\* handle_json_rpc cuts the name of the method, the tag and the object with the arguments
\* out of the body.
LEMMA DispatchCalls ==
  ASSUME Accepted, NEW m, m = FindKey(tokens, js, 1, "method", "STRING"), m.at # 0,
         NEW named, named = Terminate(m.buf, tokens[m.at].end), NEW a, a = FindKey(tokens, named, 1, "arguments", "OBJECT"),
         NEW tag, tag = FindInt(tokens, a.buf, 1, "tag"),
         NEW b, b = IF a.at = 0 THEN tag.buf ELSE Terminate(tag.buf, tokens[a.at].end),
         NEW c, c.method \in Methods, c.args = a.at, NEW at \in Seq(Nat), Len(at) = 0
  PROVE  CallIs(c, b, at)
<1>1. Tree(tokens) /\ Len(tokens) \in Nat
  BY TreeNumbers DEF Accepted
<1>2. 1 \in 1 .. Len(tokens) /\ tokens[1].type = "OBJECT"
  <2>1. Slot(tokens, 1).type = "OBJECT"
    BY FindKeyNone
  <2>2. QED
    BY <1>1, <2>1, SlotIs
<1>3. Copy(js) /\ Texts(js)
  BY DEF Accepted, Copy, Texts, Intact
<1>4. /\ Copy(m.buf) /\ Kept(js, m.buf)
      /\ m.at \in 1 .. Len(tokens) /\ tokens[m.at].type = "STRING"
  BY <1>2, <1>3, FindKeyFinds
<1>5. Copy(named) /\ Kept(m.buf, named)
  BY <1>4, CutAfter DEF LeafTypes
<1>6. Kept(js, named) /\ Texts(named)
  BY <1>3, <1>4, <1>5, KeptOn, TextsKept
<1>7. /\ Copy(a.buf) /\ Kept(named, a.buf)
      /\ a.at # 0 => a.at \in 1 .. Len(tokens) /\ tokens[a.at].type = "OBJECT"
  BY <1>2, <1>5, <1>6, FindKeyFinds
<1>8. Kept(js, a.buf) /\ Texts(a.buf)
  BY <1>6, <1>7, KeptOn, TextsKept
<1>9. Copy(tag.buf) /\ Kept(a.buf, tag.buf)
  BY <1>2, <1>7, <1>8, FindIntKeeps
<1>10. Kept(js, tag.buf) /\ Texts(tag.buf)
  BY <1>8, <1>9, KeptOn, TextsKept
<1>11. \A i \in 1 .. Len(tokens) : tokens[i].type \in LeafTypes => Intact(tag.buf, i)
  BY <1>10 DEF Kept, Intact
<1>12. Len(at) <= Len(Lookups(c.method)) /\ 1 .. Len(at) = {}
  <2>1. Len(Lookups(c.method)) \in Nat
    BY LookupTypes
  <2>2. QED
    BY <2>1
<1>13. CASE a.at = 0
  BY <1>9, <1>10, <1>12, <1>13 DEF CallIs
<1>14. CASE a.at # 0
  <2>1. b = Terminate(tag.buf, tokens[a.at].end)
    BY <1>14
  <2>2. /\ Copy(b) /\ Texts(b)
        /\ \A i \in 1 .. Len(tokens) : tokens[i].type \in LeafTypes /\ Covers(tokens, a.at, i) /\ Intact(tag.buf, i) => Intact(b, i)
    BY <1>7, <1>9, <1>10, <1>14, <2>1, CutAfter
  <2>3. NumbersIntact(a.at, b)
    BY <1>11, <2>2 DEF NumbersIntact, LeafTypes
  <2>4. IsObject(a.at) /\ RightlyFound(a.at, Lookups(c.method), at)
    BY <1>7, <1>12, <1>14 DEF IsObject, RightlyFound
  <2>5. QED
    BY <1>12, <1>14, <2>2, <2>3, <2>4 DEF CallIs
<1>15. QED
  BY <1>13, <1>14

\* One more lookup of a method.
LEMMA LookUpFinds ==
  ASSUME Accepted, NEW c, NEW b, NEW at, CallIs(c, b, at), c.args # 0, Len(at) < Len(Lookups(c.method)),
         NEW L, L = Lookups(c.method), NEW key, key = L[Len(at) + 1][1], NEW type, type = L[Len(at) + 1][2],
         NEW r, r = FindKey(tokens, b, c.args, key, type)
  PROVE  CallIs(c, r.buf, Append(at, r.at))
<1> DEFINE n == Len(at)
<1> DEFINE h == Append(at, r.at)
<1>1. /\ c.method \in Methods /\ Copy(b) /\ Texts(b) /\ at \in Seq(Nat) /\ IsObject(c.args)
      /\ RightlyFound(c.args, L, at) /\ (c.method \notin WithPeers => NumbersIntact(c.args, b))
  BY DEF CallIs
<1>2. /\ Copy(r.buf) /\ Kept(b, r.buf) /\ r.at = Member(c.args, key, type)
      /\ r.at # 0 => r.at \in 1 .. Len(tokens) /\ tokens[r.at].type = type /\ Covers(tokens, c.args, r.at)
  BY <1>1, FindKeyFinds DEF IsObject
<1>3. Texts(r.buf)
  BY <1>1, <1>2, TextsKept
<1>4. c.method \notin WithPeers => NumbersIntact(c.args, r.buf)
  BY <1>1, <1>2 DEF NumbersIntact, Kept, LeafTypes
<1>5. Len(tokens) \in Nat /\ Len(L) \in Nat
  BY <1>1, TreeNumbers, LookupTypes DEF Accepted
<1>6. r.at \in Nat
  BY <1>2, <1>5
<1>7. h \in Seq(Nat) /\ Len(h) = n + 1 /\ h[n + 1] = r.at /\ n \in Nat /\ \A k \in 1 .. n : h[k] = at[k]
  BY <1>1, <1>6
<1> HIDE DEF h
<1>8. RightlyFound(c.args, L, h)
  <2>1. ASSUME NEW k \in 1 .. n + 1
        PROVE  /\ h[k] = Member(c.args, L[k][1], L[k][2])
               /\ h[k] # 0 => h[k] \in 1 .. Len(tokens) /\ tokens[h[k]].type = L[k][2] /\ Covers(tokens, c.args, h[k])
    <3>1. CASE k \in 1 .. n
      BY <1>1, <1>7, <3>1 DEF RightlyFound
    <3>2. CASE k = n + 1
      BY <1>2, <1>7, <3>2
    <3>3. QED
      BY <1>7, <3>1, <3>2
  <2>2. QED
    BY <1>7, <2>1 DEF RightlyFound
<1>9. Len(h) <= Len(L)
  BY <1>5, <1>7
<1>10. QED
  BY <1>1, <1>2, <1>3, <1>4, <1>7, <1>8, <1>9 DEF CallIs, h

\* A round of the loop over the peers.
LEMMA PeerKeeps ==
  ASSUME Accepted, NEW c, NEW b, NEW at, CallIs(c, b, at), c.args # 0, c.method \in WithPeers, NEW s \in Int,
         NEW r, r = FindKeyInArray(tokens, b, c.args, "peer_key", s, tokens[c.args].size * 2 + 2, "STRING"), r.at # 0,
         NEW d, d = Terminate(r.buf, tokens[r.at].end)
  PROVE  CallIs(c, d, at)
<1>1. /\ c.method \in Methods /\ Copy(b) /\ Texts(b) /\ at \in Seq(Nat) /\ Len(at) <= Len(Lookups(c.method))
      /\ IsObject(c.args) /\ RightlyFound(c.args, Lookups(c.method), at)
  BY DEF CallIs
<1>2. c.args \in 1 .. Len(tokens) /\ tokens[c.args].size * 2 + 2 \in Nat
  <2>1. c.args \in 1 .. Len(tokens)
    BY <1>1 DEF IsObject
  <2>2. tokens[c.args].size \in Nat
    BY <2>1, TreeNumbers DEF Accepted
  <2>3. QED
    BY <2>1, <2>2
<1>3. Copy(r.buf) /\ Texts(r.buf) /\ r.at \in 1 .. Len(tokens)
  BY <1>1, <1>2, FindKeyInArrayKeeps
<1>4. Copy(d) /\ Texts(d)
  BY <1>3, CutAfter
<1>5. QED
  BY <1>1, <1>4 DEF CallIs

\* The zeros that a method cuts after its strings.
LEMMA CutOffKeeps ==
  ASSUME Accepted, CallIs(call, buf, found), Len(found) > 0, NEW keys, NEW d, d = CutOff(keys)
  PROVE  CallIs(call, d, found)
<1> DEFINE L == Lookups(call.method)
<1> DEFINE strings == {k \in DOMAIN found : L[k][2] = "STRING" /\ L[k][1] \in keys}
<1> DEFINE X == {found[k] : k \in strings} \ {0}
<1>1. /\ call.method \in Methods /\ Copy(buf) /\ Texts(buf) /\ found \in Seq(Nat) /\ Len(found) <= Len(L)
      /\ call.args # 0 /\ IsObject(call.args) /\ RightlyFound(call.args, L, found)
      /\ (call.method \notin WithPeers => NumbersIntact(call.args, buf))
  BY DEF CallIs
<1>2. \A x \in X : x \in 1 .. Len(tokens) /\ tokens[x].type \in LeafTypes
  <2>1. DOMAIN found = 1 .. Len(found)
    BY <1>1, LenProperties
  <2>2. QED
    BY <1>1, <2>1 DEF RightlyFound, LeafTypes
<1>3. d = TerminateAll(buf, {tokens[x].end : x \in X})
  BY DEF CutOff
<1> HIDE DEF X
<1>4. Copy(d) /\ Kept(buf, d)
  BY <1>1, <1>2, <1>3, CutsAfter
<1>5. Texts(d)
  BY <1>1, <1>4, TextsKept
<1>6. call.method \notin WithPeers => NumbersIntact(call.args, d)
  BY <1>1, <1>4 DEF NumbersIntact, Kept, LeafTypes
<1>7. QED
  BY <1>1, <1>4, <1>5, <1>6 DEF CallIs

\* While the parser rests, a call is what it was found to be.
LEMMA CallRests ==
  ASSUME UNCHANGED parserVars, NEW c, c = call', NEW b, b = buf', NEW at, at = found', CallIs(c, b, at)
  PROVE  CallIs(call, buf, found)'
<1> DEFINE L == Lookups(c.method)
<1>1. tokens' = tokens /\ js' = js
  BY DEF parserVars
<1>2. Copy(buf)' /\ Texts(buf)'
  BY <1>1 DEF CallIs, Copy, Texts, Intact
<1>3. c.args # 0 => IsObject(call.args)'
  BY <1>1 DEF CallIs, IsObject
<1>4. c.args # 0 /\ c.method \notin WithPeers => NumbersIntact(call.args, buf)'
  BY <1>1 DEF CallIs, NumbersIntact, Intact
<1>5. ASSUME c.args # 0 PROVE RightlyFound(call.args, Lookups(call.method), found)'
  <2>1. \A k \in 1 .. Len(at) :
          /\ at[k] = Member(c.args, L[k][1], L[k][2])
          /\ at[k] # 0 => at[k] \in 1 .. Len(tokens) /\ tokens[at[k]].type = L[k][2] /\ Covers(tokens, c.args, at[k])
    BY <1>5 DEF CallIs, RightlyFound
  <2>2. Children(call.args)' = Children(c.args)
    BY <1>1 DEF Children, Inside
  <2>3. ASSUME NEW k
        PROVE  Member(call.args, Lookups(call.method)[k][1], Lookups(call.method)[k][2])' = Member(c.args, L[k][1], L[k][2])
    BY <1>1, <2>2 DEF Member
  <2>4. QED
    BY <1>1, <2>1, <2>3 DEF RightlyFound
<1>6. QED
  BY <1>2, <1>3, <1>4, <1>5 DEF CallIs

\* The tokens and the text under them stay as they are from the parser to the method.
LEMMA LeafKept == ASSUME ParserInv, LeafInv, [Next]_vars PROVE LeafInv'
<1>1. CASE Tokenize
  BY <1>1, LeafKeeps DEF Tokenize
<1>2. CASE NextRequest
  <2>1. ParserInit'
    BY <1>2 DEF NextRequest, ParserInit
  <2>2. (ParserInit => LeafInv)'
    BY LeafStarts, PTL
  <2>3. QED
    BY <2>1, <2>2
<1>3. CASE ~ Tokenize /\ ~ NextRequest
  <2>1. UNCHANGED parserVars
    BY <1>3 DEF Next, vars, Receive, BeginRequest, ServeFile, Authenticate, TakeBody, RejectBody, Dispatch,
                LookUp, UseArguments, NextPeer, PeersDone, CreateChainId, NameChain, Finish
  <2>2. QED
    BY <2>1, LeafKeeps
<1>4. QED
  BY <1>1, <1>2, <1>3

\* A method is called with the arguments of the body, and its lookups keep them.
LEMMA CallKept == ASSUME ParserInv, LeafInv, CallInv, [Next]_vars PROVE CallInv'
<1>1. mode = "SUCCESS" => Accepted
  BY AcceptedIs
<1>2. ASSUME UNCHANGED parserVars, phase \in Calling, UNCHANGED <<call, buf, found>>
      PROVE  mode' = "SUCCESS" /\ CallIs(call, buf, found)'
  BY <1>2, CallRests DEF CallInv, parserVars
<1>20. ASSUME UNCHANGED parserVars, phase \in Calling, UNCHANGED <<call, found>>,
              buf' = buf \/ buf' = CutOff(Cut(call.method))
       PROVE  mode' = "SUCCESS" /\ CallIs(call, buf, found)'
  <2>1. mode = "SUCCESS" /\ CallIs(call, buf, found)
    BY <1>20 DEF CallInv
  <2>2. CASE buf' = buf
    BY <1>2, <1>20, <2>2
  <2>3. CASE buf' # buf
    <3> SUFFICES ASSUME NEW d, d = CutOff(Cut(call.method)) PROVE mode' = "SUCCESS" /\ CallIs(call, buf, found)'
      OBVIOUS
    <3>1. buf' = d
      BY <1>20, <2>3
    <3>2. Len(found) > 0
      <4>1. ASSUME Len(found) = 0 PROVE d = buf
        <5>1. DOMAIN found = {}
          BY <2>1, <4>1, LenProperties DEF CallIs
        <5>2. d = TerminateAll(buf, {})
          BY <5>1 DEF CutOff
        <5>3. QED
          BY <2>1, <5>2 DEF TerminateAll, CallIs, Copy
      <4>2. Len(found) \in Nat
        BY <2>1, LenProperties DEF CallIs
      <4>3. QED
        BY <2>3, <3>1, <4>1, <4>2
    <3>3. CallIs(call, d, found)
      BY <1>1, <2>1, <3>2, CutOffKeeps
    <3>4. CallIs(call', buf', found')
      BY <1>20, <3>1, <3>3
    <3>5. QED
      BY <1>20, <2>1, <3>4, CallRests DEF parserVars
  <2>4. QED
    BY <2>2, <2>3
<1>3. CASE Dispatch
  <2> DEFINE m == FindKey(tokens, js, 1, "method", "STRING")
  <2> DEFINE named == Terminate(m.buf, tokens[m.at].end)
  <2> DEFINE name == CString(named, tokens[m.at].start)
  <2> DEFINE a == FindKey(tokens, named, 1, "arguments", "OBJECT")
  <2> DEFINE tag == FindInt(tokens, a.buf, 1, "tag")
  <2> DEFINE b == IF a.at = 0 THEN tag.buf ELSE Terminate(tag.buf, tokens[a.at].end)
  <2>1. phase = "body" /\ mode = "SUCCESS" /\ found = <<>>
    BY <1>3 DEF Dispatch, CallInv
  <2>2. CASE m.at = 0 \/ name \notin {<<w>> : w \in Methods}
    <3>1. phase' = "answered"
      BY <1>3, <2>2 DEF Dispatch, Finish
    <3>2. QED
      BY <3>1 DEF CallInv, Calling
  <2>3. CASE ~ (m.at = 0 \/ name \notin {<<w>> : w \in Methods})
    <3>1. /\ buf' = b /\ call' = [method |-> name[1], args |-> a.at] /\ phase' = "call" /\ found' = found
          /\ UNCHANGED parserVars
      BY <1>3, <2>3 DEF Dispatch
    <3>2. name[1] \in Methods /\ m.at # 0
      BY <2>3
    <3>3. found' \in Seq(Nat) /\ Len(found') = 0
      BY <2>1, <3>1
    <3> HIDE DEF name
    <3>4. ASSUME NEW c, c = call' PROVE c.method \in Methods /\ c.args = a.at
      BY <3>1, <3>2, <3>4
    <3>5. ASSUME NEW c, c = call', NEW at, at = found', NEW d, d = buf' PROVE CallIs(c, d, at)
      <4>1. c.method \in Methods /\ c.args = a.at /\ at \in Seq(Nat) /\ Len(at) = 0 /\ d = b
        BY <3>1, <3>3, <3>4, <3>5
      <4>2. QED
        BY <1>1, <2>1, <3>2, <4>1, DispatchCalls
    <3>6. CallIs(call, buf, found)'
      BY <3>1, <3>5, CallRests
    <3>7. mode' = "SUCCESS"
      BY <2>1, <3>1 DEF parserVars
    <3>8. QED
      BY <3>1, <3>6, <3>7 DEF CallInv, Calling
  <2>4. QED
    BY <2>2, <2>3
<1>4. CASE LookUp
  <2> DEFINE L == Lookups(call.method)
  <2> DEFINE r == FindKey(tokens, buf, call.args, L[Len(found) + 1][1], L[Len(found) + 1][2])
  <2>1. phase = "call" /\ Len(found) < Len(L) /\ mode = "SUCCESS" /\ CallIs(call, buf, found)
    BY <1>4 DEF LookUp, CallInv, Calling
  <2>2. CASE call.args = 0
    <3>1. phase' = "dead"
      BY <1>4, <2>2 DEF LookUp, Finish
    <3>2. QED
      BY <3>1 DEF CallInv, Calling
  <2>3. CASE call.args # 0
    <3>1. found' = Append(found, r.at) /\ buf' = r.buf /\ phase' = "call" /\ call' = call /\ UNCHANGED parserVars
      BY <1>4, <2>1, <2>3 DEF LookUp
    <3>2. CallIs(call, r.buf, Append(found, r.at))
      BY <1>1, <2>1, <2>3, LookUpFinds
    <3> HIDE DEF r
    <3>3. ASSUME NEW c, c = call', NEW at, at = found', NEW d, d = buf' PROVE CallIs(c, d, at)
      BY <3>1, <3>2, <3>3
    <3>4. CallIs(call, buf, found)'
      BY <3>1, <3>3, CallRests
    <3>5. mode' = "SUCCESS"
      BY <2>1, <3>1 DEF parserVars
    <3>6. QED
      BY <3>1, <3>4, <3>5 DEF CallInv, Calling
  <2>4. QED
    BY <2>2, <2>3
<1>5. CASE NextPeer
  <2> DEFINE r == FindKeyInArray(tokens, buf, call.args, "peer_key", Len(peers), tokens[call.args].size * 2 + 2, "STRING")
  <2> DEFINE d == Terminate(r.buf, tokens[r.at].end)
  <2>1. phase = "peers" /\ mode = "SUCCESS" /\ CallIs(call, buf, found) /\ call.args # 0 /\ call.method \in WithPeers
    BY <1>5 DEF NextPeer, CallInv, Calling
  <2>2. CASE r.at = 0
    <3>1. phase' = "dead"
      BY <1>5, <2>2 DEF NextPeer, Finish
    <3>2. QED
      BY <3>1 DEF CallInv, Calling
  <2>3. CASE r.at # 0
    <3>1. found' = found /\ buf' = d /\ phase' = "peers" /\ call' = call /\ UNCHANGED parserVars
      BY <1>5, <2>1, <2>3 DEF NextPeer
    <3>2. CallIs(call, d, found)
      BY <1>1, <2>1, <2>3, PeerKeeps
    <3> HIDE DEF d
    <3>3. ASSUME NEW c, c = call', NEW at, at = found', NEW e, e = buf' PROVE CallIs(c, e, at)
      BY <3>1, <3>2, <3>3
    <3>4. CallIs(call, buf, found)'
      BY <3>1, <3>3, CallRests
    <3>5. mode' = "SUCCESS"
      BY <2>1, <3>1 DEF parserVars
    <3>6. QED
      BY <2>1, <3>1, <3>4, <3>5 DEF CallInv, Calling
  <2>4. QED
    BY <2>2, <2>3
<1>6. CASE UseArguments
  <2>1. /\ phase = "call" /\ Len(found) = Len(Lookups(call.method)) /\ UNCHANGED parserVars /\ UNCHANGED <<call, found>>
        /\ phase' \in {"dead", "peers", "create", "called"}
        /\ phase' = "peers" => call.method \in WithPeers
        /\ buf' = buf \/ buf' = CutOff(Cut(call.method))
    BY <1>6 DEF UseArguments, Finish, callVars
  <2>2. mode' = "SUCCESS" /\ CallIs(call, buf, found)' /\ CallIs(call, buf, found)
    BY <1>20, <2>1 DEF Calling, CallInv
  <2>3. ASSUME phase' = "peers" PROVE call.args # 0 /\ call.method \in WithPeers
    <3>1. call.method \in WithPeers /\ call.method \in Methods
      BY <2>1, <2>2, <2>3 DEF CallIs
    <3>2. Len(found) # 0
      BY <2>1, <3>1, LookupTypes
    <3>3. QED
      BY <2>2, <3>1, <3>2 DEF CallIs
  <2>4. QED
    BY <2>1, <2>2, <2>3 DEF CallInv
<1>7. CASE PeersDone \/ (\E id \in ChainIds : CreateChainId(id)) \/ \E form \in {"str", "hex"} : NameChain(form)
  <2>1. /\ phase \in Calling /\ phase' \in {"created", "called"} /\ UNCHANGED parserVars /\ UNCHANGED <<call, found>>
        /\ buf' = buf \/ buf' = CutOff(Cut(call.method))
    BY <1>7 DEF PeersDone, CreateChainId, NameChain, callVars, Calling
  <2>2. QED
    BY <1>20, <2>1 DEF CallInv
<1>8. CASE Tokenize
  <2>1. phase = "body" /\ phase' = "body" /\ found' = found
    BY <1>8 DEF Tokenize, callVars
  <2>2. QED
    BY <2>1 DEF CallInv, Calling
<1>9. CASE NextRequest
  <2>1. phase' = "idle" /\ found' = <<>>
    BY <1>9 DEF NextRequest
  <2>2. QED
    BY <2>1 DEF CallInv, Calling
<1>10. CASE \/ Receive \/ (\E m \in HttpMethods, ok \in BOOLEAN : BeginRequest(m, ok)) \/ ServeFile \/ Authenticate
            \/ (\E there \in BOOLEAN : TakeBody(there)) \/ RejectBody
  <2>1. /\ phase \in {"idle", "mapped", "file", "auth", "granted", "body"} /\ found' = found
        /\ phase' \in {"mapped", "file", "auth", "granted", "body", "answered", "dead"}
    BY <1>10 DEF Receive, BeginRequest, ServeFile, Authenticate, TakeBody, RejectBody, Finish, callVars
  <2>2. QED
    BY <2>1 DEF CallInv, Calling
<1>11. CASE UNCHANGED vars
  <2>1. UNCHANGED parserVars /\ UNCHANGED <<call, buf, found>> /\ phase' = phase
    BY <1>11 DEF vars, callVars
  <2>2. QED
    BY <1>2, <2>1 DEF CallInv
<1>12. QED
  BY <1>3, <1>4, <1>5, <1>6, <1>7, <1>8, <1>9, <1>10, <1>11 DEF Next

\* The text of a token in a copy of the body in which it is intact.
LEMMA SameText ==
  ASSUME Accepted, NEW b, Copy(b), NEW i \in 1 .. Len(tokens), Intact(b, i)
  PROVE  SubSeq(b, tokens[i].start + 1, tokens[i].end) = SubSeq(js, tokens[i].start + 1, tokens[i].end)
<1> DEFINE s == tokens[i].start
<1> DEFINE e == tokens[i].end
<1>1. s \in Nat /\ e \in Nat
  BY TreeNumbers DEF Accepted
<1>2. e <= pos /\ pos \in Nat /\ pos < Len(js)
  BY TreeNumbers DEF Accepted, Placed
<1>3. js \in Seq(Chars \cup {NUL}) /\ b \in Seq(Chars \cup {NUL}) /\ Len(b) = Len(js)
  BY DEF Accepted, Copy
<1>4. \A k \in s + 1 .. e : b[k] = js[k]
  BY DEF Intact
<1> HIDE DEF s, e
<1> DEFINE p == SubSeq(b, s + 1, e)
<1> DEFINE q == SubSeq(js, s + 1, e)
<1>5. p = [k \in 1 .. e - s |-> b[s + k]] /\ q = [k \in 1 .. e - s |-> js[s + k]]
  BY <1>1, <1>2, <1>3
<1>6. \A k \in 1 .. e - s : b[s + k] = js[s + k]
  BY <1>1, <1>4
<1>7. p = q
  BY <1>5, <1>6
<1>8. QED
  BY <1>7 DEF s, e

\* Handlers get the arguments the client wrote: in every object of every body that parses,
\* find_key finds the first member of that name and type, and the text of the arguments of
\* a call is complete in spite of the zeros cut into the body.
THEOREM ArgumentsComplete == Spec => []ArgumentsAsSent
<1>1. Init => ParserInv /\ LeafInv /\ CallInv
  <2>1. Init => CallInv
    BY DEF Init, NoCall, CallInv, Calling
  <2>2. QED
    BY <2>1, ParserStarts, LeafStarts DEF Init
<1>2. ParserInv /\ LeafInv /\ CallInv /\ [Next]_vars => (ParserInv /\ LeafInv /\ CallInv)'
  BY ParserKept, LeafKept, CallKept
<1>3. ASSUME ParserInv, LeafInv, CallInv PROVE ArgumentsAsSent
  <2>1. mode = "SUCCESS" => Accepted /\ DOMAIN tokens = 1 .. Len(tokens)
    BY <1>3, AcceptedIs, TreeNumbers DEF Accepted
  <2>2. ASSUME phase = "body", mode = "SUCCESS", NEW o \in DOMAIN tokens, NEW key \in Words,
               NEW type \in {"STRING", "PRIMITIVE", "OBJECT"}, tokens[o].type = "OBJECT"
        PROVE  FindKey(tokens, js, o, key, type).at = Member(o, key, type)
    <3>1. Copy(js) /\ Texts(js) /\ o \in 1 .. Len(tokens)
      BY <2>1, <2>2 DEF Accepted, Copy, Texts, Intact
    <3>2. QED
      BY <2>1, <2>2, <3>1, FindKeyFinds
  <2>3. ASSUME phase \in {"peers", "create", "called"}, NEW k \in DOMAIN found, NEW t, t = tokens[found[k]]
        PROVE  /\ found[k] = Member(call.args, Lookups(call.method)[k][1], Lookups(call.method)[k][2])
               /\ found[k] # 0 /\ t.type # "ARRAY" =>
                    SubSeq(buf, t.start + 1, t.end) = SubSeq(js, t.start + 1, t.end)
    <3> DEFINE L == Lookups(call.method)
    <3>1. mode = "SUCCESS" /\ CallIs(call, buf, found)
      BY <1>3, <2>3 DEF CallInv, Calling
    <3>2. found \in Seq(Nat) /\ call.method \in Methods /\ Len(found) <= Len(L) /\ Copy(buf) /\ Texts(buf)
      BY <3>1 DEF CallIs
    <3>3. k \in 1 .. Len(found) /\ Len(found) # 0 /\ k \in 1 .. Len(L)
      BY <2>3, <3>2, LookupTypes
    <3>4. /\ call.args # 0 /\ RightlyFound(call.args, L, found)
          /\ call.method \notin WithPeers => NumbersIntact(call.args, buf)
      BY <3>1, <3>3 DEF CallIs
    <3>5. /\ found[k] = Member(call.args, L[k][1], L[k][2])
          /\ found[k] # 0 => found[k] \in 1 .. Len(tokens) /\ t.type = L[k][2] /\ Covers(tokens, call.args, found[k])
      BY <2>3, <3>3, <3>4 DEF RightlyFound
    <3>6. /\ L[k][2] \in {"STRING", "PRIMITIVE", "ARRAY"}
          /\ call.method \in WithPeers => L[k][2] # "PRIMITIVE"
      BY <3>2, <3>3, LookupTypes
    <3>7. ASSUME found[k] # 0, t.type # "ARRAY" PROVE Intact(buf, found[k])
      <4>1. CASE t.type = "STRING"
        BY <2>3, <3>2, <3>5, <3>7, <4>1 DEF Texts
      <4>2. CASE t.type = "PRIMITIVE"
        BY <2>3, <3>4, <3>5, <3>6, <3>7, <4>2 DEF NumbersIntact
      <4>3. QED
        BY <3>5, <3>6, <3>7, <4>1, <4>2
    <3>8. QED
      BY <2>1, <2>3, <3>1, <3>2, <3>5, <3>7, SameText
  <2>4. QED
    BY <2>2, <2>3 DEF ArgumentsAsSent
<1>4. QED
  BY <1>1, <1>2, <1>3, PTL DEF Spec

-------------------------------------------------------------------------------
(* The list of peers *)

\* The containers of the body stay as the parser has left them.
LEMMA BracketKept == ASSUME ParserInv, LeafInv, BracketInv, [Next]_vars PROVE BracketInv'
<1>1. CASE Tokenize
  BY <1>1, BracketKeeps DEF Tokenize
<1>2. CASE NextRequest
  <2>1. ParserInit'
    BY <1>2 DEF NextRequest, ParserInit
  <2>2. (ParserInit => BracketInv)'
    BY BracketStarts, PTL
  <2>3. QED
    BY <2>1, <2>2
<1>3. CASE ~ Tokenize /\ ~ NextRequest
  <2>1. UNCHANGED parserVars
    BY <1>3 DEF Next, vars, Receive, BeginRequest, ServeFile, Authenticate, TakeBody, RejectBody, Dispatch,
                LookUp, UseArguments, NextPeer, PeersDone, CreateChainId, NameChain, Finish
  <2>2. QED
    BY <2>1, BracketKeeps
<1>4. QED
  BY <1>1, <1>2, <1>3

\* The methods that take peers look for the chain first and for the list second.
LEMMA PeerArguments ==
  ASSUME found \in Seq(Nat), Len(found) = 2, call.method \in WithPeers
  PROVE  Argument("chain_id") = found[1] /\ Argument("peers") = found[2]
<1> DEFINE L == Lookups(call.method)
<1>1. L = <<Str("chain_id"), <<"peers", "ARRAY">>>>
  BY DEF Lookups, Argless, ChainOnly, WithPeers
<1>2. L[1][1] = "chain_id" /\ L[2][1] = "peers" /\ DOMAIN found = {1, 2}
  BY <1>1 DEF Str
<1> HIDE DEF L
<1>3. (CHOOSE k \in DOMAIN found : L[k][1] = "chain_id") = 1
  BY <1>2
<1>4. (CHOOSE k \in DOMAIN found : L[k][1] = "peers") = 2
  BY <1>2
<1>5. QED
  BY <1>3, <1>4 DEF Argument, L

\* The method takes peers, and both of its lookups have found something.
Peered(c, at) == c.method \in WithPeers /\ Len(at) = 2 /\ at[1] # 0 /\ at[2] # 0

\* The tokens in sight of find_key_in_array.
Sight(args) == tokens[args].size * 2 + 2

\* What the loop has taken is the beginning of the list, all of it when the method is
\* called; and the process has ended in it only for a key out of sight.
PeersSafe(c, at, ps, ph) ==
  Peered(c, at) =>
    /\ mode = "SUCCESS" /\ IsObject(c.args) /\ at[2] \in 1 .. Len(tokens) /\ c.args < at[2]
    /\ PlainPeers(c.args, Sight(c.args), at[2], "peer_key") =>
         /\ \A k \in 1 .. Len(ps) : k \in 1 .. tokens[at[2]].size /\ ps[k] = PeerKey(at[2], k, "peer_key")
         /\ ph = "called" => Len(ps) = tokens[at[2]].size
         /\ ph = "dead" => \E k \in 1 .. tokens[at[2]].size : ~ (PeerKey(at[2], k, "peer_key") - 1 <= c.args + Sight(c.args))

Early == {"idle", "mapped", "file", "auth", "granted", "body"}

PeersInv ==
  /\ found \in Seq(Nat) /\ peers \in Seq(Nat)
  /\ phase \in Early \cup {"answered"} => Len(found) = 0
  /\ phase \in Early \cup {"call"} => Len(peers) = 0
  /\ phase \in {"create", "created"} => call.method \notin WithPeers
  /\ PeersSafe(call, found, peers, phase)

\* While the parser rests, the list is what it was.
LEMMA PeersRest ==
  ASSUME UNCHANGED parserVars, NEW c, c = call', NEW at, at = found', NEW ps, ps = peers', NEW ph, ph = phase',
         PeersSafe(c, at, ps, ph)
  PROVE  PeersSafe(call, found, peers, phase)'
<1>1. tokens' = tokens /\ js' = js /\ mode' = mode
  BY DEF parserVars
<1>2. ASSUME NEW o, NEW key, NEW type PROVE Member(o, key, type)' = Member(o, key, type)
  <2>1. Children(o)' = Children(o)
    BY <1>1 DEF Children, Inside
  <2>2. QED
    BY <1>1, <2>1 DEF Member
<1>3. ASSUME NEW list, NEW k PROVE PeerKey(list, k, "peer_key")' = PeerKey(list, k, "peer_key")
  <2>1. Children(list)' = Children(list)
    BY <1>1 DEF Children, Inside
  <2>2. QED
    BY <1>2, <2>1 DEF PeerKey
<1>4. ASSUME NEW args PROVE Sight(args)' = Sight(args) /\ (IsObject(args)' <=> IsObject(args))
  BY <1>1 DEF Sight, IsObject
<1>5. ASSUME NEW o, NEW num, NEW list
      PROVE  PlainPeers(o, num, list, "peer_key")' <=> PlainPeers(o, num, list, "peer_key")
  BY <1>1, <1>3 DEF PlainPeers, Named
<1>6. QED
  BY <1>1, <1>3, <1>4, <1>5 DEF PeersSafe, Peered

\* A call whose lookups have found the list has it among its arguments.
LEMMA ListIs ==
  ASSUME Accepted, NEW c, NEW b, NEW at, CallIs(c, b, at), Peered(c, at)
  PROVE  IsObject(c.args) /\ at[2] \in 1 .. Len(tokens) /\ c.args < at[2]
<1>1. c.args # 0 /\ 2 \in 1 .. Len(at) /\ at[2] # 0
  BY DEF CallIs, Peered
<1>2. IsObject(c.args) /\ RightlyFound(c.args, Lookups(c.method), at)
  BY <1>1 DEF CallIs
<1>3. at[2] \in 1 .. Len(tokens) /\ Covers(tokens, c.args, at[2])
  BY <1>1, <1>2 DEF RightlyFound
<1>4. QED
  BY <1>2, <1>3 DEF Covers

\* One round of the loop takes the key of the next peer, or there is a key out of sight.
LEMMA PeerTaken ==
  ASSUME Accepted, Bracketed(tokens, js), NEW c, NEW b, NEW at, CallIs(c, b, at), Peered(c, at),
         NEW ps \in Seq(Nat), PeersSafe(c, at, ps, "peers"), Len(ps) < tokens[at[2]].size,
         NEW r, r = FindKeyInArray(tokens, b, c.args, "peer_key", Len(ps), Sight(c.args), "STRING")
  PROVE  /\ r.at = 0 => PeersSafe(c, at, ps, "dead")
         /\ r.at # 0 => PeersSafe(c, at, Append(ps, r.at), "peers")
<1> DEFINE o == c.args
<1> DEFINE list == at[2]
<1> DEFINE m == tokens[list].size
<1>1. /\ mode = "SUCCESS" /\ IsObject(o) /\ list \in 1 .. Len(tokens) /\ o < list
      /\ PlainPeers(o, Sight(o), list, "peer_key") =>
           \A k \in 1 .. Len(ps) : k \in 1 .. m /\ ps[k] = PeerKey(list, k, "peer_key")
  BY DEF PeersSafe
<1>2. o \in 1 .. Len(tokens) /\ tokens[o].type = "OBJECT"
  BY <1>1 DEF IsObject
<1>3. Sight(o) \in Nat /\ m \in Nat /\ Len(ps) \in Nat
  <2>1. tokens[o].size \in Nat /\ tokens[list].size \in Nat
    BY <1>1, <1>2, TreeNumbers DEF Accepted
  <2>2. QED
    BY <2>1 DEF Sight
<1>4. Copy(b) /\ Texts(b)
  BY DEF CallIs
<1>5. "peer_key" \notin Brackets \cup {NUL}
  BY DEF Brackets, NUL
<1>6. PlainPeers(o, Sight(o), list, "peer_key") =>
        /\ r.at # 0 => r.at = PeerKey(list, Len(ps) + 1, "peer_key")
        /\ r.at = 0 => \E k \in 1 .. m : ~ (PeerKey(list, k, "peer_key") - 1 <= o + Sight(o))
  <2>1. ASSUME NEW x \in 1 .. Len(tokens), tokens[x].type = "OBJECT", NEW l \in 1 .. Len(tokens), x < l, NEW num \in Nat,
               PlainPeers(x, num, l, "peer_key"), NEW s \in Nat, s < tokens[l].size,
               NEW w, w = FindKeyInArray(tokens, b, x, "peer_key", s, num, "STRING")
        PROVE  /\ w.at # 0 => w.at = PeerKey(l, s + 1, "peer_key")
               /\ w.at = 0 => \E k \in 1 .. tokens[l].size : ~ (PeerKey(l, k, "peer_key") - 1 <= x + num)
    BY <1>4, <1>5, <2>1, PeersFound
  <2>2. r = FindKeyInArray(tokens, b, o, "peer_key", Len(ps), Sight(o), "STRING") /\ Len(ps) < tokens[list].size
    OBVIOUS
  <2> HIDE DEF o, list
  <2>3. QED
    BY <1>1, <1>2, <1>3, <2>1, <2>2
<1>7. r.at = 0 => PeersSafe(c, at, ps, "dead")
  BY <1>1, <1>6 DEF PeersSafe
<1>8. ASSUME r.at # 0 PROVE PeersSafe(c, at, Append(ps, r.at), "peers")
  <2> DEFINE qs == Append(ps, r.at)
  <2>1. r.at \in {0} \cup 1 .. Len(tokens)
    BY <1>2, <1>3, <1>4, FindKeyInArrayKeeps
  <2>2. r.at \in Nat
    BY <2>1
  <2>3. Len(qs) = Len(ps) + 1 /\ qs[Len(ps) + 1] = r.at /\ \A k \in 1 .. Len(ps) : qs[k] = ps[k]
    BY <2>2
  <2> HIDE DEF qs
  <2>4. ASSUME PlainPeers(o, Sight(o), list, "peer_key"), NEW k \in 1 .. Len(qs)
        PROVE  k \in 1 .. m /\ qs[k] = PeerKey(list, k, "peer_key")
    <3>1. CASE k \in 1 .. Len(ps)
      BY <1>1, <2>3, <2>4, <3>1
    <3>2. CASE k = Len(ps) + 1
      <4>1. k \in 1 .. m
        BY <1>3, <3>2
      <4>2. QED
        BY <1>6, <1>8, <2>3, <2>4, <3>2, <4>1
    <3>3. QED
      BY <1>3, <2>3, <3>1, <3>2
  <2>5. PeersSafe(c, at, qs, "peers")
    BY <1>1, <2>4 DEF PeersSafe
  <2>6. QED
    BY <2>5 DEF qs
<1>9. QED
  BY <1>7, <1>8

\* Nothing is said about a call that has found nothing yet.
LEMMA NotPeered == ASSUME NEW c, NEW at, Len(at) = 0, NEW ps, NEW ph PROVE PeersSafe(c, at, ps, ph)
BY DEF PeersSafe, Peered

\* Every step keeps the invariant.
LEMMA PeersKept ==
  ASSUME ParserInv, LeafInv, BracketInv, CallInv, PeersInv, [Next]_vars PROVE PeersInv'
<1>1. mode = "SUCCESS" => Accepted /\ Bracketed(tokens, js)
  BY AcceptedIs DEF BracketInv
<1>2. /\ found \in Seq(Nat) /\ peers \in Seq(Nat) /\ PeersSafe(call, found, peers, phase)
      /\ phase \in Early => Len(found) = 0 /\ Len(peers) = 0
      /\ phase = "call" => Len(peers) = 0
      /\ phase \in {"create", "created"} => call.method \notin WithPeers
  BY DEF PeersInv
<1>3. ASSUME Len(found') = 0 PROVE PeersSafe(call, found, peers, phase)'
  BY <1>3 DEF PeersSafe, Peered
<1>4. ASSUME NEW ph, ph = phase', PeersSafe(call, found, peers, ph), UNCHANGED parserVars, UNCHANGED <<call, found, peers>>
      PROVE  PeersSafe(call, found, peers, phase)'
  BY <1>4, PeersRest
<1>5. CASE \/ Receive \/ (\E m \in HttpMethods, ok \in BOOLEAN : BeginRequest(m, ok)) \/ ServeFile \/ Authenticate
           \/ (\E there \in BOOLEAN : TakeBody(there)) \/ Tokenize \/ RejectBody
  <2>1. /\ phase \in Early /\ found' = found /\ peers' = peers
        /\ phase' \in {"mapped", "file", "auth", "granted", "body", "answered", "dead"}
    BY <1>5 DEF Receive, BeginRequest, ServeFile, Authenticate, TakeBody, Tokenize, RejectBody, Finish, callVars, Early
  <2>2. PeersSafe(call, found, peers, phase)'
    BY <1>2, <1>3, <2>1
  <2>3. QED
    BY <1>2, <2>1, <2>2 DEF PeersInv, Early
<1>6. CASE NextRequest
  <2>1. phase' = "idle" /\ found' = <<>> /\ peers' = <<>>
    BY <1>6 DEF NextRequest
  <2>2. found' \in Seq(Nat) /\ peers' \in Seq(Nat) /\ Len(found') = 0 /\ Len(peers') = 0
    BY <2>1
  <2>3. QED
    BY <1>3, <2>1, <2>2 DEF PeersInv, Early
<1>7. CASE Dispatch
  <2>1. phase = "body" /\ found' = found /\ peers' = peers /\ phase' \in {"answered", "call"}
    BY <1>7 DEF Dispatch, Finish, callVars
  <2>2. Len(found) = 0 /\ Len(peers) = 0
    BY <1>2, <2>1 DEF Early
  <2>3. PeersSafe(call, found, peers, phase)'
    BY <1>3, <2>1, <2>2
  <2>4. QED
    BY <1>2, <2>1, <2>2, <2>3 DEF PeersInv, Early
<1>8. CASE LookUp
  <2> DEFINE L == Lookups(call.method)
  <2> DEFINE r == FindKey(tokens, buf, call.args, L[Len(found) + 1][1], L[Len(found) + 1][2])
  <2>1. phase = "call" /\ Len(found) < Len(L) /\ mode = "SUCCESS" /\ CallIs(call, buf, found) /\ Len(peers) = 0
    BY <1>2, <1>8 DEF LookUp, CallInv, Calling
  <2>2. CASE call.args = 0
    <3>1. phase' = "dead" /\ found' = found /\ peers' = peers
      BY <1>8, <2>2 DEF LookUp, Finish, callVars
    <3>2. Len(found) = 0
      BY <2>1, <2>2 DEF CallIs
    <3>3. PeersSafe(call, found, peers, phase)'
      BY <1>3, <3>1, <3>2
    <3>4. QED
      BY <1>2, <3>1, <3>3 DEF PeersInv, Early
  <2>3. CASE call.args # 0
    <3>1. found' = Append(found, r.at) /\ phase' = "call" /\ call' = call /\ peers' = peers /\ UNCHANGED parserVars
      BY <1>8, <2>1, <2>3 DEF LookUp
    <3>2. CallIs(call, r.buf, Append(found, r.at))
      BY <1>1, <2>1, <2>3, LookUpFinds
    <3> HIDE DEF r
    <3>3. Append(found, r.at) \in Seq(Nat)
      BY <3>2 DEF CallIs
    <3>4. ASSUME NEW at, at = found' PROVE PeersSafe(call, at, peers, "call")
      <4>1. CallIs(call, r.buf, at)
        BY <3>1, <3>2, <3>4
      <4>2. Peered(call, at) => IsObject(call.args) /\ at[2] \in 1 .. Len(tokens) /\ call.args < at[2]
        BY <1>1, <2>1, <4>1, ListIs
      <4>3. 1 .. Len(peers) = {}
        BY <2>1
      <4>4. QED
        BY <2>1, <4>2, <4>3 DEF PeersSafe
    <3>5. PeersSafe(call, found, peers, phase)'
      BY <3>1, <3>4, PeersRest
    <3>6. QED
      BY <1>2, <2>1, <3>1, <3>3, <3>5 DEF PeersInv, Early
  <2>4. QED
    BY <2>2, <2>3
<1>9. CASE UseArguments
  <2>1. /\ phase = "call" /\ UNCHANGED parserVars /\ UNCHANGED <<call, found, peers>>
        /\ phase' \in {"dead", "peers", "create", "called"}
        /\ phase' = "dead" => \E key \in Used(call.method) : Argument(key) = 0
        /\ phase' \in {"create", "called"} => call.method \notin WithPeers
    BY <1>9 DEF UseArguments, Finish, callVars
  <2>2. ASSUME Peered(call, found), phase' = "dead" PROVE FALSE
    <3>1. call.method \in WithPeers /\ Len(found) = 2 /\ found[1] # 0 /\ found[2] # 0
      BY <2>2 DEF Peered
    <3>2. Argument("chain_id") # 0 /\ Argument("peers") # 0
      BY <1>2, <3>1, PeerArguments
    <3>3. Lookups(call.method) = <<Str("chain_id"), <<"peers", "ARRAY">>>>
      BY <3>1 DEF Lookups, Argless, ChainOnly, WithPeers
    <3>4. Used(call.method) \subseteq {"chain_id", "peers"}
      BY <3>3 DEF Used, Str
    <3>5. QED
      BY <2>1, <2>2, <3>2, <3>4
  <2>3. ASSUME NEW ph, ph = phase' PROVE PeersSafe(call, found, peers, ph)
    <3>1. CASE ~ Peered(call, found)
      BY <3>1 DEF PeersSafe
    <3>2. CASE Peered(call, found)
      <4>1. ph # "dead" /\ ph # "called"
        BY <2>1, <2>2, <2>3, <3>2 DEF Peered
      <4>2. QED
        BY <1>2, <4>1 DEF PeersSafe
    <3>3. QED
      BY <3>1, <3>2
  <2>4. PeersSafe(call, found, peers, phase)'
    BY <1>4, <2>1, <2>3
  <2>5. QED
    BY <1>2, <2>1, <2>4 DEF PeersInv, Early
<1>10. CASE NextPeer
  <2> DEFINE r == FindKeyInArray(tokens, buf, call.args, "peer_key", Len(peers), Sight(call.args), "STRING")
  <2>1. phase = "peers" /\ mode = "SUCCESS" /\ CallIs(call, buf, found) /\ call.args # 0
    BY <1>10 DEF NextPeer, CallInv, Calling
  <2>2. ASSUME Peered(call, found)
        PROVE  /\ r.at = 0 => PeersSafe(call, found, peers, "dead")
               /\ r.at # 0 => PeersSafe(call, found, Append(peers, r.at), "peers")
    <3>1. Argument("peers") = found[2]
      BY <1>2, <2>2, PeerArguments DEF Peered
    <3>2. Len(peers) < tokens[found[2]].size
      BY <1>10, <3>1 DEF NextPeer
    <3>3. PeersSafe(call, found, peers, "peers")
      BY <1>2, <2>1
    <3>4. QED
      BY <1>1, <1>2, <2>1, <2>2, <3>2, <3>3, PeerTaken
  <2>3. CASE r.at = 0
    <3>1. phase' = "dead" /\ UNCHANGED parserVars /\ UNCHANGED <<call, found, peers>>
      BY <1>10, <2>3 DEF NextPeer, Finish, callVars, Sight
    <3> HIDE DEF r
    <3>2. PeersSafe(call, found, peers, "dead")
      <4>1. CASE Peered(call, found)
        BY <2>2, <2>3, <4>1
      <4>2. CASE ~ Peered(call, found)
        BY <4>2 DEF PeersSafe
      <4>3. QED
        BY <4>1, <4>2
    <3>3. PeersSafe(call, found, peers, phase)'
      BY <1>4, <3>1, <3>2
    <3>4. QED
      BY <1>2, <3>1, <3>3 DEF PeersInv, Early
  <2>4. CASE r.at # 0
    <3>1. /\ phase' = "peers" /\ peers' = Append(peers, r.at) /\ UNCHANGED parserVars /\ UNCHANGED <<call, found>>
      BY <1>10, <2>1, <2>4 DEF NextPeer, Sight
    <3>2. r.at \in Nat
      <4>1. Copy(buf) /\ Texts(buf) /\ call.args \in 1 .. Len(tokens)
        BY <2>1 DEF CallIs, IsObject
      <4>2. Sight(call.args) \in Nat
        <5>1. tokens[call.args].size \in Nat
          BY <1>1, <2>1, <4>1, TreeNumbers DEF Accepted
        <5>2. QED
          BY <5>1 DEF Sight
      <4>3. Len(peers) \in Int
        BY <1>2
      <4>4. r.at \in {0} \cup 1 .. Len(tokens)
        BY <1>1, <2>1, <4>1, <4>2, <4>3, FindKeyInArrayKeeps
      <4>5. QED
        BY <4>4
    <3> HIDE DEF r
    <3>3. Append(peers, r.at) \in Seq(Nat)
      BY <1>2, <3>2
    <3>4. PeersSafe(call, found, Append(peers, r.at), "peers")
      <4>1. CASE Peered(call, found)
        BY <2>2, <2>4, <4>1
      <4>2. CASE ~ Peered(call, found)
        BY <4>2 DEF PeersSafe
      <4>3. QED
        BY <4>1, <4>2
    <3>5. ASSUME NEW c, c = call', NEW at, at = found', NEW ps, ps = peers', NEW ph, ph = phase' PROVE PeersSafe(c, at, ps, ph)
      BY <3>1, <3>4, <3>5
    <3>6. PeersSafe(call, found, peers, phase)'
      BY <3>1, <3>5, PeersRest
    <3>7. QED
      BY <1>2, <3>1, <3>3, <3>6 DEF PeersInv, Early
  <2>5. QED
    BY <2>3, <2>4
<1>11. CASE PeersDone
  <2>1. /\ phase = "peers" /\ Len(peers) = tokens[Argument("peers")].size /\ phase' = "called"
        /\ UNCHANGED parserVars /\ UNCHANGED <<call, found, peers>>
    BY <1>11 DEF PeersDone, Finish, callVars
  <2>2. PeersSafe(call, found, peers, "called")
    <3>1. CASE Peered(call, found)
      <4>1. Argument("peers") = found[2]
        BY <1>2, <3>1, PeerArguments DEF Peered
      <4>2. QED
        BY <1>2, <2>1, <4>1 DEF PeersSafe
    <3>2. CASE ~ Peered(call, found)
      BY <3>2 DEF PeersSafe
    <3>3. QED
      BY <3>1, <3>2
  <2>3. PeersSafe(call, found, peers, phase)'
    BY <1>4, <2>1, <2>2
  <2>4. QED
    BY <1>2, <2>1, <2>3 DEF PeersInv, Early
<1>12. CASE (\E id \in ChainIds : CreateChainId(id)) \/ \E form \in {"str", "hex"} : NameChain(form)
  <2>1. /\ phase \in {"create", "created"} /\ phase' \in {"created", "called"}
        /\ UNCHANGED parserVars /\ UNCHANGED <<call, found, peers>>
    BY <1>12 DEF CreateChainId, NameChain, callVars
  <2>2. ASSUME NEW ph PROVE PeersSafe(call, found, peers, ph)
    BY <1>2, <2>1 DEF PeersSafe, Peered
  <2>3. PeersSafe(call, found, peers, phase)'
    BY <1>4, <2>1, <2>2
  <2>4. QED
    BY <1>2, <2>1, <2>3 DEF PeersInv, Early
<1>13. CASE UNCHANGED vars
  <2>1. UNCHANGED parserVars /\ UNCHANGED <<call, found, peers>> /\ phase' = phase
    BY <1>13 DEF vars, callVars
  <2>2. PeersSafe(call, found, peers, phase)'
    BY <1>2, <1>4, <2>1
  <2>3. QED
    BY <2>1, <2>2 DEF PeersInv
<1>14. QED
  BY <1>5, <1>6, <1>7, <1>8, <1>9, <1>10, <1>11, <1>12, <1>13 DEF Next

\* The methods that take a list of peers take the keys of all of them in order, if every
\* peer has its key and nothing else in sight of find_key_in_array is called peer_key; and
\* the loop ends the process only for a key that is out of sight.
THEOREM PeersTaken == Spec => []PeersInOrder
<1> DEFINE I == ParserInv /\ LeafInv /\ BracketInv /\ CallInv /\ PeersInv
<1>1. Init => I
  <2>1. Init => CallInv
    BY DEF Init, NoCall, CallInv, Calling
  <2>2. ASSUME Init PROVE PeersInv
    <3>1. phase = "idle" /\ found \in Seq(Nat) /\ peers \in Seq(Nat) /\ Len(found) = 0 /\ Len(peers) = 0
      BY <2>2 DEF Init, NoCall
    <3>2. QED
      BY <3>1, NotPeered DEF PeersInv
  <2>3. QED
    BY <2>1, <2>2, ParserStarts, LeafStarts, BracketStarts DEF Init
<1>2. I /\ [Next]_vars => I'
  BY ParserKept, LeafKept, BracketKept, CallKept, PeersKept
<1>3. ASSUME I PROVE PeersInOrder
  <2> DEFINE list == Argument("peers")
  <2> DEFINE key(k) == Member(Nth(Children(list), k), "peer_key", "STRING")
  <2> DEFINE inSight(j) == j - call.args <= tokens[call.args].size * 2 + 2
  <2> DEFINE named(j) == SubSeq(js, tokens[j].start + 1, tokens[j].end) = <<"peer_key">>
  <2> DEFINE places == 1 .. tokens[list].size
  <2> DEFINE here == /\ call # Nothing /\ call.method \in WithPeers
                     /\ Len(found) = 2 /\ Argument("chain_id") # 0 /\ list # 0
  <2> DEFINE plain == /\ \A k \in places : key(k) # 0
                      /\ \A j \in DOMAIN tokens :
                           call.args < j /\ inSight(j) /\ named(j) => \E k \in places : key(k) = j + 1
  <2> SUFFICES ASSUME here, plain
               PROVE  /\ \A k \in DOMAIN peers : k \in places /\ peers[k] = key(k)
                      /\ phase = "called" => Len(peers) = tokens[list].size
                      /\ phase = "dead" => \E k \in places : ~ inSight(key(k) - 1)
    BY DEF PeersInOrder
  <2>1. found \in Seq(Nat) /\ peers \in Seq(Nat) /\ PeersSafe(call, found, peers, phase)
    BY <1>3 DEF PeersInv
  <2>2. list = found[2] /\ Peered(call, found)
    BY <2>1, PeerArguments DEF Peered
  <2>3. mode = "SUCCESS" /\ IsObject(call.args) /\ list \in 1 .. Len(tokens)
    BY <2>1, <2>2 DEF PeersSafe
  <2>4. /\ DOMAIN tokens = 1 .. Len(tokens) /\ Len(tokens) \in Nat /\ call.args \in Nat /\ Sight(call.args) \in Nat
        /\ Accepted
    <3>1. Accepted /\ call.args \in 1 .. Len(tokens)
      BY <1>3, <2>3, AcceptedIs DEF IsObject
    <3>2. DOMAIN tokens = 1 .. Len(tokens) /\ Len(tokens) \in Nat /\ tokens[call.args].size \in Nat
      BY <3>1, TreeNumbers DEF Accepted
    <3>3. QED
      BY <3>1, <3>2 DEF Sight
  <2>5. ASSUME NEW j \in Int PROVE inSight(j) <=> j <= call.args + Sight(call.args)
    BY <2>4 DEF Sight
  <2>6. ASSUME NEW k PROVE key(k) = PeerKey(list, k, "peer_key")
    BY DEF PeerKey
  <2>7. ASSUME NEW j PROVE named(j) <=> Named(j, "peer_key")
    BY DEF Named
  <2>8. \A k \in places : key(k) # 0
    OBVIOUS
  <2>9. ASSUME NEW j \in 1 .. Len(tokens), call.args < j, inSight(j), named(j) PROVE \E k \in places : key(k) = j + 1
    BY <2>4, <2>9
  <2> HIDE DEF list, key, inSight, named
  <2>10. PlainPeers(call.args, Sight(call.args), list, "peer_key")
    <3>1. ASSUME NEW j \in 1 .. Len(tokens), call.args < j, j <= call.args + Sight(call.args), Named(j, "peer_key")
          PROVE  \E k \in 1 .. tokens[list].size : PeerKey(list, k, "peer_key") = j + 1
      <4>1. inSight(j) /\ named(j)
        BY <2>5, <2>7, <3>1
      <4>2. QED
        BY <2>6, <2>9, <3>1, <4>1
    <3>2. QED
      BY <2>6, <2>8, <3>1 DEF PlainPeers
  <2>11. /\ \A k \in 1 .. Len(peers) : k \in places /\ peers[k] = PeerKey(list, k, "peer_key")
         /\ phase = "called" => Len(peers) = tokens[list].size
         /\ phase = "dead" => \E k \in places : ~ (PeerKey(list, k, "peer_key") - 1 <= call.args + Sight(call.args))
    BY <2>1, <2>2, <2>10 DEF PeersSafe
  <2>12. ASSUME NEW k \in places PROVE key(k) - 1 \in Int
    <3>1. PeerKey(list, k, "peer_key") \in 1 .. Len(tokens)
      BY <2>3, <2>4, <2>6, <2>8, PeerKeys
    <3>2. QED
      BY <2>4, <2>6, <3>1
  <2>13. QED
    BY <2>1, <2>5, <2>6, <2>11, <2>12
<1>4. QED
  BY <1>1, <1>2, <1>3, PTL DEF Spec

-------------------------------------------------------------------------------
(* URIs *)

\* The equation of the recursion in mg_url_decode.
Escaped(src, i) == src[i] = "%" /\ i + 2 <= Len(src) /\ <<src[i + 1], src[i + 2]>> \in DOMAIN HexPairs

DecodedAt(src, f, i) ==
  IF i > Len(src) THEN <<>>
  ELSE IF Escaped(src, i) THEN <<HexPairs[<<src[i + 1], src[i + 2]>>]>> \o f[i + 3]
  ELSE <<src[i]>> \o f[i + 1]

Decodes(src, f) == f = [i \in 1 .. Len(src) + 1 |-> DecodedAt(src, f, i)]

\* A decoded text from i on is made of strings, and only uses what is decoded after i.
LEMMA DecodedAtIs ==
  ASSUME NEW src \in Seq(STRING), NEW i \in 1 .. Len(src) + 1, NEW f,
         \A j \in 1 .. Len(src) + 1 : i < j => f[j] \in Seq(STRING)
  PROVE  /\ DecodedAt(src, f, i) \in Seq(STRING)
         /\ \A g : (\A j \in 1 .. Len(src) + 1 : i < j => f[j] = g[j]) => DecodedAt(src, f, i) = DecodedAt(src, g, i)
<1> DEFINE n == Len(src) + 1
<1>1. Len(src) \in Nat
  OBVIOUS
<1>2. CASE i > Len(src)
  <2>1. <<>> \in Seq(STRING)
    OBVIOUS
  <2>2. QED
    BY <1>2, <2>1 DEF DecodedAt
<1>3. CASE ~ (i > Len(src)) /\ Escaped(src, i)
  <2> DEFINE c == HexPairs[<<src[i + 1], src[i + 2]>>]
  <2>1. <<src[i + 1], src[i + 2]>> \in DOMAIN HexPairs /\ i + 2 <= Len(src)
    BY <1>3 DEF Escaped
  <2>2. c \in STRING
    BY <2>1, FileServingAssumption
  <2>3. <<c>> \in Seq(STRING)
    BY <2>2
  <2>4. i + 3 \in 1 .. n /\ i < i + 3
    BY <1>1, <2>1
  <2>5. f[i + 3] \in Seq(STRING)
    BY <2>4
  <2>6. \A g : DecodedAt(src, g, i) = <<c>> \o g[i + 3]
    BY <1>3 DEF DecodedAt
  <2> HIDE DEF c
  <2>7. <<c>> \o f[i + 3] \in Seq(STRING)
    BY <2>3, <2>5, ConcatProperties
  <2>8. QED
    BY <2>4, <2>6, <2>7
<1>4. CASE ~ (i > Len(src)) /\ ~ Escaped(src, i)
  <2>1. i \in 1 .. Len(src) /\ i + 1 \in 1 .. n /\ i < i + 1
    BY <1>1, <1>4
  <2>2. <<src[i]>> \in Seq(STRING) /\ f[i + 1] \in Seq(STRING)
    BY <2>1
  <2>3. \A g : DecodedAt(src, g, i) = <<src[i]>> \o g[i + 1]
    BY <1>4 DEF DecodedAt
  <2>4. <<src[i]>> \o f[i + 1] \in Seq(STRING)
    BY <2>2, ConcatProperties
  <2>5. QED
    BY <2>1, <2>3, <2>4
<1>5. QED
  BY <1>2, <1>3, <1>4

\* The recursion is well defined.
LEMMA DecodeSolved ==
  ASSUME NEW src \in Seq(STRING)
  PROVE  \E f : /\ \A i \in 1 .. Len(src) + 1 : f[i] = DecodedAt(src, f, i)
                /\ mg_url_decode(src) = f[1]
<1> DEFINE n == Len(src) + 1
<1> DEFINE V == Seq(STRING)
<1> DEFINE R == [p \in (1 .. n) \X [1 .. n -> V] |-> DecodedAt(src, p[2], p[1])]
<1>1. n \in Nat /\ <<>> \in V
  OBVIOUS
<1>2. ASSUME NEW i \in 1 .. n, NEW f \in [1 .. n -> V]
      PROVE  R[<<i, f>>] = DecodedAt(src, f, i) /\ DecodedAt(src, f, i) \in V
  <2>1. \A j \in 1 .. n : i < j => f[j] \in V
    OBVIOUS
  <2>2. DecodedAt(src, f, i) \in V
    BY <2>1, DecodedAtIs
  <2>3. <<i, f>> \in (1 .. n) \X [1 .. n -> V] /\ <<i, f>>[1] = i /\ <<i, f>>[2] = f
    OBVIOUS
  <2>4. R[<<i, f>>] = DecodedAt(src, f, i)
    BY <2>3
  <2>5. QED
    BY <2>2, <2>4
<1>3. R \in [(1 .. n) \X [1 .. n -> V] -> V]
  BY <1>2
<1>4. ASSUME NEW i \in 1 .. n, NEW f \in [1 .. n -> V], NEW g \in [1 .. n -> V],
             \A j \in 1 .. n : i < j => f[j] = g[j]
      PROVE  R[<<i, f>>] = R[<<i, g>>]
  <2>1. \A j \in 1 .. n : i < j => f[j] \in V
    OBVIOUS
  <2>2. DecodedAt(src, f, i) = DecodedAt(src, g, i)
    BY <1>4, <2>1, DecodedAtIs
  <2> HIDE DEF R
  <2>3. QED
    BY <1>2, <2>2
<1> HIDE DEF R
<1>5. \E f \in [1 .. n -> V] : \A i \in 1 .. n : f[i] = R[<<i, f>>]
  <2>1. FromAbove(R, n, V)
    BY <1>3, <1>4 DEF FromAbove
  <2> HIDE DEF n, V
  <2>2. QED
    BY <1>1, <2>1, RecursionDown
<1>6. \E f : Decodes(src, f)
  <2>1. PICK f \in [1 .. n -> V] : \A i \in 1 .. n : f[i] = R[<<i, f>>]
    BY <1>5
  <2>2. f = [i \in 1 .. n |-> DecodedAt(src, f, i)]
    BY <1>2, <2>1
  <2>3. QED
    BY <2>2 DEF Decodes
<1> DEFINE F == CHOOSE f : Decodes(src, f)
<1>7. Decodes(src, F)
  BY <1>6
<1>8. mg_url_decode(src) = F[1]
  BY DEF mg_url_decode, Decodes, DecodedAt, Escaped
<1> HIDE DEF F
<1>9. \A i \in 1 .. n : F[i] = DecodedAt(src, F, i)
  BY <1>7 DEF Decodes
<1>10. QED
  BY <1>8, <1>9

\* Decoding keeps the first character of a URI that does not begin with an escape.
LEMMA DecodedText ==
  ASSUME NEW src \in Seq(STRING), Len(src) > 0, src[1] # "%"
  PROVE  /\ mg_url_decode(src) \in Seq(STRING) /\ Len(mg_url_decode(src)) > 0
         /\ mg_url_decode(src)[1] = src[1]
         /\ Len(src) = 1 => Len(mg_url_decode(src)) = 1
<1> DEFINE n == Len(src) + 1
<1>1. n \in Nat /\ Len(src) \in Nat /\ 1 \in 1 .. n /\ 2 \in 1 .. n
  OBVIOUS
<1>2. PICK f : (\A i \in 1 .. n : f[i] = DecodedAt(src, f, i)) /\ mg_url_decode(src) = f[1]
  BY DecodeSolved
<1> DEFINE S == {i \in 1 .. n : f[i] \in Seq(STRING)}
<1>3. ASSUME NEW i \in 1 .. n, \A j \in 1 .. n : i < j => j \in S PROVE i \in S
  <2>1. \A j \in 1 .. n : i < j => f[j] \in Seq(STRING)
    BY <1>3
  <2>2. DecodedAt(src, f, i) \in Seq(STRING)
    BY <2>1, DecodedAtIs
  <2>3. QED
    BY <1>2, <2>2
<1>4. \A i \in 1 .. n : i \in S
  <2> HIDE DEF S, n
  <2>1. QED
    BY <1>1, <1>3, Downwards
<1>5. f[2] \in Seq(STRING)
  BY <1>1, <1>4
<1>6. f[1] = <<src[1]>> \o f[2]
  <2>1. f[1] = DecodedAt(src, f, 1) /\ ~ (1 > Len(src)) /\ ~ Escaped(src, 1)
    BY <1>1, <1>2 DEF Escaped
  <2>2. DecodedAt(src, f, 1) = <<src[1]>> \o f[1 + 1] /\ 1 + 1 = 2
    BY <2>1 DEF DecodedAt
  <2>3. QED
    BY <2>1, <2>2
<1>7. <<src[1]>> \in Seq(STRING) /\ Len(<<src[1]>>) = 1 /\ <<src[1]>>[1] = src[1]
  <2>1. src[1] \in STRING
    BY <1>1
  <2>2. QED
    BY <2>1
<1>8. f[1] \in Seq(STRING) /\ Len(f[1]) = 1 + Len(f[2]) /\ f[1][1] = src[1] /\ Len(f[2]) \in Nat
  <2>1. \A a, b \in Seq(STRING) : a \o b \in Seq(STRING) /\ Len(a \o b) = Len(a) + Len(b)
                                 /\ (Len(a) = 1 => (a \o b)[1] = a[1])
    BY ConcatProperties
  <2>2. QED
    BY <1>5, <1>6, <1>7, <2>1
<1>9. Len(src) = 1 => Len(f[2]) = 0
  <2>1. ASSUME Len(src) = 1 PROVE f[2] = <<>>
    BY <1>1, <1>2, <2>1 DEF DecodedAt
  <2>2. Len(<<>>) = 0
    OBVIOUS
  <2>3. QED
    BY <2>1, <2>2
<1>10. QED
  BY <1>2, <1>8, <1>9

\* The equations of the two loops of remove_double_dots_and_double_slashes: where the
\* inner one stops, and what the outer one writes.
SkipAt(s, f, i) ==
  IF i <= Len(s) /\ s[i] \in Slashes THEN f[i + 1]
  ELSE IF i < Len(s) /\ s[i] = "." /\ s[i + 1] = "." THEN f[i + 2]
  ELSE i

Skips(s, f) == f = [i \in 1 .. Len(s) + 1 |-> SkipAt(s, f, i)]

SkipOf(s) == CHOOSE f : Skips(s, f)

NextKept(s, skip, i) == IF s[i] \in Slashes THEN skip[i + 1] ELSE i + 1

KeptAt(s, skip, f, i) == IF i > Len(s) THEN <<>> ELSE <<s[i]>> \o f[NextKept(s, skip, i)]

Keeps(s, skip, f) == f = [i \in 1 .. Len(s) + 1 |-> KeptAt(s, skip, f, i)]

\* No slash and no double dot begins at j.
StopsAt(s, j) ==
  j <= Len(s) => s[j] \notin Slashes /\ ~ (j < Len(s) /\ s[j] = "." /\ s[j + 1] = ".")

\* The inner loop stops, and where it stops there is nothing left to skip.
LEMMA SkipStops ==
  ASSUME NEW C, NEW s \in Seq(C), NEW k, k = SkipOf(s)
  PROVE  \A i \in 1 .. Len(s) + 1 : k[i] \in i .. Len(s) + 1 /\ StopsAt(s, k[i])
<1> DEFINE n == Len(s) + 1
<1> DEFINE V == 1 .. n
<1> DEFINE R == [p \in (1 .. n) \X [1 .. n -> V] |-> SkipAt(s, p[2], p[1])]
<1>1. n \in Nat /\ Len(s) \in Nat /\ 1 \in V
  OBVIOUS
<1>2. ASSUME NEW i \in 1 .. n, NEW f \in [1 .. n -> V]
      PROVE  R[<<i, f>>] = SkipAt(s, f, i) /\ SkipAt(s, f, i) \in V
  <2>1. SkipAt(s, f, i) \in V
    BY <1>1 DEF SkipAt
  <2>2. <<i, f>> \in (1 .. n) \X [1 .. n -> V] /\ <<i, f>>[1] = i /\ <<i, f>>[2] = f
    OBVIOUS
  <2>3. R[<<i, f>>] = SkipAt(s, f, i)
    BY <2>2
  <2>4. QED
    BY <2>1, <2>3
<1>3. R \in [(1 .. n) \X [1 .. n -> V] -> V]
  BY <1>2
<1>4. ASSUME NEW i \in 1 .. n, NEW f \in [1 .. n -> V], NEW g \in [1 .. n -> V],
             \A j \in 1 .. n : i < j => f[j] = g[j]
      PROVE  R[<<i, f>>] = R[<<i, g>>]
  <2>1. SkipAt(s, f, i) = SkipAt(s, g, i)
    BY <1>1, <1>4 DEF SkipAt
  <2> HIDE DEF R
  <2>2. QED
    BY <1>2, <2>1
<1> HIDE DEF R
<1>5. \E f \in [1 .. n -> V] : \A i \in 1 .. n : f[i] = R[<<i, f>>]
  <2>1. FromAbove(R, n, V)
    BY <1>3, <1>4 DEF FromAbove
  <2> HIDE DEF n, V
  <2>2. QED
    BY <1>1, <2>1, RecursionDown
<1>6. Skips(s, k)
  <2>1. PICK f \in [1 .. n -> V] : \A i \in 1 .. n : f[i] = R[<<i, f>>]
    BY <1>5
  <2>2. f = [i \in 1 .. n |-> SkipAt(s, f, i)]
    BY <1>2, <2>1
  <2>3. Skips(s, f)
    BY <2>2 DEF Skips
  <2>4. QED
    BY <2>3 DEF SkipOf
<1>7. \A i \in 1 .. n : k[i] = SkipAt(s, k, i)
  BY <1>6 DEF Skips
<1> DEFINE S == {i \in 1 .. n : k[i] \in i .. n /\ StopsAt(s, k[i])}
<1>8. ASSUME NEW i \in 1 .. n, \A j \in 1 .. n : i < j => j \in S PROVE i \in S
  <2>1. CASE i <= Len(s) /\ s[i] \in Slashes
    <3>1. i + 1 \in 1 .. n /\ i < i + 1 /\ k[i] = k[i + 1]
      BY <1>1, <1>7, <2>1 DEF SkipAt
    <3>2. k[i + 1] \in i + 1 .. n /\ StopsAt(s, k[i + 1])
      BY <1>8, <3>1
    <3>3. k[i] \in i .. n
      BY <3>1, <3>2
    <3>4. QED
      BY <3>1, <3>2, <3>3
  <2>2. CASE ~ (i <= Len(s) /\ s[i] \in Slashes) /\ i < Len(s) /\ s[i] = "." /\ s[i + 1] = "."
    <3>1. i + 2 \in 1 .. n /\ i < i + 2 /\ k[i] = k[i + 2]
      BY <1>1, <1>7, <2>2 DEF SkipAt
    <3>2. k[i + 2] \in i + 2 .. n /\ StopsAt(s, k[i + 2])
      BY <1>8, <3>1
    <3>3. k[i] \in i .. n
      BY <3>1, <3>2
    <3>4. QED
      BY <3>1, <3>2, <3>3
  <2>3. CASE ~ (i <= Len(s) /\ s[i] \in Slashes) /\ ~ (i < Len(s) /\ s[i] = "." /\ s[i + 1] = ".")
    <3>1. k[i] = i
      BY <1>7, <2>3 DEF SkipAt
    <3>2. StopsAt(s, i) /\ i \in i .. n
      BY <2>3 DEF StopsAt
    <3>3. QED
      BY <3>1, <3>2
  <2>4. QED
    BY <2>1, <2>2, <2>3
<1>9. \A i \in 1 .. n : i \in S
  <2> HIDE DEF S, n
  <2>1. QED
    BY <1>1, <1>8, Downwards
<1>10. QED
  BY <1>9

\* The sequence w is c and then t.
Joined(w, c, t) == Len(w) = 1 + Len(t) /\ w[1] = c /\ \A m \in 1 .. Len(t) : w[m + 1] = t[m]

\* An element in front of a sequence.
LEMMA Prepended ==
  ASSUME NEW C, NEW c \in C, NEW b \in Seq(C)
  PROVE  /\ <<c>> \o b \in Seq(C) /\ Len(<<c>> \o b) = 1 + Len(b) /\ (<<c>> \o b)[1] = c
         /\ \A m \in 1 .. Len(b) : (<<c>> \o b)[m + 1] = b[m]
<1>1. <<c>> \in Seq(C) /\ Len(<<c>>) = 1 /\ <<c>>[1] = c /\ Len(b) \in Nat
  OBVIOUS
<1>2. /\ <<c>> \o b \in Seq(C) /\ Len(<<c>> \o b) = Len(<<c>>) + Len(b)
      /\ \A i \in 1 .. Len(<<c>>) + Len(b) :
           (<<c>> \o b)[i] = IF i <= Len(<<c>>) THEN <<c>>[i] ELSE b[i - Len(<<c>>)]
  BY <1>1, ConcatProperties
<1>3. ASSUME NEW m \in 1 .. Len(b) PROVE (<<c>> \o b)[m + 1] = b[m]
  <2>1. m + 1 \in 1 .. Len(<<c>>) + Len(b) /\ ~ (m + 1 <= Len(<<c>>)) /\ (m + 1) - Len(<<c>>) = m
    BY <1>1
  <2>2. QED
    BY <1>2, <2>1
<1>4. QED
  BY <1>1, <1>2, <1>3

\* What is written from i on is made of characters of s.
LEMMA KeptAtIs ==
  ASSUME NEW C, NEW s \in Seq(C), NEW i \in 1 .. Len(s) + 1, NEW k, k = SkipOf(s), NEW f,
         \A j \in 1 .. Len(s) + 1 : i < j => f[j] \in Seq(C)
  PROVE  /\ KeptAt(s, k, f, i) \in Seq(C)
         /\ i <= Len(s) => /\ NextKept(s, k, i) \in i + 1 .. Len(s) + 1
                           /\ Joined(KeptAt(s, k, f, i), s[i], f[NextKept(s, k, i)])
<1> DEFINE n == Len(s) + 1
<1> DEFINE j == NextKept(s, k, i)
<1>1. Len(s) \in Nat
  OBVIOUS
<1>2. CASE i > Len(s)
  <2>1. <<>> \in Seq(C)
    OBVIOUS
  <2>2. QED
    BY <1>1, <1>2, <2>1 DEF KeptAt
<1>3. CASE ~ (i > Len(s))
  <2>1. i \in 1 .. Len(s) /\ i + 1 \in 1 .. n
    BY <1>1, <1>3
  <2>2. k[i + 1] \in i + 1 .. n
    BY <2>1, SkipStops
  <2>3. j \in i + 1 .. n /\ j \in 1 .. n /\ i < j
    BY <1>1, <2>1, <2>2 DEF NextKept
  <2>4. KeptAt(s, k, f, i) = <<s[i]>> \o f[j]
    BY <1>3 DEF KeptAt
  <2> HIDE DEF j
  <2>5. s[i] \in C /\ f[j] \in Seq(C)
    BY <2>1, <2>3
  <2>6. <<s[i]>> \o f[j] \in Seq(C) /\ Joined(<<s[i]>> \o f[j], s[i], f[j])
    BY <2>5, Prepended DEF Joined
  <2>7. QED
    BY <2>3, <2>4, <2>6 DEF j
<1>4. QED
  BY <1>2, <1>3

\* And it only depends on what is written later.
LEMMA KeptAtSame ==
  ASSUME NEW C, NEW s \in Seq(C), NEW i \in 1 .. Len(s) + 1, NEW k, k = SkipOf(s), NEW f, NEW g,
         \A j \in 1 .. Len(s) + 1 : i < j => f[j] = g[j]
  PROVE  KeptAt(s, k, f, i) = KeptAt(s, k, g, i)
<1> DEFINE j == NextKept(s, k, i)
<1>1. Len(s) \in Nat
  OBVIOUS
<1>2. CASE i > Len(s)
  BY <1>2 DEF KeptAt
<1>3. CASE ~ (i > Len(s))
  <2>1. i + 1 \in 1 .. Len(s) + 1
    BY <1>1, <1>3
  <2>2. k[i + 1] \in i + 1 .. Len(s) + 1
    BY <2>1, SkipStops
  <2>3. j \in 1 .. Len(s) + 1 /\ i < j
    BY <1>1, <2>1, <2>2 DEF NextKept
  <2>4. KeptAt(s, k, f, i) = <<s[i]>> \o f[j] /\ KeptAt(s, k, g, i) = <<s[i]>> \o g[j]
    BY <1>3 DEF KeptAt
  <2> HIDE DEF j
  <2>5. QED
    BY <2>3, <2>4
<1>4. QED
  BY <1>2, <1>3

\* The outer loop is well defined.
LEMMA KeepSolved ==
  ASSUME NEW C, NEW s \in Seq(C), NEW k, k = SkipOf(s)
  PROVE  \E f : /\ \A i \in 1 .. Len(s) + 1 : f[i] = KeptAt(s, k, f, i)
                /\ RemoveDots(s) = f[1]
<1> DEFINE n == Len(s) + 1
<1> DEFINE V == Seq(C)
<1> DEFINE R == [p \in (1 .. n) \X [1 .. n -> V] |-> KeptAt(s, k, p[2], p[1])]
<1>1. n \in Nat /\ <<>> \in V
  OBVIOUS
<1>2. ASSUME NEW i \in 1 .. n, NEW f \in [1 .. n -> V]
      PROVE  R[<<i, f>>] = KeptAt(s, k, f, i) /\ KeptAt(s, k, f, i) \in V
  <2>1. \A j \in 1 .. n : i < j => f[j] \in V
    OBVIOUS
  <2>2. KeptAt(s, k, f, i) \in V
    BY <2>1, KeptAtIs
  <2>3. <<i, f>> \in (1 .. n) \X [1 .. n -> V] /\ <<i, f>>[1] = i /\ <<i, f>>[2] = f
    OBVIOUS
  <2>4. R[<<i, f>>] = KeptAt(s, k, f, i)
    BY <2>3
  <2>5. QED
    BY <2>2, <2>4
<1>3. R \in [(1 .. n) \X [1 .. n -> V] -> V]
  BY <1>2
<1>4. ASSUME NEW i \in 1 .. n, NEW f \in [1 .. n -> V], NEW g \in [1 .. n -> V],
             \A j \in 1 .. n : i < j => f[j] = g[j]
      PROVE  R[<<i, f>>] = R[<<i, g>>]
  <2>1. KeptAt(s, k, f, i) = KeptAt(s, k, g, i)
    BY <1>4, KeptAtSame
  <2> HIDE DEF R
  <2>2. QED
    BY <1>2, <2>1
<1> HIDE DEF R
<1>5. \E f \in [1 .. n -> V] : \A i \in 1 .. n : f[i] = R[<<i, f>>]
  <2>1. FromAbove(R, n, V)
    BY <1>3, <1>4 DEF FromAbove
  <2> HIDE DEF n, V
  <2>2. QED
    BY <1>1, <2>1, RecursionDown
<1>6. \E f : Keeps(s, k, f)
  <2>1. PICK f \in [1 .. n -> V] : \A i \in 1 .. n : f[i] = R[<<i, f>>]
    BY <1>5
  <2>2. f = [i \in 1 .. n |-> KeptAt(s, k, f, i)]
    BY <1>2, <2>1
  <2>3. QED
    BY <2>2 DEF Keeps
<1> DEFINE F == CHOOSE f : Keeps(s, k, f)
<1>7. Keeps(s, k, F)
  BY <1>6
<1>8. RemoveDots(s) = F[1]
  BY DEF RemoveDots, Keeps, KeptAt, NextKept, SkipOf, Skips, SkipAt
<1> HIDE DEF F
<1>9. \A i \in 1 .. n : F[i] = KeptAt(s, k, F, i)
  BY <1>7 DEF Keeps
<1>10. QED
  BY <1>8, <1>9

\* No slash is followed by two dots.
NoDots(path) ==
  \A k \in 1 .. Len(path) :
    path[k] \in Slashes => ~ (k + 2 <= Len(path) /\ path[k + 1] = "." /\ path[k + 2] = ".")

\* The invariant of the outer loop, for what is written from i on: it begins with the
\* character at i, and if that is no slash the character after it follows.
WrittenFrom(s, w, i) ==
  /\ NoDots(w)
  /\ i <= Len(s) =>
       /\ Len(w) > 0 /\ w[1] = s[i]
       /\ s[i] \notin Slashes /\ Len(w) > 1 => i < Len(s) /\ w[2] = s[i + 1]
  /\ i > Len(s) => Len(w) = 0

\* One round of the outer loop.
LEMMA RoundKeeps ==
  ASSUME NEW C, NEW s \in Seq(C), NEW k, k = SkipOf(s), NEW f, NEW i \in 1 .. Len(s) + 1,
         \A j \in 1 .. Len(s) + 1 : i < j => f[j] \in Seq(C) /\ WrittenFrom(s, f[j], j)
  PROVE  WrittenFrom(s, KeptAt(s, k, f, i), i)
<1> DEFINE n == Len(s) + 1
<1> DEFINE w == KeptAt(s, k, f, i)
<1>1. Len(s) \in Nat
  OBVIOUS
<1>2. CASE i > Len(s)
  <2>1. w = <<>> /\ Len(<<>>) = 0
    BY <1>2 DEF KeptAt
  <2>2. Len(w) = 0
    BY <2>1
  <2> HIDE DEF w
  <2>3. QED
    BY <1>1, <1>2, <2>2 DEF WrittenFrom, NoDots, w
<1>3. CASE i <= Len(s)
  <2> DEFINE j == NextKept(s, k, i)
  <2>1. /\ j \in i + 1 .. n /\ Len(w) = 1 + Len(f[j]) /\ w[1] = s[i]
        /\ \A m \in 1 .. Len(f[j]) : w[m + 1] = f[j][m]
    <3>1. \A h \in 1 .. n : i < h => f[h] \in Seq(C)
      OBVIOUS
    <3>2. j \in i + 1 .. n /\ Joined(w, s[i], f[j])
      BY <1>3, <3>1, KeptAtIs
    <3> HIDE DEF j, w
    <3>3. QED
      BY <3>2 DEF Joined
  <2>2. j \in 1 .. n /\ i < j
    BY <1>1, <2>1
  <2>3. s[i] \in Slashes => StopsAt(s, j)
    <3>1. i + 1 \in 1 .. n
      BY <1>1, <1>3
    <3>2. StopsAt(s, k[i + 1])
      BY <3>1, SkipStops
    <3>3. QED
      BY <3>2 DEF NextKept
  <2>4. s[i] \notin Slashes => j = i + 1
    BY DEF NextKept
  <2> HIDE DEF j, w
  <2>5. Len(f[j]) \in Nat /\ WrittenFrom(s, f[j], j)
    BY <2>2
  <2>6. Len(f[j]) > 0 => j <= Len(s) /\ f[j][1] = s[j]
    BY <1>1, <2>2, <2>5 DEF WrittenFrom
  <2>7. Len(f[j]) > 0 => w[2] = s[j] /\ j <= Len(s)
    <3>1. ASSUME Len(f[j]) > 0 PROVE w[2] = f[j][1]
      <4>1. 1 \in 1 .. Len(f[j]) /\ 1 + 1 = 2
        BY <2>5, <3>1
      <4>2. w[1 + 1] = f[j][1]
        BY <2>1, <4>1
      <4>3. QED
        BY <4>1, <4>2
    <3>2. QED
      BY <2>6, <3>1
  <2>8. NoDots(w)
    <3> SUFFICES ASSUME NEW h \in 1 .. Len(w), w[h] \in Slashes,
                        h + 2 <= Len(w), w[h + 1] = ".", w[h + 2] = "."
                 PROVE  FALSE
      BY DEF NoDots
    <3>1. CASE h = 1
      <4>1. s[i] \in Slashes /\ w[2] = "." /\ w[3] = "." /\ Len(f[j]) > 1 /\ 1 \in 1 .. Len(f[j]) /\ 2 \in 1 .. Len(f[j])
        BY <2>1, <2>5, <3>1
      <4>2. s[j] = "." /\ j <= Len(s) /\ StopsAt(s, j)
        <5>1. StopsAt(s, j)
          BY <2>3, <4>1
        <5>2. s[j] = "." /\ j <= Len(s)
          <6>1. Len(f[j]) > 0 /\ w[2] = "."
            BY <2>5, <4>1
          <6>2. QED
            BY <2>7, <6>1
        <5>3. QED
          BY <5>1, <5>2
      <4>3. s[j] \notin Slashes
        BY <4>2 DEF Slashes
      <4>4. j < Len(s) /\ f[j][2] = s[j + 1]
        BY <2>5, <4>1, <4>2, <4>3 DEF WrittenFrom
      <4>5. w[2 + 1] = f[j][2] /\ w[2 + 1] = w[3]
        BY <2>1, <4>1
      <4>6. QED
        BY <4>1, <4>2, <4>4, <4>5 DEF StopsAt
    <3>2. CASE h # 1
      <4> DEFINE g == h - 1
      <4>1. /\ g \in 1 .. Len(f[j]) /\ g + 1 \in 1 .. Len(f[j]) /\ g + 2 \in 1 .. Len(f[j])
            /\ g + 1 = h /\ (g + 1) + 1 = h + 1 /\ (g + 2) + 1 = h + 2 /\ g + 2 <= Len(f[j])
        <5>1. Len(w) = 1 + Len(f[j]) /\ Len(f[j]) \in Nat /\ h \in Nat /\ h # 1 /\ h >= 1 /\ h + 2 <= Len(w)
          BY <2>1, <2>5, <3>2
        <5>2. ASSUME NEW L \in Nat, NEW x \in Nat, x # 1, x >= 1, x + 2 <= 1 + L
              PROVE  /\ x - 1 \in 1 .. L /\ (x - 1) + 1 \in 1 .. L /\ (x - 1) + 2 \in 1 .. L
                     /\ (x - 1) + 1 = x /\ ((x - 1) + 1) + 1 = x + 1 /\ ((x - 1) + 2) + 1 = x + 2
                     /\ (x - 1) + 2 <= L
          BY <5>2
        <5>3. h + 2 <= 1 + Len(f[j])
          BY <5>1
        <5>4. QED
          BY <5>1, <5>2, <5>3
      <4> HIDE DEF g
      <4>2. w[g + 1] = f[j][g] /\ w[(g + 1) + 1] = f[j][g + 1] /\ w[(g + 2) + 1] = f[j][g + 2]
        BY <2>1, <4>1
      <4>3. f[j][g] \in Slashes /\ f[j][g + 1] = "." /\ f[j][g + 2] = "."
        BY <4>1, <4>2
      <4>4. NoDots(f[j])
        BY <2>5 DEF WrittenFrom
      <4>5. QED
        BY <4>1, <4>3, <4>4 DEF NoDots
    <3>3. QED
      BY <3>1, <3>2
  <2>9. s[i] \notin Slashes /\ Len(w) > 1 => i < Len(s) /\ w[2] = s[i + 1]
    BY <1>1, <2>1, <2>4, <2>5, <2>7
  <2>10. QED
    BY <1>1, <1>3, <2>1, <2>5, <2>8, <2>9 DEF WrittenFrom, w
<1>4. QED
  BY <1>1, <1>2, <1>3

\* The cleaned path: no slash in it is followed by two dots, and it begins as before.
LEMMA CleanText ==
  ASSUME NEW C, NEW s \in Seq(C), Len(s) > 0
  PROVE  /\ RemoveDots(s) \in Seq(C) /\ Len(RemoveDots(s)) > 0 /\ RemoveDots(s)[1] = s[1]
         /\ NoDots(RemoveDots(s))
         /\ Len(s) = 1 => Len(RemoveDots(s)) = 1
<1> DEFINE n == Len(s) + 1
<1> DEFINE k == SkipOf(s)
<1>1. n \in Nat /\ Len(s) \in Nat /\ 1 \in 1 .. n
  OBVIOUS
<1>2. PICK f : (\A i \in 1 .. n : f[i] = KeptAt(s, k, f, i)) /\ RemoveDots(s) = f[1]
  BY KeepSolved
<1> DEFINE S == {i \in 1 .. n : f[i] \in Seq(C) /\ WrittenFrom(s, f[i], i)}
<1>3. ASSUME NEW i \in 1 .. n, \A j \in 1 .. n : i < j => j \in S PROVE i \in S
  <2>1. \A j \in 1 .. n : i < j => f[j] \in Seq(C) /\ WrittenFrom(s, f[j], j)
    BY <1>3
  <2>2. KeptAt(s, k, f, i) \in Seq(C)
    BY <2>1, KeptAtIs
  <2>3. WrittenFrom(s, KeptAt(s, k, f, i), i)
    BY <2>1, RoundKeeps
  <2>4. f[i] = KeptAt(s, k, f, i)
    BY <1>2
  <2> HIDE DEF k
  <2>5. QED
    BY <2>2, <2>3, <2>4
<1>4. \A i \in 1 .. n : i \in S
  <2> HIDE DEF S, n
  <2>1. QED
    BY <1>1, <1>3, Downwards
<1>5. f[1] \in Seq(C) /\ WrittenFrom(s, f[1], 1)
  BY <1>1, <1>4
<1>6. Len(f[1]) \in Nat /\ Len(f[1]) > 0 /\ f[1][1] = s[1] /\ NoDots(f[1])
  BY <1>1, <1>5 DEF WrittenFrom
<1>7. ASSUME Len(s) = 1 PROVE Len(f[1]) = 1
  <2> DEFINE j == NextKept(s, k, 1)
  <2>1. j \in 1 + 1 .. n /\ Len(f[1]) = 1 + Len(f[j])
    <3>1. \A i \in 1 .. n : 1 < i => f[i] \in Seq(C)
      BY <1>4
    <3>2. j \in 1 + 1 .. n /\ Joined(KeptAt(s, k, f, 1), s[1], f[j])
      <4>1. ASSUME NEW i \in 1 .. n, i = 1
            PROVE  /\ NextKept(s, k, i) \in i + 1 .. n
                   /\ Joined(KeptAt(s, k, f, i), s[i], f[NextKept(s, k, i)])
        <5>1. (\A m \in 1 .. n : i < m => f[m] \in Seq(C)) /\ i <= Len(s)
          BY <1>7, <3>1, <4>1
        <5> HIDE DEF j
        <5>2. QED
          BY <5>1, KeptAtIs
      <4>2. QED
        BY <1>1, <4>1
    <3>3. QED
      BY <1>1, <1>2, <3>2 DEF Joined
  <2> HIDE DEF j
  <2>2. j = 2 /\ j \in 1 .. n
    BY <1>7, <2>1
  <2>3. WrittenFrom(s, f[j], j)
    BY <1>4, <2>2
  <2>4. Len(f[j]) = 0
    BY <1>7, <2>2, <2>3 DEF WrittenFrom
  <2>5. QED
    BY <2>1, <2>4
<1>8. QED
  BY <1>2, <1>5, <1>6, <1>7

\* What is written over a buffer is at its start, with a zero behind it.
LEMMA Overwritten ==
  ASSUME NEW C, Zero \in C, NEW old \in Seq(C), NEW w \in Seq(C)
  PROVE  /\ Over(old, w) \in Seq(C) /\ Len(Over(old, w)) >= Len(w) + 1
         /\ Over(old, w)[Len(w) + 1] = Zero
         /\ \A k \in 1 .. Len(w) : Over(old, w)[k] = w[k]
<1> DEFINE z == <<Zero>>
<1> DEFINE rest == SubSeq(old, Len(w) + 2, Len(old))
<1>1. z \in Seq(C) /\ Len(z) = 1 /\ z[1] = Zero
  OBVIOUS
<1>2. rest \in Seq(C)
  <2>1. Len(w) + 2 \in Int /\ Len(old) \in Int /\ \A i \in Len(w) + 2 .. Len(old) : old[i] \in C
    OBVIOUS
  <2>2. QED
    BY <2>1, SubSeqProperties
<1> DEFINE wz == w \o z
<1> HIDE DEF z, rest
<1>3. /\ wz \in Seq(C) /\ Len(wz) = Len(w) + 1
      /\ \A i \in 1 .. Len(w) + 1 : wz[i] = IF i <= Len(w) THEN w[i] ELSE z[i - Len(w)]
  <2>1. /\ wz \in Seq(C) /\ Len(wz) = Len(w) + Len(z)
        /\ \A i \in 1 .. Len(w) + Len(z) : wz[i] = IF i <= Len(w) THEN w[i] ELSE z[i - Len(w)]
    <3>1. z \in Seq(C)
      BY <1>1
    <3>2. QED
      BY <3>1, ConcatProperties
  <2>2. QED
    BY <1>1, <2>1
<1> HIDE DEF wz
<1>4. /\ wz \o rest \in Seq(C) /\ Len(wz \o rest) = Len(wz) + Len(rest)
      /\ \A i \in 1 .. Len(wz) + Len(rest) : (wz \o rest)[i] = IF i <= Len(wz) THEN wz[i] ELSE rest[i - Len(wz)]
  <2>1. wz \in Seq(C)
    BY <1>3
  <2>2. QED
    BY <1>2, <2>1, ConcatProperties
<1>5. Over(old, w) = wz \o rest
  BY DEF Over, wz, z, rest
<1> DEFINE o == wz \o rest
<1>6. Len(rest) \in Nat /\ Len(w) \in Nat
  BY <1>2
<1>7. \A i \in 1 .. Len(w) + 1 : o[i] = wz[i]
  BY <1>3, <1>4, <1>6
<1>8. \A i \in 1 .. Len(w) : o[i] = w[i]
  BY <1>3, <1>6, <1>7
<1>9. o[Len(w) + 1] = Zero
  <2>1. Len(w) + 1 \in 1 .. Len(w) + 1 /\ ~ (Len(w) + 1 <= Len(w)) /\ Len(w) + 1 - Len(w) = 1
    BY <1>6
  <2>2. wz[Len(w) + 1] = z[1]
    BY <1>3, <2>1
  <2>3. QED
    BY <1>1, <1>7, <2>1, <2>2
<1>10. Len(o) >= Len(w) + 1
  BY <1>3, <1>4, <1>6
<1>11. QED
  BY <1>4, <1>5, <1>8, <1>9, <1>10

\* t is w up to the first zero in it.
UpToZero(C, w, t) ==
  /\ t \in Seq(C \ {Zero})
  /\ Len(t) <= Len(w)
  /\ \A k \in 1 .. Len(t) : t[k] = w[k]
  /\ Len(w) > 0 /\ w[1] # Zero => Len(t) > 0
  /\ (\A k \in 1 .. Len(w) : w[k] # Zero) => Len(t) = Len(w)

\* The text of a buffer is what was written last, up to a zero in it.
LEMMA TextWritten ==
  ASSUME NEW C, Zero \in C, NEW old \in Seq(C), NEW w \in Seq(C)
  PROVE  UpToZero(C, w, Text(Over(old, w)))
<1> DEFINE o == Over(old, w)
<1> DEFINE Z == {k \in DOMAIN o : o[k] = Zero}
<1> DEFINE m == Min(Z)
<1>1. /\ o \in Seq(C) /\ Len(o) >= Len(w) + 1 /\ o[Len(w) + 1] = Zero
      /\ \A k \in 1 .. Len(w) : o[k] = w[k]
  BY Overwritten
<1>2. Text(o) = SubSeq(o, 1, m - 1)
  BY DEF Text
<1> HIDE DEF o
<1>3. Len(w) \in Nat /\ Len(o) \in Nat /\ DOMAIN o = 1 .. Len(o)
  BY <1>1
<1>4. Z \in SUBSET (Nat \ {0}) /\ Len(w) + 1 \in Z
  BY <1>1, <1>3
<1>5. m \in Z /\ \A y \in Z : m <= y
  BY <1>4, MinIs
<1> HIDE DEF m
<1>6. m \in Nat /\ 1 <= m /\ m <= Len(w) + 1 /\ o[m] = Zero /\ \A k \in 1 .. Len(o) : k < m => o[k] # Zero
  BY <1>3, <1>4, <1>5
<1> HIDE DEF Z
<1>7. \A k \in 1 .. m - 1 : k \in 1 .. Len(w) /\ k \in 1 .. Len(o) /\ k < m
  BY <1>1, <1>3, <1>6
<1>8. \A k \in 1 .. m - 1 : o[k] \in C \ {Zero} /\ o[k] = w[k]
  BY <1>1, <1>6, <1>7
<1> DEFINE t == SubSeq(o, 1, m - 1)
<1>9. t \in Seq(C \ {Zero}) /\ Len(t) = m - 1 /\ \A k \in 1 .. m - 1 : t[k] = o[k]
  <2>1. 1 \in Int /\ m - 1 \in Int /\ m - 1 - 1 + 1 = m - 1 /\ (1 <= m - 1 \/ m - 1 = 0)
    BY <1>6
  <2>2. /\ t \in Seq(C \ {Zero})
        /\ Len(t) = IF 1 <= m - 1 THEN m - 1 - 1 + 1 ELSE 0
        /\ \A i \in 1 .. m - 1 - 1 + 1 : t[i] = o[1 + i - 1]
    BY <1>8, <2>1, SubSeqProperties
  <2>3. \A i \in 1 .. m - 1 : 1 + i - 1 = i
    OBVIOUS
  <2> HIDE DEF t
  <2>4. QED
    BY <2>1, <2>2, <2>3
<1> HIDE DEF t
<1>10. ASSUME Len(w) > 0, w[1] # Zero PROVE Len(t) > 0
  <2>1. m # 1
    BY <1>1, <1>3, <1>6, <1>10
  <2>2. QED
    BY <1>6, <1>9, <2>1
<1>11. ASSUME \A k \in 1 .. Len(w) : w[k] # Zero PROVE Len(t) = Len(w)
  <2>1. m \notin 1 .. Len(w)
    BY <1>1, <1>6, <1>11
  <2>2. QED
    BY <1>3, <1>6, <1>9, <2>1
<1>12. Len(t) <= Len(w)
  BY <1>3, <1>6, <1>9
<1>13. \A k \in 1 .. Len(t) : t[k] = w[k]
  BY <1>8, <1>9
<1>14. UpToZero(C, w, t)
  BY <1>9, <1>10, <1>11, <1>12, <1>13 DEF UpToZero
<1>15. QED
  BY <1>2, <1>14 DEF t, o

\* What PathStaysInside asks of a path.
InsidePath(path) ==
  LET ends == {0, Len(path) + 1} \cup {k \in DOMAIN path : path[k] \in Slashes}
  IN  /\ path = <<"*">> \/ path[1] = "/"
      /\ ~ \E k \in ends : k + 3 \in ends /\ SubSeq(path, k + 1, k + 2) = <<".", ".">>

\* A path that begins with a slash, or is an asterisk, has no segment of two dots if
\* no slash in it is followed by two dots.
LEMMA NoDotsInside ==
  ASSUME NEW C, NEW path \in Seq(C), Len(path) > 0, NoDots(path),
         path[1] = "/" \/ (path[1] = "*" /\ Len(path) = 1)
  PROVE  InsidePath(path)
<1> DEFINE ends == {0, Len(path) + 1} \cup {k \in DOMAIN path : path[k] \in Slashes}
<1>1. Len(path) \in Nat /\ DOMAIN path = 1 .. Len(path)
  OBVIOUS
<1>2. path = <<"*">> \/ path[1] = "/"
  OBVIOUS
<1>3. ASSUME NEW k \in ends, k + 3 \in ends, SubSeq(path, k + 1, k + 2) = <<".", ".">>
      PROVE  FALSE
  <2>1. k \in Nat /\ k <= Len(path) + 1 /\ k + 3 <= Len(path) + 1
    BY <1>1, <1>3
  <2>2. k + 1 \in 1 .. Len(path) /\ k + 2 \in 1 .. Len(path) /\ Len(path) > 1
    BY <1>1, <2>1
  <2>3. path[k + 1] = "." /\ path[k + 2] = "."
    <3>1. k + 1 \in Int /\ k + 2 \in Int /\ \A i \in k + 1 .. k + 2 : path[i] \in C
      BY <1>1, <2>1, <2>2
    <3>2. \A i \in 1 .. k + 2 - (k + 1) + 1 : SubSeq(path, k + 1, k + 2)[i] = path[k + 1 + i - 1]
      BY <3>1, SubSeqProperties
    <3>3. /\ 1 \in 1 .. k + 2 - (k + 1) + 1 /\ 2 \in 1 .. k + 2 - (k + 1) + 1
          /\ k + 1 + 1 - 1 = k + 1 /\ k + 1 + 2 - 1 = k + 2
      BY <2>1
    <3>4. SubSeq(path, k + 1, k + 2)[1] = path[k + 1] /\ SubSeq(path, k + 1, k + 2)[2] = path[k + 2]
      BY <3>2, <3>3
    <3>5. ASSUME NEW d, d = <<".", ".">> PROVE d[1] = "." /\ d[2] = "."
      BY <3>5
    <3>6. QED
      BY <1>3, <3>4, <3>5
  <2>4. CASE k = 0
    <3>1. path[1] = "."
      BY <2>3, <2>4
    <3>2. QED
      BY <2>2, <3>1
  <2>5. CASE k \in 1 .. Len(path) /\ path[k] \in Slashes
    BY <2>2, <2>3, <2>5 DEF NoDots
  <2>6. QED
    BY <1>1, <1>3, <2>1, <2>4, <2>5
<1>4. QED
  BY <1>2, <1>3 DEF InsidePath

\* The path handle_request makes of a URI stays inside.
LEMMA CleanedInside == ASSUME NEW uri \in Uris PROVE InsidePath(Text(CleanUri(uri)))
<1>1. /\ uri \in Seq(STRING) /\ Len(uri) > 0 /\ uri[1] # "%" /\ uri[1] # Zero
      /\ uri[1] = "/" \/ (uri[1] = "*" /\ Len(uri) = 1)
  <2>1. uri \in Seq(STRING) /\ (uri = <<"*">> \/ (Len(uri) > 0 /\ uri[1] = "/"))
    BY RequestAssumption
  <2>2. QED
    BY <2>1 DEF Zero
<1> DEFINE C == STRING \cup {Zero}
<1> DEFINE raw == uri \o <<Zero>>
<1> DEFINE w == mg_url_decode(uri)
<1> DEFINE decoded == Over(raw, w)
<1> DEFINE u == Text(decoded)
<1>2. raw \in Seq(C)
  <2>1. <<Zero>> \in Seq(C)
    OBVIOUS
  <2>2. uri \in Seq(C)
    <3>1. Len(uri) \in Nat /\ uri \in [1 .. Len(uri) -> C]
      BY <1>1
    <3>2. QED
      BY <3>1, SeqIs
  <2>3. QED
    BY <2>1, <2>2, ConcatProperties
<1>3. w \in Seq(C) /\ Len(w) > 0 /\ w[1] = uri[1] /\ (Len(uri) = 1 => Len(w) = 1)
  <2>1. w \in Seq(STRING) /\ Len(w) > 0 /\ w[1] = uri[1] /\ (Len(uri) = 1 => Len(w) = 1)
    BY <1>1, DecodedText
  <2> HIDE DEF w
  <2>2. Len(w) \in Nat /\ w \in [1 .. Len(w) -> C]
    BY <2>1
  <2>3. QED
    BY <2>1, <2>2, SeqIs
<1> HIDE DEF raw, w
<1>4. decoded \in Seq(C)
  <2>1. Zero \in C
    OBVIOUS
  <2> HIDE DEF C
  <2>2. QED
    BY <1>2, <1>3, <2>1, Overwritten
<1>5. UpToZero(C, w, u)
  <2>1. Zero \in C
    OBVIOUS
  <2> HIDE DEF C
  <2>2. QED
    BY <1>2, <1>3, <2>1, TextWritten
<1> HIDE DEF C, decoded, u
<1>6. /\ u \in Seq(C \ {Zero}) /\ Len(u) > 0 /\ u[1] = uri[1]
      /\ Len(uri) = 1 => Len(u) = 1
  <2>1. u \in Seq(C \ {Zero}) /\ Len(u) > 0 /\ Len(u) <= Len(w) /\ \A k \in 1 .. Len(u) : u[k] = w[k]
    BY <1>1, <1>3, <1>5 DEF UpToZero
  <2>2. Len(u) \in Nat /\ Len(w) \in Nat
    BY <1>3, <2>1
  <2>3. QED
    BY <1>3, <2>1, <2>2
<1> DEFINE r == RemoveDots(u)
<1>7. /\ r \in Seq(C \ {Zero}) /\ Len(r) > 0 /\ r[1] = u[1] /\ NoDots(r)
      /\ Len(u) = 1 => Len(r) = 1
  BY <1>6, CleanText
<1>8. CleanUri(uri) = Over(decoded, r)
  BY DEF CleanUri, raw, w, decoded, u
<1> HIDE DEF r
<1> DEFINE path == Text(Over(decoded, r))
<1>9. r \in Seq(C) /\ Len(r) \in Nat /\ \A k \in 1 .. Len(r) : r[k] # Zero
  <2>1. \A k \in 1 .. Len(r) : r[k] \in C \ {Zero}
    BY <1>7
  <2>2. Len(r) \in Nat /\ r \in [1 .. Len(r) -> C]
    BY <1>7
  <2>3. r \in Seq(C)
    BY <2>2, SeqIs
  <2>4. QED
    BY <2>1, <2>2, <2>3
<1>10. UpToZero(C, r, path)
  <2>1. Zero \in C
    BY DEF C
  <2>2. QED
    BY <1>4, <1>9, <2>1, TextWritten
<1> HIDE DEF path
<1>11. path \in Seq(C \ {Zero}) /\ Len(path) = Len(r) /\ \A k \in 1 .. Len(r) : path[k] = r[k]
  BY <1>9, <1>10 DEF UpToZero
<1>12. path = r
  BY <1>7, <1>11
<1>13. r[1] = "/" \/ (r[1] = "*" /\ Len(r) = 1)
  BY <1>1, <1>6, <1>7
<1>14. InsidePath(r)
  BY <1>7, <1>9, <1>13, NoDotsInside
<1>15. QED
  BY <1>8, <1>12, <1>14 DEF path

\* The URI and its buffer belong together until begin_request.
MappedInv == phase = "mapped" => \E uri \in Uris : web = [uri |-> uri, clean |-> CleanUri(uri)]

\* Only handle_request writes the buffer of the URI.
LEMMA MappedKept == ASSUME MappedInv, [Next]_vars PROVE MappedInv'
<1>1. CASE Receive
  BY <1>1 DEF Receive, MappedInv
<1>2. CASE ~ Receive
  <2>1. phase' # "mapped" \/ (phase' = phase /\ web' = web)
    BY <1>2 DEF Next, vars, BeginRequest, ServeFile, Authenticate, TakeBody, Tokenize, RejectBody, Dispatch,
                LookUp, UseArguments, NextPeer, PeersDone, CreateChainId, NameChain, NextRequest, Finish
  <2>2. QED
    BY <2>1 DEF MappedInv
<1>3. QED
  BY <1>1, <1>2

\* The path of every request stays below the document root, whatever the URI and
\* whichever escapes it holds.
THEOREM PathsStayInside == Spec => []PathStaysInside
<1>1. Init => MappedInv
  BY DEF Init, MappedInv
<1>2. MappedInv /\ [Next]_vars => MappedInv'
  BY MappedKept
<1>3. MappedInv => PathStaysInside
  <2> SUFFICES ASSUME MappedInv, phase = "mapped" PROVE InsidePath(Text(web.clean))
    BY DEF PathStaysInside, InsidePath
  <2>1. PICK uri \in Uris : web = [uri |-> uri, clean |-> CleanUri(uri)]
    BY DEF MappedInv
  <2>2. web.clean = CleanUri(uri)
    BY <2>1
  <2>3. QED
    BY <2>2, CleanedInside
<1>4. QED
  BY <1>1, <1>2, <1>3, PTL DEF Spec

-------------------------------------------------------------------------------
(* Credentials *)

Six == 0 .. 63

DecodeStates == [step : {"a", "b", "c", "d"}, plain : Nat, out : Seq(Nat), touched : Nat]

\* Every character has a value or a negative number for one.
LEMMA ValueIs ==
  ASSUME NEW c \in Byte, NEW past \in -128 .. 127
  PROVE  DecodeValue(c, past) \in Int
BY DEF DecodeValue, Byte

\* Six bits of it are used.
LEMMA SixOf == ASSUME NEW c \in Int PROVE c % 64 \in Six
BY DEF Six

\* The sextets in which a byte lies.
LEMMA ByteLies ==
  ASSUME NEW m \in Nat, NEW j \in 1 .. (m * 6) \div 8
  PROVE  /\ ((8 * (j - 1)) \div 6) + 1 \in 1 .. m /\ ((8 * (j - 1)) \div 6) + 2 \in 1 .. m
         /\ (8 * (j - 1)) % 6 \in {0, 2, 4}
<1>1. 8 * j <= 6 * m /\ j \in Nat /\ j >= 1
  OBVIOUS
<1> DEFINE q == (8 * (j - 1)) \div 6
<1> DEFINE o == (8 * (j - 1)) % 6
<1>2. 8 * (j - 1) \in Nat /\ q \in Nat /\ o \in 0 .. 5 /\ 8 * (j - 1) = 6 * q + o
  BY <1>1
<1> HIDE DEF q, o
<1>3. o \in {0, 2, 4}
  BY <1>1, <1>2
<1>4. q + 2 <= m
  BY <1>1, <1>2, <1>3
<1>5. QED
  BY <1>2, <1>3, <1>4 DEF q, o

\* A further sextet completes a byte unless it is the first of four.
LEMMA BytesCounted ==
  ASSUME NEW m \in Nat
  PROVE  /\ m % 4 = 0 => ((m + 1) * 6) \div 8 = (m * 6) \div 8
         /\ m % 4 # 0 => ((m + 1) * 6) \div 8 = (m * 6) \div 8 + 1
         /\ m % 4 \in 0 .. 3 /\ (m * 6) \div 8 \in Nat
OBVIOUS

\* Where that byte begins.
LEMMA NewByteLies ==
  ASSUME NEW m \in Nat, NEW bit, bit = 8 * ((m * 6) \div 8), m % 4 # 0
  PROVE  /\ m >= 1
         /\ (bit \div 6) + 1 = m /\ (bit \div 6) + 2 = m + 1
         /\ m % 4 = 1 => bit % 6 = 0
         /\ m % 4 = 2 => bit % 6 = 2
         /\ m % 4 = 3 => bit % 6 = 4
<1> DEFINE q == m \div 4
<1>1. q \in Nat /\ m = 4 * q + (m % 4) /\ m % 4 \in 1 .. 3
  OBVIOUS
<1> HIDE DEF q
<1>2. CASE m % 4 = 1
  <2>1. m = 4 * q + 1
    BY <1>1, <1>2
  <2>2. (m * 6) \div 8 = 3 * q
    BY <1>1, <2>1
  <2>3. bit = 24 * q
    BY <1>1, <2>2
  <2>4. QED
    BY <1>1, <1>2, <2>1, <2>3
<1>3. CASE m % 4 = 2
  <2>1. m = 4 * q + 2
    BY <1>1, <1>3
  <2>2. (m * 6) \div 8 = 3 * q + 1
    BY <1>1, <2>1
  <2>3. bit = 24 * q + 8
    BY <1>1, <2>2
  <2>4. QED
    BY <1>1, <1>3, <2>1, <2>3
<1>4. CASE m % 4 = 3
  <2>1. m = 4 * q + 3
    BY <1>1, <1>4
  <2>2. (m * 6) \div 8 = 3 * q + 2
    BY <1>1, <2>1
  <2>3. bit = 24 * q + 16
    BY <1>1, <2>2
  <2>4. QED
    BY <1>1, <1>4, <2>1, <2>3
<1>5. QED
  BY <1>1, <1>2, <1>3, <1>4

\* The bits of two sextets that make a byte.
LEMMA TwelveBits ==
  ASSUME NEW u \in Six, NEW v \in Six
  PROVE  /\ ((64 * u + v) \div 16) % 256 = 4 * u + (v \div 16)
         /\ ((64 * u + v) \div 4) % 256 = 16 * (u % 16) + (v \div 4)
         /\ (64 * u + v) % 256 = 64 * (u % 4) + v
<1>1. u \in 0 .. 63 /\ v \in 0 .. 63
  BY DEF Six
<1>2. ((64 * u + v) \div 16) % 256 = 4 * u + (v \div 16)
  BY <1>1
<1>3. ((64 * u + v) \div 4) % 256 = 16 * (u % 16) + (v \div 4)
  BY <1>1
<1>4. (64 * u + v) % 256 = 64 * (u % 4) + v
  BY <1>1
<1>5. QED
  BY <1>2, <1>3, <1>4

\* A further sextet leaves the bytes before as they are.
LEMMA BytesKept ==
  ASSUME NEW s \in Seq(Six), NEW v \in Six, NEW j \in 1 .. (Len(s) * 6) \div 8
  PROVE  ByteAt(Append(s, v), j) = ByteAt(s, j)
<1> DEFINE t == Append(s, v)
<1> DEFINE bit == 8 * (j - 1)
<1> DEFINE k == (bit \div 6) + 1
<1> DEFINE l == (bit \div 6) + 2
<1>1. Len(s) \in Nat /\ \A i \in 1 .. Len(s) : t[i] = s[i]
  OBVIOUS
<1>2. k \in 1 .. Len(s) /\ l \in 1 .. Len(s)
  BY <1>1, ByteLies
<1> HIDE DEF t, bit, k, l
<1>3. t[k] = s[k] /\ t[l] = s[l]
  BY <1>1, <1>2
<1>4. QED
  BY <1>3 DEF ByteAt, t, bit, k, l

\* The byte that a further sextet completes.
LEMMA ByteCompleted ==
  ASSUME NEW s \in Seq(Six), NEW v \in Six, NEW m, m = Len(s), m % 4 # 0, NEW j, j = (m * 6) \div 8 + 1
  PROVE  /\ m \in Nat /\ m >= 1 /\ s[m] \in Six
         /\ m % 4 = 1 => ByteAt(Append(s, v), j) = 4 * s[m] + (v \div 16)
         /\ m % 4 = 2 => ByteAt(Append(s, v), j) = 16 * (s[m] % 16) + (v \div 4)
         /\ m % 4 = 3 => ByteAt(Append(s, v), j) = 64 * (s[m] % 4) + v
<1> DEFINE t == Append(s, v)
<1> DEFINE bit == 8 * ((m * 6) \div 8)
<1>1. m \in Nat /\ bit = 8 * (j - 1)
  OBVIOUS
<1>2. /\ m >= 1
      /\ (bit \div 6) + 1 = m /\ (bit \div 6) + 2 = m + 1
      /\ m % 4 = 1 => bit % 6 = 0
      /\ m % 4 = 2 => bit % 6 = 2
      /\ m % 4 = 3 => bit % 6 = 4
  BY <1>1, NewByteLies
<1>3. s[m] \in Six /\ t[m] = s[m] /\ t[m + 1] = v
  <2>1. m \in 1 .. Len(s)
    BY <1>1, <1>2
  <2>2. QED
    BY <2>1
<1> HIDE DEF t, bit
<1> DEFINE pair == 64 * s[m] + v
<1>4. pair = 64 * t[(bit \div 6) + 1] + t[(bit \div 6) + 2]
  BY <1>2, <1>3
<1>5. /\ bit % 6 = 0 => ByteAt(t, j) = (pair \div 16) % 256
      /\ bit % 6 = 2 => ByteAt(t, j) = (pair \div 4) % 256
      /\ bit % 6 = 4 => ByteAt(t, j) = pair % 256
  <2> HIDE DEF pair
  <2>1. 8 * (j - 1) = bit /\ 64 * t[((8 * (j - 1)) \div 6) + 1] + t[((8 * (j - 1)) \div 6) + 2] = pair
    BY <1>1, <1>4
  <2>2. QED
    BY <2>1 DEF ByteAt
<1>6. /\ (pair \div 16) % 256 = 4 * s[m] + (v \div 16)
      /\ (pair \div 4) % 256 = 16 * (s[m] % 16) + (v \div 4)
      /\ pair % 256 = 64 * (s[m] % 4) + v
  BY <1>3, TwelveBits
<1> HIDE DEF pair
<1>7. QED
  BY <1>1, <1>2, <1>3, <1>5, <1>6 DEF t

\* The state of the decoder after the sextets s: the complete bytes are written, the
\* bits left over are in plainchar, and at most one byte further has been touched.
DecodedSo(s, st) ==
  /\ st.out = BytesOf(s)
  /\ st.touched <= Len(st.out) + 1
  /\ Len(s) % 4 = 0 => st.step = "a"
  /\ Len(s) % 4 = 1 => st.step = "b" /\ st.plain = 4 * s[Len(s)]
  /\ Len(s) % 4 = 2 => st.step = "c" /\ st.plain = 16 * (s[Len(s)] % 16)
  /\ Len(s) % 4 = 3 => st.step = "d" /\ st.plain = 64 * (s[Len(s)] % 4)

\* The bytes after a further sextet, if it completes none.
LEMMA NoByteMore ==
  ASSUME NEW s \in Seq(Six), NEW v \in Six, Len(s) % 4 = 0
  PROVE  BytesOf(Append(s, v)) = BytesOf(s)
<1> DEFINE t == Append(s, v)
<1> DEFINE n == (Len(s) * 6) \div 8
<1>1. Len(s) \in Nat /\ Len(t) = Len(s) + 1
  OBVIOUS
<1>2. (Len(t) * 6) \div 8 = n
  BY <1>1, BytesCounted
<1>3. \A j \in 1 .. n : ByteAt(t, j) = ByteAt(s, j)
  BY BytesKept
<1> HIDE DEF t, n
<1>4. [j \in 1 .. (Len(t) * 6) \div 8 |-> ByteAt(t, j)] = [j \in 1 .. n |-> ByteAt(s, j)]
  BY <1>2, <1>3
<1>5. QED
  BY <1>4 DEF BytesOf, t, n

\* And if it completes one.
LEMMA OneByteMore ==
  ASSUME NEW s \in Seq(Six), NEW v \in Six, Len(s) % 4 # 0, BytesOf(s) \in Seq(Nat),
         NEW x \in Nat, NEW j, j = (Len(s) * 6) \div 8 + 1, x = ByteAt(Append(s, v), j)
  PROVE  BytesOf(Append(s, v)) = Append(BytesOf(s), x)
<1> DEFINE t == Append(s, v)
<1> DEFINE n == (Len(s) * 6) \div 8
<1> DEFINE o == BytesOf(s)
<1>1. Len(s) \in Nat /\ Len(t) = Len(s) + 1
  OBVIOUS
<1>2. n \in Nat /\ (Len(t) * 6) \div 8 = n + 1
  BY <1>1, BytesCounted
<1>3. \A k \in 1 .. n : ByteAt(t, k) = ByteAt(s, k)
  BY BytesKept
<1>4. x = ByteAt(t, n + 1)
  OBVIOUS
<1> HIDE DEF t, n
<1>5. o = [k \in 1 .. n |-> ByteAt(s, k)]
  BY DEF BytesOf, n
<1>6. DOMAIN o = 1 .. n /\ o \in Seq(Nat)
  BY <1>5
<1> HIDE DEF o
<1>7. Len(o) = n
  BY <1>2, <1>6
<1> DEFINE r == Append(o, x)
<1>8. r \in Seq(Nat) /\ Len(r) = n + 1 /\ r[n + 1] = x /\ \A k \in 1 .. n : r[k] = o[k]
  <2>1. /\ r \in Seq(Nat) /\ Len(r) = Len(o) + 1
        /\ \A k \in 1 .. Len(o) : r[k] = o[k]
        /\ r[Len(o) + 1] = x
    BY <1>6, AppendProperties
  <2>2. QED
    BY <1>7, <2>1
<1> DEFINE b == [k \in 1 .. n + 1 |-> ByteAt(t, k)]
<1>9. ASSUME NEW k \in 1 .. n + 1 PROVE b[k] = r[k]
  <2>1. CASE k = n + 1
    BY <1>4, <1>8, <2>1
  <2>2. CASE k # n + 1
    <3>1. k \in 1 .. n
      BY <1>2, <2>2
    <3>2. r[k] = ByteAt(s, k)
      BY <1>5, <1>8, <3>1
    <3>3. QED
      BY <1>3, <3>1, <3>2
  <2>3. QED
    BY <2>1, <2>2
<1>10. DOMAIN r = 1 .. n + 1
  BY <1>8
<1>11. r = b
  <2> HIDE DEF r
  <2> HIDE DEF b
  <2>3. r = [k \in 1 .. n + 1 |-> r[k]]
    BY <1>8, <1>10
  <2>4. b = [k \in 1 .. n + 1 |-> b[k]]
    BY DEF b
  <2>5. QED
    BY <1>9, <2>3, <2>4
<1>12. QED
  BY <1>2, <1>11 DEF BytesOf, t, o

\* Reading a sextet.
LEMMA SextetDecoded ==
  ASSUME NEW s \in Seq(Six), NEW v \in Six, NEW st \in DecodeStates, DecodedSo(s, st)
  PROVE  DecodeChar(st, v) \in DecodeStates /\ DecodedSo(Append(s, v), DecodeChar(st, v))
<1> DEFINE t == Append(s, v)
<1> DEFINE m == Len(s)
<1> DEFINE w == DecodeChar(st, v)
<1>1. /\ m \in Nat /\ t \in Seq(Six) /\ Len(t) = m + 1 /\ t[m + 1] = v /\ m % 4 \in 0 .. 3
      /\ v \in Nat /\ v <= 63
  BY DEF Six
<1>2. /\ st.out \in Seq(Nat) /\ Len(st.out) \in Nat /\ st.touched \in Nat /\ st.plain \in Nat
      /\ st.out = BytesOf(s) /\ st.touched <= Len(st.out) + 1
  BY DEF DecodeStates, DecodedSo
<1>3. CASE m % 4 = 0
  <2>1. st.step = "a"
    BY <1>3 DEF DecodedSo
  <2>2. w = [st EXCEPT !.step = "b", !.plain = 4 * v, !.touched = Len(st.out) + 1]
    BY <2>1 DEF DecodeChar
  <2>3. w \in DecodeStates /\ w.step = "b" /\ w.plain = 4 * v /\ w.touched = Len(st.out) + 1 /\ w.out = st.out
    <3> DEFINE x == 4 * v
    <3> DEFINE y == Len(st.out) + 1
    <3>1. x \in Nat /\ y \in Nat
      BY <1>1, <1>2
    <3> HIDE DEF w, x, y
    <3>2. w = [st EXCEPT !.step = "b", !.plain = x, !.touched = y]
      BY <2>2 DEF x, y
    <3>3. w \in DecodeStates /\ w.step = "b" /\ w.plain = x /\ w.touched = y /\ w.out = st.out
      BY <3>1, <3>2 DEF DecodeStates
    <3>4. QED
      BY <3>3 DEF x, y
  <2>4. w.out = BytesOf(t)
    BY <1>2, <1>3, <2>3, NoByteMore
  <2>5. Len(t) % 4 = 1
    BY <1>1, <1>3
  <2> HIDE DEF w, t
  <2>6. QED
    BY <1>1, <1>2, <2>3, <2>4, <2>5 DEF DecodedSo, w, t
<1>4. ASSUME m % 4 # 0,
             NEW x \in Nat, x = ByteAt(t, (m * 6) \div 8 + 1)
      PROVE  Append(st.out, x) = BytesOf(t) /\ Append(st.out, x) \in Seq(Nat) /\ Len(Append(st.out, x)) = Len(st.out) + 1
  <2>1. BytesOf(t) = Append(BytesOf(s), x)
    BY <1>2, <1>4, OneByteMore
  <2>2. QED
    BY <1>2, <2>1
<1> HIDE DEF w, t
<1>5. CASE m % 4 = 1
  <2> DEFINE x == st.plain + (v \div 16)
  <2>1. st.step = "b" /\ st.plain = 4 * s[m]
    BY <1>5 DEF DecodedSo
  <2>2. x = ByteAt(t, (m * 6) \div 8 + 1)
    <3>1. ASSUME NEW j, j = (m * 6) \div 8 + 1 PROVE ByteAt(t, j) = 4 * s[m] + (v \div 16)
      <4>1. ASSUME NEW k, k = Len(s), k % 4 = 1 PROVE ByteAt(Append(s, v), j) = 4 * s[k] + (v \div 16)
        <5>1. k % 4 # 0 /\ j = (k * 6) \div 8 + 1
          BY <3>1, <4>1
        <5>2. QED
          BY <4>1, <5>1, ByteCompleted
      <4>2. QED
        BY <1>5, <4>1 DEF t
    <3>2. QED
      BY <2>1, <3>1
  <2>3. x \in Nat /\ 16 * (v % 16) \in Nat
    BY <1>1, <1>2
  <2>4. w = [step |-> "c", plain |-> 16 * (v % 16), out |-> Append(st.out, x), touched |-> Len(st.out) + 2]
    BY <2>1 DEF DecodeChar, w
  <2> HIDE DEF x
  <2>5. Append(st.out, x) = BytesOf(t) /\ Append(st.out, x) \in Seq(Nat) /\ Len(Append(st.out, x)) = Len(st.out) + 1
    BY <1>4, <1>5, <2>2, <2>3
  <2>6. w \in DecodeStates
    BY <1>2, <2>3, <2>4, <2>5 DEF DecodeStates
  <2>7. Len(t) % 4 = 2
    BY <1>1, <1>5
  <2>8. DecodedSo(t, w)
    BY <1>1, <1>2, <2>4, <2>5, <2>7 DEF DecodedSo
  <2>9. QED
    BY <2>6, <2>8 DEF w, t
<1>6. CASE m % 4 = 2
  <2> DEFINE x == st.plain + (v \div 4)
  <2>1. st.step = "c" /\ st.plain = 16 * (s[m] % 16)
    BY <1>6 DEF DecodedSo
  <2>2. x = ByteAt(t, (m * 6) \div 8 + 1)
    <3>1. ASSUME NEW j, j = (m * 6) \div 8 + 1 PROVE ByteAt(t, j) = 16 * (s[m] % 16) + (v \div 4)
      <4>1. ASSUME NEW k, k = Len(s), k % 4 = 2 PROVE ByteAt(Append(s, v), j) = 16 * (s[k] % 16) + (v \div 4)
        <5>1. k % 4 # 0 /\ j = (k * 6) \div 8 + 1
          BY <3>1, <4>1
        <5>2. QED
          BY <4>1, <5>1, ByteCompleted
      <4>2. QED
        BY <1>6, <4>1 DEF t
    <3>2. QED
      BY <2>1, <3>1
  <2>3. x \in Nat /\ 64 * (v % 4) \in Nat
    BY <1>1, <1>2
  <2>4. w = [step |-> "d", plain |-> 64 * (v % 4), out |-> Append(st.out, x), touched |-> Len(st.out) + 2]
    BY <2>1 DEF DecodeChar, w
  <2> HIDE DEF x
  <2>5. Append(st.out, x) = BytesOf(t) /\ Append(st.out, x) \in Seq(Nat) /\ Len(Append(st.out, x)) = Len(st.out) + 1
    BY <1>4, <1>6, <2>2, <2>3
  <2>6. w \in DecodeStates
    BY <1>2, <2>3, <2>4, <2>5 DEF DecodeStates
  <2>7. Len(t) % 4 = 3
    BY <1>1, <1>6
  <2>8. DecodedSo(t, w)
    BY <1>1, <1>2, <2>4, <2>5, <2>7 DEF DecodedSo
  <2>9. QED
    BY <2>6, <2>8 DEF w, t
<1>7. CASE m % 4 = 3
  <2> DEFINE x == st.plain + v
  <2>1. st.step = "d" /\ st.plain = 64 * (s[m] % 4)
    BY <1>7 DEF DecodedSo
  <2>2. x = ByteAt(t, (m * 6) \div 8 + 1)
    <3>1. ASSUME NEW j, j = (m * 6) \div 8 + 1 PROVE ByteAt(t, j) = 64 * (s[m] % 4) + v
      <4>1. ASSUME NEW k, k = Len(s), k % 4 = 3 PROVE ByteAt(Append(s, v), j) = 64 * (s[k] % 4) + v
        <5>1. k % 4 # 0 /\ j = (k * 6) \div 8 + 1
          BY <3>1, <4>1
        <5>2. QED
          BY <4>1, <5>1, ByteCompleted
      <4>2. QED
        BY <1>7, <4>1 DEF t
    <3>2. QED
      BY <2>1, <3>1
  <2>3. x \in Nat
    BY <1>1, <1>2
  <2>4. w = [st EXCEPT !.step = "a", !.out = Append(st.out, x)]
    BY <2>1 DEF DecodeChar, w
  <2> HIDE DEF x
  <2>5. Append(st.out, x) = BytesOf(t) /\ Append(st.out, x) \in Seq(Nat) /\ Len(Append(st.out, x)) = Len(st.out) + 1
    BY <1>4, <1>7, <2>2, <2>3
  <2>6. w \in DecodeStates /\ w.step = "a" /\ w.out = Append(st.out, x) /\ w.touched = st.touched
    BY <2>4, <2>5 DEF DecodeStates
  <2>7. Len(t) % 4 = 0
    BY <1>1, <1>7
  <2>8. DecodedSo(t, w)
    BY <1>1, <1>2, <2>5, <2>6, <2>7 DEF DecodedSo
  <2>9. QED
    BY <2>6, <2>8 DEF w, t
<1>8. QED
  BY <1>1, <1>3, <1>5, <1>6, <1>7

\* The equations of the recursions in Sextets and DecodeBlock.
SextetsNext(code, past, u, i) ==
  IF DecodeValue(code[i], past) < 0 THEN u ELSE Append(u, DecodeValue(code[i], past) % 64)

SextetsEq(code, past, f) ==
  f = [i \in 0 .. Len(code) |-> IF i = 0 THEN <<>> ELSE SextetsNext(code, past, f[i - 1], i)]

BlockNext(code, past, u, i) ==
  IF DecodeValue(code[i], past) < 0 THEN u ELSE DecodeChar(u, DecodeValue(code[i], past) % 64)

BlockEq(code, past, f) ==
  f = [i \in 0 .. Len(code) |-> IF i = 0 THEN DecodeStart ELSE BlockNext(code, past, f[i - 1], i)]

\* The decoder keeps its type.
LEMMA CharTyped == ASSUME NEW st \in DecodeStates, NEW v \in Six PROVE DecodeChar(st, v) \in DecodeStates
<1> DEFINE w == DecodeChar(st, v)
<1>1. v \in Nat /\ v <= 63
  BY DEF Six
<1>2. st.out \in Seq(Nat) /\ Len(st.out) \in Nat /\ st.plain \in Nat /\ st.touched \in Nat
  BY DEF DecodeStates
<1>3. \A x \in Nat : Append(st.out, x) \in Seq(Nat)
  BY <1>2
<1>4. CASE st.step = "a"
  <2> DEFINE x == 4 * v
  <2> DEFINE y == Len(st.out) + 1
  <2>1. x \in Nat /\ y \in Nat
    BY <1>1, <1>2
  <2>2. w = [st EXCEPT !.step = "b", !.plain = x, !.touched = y]
    BY <1>4 DEF DecodeChar
  <2> HIDE DEF w, x, y
  <2>3. w \in DecodeStates
    BY <2>1, <2>2 DEF DecodeStates
  <2>4. QED
    BY <2>3 DEF w
<1>5. CASE st.step = "b"
  <2> DEFINE x == Append(st.out, st.plain + (v \div 16))
  <2>1. st.plain + (v \div 16) \in Nat /\ 16 * (v % 16) \in Nat /\ Len(st.out) + 2 \in Nat
    BY <1>1, <1>2
  <2>2. x \in Seq(Nat)
    BY <1>3, <2>1
  <2>3. w = [step |-> "c", plain |-> 16 * (v % 16), out |-> x, touched |-> Len(st.out) + 2]
    BY <1>5 DEF DecodeChar
  <2> HIDE DEF w, x
  <2>4. w \in DecodeStates
    BY <2>1, <2>2, <2>3 DEF DecodeStates
  <2>5. QED
    BY <2>4 DEF w
<1>6. CASE st.step = "c"
  <2> DEFINE x == Append(st.out, st.plain + (v \div 4))
  <2>1. st.plain + (v \div 4) \in Nat /\ 64 * (v % 4) \in Nat /\ Len(st.out) + 2 \in Nat
    BY <1>1, <1>2
  <2>2. x \in Seq(Nat)
    BY <1>3, <2>1
  <2>3. w = [step |-> "d", plain |-> 64 * (v % 4), out |-> x, touched |-> Len(st.out) + 2]
    BY <1>6 DEF DecodeChar
  <2> HIDE DEF w, x
  <2>4. w \in DecodeStates
    BY <2>1, <2>2, <2>3 DEF DecodeStates
  <2>5. QED
    BY <2>4 DEF w
<1>7. CASE st.step = "d"
  <2> DEFINE x == Append(st.out, st.plain + v)
  <2>1. st.plain + v \in Nat
    BY <1>1, <1>2
  <2>2. x \in Seq(Nat)
    BY <1>3, <2>1
  <2>3. w = [st EXCEPT !.step = "a", !.out = x]
    BY <1>7 DEF DecodeChar
  <2> HIDE DEF w, x
  <2>4. w \in DecodeStates
    BY <2>2, <2>3 DEF DecodeStates
  <2>5. QED
    BY <2>4 DEF w
<1>8. QED
  BY <1>4, <1>5, <1>6, <1>7 DEF DecodeStates

\* The recursion in Sextets is well defined.
LEMMA SextetsSolved ==
  ASSUME NEW code \in Seq(Byte), NEW past \in -128 .. 127
  PROVE  \E f : /\ f[0] = <<>>
                /\ \A i \in 1 .. Len(code) : f[i] = SextetsNext(code, past, f[i - 1], i)
                /\ Sextets(code, past) = f[Len(code)]
<1> DEFINE n == Len(code)
<1> DEFINE V == Seq(Six)
<1> DEFINE R == [p \in (1 .. n) \X V |-> SextetsNext(code, past, p[2], p[1])]
<1>1. n \in Nat
  OBVIOUS
<1>2. <<>> \in V
  BY DEF DecodeStates, DecodeStart
<1>3. ASSUME NEW i \in 1 .. n, NEW u \in V
      PROVE  R[<<i, u>>] = SextetsNext(code, past, u, i) /\ SextetsNext(code, past, u, i) \in V
  <2>1. code[i] \in Byte
    OBVIOUS
  <2>2. DecodeValue(code[i], past) \in Int
    BY <2>1, ValueIs
  <2> DEFINE v == DecodeValue(code[i], past) % 64
  <2>3. v \in Six
    BY <2>2, SixOf
  <2> HIDE DEF v
  <2>4. Append(u, v) \in V
    BY <2>3
  <2>5. SextetsNext(code, past, u, i) \in V
    BY <2>4 DEF SextetsNext, v
  <2>6. <<i, u>> \in (1 .. n) \X V /\ <<i, u>>[1] = i /\ <<i, u>>[2] = u
    OBVIOUS
  <2>7. R[<<i, u>>] = SextetsNext(code, past, u, i)
    BY <2>6
  <2>8. QED
    BY <2>5, <2>7
<1>4. R \in [(1 .. n) \X V -> V]
  BY <1>3
<1> HIDE DEF R
<1>5. PICK f \in [0 .. n -> V] : f[0] = <<>> /\ \A i \in 1 .. n : f[i] = R[<<i, f[i - 1]>>]
  <2> HIDE DEF n, V
  <2> DEFINE b == <<>>
  <2>1. b \in V
    BY <1>2
  <2> HIDE DEF b
  <2>2. \E f \in [0 .. n -> V] : BuiltUp(f, n, b, R)
    BY <1>1, <1>4, <2>1, RecursionUp
  <2>3. QED
    BY <2>2 DEF BuiltUp, b
<1>6. \A i \in 1 .. n : f[i] = SextetsNext(code, past, f[i - 1], i)
  <2> SUFFICES ASSUME NEW i \in 1 .. n PROVE f[i] = SextetsNext(code, past, f[i - 1], i)
    OBVIOUS
  <2>1. i - 1 \in 0 .. n
    BY <1>1
  <2>2. f[i - 1] \in V
    BY <2>1
  <2> HIDE DEF V
  <2>3. QED
    BY <1>3, <1>5, <2>2
<1>7. SextetsEq(code, past, f)
  <2>1. \A i \in 0 .. n : f[i] = IF i = 0 THEN <<>> ELSE SextetsNext(code, past, f[i - 1], i)
    BY <1>5, <1>6
  <2>2. f = [i \in 0 .. n |-> IF i = 0 THEN <<>> ELSE SextetsNext(code, past, f[i - 1], i)]
    BY <2>1
  <2>3. QED
    BY <2>2 DEF SextetsEq
<1> DEFINE F == CHOOSE g : SextetsEq(code, past, g)
<1>8. SextetsEq(code, past, F)
  BY <1>7
<1>9. Sextets(code, past) = F[n]
  BY DEF Sextets, SextetsEq, SextetsNext
<1> HIDE DEF F
<1>10. F[0] = <<>> /\ \A i \in 1 .. n : F[i] = SextetsNext(code, past, F[i - 1], i)
  <2>1. \A i \in 0 .. n : F[i] = IF i = 0 THEN <<>> ELSE SextetsNext(code, past, F[i - 1], i)
    BY <1>8 DEF SextetsEq
  <2>2. QED
    BY <1>1, <2>1
<1>11. QED
  BY <1>9, <1>10

\* The recursion in DecodeBlock is well defined.
LEMMA BlockSolved ==
  ASSUME NEW code \in Seq(Byte), NEW past \in -128 .. 127
  PROVE  \E f : /\ f[0] = DecodeStart
                /\ \A i \in 1 .. Len(code) : f[i] = BlockNext(code, past, f[i - 1], i)
                /\ DecodeBlock(code, past) = f[Len(code)]
<1> DEFINE n == Len(code)
<1> DEFINE V == DecodeStates
<1> DEFINE R == [p \in (1 .. n) \X V |-> BlockNext(code, past, p[2], p[1])]
<1>1. n \in Nat
  OBVIOUS
<1>2. DecodeStart \in V
  BY DEF DecodeStates, DecodeStart
<1>3. ASSUME NEW i \in 1 .. n, NEW u \in V
      PROVE  R[<<i, u>>] = BlockNext(code, past, u, i) /\ BlockNext(code, past, u, i) \in V
  <2>1. code[i] \in Byte
    OBVIOUS
  <2>2. DecodeValue(code[i], past) \in Int
    BY <2>1, ValueIs
  <2> DEFINE v == DecodeValue(code[i], past) % 64
  <2>3. v \in Six
    BY <2>2, SixOf
  <2> HIDE DEF v
  <2>4. DecodeChar(u, v) \in V
    BY <2>3, CharTyped
  <2>5. BlockNext(code, past, u, i) \in V
    BY <2>4 DEF BlockNext, v
  <2>6. <<i, u>> \in (1 .. n) \X V /\ <<i, u>>[1] = i /\ <<i, u>>[2] = u
    OBVIOUS
  <2>7. R[<<i, u>>] = BlockNext(code, past, u, i)
    BY <2>6
  <2>8. QED
    BY <2>5, <2>7
<1>4. R \in [(1 .. n) \X V -> V]
  BY <1>3
<1> HIDE DEF R
<1>5. PICK f \in [0 .. n -> V] : f[0] = DecodeStart /\ \A i \in 1 .. n : f[i] = R[<<i, f[i - 1]>>]
  <2> HIDE DEF n, V
  <2> DEFINE b == DecodeStart
  <2>1. b \in V
    BY <1>2
  <2> HIDE DEF b
  <2>2. \E f \in [0 .. n -> V] : BuiltUp(f, n, b, R)
    BY <1>1, <1>4, <2>1, RecursionUp
  <2>3. QED
    BY <2>2 DEF BuiltUp, b
<1>6. \A i \in 1 .. n : f[i] = BlockNext(code, past, f[i - 1], i)
  <2> SUFFICES ASSUME NEW i \in 1 .. n PROVE f[i] = BlockNext(code, past, f[i - 1], i)
    OBVIOUS
  <2>1. i - 1 \in 0 .. n
    BY <1>1
  <2>2. f[i - 1] \in V
    BY <2>1
  <2> HIDE DEF V
  <2>3. QED
    BY <1>3, <1>5, <2>2
<1>7. BlockEq(code, past, f)
  <2>1. \A i \in 0 .. n : f[i] = IF i = 0 THEN DecodeStart ELSE BlockNext(code, past, f[i - 1], i)
    BY <1>5, <1>6
  <2>2. f = [i \in 0 .. n |-> IF i = 0 THEN DecodeStart ELSE BlockNext(code, past, f[i - 1], i)]
    BY <2>1
  <2>3. QED
    BY <2>2 DEF BlockEq
<1> DEFINE F == CHOOSE g : BlockEq(code, past, g)
<1>8. BlockEq(code, past, F)
  BY <1>7
<1>9. DecodeBlock(code, past) = F[n]
  BY DEF DecodeBlock, BlockEq, BlockNext
<1> HIDE DEF F
<1>10. F[0] = DecodeStart /\ \A i \in 1 .. n : F[i] = BlockNext(code, past, F[i - 1], i)
  <2>1. \A i \in 0 .. n : F[i] = IF i = 0 THEN DecodeStart ELSE BlockNext(code, past, F[i - 1], i)
    BY <1>8 DEF BlockEq
  <2>2. QED
    BY <1>1, <2>1
<1>11. QED
  BY <1>9, <1>10

\* base64_decode_block computes the bytes of the code and stays in its buffer.
LEMMA BlockDecoded ==
  ASSUME NEW code \in Seq(Byte), NEW past \in -128 .. 127
  PROVE  /\ DecodeBlock(code, past).out = BytesOf(Sextets(code, past))
         /\ DecodeBlock(code, past).out \in Seq(Nat)
         /\ DecodeBlock(code, past).touched <= DecodeCapacity(code)
<1> DEFINE n == Len(code)
<1>1. n \in Nat
  OBVIOUS
<1>2. PICK f : /\ f[0] = <<>>
               /\ \A i \in 1 .. n : f[i] = SextetsNext(code, past, f[i - 1], i)
               /\ Sextets(code, past) = f[n]
  BY SextetsSolved
<1>3. PICK g : /\ g[0] = DecodeStart
               /\ \A i \in 1 .. n : g[i] = BlockNext(code, past, g[i - 1], i)
               /\ DecodeBlock(code, past) = g[n]
  BY BlockSolved
<1> DEFINE Good(i) == f[i] \in Seq(Six) /\ Len(f[i]) <= i /\ g[i] \in DecodeStates /\ DecodedSo(f[i], g[i])
<1> DEFINE S == {i \in 0 .. n : Good(i)}
<1>4. 0 \in S
  <2>1. DecodeStart \in DecodeStates
    BY DEF DecodeStart, DecodeStates
  <2>2. <<>> \in Seq(Six) /\ Len(<<>>) = 0
    OBVIOUS
  <2>3. ASSUME NEW e, e = <<>> PROVE DecodedSo(e, DecodeStart)
    <3>1. Len(e) = 0 /\ (Len(e) * 6) \div 8 = 0
      BY <2>3
    <3>2. BytesOf(e) = <<>>
      BY <3>1 DEF BytesOf
    <3>3. DecodeStart.out = <<>> /\ Len(DecodeStart.out) = 0 /\ DecodeStart.touched = 1 /\ DecodeStart.step = "a"
      BY DEF DecodeStart
    <3>4. QED
      BY <3>1, <3>2, <3>3 DEF DecodedSo
  <2>4. f[0] \in Seq(Six) /\ Len(f[0]) <= 0 /\ g[0] \in DecodeStates
    BY <1>2, <1>3, <2>1, <2>2
  <2>5. DecodedSo(f[0], g[0])
    BY <1>2, <1>3, <2>3
  <2>6. QED
    BY <1>1, <2>4, <2>5
<1>5. ASSUME NEW i \in 1 .. n, i - 1 \in S PROVE i \in S
  <2> DEFINE c == DecodeValue(code[i], past)
  <2>1. c \in Int
    <3>1. code[i] \in Byte
      OBVIOUS
    <3>2. QED
      BY <3>1, ValueIs
  <2>2. Good(i - 1)
    BY <1>5
  <2>3. CASE c < 0
    <3>1. f[i] = f[i - 1] /\ g[i] = g[i - 1]
      BY <1>2, <1>3, <2>3 DEF SextetsNext, BlockNext
    <3>2. Len(f[i - 1]) \in Nat
      BY <2>2
    <3>3. QED
      BY <2>2, <3>1, <3>2
  <2>4. CASE ~ (c < 0)
    <3> DEFINE v == c % 64
    <3>1. v \in Six
      BY <2>1, SixOf
    <3>2. f[i] = Append(f[i - 1], v) /\ g[i] = DecodeChar(g[i - 1], v)
      BY <1>2, <1>3, <2>4 DEF SextetsNext, BlockNext
    <3> HIDE DEF c, v
    <3>3. Append(f[i - 1], v) \in Seq(Six) /\ Len(Append(f[i - 1], v)) <= i
      BY <2>2, <3>1
    <3>4. DecodeChar(g[i - 1], v) \in DecodeStates /\ DecodedSo(Append(f[i - 1], v), DecodeChar(g[i - 1], v))
      BY <2>2, <3>1, SextetDecoded
    <3>5. Good(i)
      BY <3>2, <3>3, <3>4
    <3> HIDE DEF Good
    <3>6. QED
      BY <3>5
  <2>5. QED
    BY <2>3, <2>4
<1>6. n \in S
  <2> HIDE DEF S
  <2>1. \A i \in 0 .. n : i \in S
    BY <1>1, <1>4, <1>5, Upwards
  <2>2. QED
    BY <1>1, <2>1
<1>7. Good(n)
  BY <1>6
<1>8. g[n].out = BytesOf(f[n]) /\ g[n].out \in Seq(Nat) /\ g[n].touched <= Len(g[n].out) + 1 /\ g[n].touched \in Nat
  BY <1>7 DEF DecodedSo, DecodeStates
<1>9. Len(g[n].out) = (Len(f[n]) * 6) \div 8
  <2> DEFINE k == (Len(f[n]) * 6) \div 8
  <2>1. k \in Nat
    <3>1. Len(f[n]) \in Nat
      BY <1>7
    <3>2. QED
      BY <3>1, BytesCounted
  <2>2. DOMAIN g[n].out = 1 .. k
    BY <1>8 DEF BytesOf
  <2> HIDE DEF k
  <2>3. Len(g[n].out) = k
    BY <1>8, <2>1, <2>2
  <2>4. QED
    BY <2>3 DEF k
<1>10. g[n].touched <= (n * 6) \div 8 + 1
  <2>1. ASSUME NEW a \in Nat, a <= n PROVE (a * 6) \div 8 <= (n * 6) \div 8
    BY <1>1, <2>1
  <2>2. Len(f[n]) \in Nat /\ Len(f[n]) <= n
    BY <1>7
  <2>3. (Len(f[n]) * 6) \div 8 <= (n * 6) \div 8
    BY <2>1, <2>2
  <2> DEFINE x == (n * 6) \div 8
  <2> DEFINE y == Len(g[n].out)
  <2>4. y <= x /\ x \in Nat /\ y \in Nat /\ g[n].touched <= y + 1 /\ g[n].touched \in Nat
    <3>1. x \in Nat
      BY <1>1, BytesCounted
    <3>2. y \in Nat
      BY <1>8
    <3>3. y <= x
      BY <1>9, <2>3
    <3>4. QED
      BY <1>8, <3>1, <3>2, <3>3
  <2> HIDE DEF x, y
  <2>5. g[n].touched <= x + 1
    BY <2>4
  <2>6. QED
    BY <2>5 DEF x
<1>11. QED
  BY <1>2, <1>3, <1>8, <1>10 DEF DecodeCapacity

\* What parse_http_auth is given and what it makes of it.
CredInv ==
  cred # Nothing =>
    \E file \in UserFiles, header \in Headers, past \in PastBytes :
      cred = [file |-> file, header |-> header, past |-> past,
              outcome |-> ParseHttpAuth(AccountsAtStart(file), header, past)]

\* Only Authenticate fills in the credentials.
LEMMA CredKept == ASSUME CredInv, [Next]_vars PROVE CredInv'
<1>1. CASE Authenticate
  BY <1>1 DEF Authenticate, CredInv
<1>2. CASE ~ Authenticate
  <2>1. cred' = Nothing \/ cred' = cred
    BY <1>2 DEF Next, vars, Receive, BeginRequest, ServeFile, TakeBody, Tokenize, RejectBody, Dispatch,
                LookUp, UseArguments, NextPeer, PeersDone, CreateChainId, NameChain, NextRequest, Finish
  <2>2. QED
    BY <2>1 DEF CredInv
<1>3. QED
  BY <1>1, <1>2

\* Base64 is decoded correctly and inside its buffer, for codes of any length over any
\* characters and whatever byte follows the decoding table.
THEOREM CodesDecoded == Spec => []CredentialsDecoded
<1>1. Init => CredInv
  BY DEF Init, CredInv
<1>2. CredInv /\ [Next]_vars => CredInv'
  BY CredKept
<1>3. CredInv => CredentialsDecoded
  <2> SUFFICES ASSUME CredInv, cred # Nothing
               PROVE  /\ DecodeBlock(cred.header.code, cred.past).out = BytesOf(Sextets(cred.header.code, cred.past))
                      /\ DecodeBlock(cred.header.code, cred.past).touched <= DecodeCapacity(cred.header.code)
    BY DEF CredentialsDecoded
  <2>1. cred.header \in Headers /\ cred.past \in PastBytes
    BY DEF CredInv
  <2>2. cred.header.code \in Seq(Byte) /\ cred.past \in -128 .. 127
    BY <2>1, RequestAssumption
  <2>3. QED
    BY <2>2, BlockDecoded
<1>4. QED
  BY <1>1, <1>2, <1>3, PTL DEF Spec

-------------------------------------------------------------------------------
(* Accounts *)

RecordAccount(file, k) ==
  Account(FieldOf(file, k, 2).value, FieldOf(file, k, 3).value, FieldOf(file, k, 4).value)

Complete(file, k) == FieldOf(file, k, 4).kind = "number"

Skipped(file, k) ==
  FieldOf(file, k, 2).kind # "hash" \/ FieldOf(file, k, 3).kind # "salt" \/ FieldOf(file, k, 4).value < 0

\* The equation of the recursion in LoadAccounts.
LoadNext(file, l, k) ==
  IF l.stopped \/ ~ Complete(file, k) THEN [l EXCEPT !.stopped = TRUE]
  ELSE IF Skipped(file, k) THEN l
  ELSE [l EXCEPT !.accounts = Store(l.accounts, FieldOf(file, k, 1).value, RecordAccount(file, k))]

NoAccounts == [stopped |-> FALSE, accounts |-> <<>>]

LoadEq(file, f) ==
  f = [k \in 0 .. Len(file) \div 4 |-> IF k = 0 THEN NoAccounts ELSE LoadNext(file, f[k - 1], k)]

Loads(N, A) == [stopped : BOOLEAN, accounts : UNION {[D -> A] : D \in SUBSET N}]

\* One record more, for any sets of names and accounts the file may hold.
LEMMA LoadTyped ==
  ASSUME NEW N, NEW A, NEW l \in Loads(N, A), NEW file, NEW k,
         FieldOf(file, k, 1).value \in N, RecordAccount(file, k) \in A
  PROVE  LoadNext(file, l, k) \in Loads(N, A)
<1> DEFINE name == FieldOf(file, k, 1).value
<1> DEFINE x == RecordAccount(file, k)
<1> DEFINE s == Store(l.accounts, name, x)
<1>1. l.stopped \in BOOLEAN /\ l.accounts \in UNION {[D -> A] : D \in SUBSET N}
  BY DEF Loads
<1>2. PICK D \in SUBSET N : l.accounts \in [D -> A]
  BY <1>1
<1> HIDE DEF name, x
<1>3. D \cup {name} \in SUBSET N /\ x \in A
  BY DEF name, x
<1>4. s \in [D \cup {name} -> A]
  <2>1. s = [user \in D \cup {name} |-> IF user = name THEN x ELSE l.accounts[user]]
    BY <1>2 DEF Store
  <2> HIDE DEF s
  <2>2. QED
    BY <1>2, <1>3, <2>1
<1> HIDE DEF s
<1>5. s \in UNION {[E -> A] : E \in SUBSET N}
  BY <1>3, <1>4
<1>6. [l EXCEPT !.stopped = TRUE] \in Loads(N, A)
  BY DEF Loads
<1>7. [l EXCEPT !.accounts = s] \in Loads(N, A)
  BY <1>5 DEF Loads
<1>8. LoadNext(file, l, k) \in {[l EXCEPT !.stopped = TRUE], l, [l EXCEPT !.accounts = s]}
  BY DEF LoadNext, s, x, name
<1>9. QED
  BY <1>6, <1>7, <1>8

\* The recursion in LoadAccounts is well defined.
LEMMA LoadSolved ==
  ASSUME NEW file, Len(file) \in Nat
  PROVE  \E f : /\ f[0] = NoAccounts
                /\ \A k \in 1 .. Len(file) \div 4 : f[k] = LoadNext(file, f[k - 1], k)
                /\ LoadAccounts(file) = f[Len(file) \div 4].accounts
<1> DEFINE n == Len(file) \div 4
<1> DEFINE N == {FieldOf(file, k, 1).value : k \in 1 .. n}
<1> DEFINE A == {RecordAccount(file, k) : k \in 1 .. n}
<1> DEFINE V == Loads(N, A)
<1> DEFINE R == [p \in (1 .. n) \X V |-> LoadNext(file, p[2], p[1])]
<1>1. n \in Nat
  OBVIOUS
<1>2. NoAccounts \in V
  <2>1. <<>> \in [{} -> A]
    OBVIOUS
  <2>2. <<>> \in UNION {[D -> A] : D \in SUBSET N}
    BY <2>1
  <2>3. QED
    BY <2>2 DEF NoAccounts, Loads
<1>3. ASSUME NEW k \in 1 .. n, NEW u \in V
      PROVE  R[<<k, u>>] = LoadNext(file, u, k) /\ LoadNext(file, u, k) \in V
  <2>1. FieldOf(file, k, 1).value \in N /\ RecordAccount(file, k) \in A
    OBVIOUS
  <2>2. LoadNext(file, u, k) \in V
    <3> HIDE DEF N, A
    <3>1. QED
      BY <2>1, LoadTyped
  <2>3. <<k, u>> \in (1 .. n) \X V /\ <<k, u>>[1] = k /\ <<k, u>>[2] = u
    OBVIOUS
  <2> HIDE DEF V, n
  <2>4. R[<<k, u>>] = LoadNext(file, u, k)
    BY <2>3
  <2>5. QED
    BY <2>2, <2>4
<1> HIDE DEF V, n
<1>4. R \in [(1 .. n) \X V -> V]
  BY <1>3
<1> HIDE DEF R
<1>5. PICK f \in [0 .. n -> V] : f[0] = NoAccounts /\ \A k \in 1 .. n : f[k] = R[<<k, f[k - 1]>>]
  <2>1. \E f \in [0 .. n -> V] : BuiltUp(f, n, NoAccounts, R)
    BY <1>1, <1>2, <1>4, RecursionUp
  <2>2. QED
    BY <2>1 DEF BuiltUp
<1>6. ASSUME NEW k \in 1 .. n PROVE f[k] = LoadNext(file, f[k - 1], k)
  <2>1. k - 1 \in 0 .. n
    BY <1>1
  <2>2. f[k - 1] \in V
    BY <2>1
  <2>3. QED
    BY <1>3, <1>5, <2>2
<1>7. LoadEq(file, f)
  <2>1. \A k \in 0 .. n : f[k] = IF k = 0 THEN NoAccounts ELSE LoadNext(file, f[k - 1], k)
    BY <1>5, <1>6
  <2>2. f = [k \in 0 .. n |-> IF k = 0 THEN NoAccounts ELSE LoadNext(file, f[k - 1], k)]
    BY <2>1
  <2>3. QED
    BY <2>2 DEF LoadEq, n
<1> DEFINE F == CHOOSE g : LoadEq(file, g)
<1>8. LoadEq(file, F)
  BY <1>7
<1>9. LoadAccounts(file) = F[n].accounts
  BY DEF LoadAccounts, LoadEq, LoadNext, NoAccounts, RecordAccount, FieldOf, Complete, Skipped, n
<1> HIDE DEF F
<1>10. F[0] = NoAccounts /\ \A k \in 1 .. n : F[k] = LoadNext(file, F[k - 1], k)
  <2>1. \A k \in 0 .. n : F[k] = IF k = 0 THEN NoAccounts ELSE LoadNext(file, F[k - 1], k)
    BY <1>8 DEF LoadEq, n
  <2>2. QED
    BY <1>1, <2>1
<1>11. QED
  BY <1>9, <1>10 DEF n

\* The records that count for a user among the first k.
RecordsTo(file, user, k) == {j \in RecordsOf(file, user) : j <= k}

\* The accounts hold the last record of every user among the first k.
HoldsTo(file, a, k) ==
  \A user :
    /\ user \in DOMAIN a <=> RecordsTo(file, user, k) # {}
    /\ \A j \in RecordsTo(file, user, k) :
         (\A i \in RecordsTo(file, user, k) : i <= j) => a[user] = RecordAccount(file, j)

\* The state of the loading after k records.
LoadedTo(file, l, k) ==
  /\ l = [stopped |-> l.stopped, accounts |-> l.accounts]
  /\ l.stopped <=> \E j \in 1 .. k : ~ Complete(file, j)
  /\ HoldsTo(file, l.accounts, k)

\* A record that does not count changes nothing.
LEMMA NotCounted ==
  ASSUME NEW file, NEW k \in Nat, NEW user, k + 1 \notin RecordsOf(file, user)
  PROVE  RecordsTo(file, user, k + 1) = RecordsTo(file, user, k)
<1>1. \A j \in RecordsOf(file, user) : j \in Nat
  BY DEF RecordsOf
<1>2. \A j \in RecordsOf(file, user) : j <= k + 1 <=> j <= k
  BY <1>1
<1>3. QED
  BY <1>2 DEF RecordsTo

\* One that counts is the last one.
LEMMA CountedLast ==
  ASSUME NEW file, NEW k \in Nat, NEW user, k + 1 \in RecordsOf(file, user)
  PROVE  /\ k + 1 \in RecordsTo(file, user, k + 1)
         /\ \A j \in RecordsTo(file, user, k + 1) : (\A i \in RecordsTo(file, user, k + 1) : i <= j) => j = k + 1
<1>1. k + 1 \in RecordsTo(file, user, k + 1)
  BY DEF RecordsTo
<1>2. \A j \in RecordsTo(file, user, k + 1) : j \in Nat /\ j <= k + 1
  BY DEF RecordsTo, RecordsOf
<1>3. QED
  BY <1>1, <1>2

\* Which record counts.
LEMMA CountedIs ==
  ASSUME NEW file, Len(file) \in Nat, NEW k \in 1 .. Len(file) \div 4, NEW user,
         Complete(file, k) => FieldOf(file, k, 4).value \in Int
  PROVE  k \in RecordsOf(file, user) <=>
           /\ \A j \in 1 .. k : Complete(file, j)
           /\ ~ Skipped(file, k)
           /\ FieldOf(file, k, 1).value = user
<1>1. k \in 1 .. k
  OBVIOUS
<1>2. CASE ~ \A j \in 1 .. k : Complete(file, j)
  BY <1>2 DEF RecordsOf, Complete
<1>3. CASE \A j \in 1 .. k : Complete(file, j)
  <2>1. FieldOf(file, k, 4).value \in Int
    BY <1>1, <1>3
  <2>2. FieldOf(file, k, 4).value >= 0 <=> ~ (FieldOf(file, k, 4).value < 0)
    BY <2>1
  <2>3. QED
    BY <1>3, <2>2 DEF RecordsOf, Complete, Skipped
<1>4. QED
  BY <1>2, <1>3

\* The accounts when the next record counts for nobody.
LEMMA HoldsOn ==
  ASSUME NEW file, NEW a, NEW k \in Nat, HoldsTo(file, a, k),
         \A user : k + 1 \notin RecordsOf(file, user)
  PROVE  HoldsTo(file, a, k + 1)
<1>1. \A user : RecordsTo(file, user, k + 1) = RecordsTo(file, user, k)
  BY NotCounted
<1>2. QED
  BY <1>1 DEF HoldsTo

\* The accounts when the next record counts for its user.
LEMMA HoldsMore ==
  ASSUME NEW file, NEW a, NEW k \in Nat, HoldsTo(file, a, k), NEW name,
         \A user : k + 1 \in RecordsOf(file, user) <=> user = name
  PROVE  HoldsTo(file, Store(a, name, RecordAccount(file, k + 1)), k + 1)
<1> DEFINE x == RecordAccount(file, k + 1)
<1> DEFINE b == Store(a, name, x)
<1> HIDE DEF x
<1>1. DOMAIN b = DOMAIN a \cup {name} /\ b[name] = x /\ \A user \in DOMAIN a : user # name => b[user] = a[user]
  BY DEF Store
<1> HIDE DEF b
<1>2. ASSUME NEW user
      PROVE  /\ user \in DOMAIN b <=> RecordsTo(file, user, k + 1) # {}
             /\ \A j \in RecordsTo(file, user, k + 1) :
                  (\A i \in RecordsTo(file, user, k + 1) : i <= j) => b[user] = RecordAccount(file, j)
  <2>1. CASE user = name
    <3>1. k + 1 \in RecordsOf(file, user)
      BY <2>1
    <3>2. /\ k + 1 \in RecordsTo(file, user, k + 1)
          /\ \A j \in RecordsTo(file, user, k + 1) : (\A i \in RecordsTo(file, user, k + 1) : i <= j) => j = k + 1
      BY <3>1, CountedLast
    <3>3. QED
      BY <1>1, <2>1, <3>2 DEF x
  <2>2. CASE user # name
    <3>1. k + 1 \notin RecordsOf(file, user)
      BY <2>2
    <3>2. RecordsTo(file, user, k + 1) = RecordsTo(file, user, k)
      BY <3>1, NotCounted
    <3>3. /\ user \in DOMAIN a <=> RecordsTo(file, user, k) # {}
          /\ \A j \in RecordsTo(file, user, k) :
               (\A i \in RecordsTo(file, user, k) : i <= j) => a[user] = RecordAccount(file, j)
      BY DEF HoldsTo
    <3>4. user \in DOMAIN b <=> user \in DOMAIN a
      BY <1>1, <2>2
    <3>5. ASSUME NEW j \in RecordsTo(file, user, k), \A i \in RecordsTo(file, user, k) : i <= j
          PROVE  b[user] = RecordAccount(file, j)
      <4>1. user \in DOMAIN a /\ a[user] = RecordAccount(file, j)
        BY <3>3, <3>5
      <4>2. QED
        BY <1>1, <2>2, <4>1
    <3>6. QED
      BY <3>2, <3>3, <3>4, <3>5
  <2>3. QED
    BY <2>1, <2>2
<1>3. QED
  BY <1>2 DEF HoldsTo, b, x

\* Reading a record.
LEMMA RecordLoaded ==
  ASSUME NEW file, Len(file) \in Nat, NEW k \in Nat, k + 1 \in 1 .. Len(file) \div 4,
         NEW l, LoadedTo(file, l, k), Complete(file, k + 1) => FieldOf(file, k + 1, 4).value \in Int
  PROVE  LoadedTo(file, LoadNext(file, l, k + 1), k + 1)
<1> DEFINE w == LoadNext(file, l, k + 1)
<1> DEFINE bad(n) == \E j \in 1 .. n : ~ Complete(file, j)
<1>1. /\ l = [stopped |-> l.stopped, accounts |-> l.accounts]
      /\ l.stopped <=> bad(k)
      /\ HoldsTo(file, l.accounts, k)
  BY DEF LoadedTo
<1>2. bad(k + 1) <=> bad(k) \/ ~ Complete(file, k + 1)
  <2>1. \A j : j \in 1 .. k + 1 <=> j \in 1 .. k \/ j = k + 1
    OBVIOUS
  <2>2. QED
    BY <2>1
<1>3. \A user : k + 1 \in RecordsOf(file, user) <=>
         ~ bad(k + 1) /\ ~ Skipped(file, k + 1) /\ FieldOf(file, k + 1, 1).value = user
  BY CountedIs
<1>4. CASE bad(k + 1)
  <2>1. w = [l EXCEPT !.stopped = TRUE]
    BY <1>1, <1>2, <1>4 DEF LoadNext
  <2> HIDE DEF bad
  <2>2. w = [stopped |-> TRUE, accounts |-> l.accounts]
    BY <1>1, <2>1
  <2>3. HoldsTo(file, l.accounts, k + 1)
    BY <1>1, <1>3, <1>4, HoldsOn
  <2> HIDE DEF w
  <2>4. w.stopped = TRUE /\ w.accounts = l.accounts /\ w = [stopped |-> w.stopped, accounts |-> w.accounts]
    BY <2>2
  <2>5. QED
    BY <1>4, <2>3, <2>4 DEF LoadedTo, bad, w
<1>5. CASE ~ bad(k + 1) /\ Skipped(file, k + 1)
  <2>1. ~ l.stopped /\ Complete(file, k + 1)
    BY <1>1, <1>2, <1>5
  <2>2. w = l
    BY <1>5, <2>1 DEF LoadNext
  <2> HIDE DEF bad
  <2>3. HoldsTo(file, l.accounts, k + 1)
    BY <1>1, <1>3, <1>5, HoldsOn
  <2> HIDE DEF w
  <2>4. QED
    BY <1>1, <1>5, <2>1, <2>2, <2>3 DEF LoadedTo, bad, w
<1>6. CASE ~ bad(k + 1) /\ ~ Skipped(file, k + 1)
  <2> DEFINE name == FieldOf(file, k + 1, 1).value
  <2> DEFINE a == Store(l.accounts, name, RecordAccount(file, k + 1))
  <2>1. ~ l.stopped /\ Complete(file, k + 1)
    BY <1>1, <1>2, <1>6
  <2>2. w = [l EXCEPT !.accounts = a]
    BY <1>6, <2>1 DEF LoadNext
  <2> HIDE DEF bad
  <2>3. \A user : k + 1 \in RecordsOf(file, user) <=> user = name
    BY <1>3, <1>6
  <2> HIDE DEF name
  <2>4. HoldsTo(file, a, k + 1)
    BY <1>1, <2>3, HoldsMore
  <2> HIDE DEF w, a
  <2>5. w.stopped = l.stopped /\ w.accounts = a /\ w = [stopped |-> w.stopped, accounts |-> w.accounts]
    BY <1>1, <2>2
  <2>6. QED
    BY <1>6, <2>1, <2>4, <2>5 DEF LoadedTo, bad, w
<1>7. QED
  BY <1>4, <1>5, <1>6

\* What load_accounts makes of users.conf.
LEMMA FileLoaded ==
  ASSUME NEW file \in UserFiles, file # NoFile
  PROVE  HoldsTo(file, LoadAccounts(file), Len(file) \div 4)
<1> DEFINE n == Len(file) \div 4
<1>1. Len(file) \in Nat /\ n \in Nat /\ 4 * n <= Len(file)
  BY RequestAssumption
<1>2. ASSUME NEW k \in 1 .. n, Complete(file, k) PROVE FieldOf(file, k, 4).value \in Int
  <2>1. 4 * (k - 1) + 4 \in 1 .. Len(file)
    BY <1>1
  <2>2. QED
    BY <1>2, <2>1, RequestAssumption DEF Complete, FieldOf
<1>3. PICK f : /\ f[0] = NoAccounts
               /\ \A k \in 1 .. n : f[k] = LoadNext(file, f[k - 1], k)
               /\ LoadAccounts(file) = f[n].accounts
  BY <1>1, LoadSolved
<1> DEFINE S == {k \in 0 .. n : LoadedTo(file, f[k], k)}
<1>4. 0 \in S
  <2>1. NoAccounts = [stopped |-> FALSE, accounts |-> <<>>] /\ ~ NoAccounts.stopped /\ NoAccounts.accounts = <<>>
    BY DEF NoAccounts
  <2>2. \A user : RecordsTo(file, user, 0) = {}
    BY DEF RecordsTo, RecordsOf
  <2>3. DOMAIN <<>> = {}
    OBVIOUS
  <2>4. HoldsTo(file, <<>>, 0)
    BY <2>2, <2>3 DEF HoldsTo
  <2>5. LoadedTo(file, NoAccounts, 0)
    BY <2>1, <2>4 DEF LoadedTo
  <2>6. QED
    BY <1>1, <1>3, <2>5
<1>5. ASSUME NEW k \in 1 .. n, k - 1 \in S PROVE k \in S
  <2>1. LoadedTo(file, f[k - 1], k - 1)
    BY <1>5
  <2>2. ASSUME NEW j \in Nat, j = k - 1 PROVE LoadedTo(file, f[k], k)
    <3>1. j + 1 = k
      BY <2>2
    <3>2. LoadedTo(file, LoadNext(file, f[j], j + 1), j + 1)
      BY <1>1, <1>2, <2>1, <2>2, <3>1, RecordLoaded
    <3>3. QED
      BY <1>3, <2>2, <3>1, <3>2
  <2>3. QED
    BY <1>1, <2>2
<1>6. n \in S
  <2> HIDE DEF S, n
  <2>1. \A k \in 0 .. n : k \in S
    BY <1>1, <1>4, <1>5, Upwards
  <2>2. QED
    BY <1>1, <2>1
<1>7. QED
  BY <1>3, <1>6 DEF LoadedTo

\* Who find_user lets in, given a user and a password.
Matches(file, user, pwd) ==
  IF file = NoFile THEN user = DefaultUser /\ pwd = DefaultPassword ELSE RecordMatches(file, user, pwd)

\* find_user finds exactly the last usable record of a user.
LEMMA UserFound ==
  ASSUME NEW file \in UserFiles, NEW user, NEW pwd
  PROVE  FindUser(AccountsAtStart(file), user, pwd) <=> Matches(file, user, pwd)
<1>1. CASE file = NoFile
  <2> DEFINE x == Account(<<"salt", DefaultPassword>>, "salt", 0)
  <2> DEFINE a == AccountsAtStart(file)
  <2>1. DOMAIN a = {DefaultUser} /\ a[DefaultUser] = x
    <3>1. DOMAIN <<>> = {}
      OBVIOUS
    <3> HIDE DEF x
    <3>2. a = [u \in DOMAIN <<>> \cup {DefaultUser} |-> IF u = DefaultUser THEN x ELSE <<>>[u]]
      BY <1>1 DEF AccountsAtStart, AddAccount, Store, x
    <3> HIDE DEF a
    <3>3. QED
      BY <3>1, <3>2
  <2>2. x.hash = <<"salt", DefaultPassword>> /\ x.salt = "salt" /\ x.group \in Groups
    BY DEF Account, Groups
  <2>3. <<"salt", DefaultPassword>> = <<"salt", pwd>> <=> pwd = DefaultPassword
    OBVIOUS
  <2> HIDE DEF a, x
  <2>4. FindUser(a, user, pwd) <=> user = DefaultUser /\ pwd = DefaultPassword
    BY <2>1, <2>2, <2>3 DEF FindUser
  <2>5. QED
    BY <1>1, <2>4 DEF Matches, a
<1>2. CASE file # NoFile
  <2> DEFINE a == LoadAccounts(file)
  <2> DEFINE n == Len(file) \div 4
  <2> DEFINE S == RecordsOf(file, user)
  <2>1. Len(file) \in Nat
    BY <1>2, RequestAssumption
  <2>2. n \in Nat /\ S \in SUBSET (0 .. n)
    BY <2>1 DEF RecordsOf
  <2>3. RecordsTo(file, user, n) = S
    BY <2>2 DEF RecordsTo
  <2>4. /\ user \in DOMAIN a <=> S # {}
        /\ \A j \in S : (\A i \in S : i <= j) => a[user] = RecordAccount(file, j)
    <3>1. HoldsTo(file, a, n)
      BY <1>2, FileLoaded
    <3>2. QED
      BY <2>3, <3>1 DEF HoldsTo
  <2>5. AccountsAtStart(file) = a
    BY <1>2 DEF AccountsAtStart
  <2>6. \A j : /\ RecordAccount(file, j).hash = FieldOf(file, j, 2).value
               /\ RecordAccount(file, j).salt = FieldOf(file, j, 3).value
               /\ RecordAccount(file, j).group = FieldOf(file, j, 4).value
    BY DEF RecordAccount, Account
  <2> HIDE DEF a, n, S
  <2>7. CASE S = {}
    BY <1>2, <2>4, <2>5, <2>7 DEF FindUser, Matches, RecordMatches, S
  <2>8. CASE S # {}
    <3>1. PICK j \in S : \A i \in S : j >= i
      BY <2>2, <2>8, LargestExists
    <3>2. j \in Int /\ \A i \in S : i \in Int /\ i <= j
      BY <2>2, <3>1
    <3>3. user \in DOMAIN a /\ a[user] = RecordAccount(file, j)
      BY <2>4, <2>8, <3>2
    <3>4. FindUser(a, user, pwd) <=> /\ FieldOf(file, j, 2).value = <<FieldOf(file, j, 3).value, pwd>>
                                     /\ FieldOf(file, j, 4).value \in Groups
      BY <2>6, <3>3 DEF FindUser
    <3>5. \A i \in S : (\A k \in S : k <= i) => i = j
      BY <3>1, <3>2
    <3>6. RecordMatches(file, user, pwd) <=> /\ FieldOf(file, j, 2).value = <<FieldOf(file, j, 3).value, pwd>>
                                             /\ FieldOf(file, j, 4).value \in Groups
      BY <3>2, <3>5 DEF RecordMatches, S
    <3>7. QED
      BY <1>2, <2>5, <3>4, <3>6 DEF Matches
  <2>9. QED
    BY <2>7, <2>8
<1>3. QED
  BY <1>1, <1>2

\* Nobody has an empty name.
LEMMA NobodyMatches == ASSUME NEW file \in UserFiles, NEW pwd PROVE ~ Matches(file, <<>>, pwd)
<1>1. CASE file = NoFile
  BY <1>1, RequestAssumption DEF Matches
<1>2. CASE file # NoFile
  <2>1. Len(file) \in Nat
    BY <1>2, RequestAssumption
  <2>2. ASSUME NEW k \in RecordsOf(file, <<>>) PROVE FALSE
    <3>1. k \in 1 .. Len(file) \div 4 /\ FieldOf(file, k, 1).value = <<>>
      BY <2>2 DEF RecordsOf
    <3>2. 4 * (k - 1) + 1 \in 1 .. Len(file) /\ (4 * (k - 1) + 1) % 4 = 1
      BY <2>1, <3>1
    <3>3. QED
      BY <1>2, <3>1, <3>2, RequestAssumption DEF FieldOf
  <2>3. QED
    BY <1>2, <2>2 DEF Matches, RecordMatches
<1>3. QED
  BY <1>1, <1>2

\* The user and the password in front of and behind the first colon of b match.
ColonMatches(file, b) ==
  \E k \in DOMAIN b :
    /\ b[k] = Colon
    /\ \A j \in 1 .. k - 1 : b[j] # Colon
    /\ Matches(file, SubSeq(b, 1, k - 1), SubSeq(b, k + 1, Len(b)))

\* parse_http_auth grants a call exactly if they do.
LEMMA HeaderMatched ==
  ASSUME NEW file \in UserFiles, NEW header \in Headers, NEW past \in PastBytes
  PROVE  ParseHttpAuth(AccountsAtStart(file), header, past) = "granted" <=>
           /\ header.basic
           /\ Len(header.code) >= 4
           /\ ColonMatches(file, BytesOf(Sextets(header.code, past)))
<1> DEFINE a == AccountsAtStart(file)
<1> DEFINE b == Base64Decode(header.code, past)
<1> DEFINE colons == {k \in DOMAIN b : b[k] = Colon}
<1> DEFINE c == CHOOSE k \in colons : \A j \in colons : k <= j
<1> DEFINE ok == FindUser(a, SubSeq(b, 1, c - 1), SubSeq(b, c + 1, Len(b)))
<1>1. header.basic \in BOOLEAN /\ header.code \in Seq(Byte) /\ past \in -128 .. 127
  BY RequestAssumption
<1>2. ParseHttpAuth(a, header, past) = "granted" <=>
        IF header.basic THEN colons # {} /\ ok ELSE FindUser(a, <<>>, <<>>)
  <2> HIDE DEF a
  <2>1. CASE header.basic
    BY <2>1 DEF ParseHttpAuth
  <2>2. CASE ~ header.basic
    BY <2>2 DEF ParseHttpAuth
  <2>3. QED
    BY <2>1, <2>2
<1>3. ~ FindUser(a, <<>>, <<>>)
  BY UserFound, NobodyMatches
<1>4. CASE ~ header.basic
  BY <1>2, <1>3, <1>4
<1>5. CASE header.basic /\ Len(header.code) < 4
  <2>1. b = <<>>
    BY <1>5 DEF Base64Decode
  <2>2. colons = {}
    BY <2>1
  <2> HIDE DEF colons, ok
  <2>3. ~ (Len(header.code) >= 4)
    BY <1>1, <1>5
  <2>4. QED
    BY <1>2, <1>5, <2>2, <2>3
<1>6. CASE header.basic /\ ~ (Len(header.code) < 4)
  <2>1. b = BytesOf(Sextets(header.code, past)) /\ b \in Seq(Nat)
    BY <1>1, <1>6, BlockDecoded DEF Base64Decode
  <2>2. Len(header.code) >= 4
    BY <1>1, <1>6
  <2> HIDE DEF b
  <2>3. DOMAIN b = 1 .. Len(b) /\ Len(b) \in Nat
    BY <2>1
  <2>4. CASE colons = {}
    <3>1. ~ ColonMatches(file, b)
      BY <2>4 DEF ColonMatches
    <3>2. QED
      BY <1>2, <1>6, <2>1, <2>4, <3>1
  <2>5. CASE colons # {}
    <3>1. colons \in SUBSET (Nat \ {0})
      BY <2>3
    <3>2. \E k \in colons : \A j \in colons : k <= j
      BY <2>5, <3>1, MinIs
    <3>3. c \in colons /\ \A j \in colons : c <= j
      BY <3>2
    <3> HIDE DEF c
    <3>4. c \in Nat /\ c \in DOMAIN b /\ b[c] = Colon /\ \A j \in 1 .. c - 1 : b[j] # Colon
      BY <2>3, <3>3
    <3>5. ASSUME NEW k \in DOMAIN b, b[k] = Colon, \A j \in 1 .. k - 1 : b[j] # Colon PROVE k = c
      <4>1. k \in colons /\ k \in Nat /\ 1 <= k /\ 1 <= c
        BY <2>3, <3>4, <3>5
      <4>2. c <= k
        BY <3>3, <4>1
      <4>3. ~ (c < k)
        BY <3>4, <3>5, <4>1
      <4>4. QED
        BY <3>4, <4>1, <4>2, <4>3
    <3>6. ColonMatches(file, b) <=> Matches(file, SubSeq(b, 1, c - 1), SubSeq(b, c + 1, Len(b)))
      BY <3>4, <3>5 DEF ColonMatches
    <3>7. ok <=> Matches(file, SubSeq(b, 1, c - 1), SubSeq(b, c + 1, Len(b)))
      BY UserFound
    <3> HIDE DEF ok, colons
    <3>8. QED
      BY <1>2, <1>6, <2>1, <2>2, <2>5, <3>6, <3>7
  <2>6. QED
    BY <2>4, <2>5
<1>7. QED
  BY <1>1, <1>4, <1>5, <1>6

\* A call gets past handle_http only with the name and password of an account, for
\* every users.conf and every header.
THEOREM AccountsOnly == Spec => []OnlyAccountsPass
<1>1. Init => CredInv
  BY DEF Init, CredInv
<1>2. CredInv /\ [Next]_vars => CredInv'
  BY CredKept
<1>3. CredInv => OnlyAccountsPass
  <2> SUFFICES ASSUME CredInv, cred # Nothing
               PROVE  cred.outcome = "granted" <=>
                        /\ cred.header.basic
                        /\ Len(cred.header.code) >= 4
                        /\ ColonMatches(cred.file, BytesOf(Sextets(cred.header.code, cred.past)))
    BY DEF OnlyAccountsPass, ColonMatches, Matches
  <2>1. PICK file \in UserFiles, header \in Headers, past \in PastBytes :
          cred = [file |-> file, header |-> header, past |-> past,
                  outcome |-> ParseHttpAuth(AccountsAtStart(file), header, past)]
    BY DEF CredInv
  <2>2. /\ cred.file = file /\ cred.header = header /\ cred.past = past
        /\ cred.outcome = ParseHttpAuth(AccountsAtStart(file), header, past)
    BY <2>1
  <2>3. QED
    BY <2>2, HeaderMatched
<1>4. QED
  BY <1>1, <1>2, <1>3, PTL DEF Spec
================================================================================
