-------------------------------- MODULE HexUtil --------------------------------
(***************************************************************************)
(* hex_util.cpp: the forms of a chain id.  The session knows a chain by    *)
(* bytes: a key of CID_KEY_CHAR_LEN bytes and a name.  Clients write it    *)
(* with the key, or all of it, in hexadecimal.  Bytes and characters are   *)
(* their codes; a byte that was never written is Unset.                    *)
(***************************************************************************)
EXTENDS Integers, Sequences, FiniteSetsExt

CONSTANT CID_KEY_CHAR_LEN

ASSUME HexUtilAssumption == CID_KEY_CHAR_LEN \in Nat

CID_KEY_HEX_LEN == 2 * CID_KEY_CHAR_LEN

Unset == -1

Byte == 0 .. 255

IsHex(c) == c \in 48 .. 57 \cup 65 .. 70 \cup 97 .. 102

HexToInt(c) == CASE c \in 48 .. 57 -> c - 48 [] c \in 65 .. 70 -> c - 55 [] OTHER -> c - 87

HexDigit(n) == IF n < 10 THEN n + 48 ELSE n + 87

\* aux::to_hex.
ToHex(bytes) ==
  [k \in 1 .. 2 * Len(bytes) |->
     LET b == bytes[(k + 1) \div 2] IN HexDigit(IF k % 2 = 1 THEN b \div 16 ELSE b % 16)]

\* aux::from_hex: stops at the first character that is no digit, with the upper
\* half of its byte written if it is the second of a pair.
FromHex(hex) ==
  LET bad == {k \in DOMAIN hex : ~ IsHex(hex[k])}
      stop == IF bad = {} THEN Len(hex) + 1 ELSE Min(bad)
      nibble(k) == IF k < stop THEN HexToInt(hex[k]) ELSE 0
  IN  [j \in 1 .. Len(hex) \div 2 |->
         IF 2 * j - 1 < stop THEN 16 * nibble(2 * j - 1) + nibble(2 * j) ELSE Unset]

chain_id_size(size) == size - CID_KEY_CHAR_LEN

\* Mutant: the name is put right behind the hexadecimal length of the key.
StringToBytesShifted(text) ==
  FromHex(SubSeq(text, 1, CID_KEY_HEX_LEN)) \o SubSeq(text, CID_KEY_HEX_LEN + 2, Len(text))

\* string_chain_id_to_bytes, for a text that holds at least a key.
string_chain_id_to_bytes(text) ==
  LET key == FromHex(SubSeq(text, 1, CID_KEY_HEX_LEN))
  IN  [k \in 1 .. chain_id_size(Len(text)) |->
         IF k <= CID_KEY_CHAR_LEN THEN key[k] ELSE text[CID_KEY_CHAR_LEN + k]]

\* What std::string(char*) makes of a buffer: it ends before the first zero.
CutAtZero(s) ==
  LET zeros == {k \in DOMAIN s : s[k] = 0}
  IN  IF zeros = {} THEN s ELSE SubSeq(s, 1, Min(zeros) - 1)

\* bytes_chain_id_to_string.
bytes_chain_id_to_string(bytes) ==
  CutAtZero(ToHex(SubSeq(bytes, 1, CID_KEY_CHAR_LEN)) \o SubSeq(bytes, CID_KEY_CHAR_LEN + 1, Len(bytes)))

\* hex_chain_id_to_bytes.
hex_chain_id_to_bytes(hex) == FromHex(hex)
===============================================================================
