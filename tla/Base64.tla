-------------------------------- MODULE Base64 --------------------------------
(***************************************************************************)
(* base64.cpp and cdecode.c: how the credentials of a request are decoded. *)
(* Characters and bytes are their codes.                                   *)
(***************************************************************************)
EXTENDS Integers, Sequences

\* The first character code past the end of the decoding table, which the bound
\* test of base64_decode_value still lets through.
PastTable == 123

\* base64_decode_value: the value of a character, or a negative number; past is
\* the byte that happens to follow the table.
DecodeValue(c, past) ==
  CASE c = 43             -> 62
    [] c = 47             -> 63
    [] c \in 48 .. 57     -> c + 4
    [] c = 61             -> -2
    [] c \in 65 .. 90     -> c - 65
    [] c \in 97 .. 122    -> c - 71
    [] c = PastTable      -> past
    [] OTHER              -> -1

\* base64_init_decodestate; touched is the number of bytes of the output buffer
\* that have been written, the one under plainchar included.
DecodeStart == [step |-> "a", plain |-> 0, out |-> <<>>, touched |-> 1]

\* base64_decode_block: one more fragment f, of which six bits are used.
DecodeChar(s, f) ==
  CASE s.step = "a" -> [s EXCEPT !.step = "b", !.plain = 4 * f, !.touched = Len(s.out) + 1]
    [] s.step = "b" -> [step |-> "c", plain |-> 16 * (f % 16),
                        out |-> Append(s.out, s.plain + (f \div 16)), touched |-> Len(s.out) + 2]
    [] s.step = "c" -> [step |-> "d", plain |-> 64 * (f % 4),
                        out |-> Append(s.out, s.plain + (f \div 4)), touched |-> Len(s.out) + 2]
    [] s.step = "d" -> [s EXCEPT !.step = "a", !.out = Append(@, s.plain + f)]

\* The whole block; characters without a value are passed over.
DecodeBlock(code, past) ==
  LET after[n \in 0 .. Len(code)] ==
        IF n = 0 THEN DecodeStart
        ELSE IF DecodeValue(code[n], past) < 0 THEN after[n - 1]
        ELSE DecodeChar(after[n - 1], DecodeValue(code[n], past) % 64)
  IN  after[Len(code)]

\* Mutant: the buffer is sized for whole groups of four only.
DecodeCapacityExact(code) == (Len(code) \div 4) * 3

\* The size base64decode gives its output buffer.
DecodeCapacity(code) == (Len(code) * 6) \div 8 + 1

\* base64decode.
Base64Decode(code, past) == IF Len(code) < 4 THEN <<>> ELSE DecodeBlock(code, past).out

-------------------------------------------------------------------------------
(* What base64 means: the characters that have a value are six bits each of *)
(* one string of bits, which is cut into bytes.                             *)

Sextets(code, past) ==
  LET upto[n \in 0 .. Len(code)] ==
        IF n = 0 THEN <<>>
        ELSE IF DecodeValue(code[n], past) < 0 THEN upto[n - 1]
        ELSE Append(upto[n - 1], DecodeValue(code[n], past) % 64)
  IN  upto[Len(code)]

\* Byte j begins with bit 8 * (j - 1) of the string; two sextets hold all of it.
ByteAt(sextets, j) ==
  LET bit == 8 * (j - 1)
      pair == 64 * sextets[(bit \div 6) + 1] + sextets[(bit \div 6) + 2]
  IN  CASE bit % 6 = 0 -> (pair \div 16) % 256
        [] bit % 6 = 2 -> (pair \div 4) % 256
        [] bit % 6 = 4 -> pair % 256

BytesOf(sextets) == [j \in 1 .. (Len(sextets) * 6) \div 8 |-> ByteAt(sextets, j)]
===============================================================================
