------------------------------ MODULE SeedBytes -----------------------------
(***************************************************************************)
(* The way of a wallet's seed into the key derivation: utf8ToMutableBytes  *)
(* (src/src/security/secure-wipe.ts) turns the string into bytes that can  *)
(* be wiped, and wordsFromBytes (src/src/notebook/crypto.ts) packs them.   *)
(*                                                                         *)
(* A string is a sequence of UTF-16 code units.  Shifts and masks are      *)
(* divisions and remainders by powers of two; `or' joins disjoint bits.    *)
(***************************************************************************)
EXTENDS Integers, Sequences

Below(n) == {i \in Nat : i < n}

Units == Below(65536)
Byte  == Below(256)
High  == {i \in Nat : 55296 <= i /\ i < 56320}    \* leading surrogates, 0xd800..0xdbff
Low   == {i \in Nat : 56320 <= i /\ i < 57344}    \* trailing ones, 0xdc00..0xdfff

EncodeUnit(c) ==
    IF c < 128 THEN <<c>>
    ELSE IF c < 2048 THEN <<192 + (c \div 64), 128 + (c % 64)>>
    ELSE <<224 + (c \div 4096), 128 + ((c \div 64) % 64), 128 + (c % 64)>>

CodePoint(hi, lo) == 65536 + (hi - 55296) * 1024 + (lo - 56320)

EncodePair(hi, lo) ==
    LET c == CodePoint(hi, lo) IN
    <<240 + (c \div 262144), 128 + ((c \div 4096) % 64),
      128 + ((c \div 64) % 64), 128 + (c % 64)>>

\* A leading surrogate takes the next unit with it, whatever that is.
utf8ToMutableBytes(s) ==
    LET from[i \in 1..(Len(s) + 2)] ==
            IF i > Len(s) THEN << >>
            ELSE IF s[i] \in High /\ i < Len(s) THEN EncodePair(s[i], s[i + 1]) \o from[i + 2]
            ELSE EncodeUnit(s[i]) \o from[i + 1]
    IN  from[1]

\* A word of four bytes, of which those past the end are zero.
Word(b1, b2, b3, b4) == b1 * 16777216 + b2 * 65536 + b3 * 256 + b4

wordsFromBytes(bytes) ==
    LET byte(i) == IF i <= Len(bytes) THEN bytes[i] ELSE 0 IN
    [w \in 1..((Len(bytes) + 3) \div 4) |->
        Word(byte(4 * w - 3), byte(4 * w - 2), byte(4 * w - 1), byte(4 * w))]

-----------------------------------------------------------------------------
(* UTF-8 read back, by the length of the character.                          *)

DecodeUnit(b) ==
    IF Len(b) = 1 THEN b[1]
    ELSE IF Len(b) = 2 THEN (b[1] - 192) * 64 + (b[2] - 128)
    ELSE (b[1] - 224) * 4096 + (b[2] - 128) * 64 + (b[3] - 128)

DecodePair(b) ==
    (b[1] - 240) * 262144 + (b[2] - 128) * 4096 + (b[3] - 128) * 64 + (b[4] - 128)

\* The n-th byte of a word, from the left.
ByteOf(word, n) == (word \div <<16777216, 65536, 256, 1>>[n]) % 256
=============================================================================
