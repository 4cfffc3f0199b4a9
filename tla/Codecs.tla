------------------------------- MODULE Codecs -------------------------------
(***************************************************************************)
(* The conversions of bytes: Base64.cpp, the hexadecimal dumps of tools.h, *)
(* the UTF-8 that tinyXml makes of a character reference, and the padding  *)
(* and chaining of encrypt.cpp.  Of these the program itself only uses the *)
(* dump of a packet and the references; the cipher is OpenSSL's and here   *)
(* stands a small one that can be undone.                                  *)
(***************************************************************************)
EXTENDS Integers, Sequences, SequencesExt, Bitwise

Bytes == 0..255
-----------------------------------------------------------------------------
(* Base64.  A digit is its place in g_pCodes.  The encode that fills Bytes *)
(* adds a zero at the end, for which decode has no digit.                  *)
Pad == 64      \* '='
Other == 65    \* any character g_pMap has no digit for

Digits(a, b, c) ==
  <<a \div 4, (a % 4) * 16 + b \div 16, (b % 16) * 4 + c \div 64, c % 64>>

encode(in) ==
  LET Byte(i) == IF i \in DOMAIN in THEN in[i] ELSE 0
      Group(g) ==
        LET d == Digits(Byte(3 * g - 2), Byte(3 * g - 1), Byte(3 * g))
        IN CASE 3 * g <= Len(in) -> d
             [] 3 * g - 1 = Len(in) -> <<d[1], d[2], d[3], Pad>>
             [] 3 * g - 2 = Len(in) -> <<d[1], d[2], Pad, Pad>>
  IN FlattenSeq([g \in 1..((Len(in) + 2) \div 3) |-> Group(g)])

(* Mutant: the padding is decoded as if it were digits.                    *)
decodePadding(d, c) ==
  IF c = Other THEN d
  ELSE LET t == d.t * 64 + (c % 64) IN
       IF d.y < 3 THEN [d EXCEPT !.t = t, !.y = @ + 1]
       ELSE [t |-> 0, y |-> 0, g |-> d.g,
             out |-> d.out \o SubSeq(<<(t \div 65536) % 256, (t \div 256) % 256, t % 256>>, 1, d.g)]

(* One turn of the loop of decode: t gathers the bits of y digits, and g is*)
(* how many bytes a group has, one less for every '=' seen so far and never*)
(* more again; it is unsigned.                                             *)
decodeDigit(d, c) ==
  IF c = Other THEN d
  ELSE LET t == d.t * 64 + (c % 64)
           g == IF c = Pad THEN d.g - 1 ELSE d.g
       IN IF d.y < 3 THEN [d EXCEPT !.t = t, !.y = @ + 1, !.g = g]
          ELSE [t |-> 0, y |-> 0, g |-> g,
                out |-> d.out \o SubSeq(<<(t \div 65536) % 256, (t \div 256) % 256, t % 256>>, 1,
                                        CASE g < 0 -> 3 [] g = 0 -> 1 [] OTHER -> g)]
decode(in) == FoldLeft(decodeDigit, [t |-> 0, y |-> 0, g |-> 3, out |-> <<>>], in).out
-----------------------------------------------------------------------------
(* Hexadecimal, in ASCII.                                                  *)
HexChar(n) == IF 48 + n > 57 THEN 48 + n + 7 ELSE 48 + n
HexToStr(s) == FlattenSeq([i \in DOMAIN s |-> <<HexChar(s[i] \div 16), HexChar(s[i] % 16)>>])

toupper(c) == IF c \in 97..122 THEN c - 32 ELSE c
tolower(c) == IF c \in 65..90 THEN c + 32 ELSE c
HexDigit(c) == LET v == toupper(c) - 48 IN IF v > 9 THEN v - 7 ELSE v
StrToHex(s) ==
  [i \in 1..(Len(s) \div 2) |-> (HexDigit(s[2 * i - 1]) * 16 + HexDigit(s[2 * i])) % 256]
-----------------------------------------------------------------------------
(* ConvertUTF32ToUTF8: six bits a byte from the last, and the length in    *)
(* the first one; nothing from 2^21 on.                                    *)
Follows(input) == 128 + (input % 64)
ConvertUTF32ToUTF8(input) ==
  CASE input < 128 -> <<input>>
    [] input \in 128..2047 -> <<192 + input \div 64, Follows(input)>>
    [] input \in 2048..65535 -> <<224 + input \div 4096, Follows(input \div 64), Follows(input)>>
    [] input \in 65536..2097151 ->
         <<240 + input \div 262144, Follows(input \div 4096), Follows(input \div 64), Follows(input)>>
    [] OTHER -> <<>>

(* utf8ByteTable, by which GetChar knows how many bytes to take.           *)
utf8ByteTable(byte) ==
  CASE byte \in 194..223 -> 2 [] byte \in 224..239 -> 3 [] byte \in 240..244 -> 4 [] OTHER -> 1

(* What the bytes of a sequence stand for.                                 *)
CodePoint(s) ==
  FoldLeft(LAMBDA n, byte : n * 64 + (byte % 64),
           s[1] % (CASE Len(s) = 1 -> 128 [] Len(s) = 2 -> 32 [] Len(s) = 3 -> 16 [] OTHER -> 8),
           Tail(s))
-----------------------------------------------------------------------------
(* DES3 over blocks of 8 bytes.  After SetKey the blocks of CBC are chained*)
(* by _iv, which lasts from call to call and which EncodeCBC and DecodeCBC *)
(* share; before, every block starts from ivsetup again.                   *)
BlockLen == 8
ivsetup == [i \in 1..BlockLen |-> 0]
Cipher(b) == [i \in 1..BlockLen |-> (b[(i % BlockLen) + 1] + 3 * i) % 256]
Decipher(b) ==
  [i \in 1..BlockLen |-> LET j == ((i - 2) % BlockLen) + 1 IN (b[j] - 3 * j) % 256]
XorBlocks(b, c) == [i \in 1..BlockLen |-> b[i] ^^ c[i]]

(* The last block is filled with the number of bytes it lacks; a text that *)
(* ends with a block is not filled, so what was filled cannot be told.     *)
Padded(s) ==
  LET lacks == BlockLen - (Len(s) % BlockLen)
  IN IF lacks = BlockLen THEN s ELSE s \o [i \in 1..lacks |-> lacks]
Blocks(s) == [k \in 1..(Len(s) \div BlockLen) |-> SubSeq(s, BlockLen * (k - 1) + 1, BlockLen * k)]

DES3(iv, isInit) == [_iv |-> iv, _isInit |-> isInit, out |-> <<>>]
EncodeBlock(des, b) ==
  LET c == Cipher(XorBlocks(b, IF des._isInit THEN des._iv ELSE ivsetup))
  IN [des EXCEPT !.out = @ \o c, !._iv = IF des._isInit THEN c ELSE @]
DecodeBlock(des, c) ==
  LET b == XorBlocks(Decipher(c), IF des._isInit THEN des._iv ELSE ivsetup)
  IN [des EXCEPT !.out = @ \o b, !._iv = IF des._isInit THEN c ELSE @]

EncodeCBC(des, in) == FoldLeft(EncodeBlock, des, Blocks(Padded(in)))
DecodeCBC(des, in) ==
  IF Len(in) % BlockLen # 0 THEN des ELSE FoldLeft(DecodeBlock, des, Blocks(in))
EncodeEBC(in) == FlattenSeq([k \in DOMAIN Blocks(Padded(in)) |-> Cipher(Blocks(Padded(in))[k])])
DecodeEBC(in) ==
  IF Len(in) % BlockLen # 0 THEN <<>> ELSE FlattenSeq([k \in DOMAIN Blocks(in) |-> Decipher(Blocks(in)[k])])
-----------------------------------------------------------------------------
(* Every conversion of the text s can be undone, whatever is between the   *)
(* digits and in whichever case they are, and a text may be encrypted in   *)
(* pieces:                                                                 *)
(* - Base64 with a line break after any digit;                             *)
(* - a hexadecimal text in upper or lower case;                            *)
(* - the UTF-8 of every character is read back as one character;           *)
(* - what one side encrypts, in one call or in two with whole blocks in the*)
(*   first, the other side decrypts from the _iv that it started with.     *)
CONSTANTS
  SomeBytes,       \* bytes to convert
  SomeCharacters,  \* character references
  MaxLen           \* bound: bytes in a text

Texts == UNION {[1..n -> SomeBytes] : n \in 0..MaxLen}
Broken(s, k) == SubSeq(s, 1, k) \o <<Other>> \o SubSeq(s, k + 1, Len(s))
Repeated(s, n) == [i \in 1..n |-> s[(i % Len(s)) + 1]]
Long(s) == IF s = <<>> THEN {s}
           ELSE {Repeated(s, n) : n \in (0..1) \cup ((BlockLen - 1)..(2 * BlockLen + 1))}
SomeIv == [i \in 1..BlockLen |-> 31 * i]

Base64Inverts(s) == \A k \in 0..Len(encode(s)) : decode(Broken(encode(s), k)) = s
HexInverts(s) ==
  StrToHex(HexToStr(s)) = s /\ StrToHex([i \in 1..(2 * Len(s)) |-> tolower(HexToStr(s)[i])]) = s
Utf8Inverts ==
  \A c \in SomeCharacters :
    LET s == ConvertUTF32ToUTF8(c) IN utf8ByteTable(s[1]) = Len(s) /\ CodePoint(s) = c
EncryptionInverts(s) ==
  \A isInit \in BOOLEAN :
    LET des == DES3(SomeIv, isInit)
        sent == EncodeCBC(des, s)
    IN /\ DecodeEBC(EncodeEBC(s)) = Padded(s)
       /\ DecodeCBC(des, sent.out).out = Padded(s)
       /\ DecodeCBC(des, sent.out)._iv = sent._iv
       /\ \A k \in {i \in 0..Len(s) : i % BlockLen = 0} :
            EncodeCBC(EncodeCBC(des, SubSeq(s, 1, k)), SubSeq(s, k + 1, Len(s))) = sent

Inverts(s) == Base64Inverts(s) /\ HexInverts(s) /\ \A t \in Long(s) : EncryptionInverts(t)
=============================================================================
