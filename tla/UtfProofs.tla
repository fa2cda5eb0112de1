----------------------------- MODULE UtfProofs ------------------------------
(***************************************************************************)
(* Proofs about Utf for code points, strings and bytes of every kind: the  *)
(* inductive invariant IInv, from which what a conversion writes and       *)
(* answers is what its input encodes.                                      *)
(***************************************************************************)
EXTENDS Utf, SequenceTheorems, WellFoundedInduction, TLAPS

-----------------------------------------------------------------------------
(* Digits: a code point is taken apart in groups of six bits, or of ten.   *)
LEMMA By64 ==
  ASSUME NEW c \in Nat
  PROVE  c \div 64 \in Nat /\ c % 64 \in 0..63 /\ c = (c \div 64) * 64 + (c % 64)
BY SMT

LEMMA Split64 ==
  ASSUME NEW c \in Nat, NEW q \in Nat, NEW r \in 0..63, c = q * 64 + r
  PROVE  c \div 64 = q /\ c % 64 = r
BY SMT

LEMMA By1024 ==
  ASSUME NEW c \in Nat
  PROVE  c \div 1024 \in Nat /\ c % 1024 \in 0..1023 /\ c = (c \div 1024) * 1024 + (c % 1024)
BY SMT

LEMMA Split1024 ==
  ASSUME NEW c \in Nat, NEW q \in Nat, NEW r \in 0..1023, c = q * 1024 + r
  PROVE  c \div 1024 = q /\ c % 1024 = r
BY SMT

LEMMA Split4096 ==
  ASSUME NEW c \in Nat, NEW q \in Nat, q * 4096 <= c, c < q * 4096 + 4096
  PROVE  c \div 4096 = q
BY SMT

LEMMA Split262144 ==
  ASSUME NEW c \in Nat, NEW q \in Nat, q * 262144 <= c, c < q * 262144 + 262144
  PROVE  c \div 262144 = q
BY SMT

(* The digits of a code point that takes two, three or four bytes.         *)
HasDigits2(c, q, d) == q \in 2..31 /\ d \in 0..63 /\ c = q * 64 + d
HasDigits3(c, q, e, d) ==
  q \in 0..15 /\ e \in 0..63 /\ d \in 0..63 /\ (q = 0 => e >= 32) /\ c = q * 4096 + e * 64 + d
HasDigits4(c, q, f, e, d) ==
  /\ q \in 0..4 /\ f \in 0..63 /\ e \in 0..63 /\ d \in 0..63
  /\ q = 0 => f >= 16
  /\ q = 4 => f < 16
  /\ c = q * 262144 + f * 4096 + e * 64 + d

(* The units of a code point of which the digits are known.                *)
IsUnits2(c, q, d) == encode_utf8(c) = <<q + 192, d + 128>>
IsUnits3(c, q, e, d) == encode_utf8(c) = <<q + 224, e + 128, d + 128>>
IsUnits4(c, q, f, e, d) == encode_utf8(c) = <<q + 240, f + 128, e + 128, d + 128>>

LEMMA Units1 == ASSUME NEW c \in Nat, c < 128 PROVE encode_utf8(c) = <<c>>
BY SMT DEF encode_utf8

LEMMA Units2 ==
  ASSUME NEW c, NEW q, NEW d, HasDigits2(c, q, d)
  PROVE  IsUnits2(c, q, d)
<1> USE DEF HasDigits2
<1>1. c \in Nat /\ c >= 128 /\ c < 2048
  BY SMT
<1>2. c \div 64 = q /\ c % 64 = d
  BY <1>1, Split64, SMT
<1>3. encode_utf8(c) = <<c \div 64 + 192, Low6(c)>>
  BY <1>1, SMT DEF encode_utf8
<1> QED BY <1>2, <1>3, SMT DEF Low6, IsUnits2

LEMMA Units3 ==
  ASSUME NEW c, NEW q, NEW e, NEW d, HasDigits3(c, q, e, d)
  PROVE  IsUnits3(c, q, e, d)
<1> USE DEF HasDigits3
<1>1. c \in Nat /\ c >= 2048 /\ c < 65536
  BY SMT
<1>2. c = (q * 64 + e) * 64 + d /\ q * 64 + e \in Nat
  BY SMT
<1>3. c \div 64 = q * 64 + e /\ c % 64 = d
  BY <1>1, <1>2, Split64, SMT
<1>4. (c \div 64) % 64 = e
  BY <1>2, <1>3, Split64, SMT
<1>5. c \in Nat /\ q * 4096 <= c /\ c < q * 4096 + 4096
  BY SMT
<1>6. c \div 4096 = q
  BY <1>5, Split4096, SMT
<1>7. encode_utf8(c) = <<c \div 4096 + 224, Low6(c \div 64), Low6(c)>>
  BY <1>1, SMT DEF encode_utf8
<1> QED BY <1>3, <1>4, <1>6, <1>7, SMT DEF Low6, IsUnits3

LEMMA Units4 ==
  ASSUME NEW c, NEW q, NEW f, NEW e, NEW d, HasDigits4(c, q, f, e, d)
  PROVE  IsUnits4(c, q, f, e, d)
<1> USE DEF HasDigits4
<1>1. c \in Nat /\ c >= 65536 /\ c < 1114112
  BY SMT
<1> PICK s \in Nat : s = q * 64 + f
  BY SMT
<1> PICK r \in Nat : r = s * 64 + e
  BY SMT
<1>2. c = r * 64 + d
  BY SMT
<1>3. c \div 64 = r /\ c % 64 = d
  BY <1>1, <1>2, Split64, SMT
<1>0. r % 64 = e
  BY Split64, SMT
<1>4. (c \div 64) % 64 = e
  BY <1>3, <1>0
<1>5. c \in Nat /\ q * 64 + f \in Nat /\ (q * 64 + f) * 4096 <= c /\ c < (q * 64 + f) * 4096 + 4096
  BY SMT
<1>6. c \div 4096 = q * 64 + f
  BY <1>5, Split4096, SMT
<1>7. (c \div 4096) % 64 = f
  BY <1>6, Split64, SMT
<1>8. q * 262144 <= c /\ c < q * 262144 + 262144
  BY SMT
<1>9. c \div 262144 = q
  BY <1>5, <1>8, Split262144, SMT
<1> QED BY <1>1, <1>3, <1>4, <1>7, <1>9, SMT DEF encode_utf8, Low6, IsUnits4

(* Every code point has digits.                                            *)
LEMMA Digits2 ==
  ASSUME NEW c \in Nat, c >= 128, c < 2048
  PROVE  \E q, d \in Int : HasDigits2(c, q, d)
<1>1. c \div 64 \in 2..31 /\ c % 64 \in 0..63 /\ c = (c \div 64) * 64 + (c % 64)
  BY By64, SMT
<1> QED BY <1>1, SMT DEF HasDigits2

LEMMA Digits3 ==
  ASSUME NEW c \in Nat, c >= 2048, c < 65536
  PROVE  \E q, e, d \in Int : HasDigits3(c, q, e, d)
<1> DEFINE r == c \div 64  d == c % 64  q == r \div 64  e == r % 64
<1>1. r \in Nat /\ d \in 0..63 /\ c = r * 64 + d
  BY By64, SMT
<1>2. q \in Nat /\ e \in 0..63 /\ r = q * 64 + e
  BY <1>1, By64, SMT
<1> HIDE DEF r, d, q, e
<1>3. HasDigits3(c, q, e, d)
  BY <1>1, <1>2, SMT DEF HasDigits3
<1> QED BY <1>1, <1>2, <1>3, SMT

LEMMA Digits4 ==
  ASSUME NEW c \in Nat, c >= 65536, c < 1114112
  PROVE  \E q, f, e, d \in Int : HasDigits4(c, q, f, e, d)
<1> DEFINE r == c \div 64  d == c % 64  s == r \div 64  e == r % 64  q == s \div 64  f == s % 64
<1>1. r \in Nat /\ d \in 0..63 /\ c = r * 64 + d
  BY By64, SMT
<1>2. s \in Nat /\ e \in 0..63 /\ r = s * 64 + e
  BY <1>1, By64, SMT
<1>3. q \in Nat /\ f \in 0..63 /\ s = q * 64 + f
  BY <1>2, By64, SMT
<1> HIDE DEF r, d, s, e, q, f
<1>4. HasDigits4(c, q, f, e, d)
  BY <1>1, <1>2, <1>3, SMT DEF HasDigits4
<1> QED BY <1>1, <1>2, <1>3, <1>4, SMT

-----------------------------------------------------------------------------
(* What the decoder of UTF-8 makes of any four bytes: an error, or a code  *)
(* point of which the bytes it takes are the encoding.                     *)
Reads2(d, b1, b2) == d.code > 0 /\ b2 > 0 /\ encode_utf8(d.code) = <<b1, b2>>
Reads3(d, b1, b2, b3) == d.code > 0 /\ b2 > 0 /\ b3 > 0 /\ encode_utf8(d.code) = <<b1, b2, b3>>
Reads4(d, b1, b2, b3, b4) ==
  d.code > 0 /\ b2 > 0 /\ b3 > 0 /\ b4 > 0 /\ encode_utf8(d.code) = <<b1, b2, b3, b4>>

Reads(d, b1, b2, b3, b4) ==
  \/ d = Malformed
  \/ d = Decoded(1, b1) /\ b1 < 128
  \/ d.units = 2 /\ d.code \in Nat /\ b1 > 0 /\ Reads2(d, b1, b2)
  \/ d.units = 3 /\ d.code \in Nat /\ b1 > 0 /\ Reads3(d, b1, b2, b3)
  \/ d.units = 4 /\ d.code \in Nat /\ b1 > 0 /\ Reads4(d, b1, b2, b3, b4)

LEMMA Leads4 ==
  ASSUME NEW b1 \in Nat, b1 >= 240, b1 < 245, NEW b2, NEW b3, NEW b4
  PROVE  decode_utf8(b1, b2, b3, b4) = Decoded4(b1, b2, b3, b4)
BY SMT DEF decode_utf8

LEMMA ReadsBytes ==
  ASSUME NEW b1 \in 0..255, NEW b2 \in 0..255, NEW b3 \in 0..255, NEW b4 \in 0..255
  PROVE  Reads(decode_utf8(b1, b2, b3, b4), b1, b2, b3, b4)
<1> DEFINE d == decode_utf8(b1, b2, b3, b4)
<1>1. CASE b1 < 128
  BY <1>1, SMT DEF decode_utf8, Reads
<1>2. CASE b1 >= 194 /\ b1 < 224
  <2>1. d = Decoded2(b1, b2)
    BY <1>2, SMT DEF decode_utf8
  <2>2. CASE Continues(b2)
    <3> PICK q \in 2..31 : b1 = q + 192
      BY <1>2, SMT
    <3> PICK x \in 0..63 : b2 = x + 128
      BY <2>2, SMT DEF Continues
    <3> PICK c \in Nat : c = q * 64 + x
      BY SMT
    <3>0. HasDigits2(c, q, x)
      BY SMT DEF HasDigits2
    <3>6. IsUnits2(c, q, x)
      BY <3>0, Units2
    <3>1. encode_utf8(c) = <<b1, b2>>
      BY <3>6 DEF IsUnits2
    <3>2. b1 * 64 + b2 - 12416 = c /\ c > 0
      BY SMT
    <3>3. d = Decoded(2, c)
      BY <2>1, <2>2, <3>2 DEF Decoded2
    <3>4. d.units = 2 /\ d.code = c
      BY <3>3 DEF Decoded
    <3>5. b1 > 0 /\ b2 > 0
      BY SMT
    <3> HIDE DEF d
    <3> QED BY <3>1, <3>2, <3>4, <3>5 DEF Reads, Reads2, d
  <2>3. CASE ~Continues(b2)
    BY <2>1, <2>3 DEF Decoded2, Reads
  <2> QED BY <2>2, <2>3
<1>3. CASE b1 >= 224 /\ b1 < 240
  <2>1. d = Decoded3(b1, b2, b3)
    BY <1>3, SMT DEF decode_utf8
  <2>2. CASE Continues(b2) /\ ~(b1 = 224 /\ b2 < 160) /\ Continues(b3)
    <3> PICK q \in 0..15 : b1 = q + 224
      BY <1>3, SMT
    <3> PICK y \in 0..63 : b2 = y + 128
      BY <2>2, SMT DEF Continues
    <3> PICK x \in 0..63 : b3 = x + 128
      BY <2>2, SMT DEF Continues
    <3>0. q = 0 => y >= 32
      BY <2>2, SMT
    <3> PICK c \in Nat : c = q * 4096 + y * 64 + x
      BY SMT
    <3>7. HasDigits3(c, q, y, x)
      BY <3>0, SMT DEF HasDigits3
    <3>6. IsUnits3(c, q, y, x)
      BY <3>7, Units3
    <3>1. encode_utf8(c) = <<b1, b2, b3>>
      BY <3>6 DEF IsUnits3
    <3>2. b1 * 4096 + b2 * 64 + b3 - 925824 = c /\ c > 0
      BY <3>0, SMT
    <3>3. d = Decoded(3, c)
      BY <2>1, <2>2, <3>2 DEF Decoded3
    <3>4. d.units = 3 /\ d.code = c
      BY <3>3 DEF Decoded
    <3>5. b1 > 0 /\ b2 > 0 /\ b3 > 0
      BY SMT
    <3> HIDE DEF d
    <3> QED BY <3>1, <3>2, <3>4, <3>5 DEF Reads, Reads3, d
  <2>3. CASE ~(Continues(b2) /\ ~(b1 = 224 /\ b2 < 160) /\ Continues(b3))
    BY <2>1, <2>3 DEF Decoded3, Reads
  <2> QED BY <2>2, <2>3
<1>4. CASE b1 >= 240 /\ b1 < 245
  <2> DEFINE good == Continues(b2) /\ ~(b1 = 240 /\ b2 < 144) /\ ~(b1 = 244 /\ b2 >= 144)
                       /\ Continues(b3) /\ Continues(b4)
  <2>1. d = Decoded4(b1, b2, b3, b4)
    BY <1>4, Leads4, SMT
  <2>2. CASE good
    <3> PICK q \in 0..4 : b1 = q + 240
      BY <1>4, SMT
    <3> PICK z \in 0..63 : b2 = z + 128
      BY <2>2, SMT DEF Continues
    <3> PICK y \in 0..63 : b3 = y + 128
      BY <2>2, SMT DEF Continues
    <3> PICK x \in 0..63 : b4 = x + 128
      BY <2>2, SMT DEF Continues
    <3>0. (q = 0 => z >= 16) /\ (q = 4 => z < 16)
      BY <2>2, SMT
    <3> PICK c \in Nat : c = q * 262144 + z * 4096 + y * 64 + x
      BY SMT
    <3>7. HasDigits4(c, q, z, y, x)
      BY <3>0, SMT DEF HasDigits4
    <3>6. IsUnits4(c, q, z, y, x)
      BY <3>7, Units4
    <3>1. encode_utf8(c) = <<b1, b2, b3, b4>>
      BY <3>6 DEF IsUnits4
    <3>2. b1 * 262144 + b2 * 4096 + b3 * 64 + b4 - 63447168 = c /\ c > 0
      BY <3>0, SMT
    <3>3. d = Decoded(4, c)
      BY <2>1, <2>2, <3>2 DEF Decoded4
    <3>4. d.units = 4 /\ d.code = c
      BY <3>3 DEF Decoded
    <3>5. b1 > 0 /\ b2 > 0 /\ b3 > 0 /\ b4 > 0
      BY SMT
    <3> HIDE DEF d
    <3> QED BY <3>1, <3>2, <3>4, <3>5 DEF Reads, Reads4, d
  <2>3. CASE ~good
    BY <2>1, <2>3 DEF Decoded4, Reads
  <2> QED BY <2>2, <2>3
<1>5. CASE (b1 >= 128 /\ b1 < 194) \/ b1 >= 245
  BY <1>5, SMT DEF decode_utf8, Reads
<1> QED BY <1>1, <1>2, <1>3, <1>4, <1>5, SMT

(* What a code point is encoded to is decoded to it.                       *)
LEMMA Decodes2 ==
  ASSUME NEW c \in Nat, c >= 128, c < 2048, NEW b3, NEW b4
  PROVE  \E u1, u2 \in Nat :
           /\ encode_utf8(c) = <<u1, u2>> /\ u1 > 0 /\ u2 > 0
           /\ decode_utf8(u1, u2, b3, b4) = Decoded(2, c)
<1> PICK q, d \in Int : HasDigits2(c, q, d)
  BY Digits2
<1>1. q \in 2..31 /\ d \in 0..63 /\ c = q * 64 + d
  BY DEF HasDigits2
<1>2. IsUnits2(c, q, d)
  BY Units2
<1>3. decode_utf8(q + 192, d + 128, b3, b4) = Decoded2(q + 192, d + 128)
  BY <1>1, SMT DEF decode_utf8
<1>4. Continues(d + 128) /\ (q + 192) * 64 + (d + 128) - 12416 = c
  BY <1>1, SMT DEF Continues
<1>5. Decoded2(q + 192, d + 128) = Decoded(2, c)
  BY <1>4 DEF Decoded2
<1>6. q + 192 \in Nat /\ d + 128 \in Nat /\ q + 192 > 0 /\ d + 128 > 0
  BY <1>1, SMT
<1> QED BY <1>2, <1>3, <1>5, <1>6 DEF IsUnits2

LEMMA Decodes3 ==
  ASSUME NEW c \in Nat, c >= 2048, c < 65536, NEW b4
  PROVE  \E u1, u2, u3 \in Nat :
           /\ encode_utf8(c) = <<u1, u2, u3>> /\ u1 > 0 /\ u2 > 0 /\ u3 > 0
           /\ decode_utf8(u1, u2, u3, b4) = Decoded(3, c)
<1> PICK q, e, d \in Int : HasDigits3(c, q, e, d)
  BY Digits3
<1>1. q \in 0..15 /\ e \in 0..63 /\ d \in 0..63 /\ (q = 0 => e >= 32) /\ c = q * 4096 + e * 64 + d
  BY DEF HasDigits3
<1>2. IsUnits3(c, q, e, d)
  BY Units3
<1>3. decode_utf8(q + 224, e + 128, d + 128, b4) = Decoded3(q + 224, e + 128, d + 128)
  BY <1>1, SMT DEF decode_utf8
<1>4. /\ Continues(e + 128) /\ Continues(d + 128) /\ ~(q + 224 = 224 /\ e + 128 < 160)
      /\ (q + 224) * 4096 + (e + 128) * 64 + (d + 128) - 925824 = c
  BY <1>1, SMT DEF Continues
<1>5. Decoded3(q + 224, e + 128, d + 128) = Decoded(3, c)
  BY <1>4 DEF Decoded3
<1>6. /\ q + 224 \in Nat /\ e + 128 \in Nat /\ d + 128 \in Nat
      /\ q + 224 > 0 /\ e + 128 > 0 /\ d + 128 > 0
  BY <1>1, SMT
<1> QED BY <1>2, <1>3, <1>5, <1>6 DEF IsUnits3

LEMMA Decodes4 ==
  ASSUME NEW c \in Nat, c >= 65536, c < 1114112
  PROVE  \E u1, u2, u3, u4 \in Nat :
           /\ encode_utf8(c) = <<u1, u2, u3, u4>> /\ u1 > 0 /\ u2 > 0 /\ u3 > 0 /\ u4 > 0
           /\ decode_utf8(u1, u2, u3, u4) = Decoded(4, c)
<1> PICK q, f, e, d \in Int : HasDigits4(c, q, f, e, d)
  BY Digits4
<1>1. /\ q \in 0..4 /\ f \in 0..63 /\ e \in 0..63 /\ d \in 0..63
      /\ (q = 0 => f >= 16) /\ (q = 4 => f < 16) /\ c = q * 262144 + f * 4096 + e * 64 + d
  BY DEF HasDigits4
<1>2. IsUnits4(c, q, f, e, d)
  BY Units4
<1>3. decode_utf8(q + 240, f + 128, e + 128, d + 128) = Decoded4(q + 240, f + 128, e + 128, d + 128)
  BY <1>1, Leads4, SMT
<1>4. /\ Continues(f + 128) /\ Continues(e + 128) /\ Continues(d + 128)
      /\ ~(q + 240 = 240 /\ f + 128 < 144) /\ ~(q + 240 = 244 /\ f + 128 >= 144)
      /\ (q + 240) * 262144 + (f + 128) * 4096 + (e + 128) * 64 + (d + 128) - 63447168 = c
  BY <1>1, SMT DEF Continues
<1>5. Decoded4(q + 240, f + 128, e + 128, d + 128) = Decoded(4, c)
  BY <1>4 DEF Decoded4
<1>6. /\ q + 240 \in Nat /\ f + 128 \in Nat /\ e + 128 \in Nat /\ d + 128 \in Nat
      /\ q + 240 > 0 /\ f + 128 > 0 /\ e + 128 > 0 /\ d + 128 > 0
  BY <1>1, SMT
<1> QED BY <1>2, <1>3, <1>5, <1>6 DEF IsUnits4

LEMMA DecodesPair ==
  ASSUME NEW c \in Nat, c >= 65536, c < 1114112
  PROVE  \E u1, u2 \in Nat :
           /\ encode_utf16(c) = <<u1, u2>> /\ u1 > 0 /\ u2 > 0
           /\ decode_utf16(u1, u2) = Decoded(2, c)
<1> DEFINE q == c \div 1024  d == c % 1024
<1>1. q \in Nat /\ d \in 0..1023 /\ c = q * 1024 + d
  BY By1024, SMT
<1>2. encode_utf16(c) = <<q + 55232, d + 56320>>
  BY SMT DEF encode_utf16
<1> HIDE DEF q, d
<1>3. HighSurrogate(q + 55232) /\ LowSurrogate(d + 56320)
  BY <1>1, SMT DEF HighSurrogate, LowSurrogate
<1>4. (q + 55232) * 1024 + (d + 56320) - 56613888 = c
  BY <1>1, SMT
<1>5. decode_utf16(q + 55232, d + 56320) = Decoded(2, c)
  BY <1>3, <1>4 DEF decode_utf16
<1>6. q + 55232 \in Nat /\ d + 56320 \in Nat /\ q + 55232 > 0 /\ d + 56320 > 0
  BY <1>1, SMT
<1> QED BY <1>2, <1>5, <1>6

-----------------------------------------------------------------------------
(* In each form the units of a character are no 0, and where they stand in *)
(* a string the decoder finds the character, whatever comes after them.    *)
Character(c) == c \in Nat /\ c > 0 /\ (c < 55296 \/ c >= 57344)
Starts(s, i, u) == \A j \in 1..Len(u) : Unit(s, i + j - 1) = u[j]

LEMMA CodePointsAre ==
  ASSUME UtfAssumption, NEW c \in CodePoints
  PROVE  Character(c)
<1>1. c \in Nat /\ c # 0 /\ c \notin 55296..57343
  BY DEF UtfAssumption
<1> QED BY <1>1, SMT DEF Character

LEMMA Starts2 ==
  ASSUME NEW s, NEW i \in Nat, NEW u1, NEW u2, Starts(s, i, <<u1, u2>>)
  PROVE  Unit(s, i) = u1 /\ Unit(s, i + 1) = u2
<1> DEFINE u == <<u1, u2>>
<1>1. 1 \in 1..Len(u) /\ 2 \in 1..Len(u) /\ u[1] = u1 /\ u[2] = u2
  OBVIOUS
<1>2. i + 1 - 1 = i /\ i + 2 - 1 = i + 1
  OBVIOUS
<1> HIDE DEF u
<1>3. \A j \in 1..Len(u) : Unit(s, i + j - 1) = u[j]
  BY DEF Starts, u
<1> QED BY <1>1, <1>2, <1>3

LEMMA Starts3 ==
  ASSUME NEW s, NEW i \in Nat, NEW u1, NEW u2, NEW u3, Starts(s, i, <<u1, u2, u3>>)
  PROVE  Unit(s, i) = u1 /\ Unit(s, i + 1) = u2 /\ Unit(s, i + 2) = u3
<1> DEFINE u == <<u1, u2, u3>>
<1>1. /\ 1 \in 1..Len(u) /\ 2 \in 1..Len(u) /\ 3 \in 1..Len(u)
      /\ u[1] = u1 /\ u[2] = u2 /\ u[3] = u3
  OBVIOUS
<1>2. i + 1 - 1 = i /\ i + 2 - 1 = i + 1 /\ i + 3 - 1 = i + 2
  OBVIOUS
<1> HIDE DEF u
<1>3. \A j \in 1..Len(u) : Unit(s, i + j - 1) = u[j]
  BY DEF Starts, u
<1> QED BY <1>1, <1>2, <1>3

LEMMA Starts4 ==
  ASSUME NEW s, NEW i \in Nat, NEW u1, NEW u2, NEW u3, NEW u4, Starts(s, i, <<u1, u2, u3, u4>>)
  PROVE  Unit(s, i) = u1 /\ Unit(s, i + 1) = u2 /\ Unit(s, i + 2) = u3 /\ Unit(s, i + 3) = u4
<1> DEFINE u == <<u1, u2, u3, u4>>
<1>1. /\ 1 \in 1..Len(u) /\ 2 \in 1..Len(u) /\ 3 \in 1..Len(u) /\ 4 \in 1..Len(u)
      /\ u[1] = u1 /\ u[2] = u2 /\ u[3] = u3 /\ u[4] = u4
  OBVIOUS
<1>2. i + 1 - 1 = i /\ i + 2 - 1 = i + 1 /\ i + 3 - 1 = i + 2 /\ i + 4 - 1 = i + 3
  OBVIOUS
<1> HIDE DEF u
<1>3. \A j \in 1..Len(u) : Unit(s, i + j - 1) = u[j]
  BY DEF Starts, u
<1> QED BY <1>1, <1>2, <1>3

LEMMA Starts1 ==
  ASSUME NEW s, NEW i \in Nat, NEW c, Starts(s, i, <<c>>)
  PROVE  Unit(s, i) = c
<1>1. 1 \in 1..Len(<<c>>) /\ <<c>>[1] = c /\ i + 1 - 1 = i
  OBVIOUS
<1>2. Unit(s, i + 1 - 1) = <<c>>[1]
  BY <1>1 DEF Starts
<1> QED BY <1>1, <1>2

(* What a form says of a character.                                        *)
Found(form, u, c) == \A s : \A i \in Nat : Starts(s, i, u) => Decode(form, s, i) = Decoded(Len(u), c)
Nonzero(u) == u \in Seq(Nat) /\ \A j \in 1..Len(u) : u[j] > 0
Understood(form, c) ==
  LET u == Encode(form, c)
  IN  Nonzero(u) /\ (u # <<>> => Len(u) > 0 /\ Found(form, u, c))

LEMMA NotUnderstood ==
  ASSUME NEW form, NEW c, Encode(form, c) = <<>>
  PROVE  Understood(form, c)
<1>1. Nonzero(<<>>)
  BY DEF Nonzero
<1> QED BY <1>1 DEF Understood

LEMMA Understands8 ==
  ASSUME NEW c, Character(c)
  PROVE  Understood(8, c)
<1>0. c \in Nat /\ c > 0
  BY DEF Character
<1>e. \A s : \A i \in Nat :
        Decode(8, s, i) = decode_utf8(Unit(s, i), Unit(s, i + 1), Unit(s, i + 2), Unit(s, i + 3))
  BY DEF Decode
<1>f. Encode(8, c) = encode_utf8(c)
  BY DEF Encode
<1>1. CASE c < 128
  <2>1. encode_utf8(c) = <<c>>
    BY <1>0, <1>1, SMT DEF encode_utf8
  <2>2. Found(8, <<c>>, c)
    <3> SUFFICES ASSUME NEW s, NEW i \in Nat, Starts(s, i, <<c>>) PROVE Decode(8, s, i) = Decoded(1, c)
      BY DEF Found
    <3>1. Unit(s, i) = c
      BY Starts1
    <3>2. decode_utf8(c, Unit(s, i + 1), Unit(s, i + 2), Unit(s, i + 3)) = Decoded(1, c)
      BY <1>0, <1>1, SMT DEF decode_utf8
    <3> QED BY <1>e, <3>1, <3>2
  <2>3. Nonzero(<<c>>) /\ Len(<<c>>) = 1
    BY <1>0 DEF Nonzero
  <2> QED BY <1>f, <2>1, <2>2, <2>3 DEF Understood
<1>2. CASE c >= 128 /\ c < 2048
  <2> PICK u1, u2 \in Nat : encode_utf8(c) = <<u1, u2>> /\ u1 > 0 /\ u2 > 0
    BY <1>0, <1>2, Decodes2
  <2> DEFINE u == <<u1, u2>>
  <2>2. Found(8, u, c)
    <3> SUFFICES ASSUME NEW s, NEW i \in Nat, Starts(s, i, u) PROVE Decode(8, s, i) = Decoded(2, c)
      BY DEF Found
    <3>1. Unit(s, i) = u1 /\ Unit(s, i + 1) = u2
      BY Starts2
    <3> PICK v1, v2 \in Nat : /\ encode_utf8(c) = <<v1, v2>>
                              /\ decode_utf8(v1, v2, Unit(s, i + 2), Unit(s, i + 3)) = Decoded(2, c)
      BY <1>0, <1>2, Decodes2
    <3>2. v1 = u1 /\ v2 = u2
      <4>1. <<v1, v2>> = <<u1, u2>>
        OBVIOUS
      <4> QED BY <4>1
    <3> QED BY <1>e, <3>1, <3>2
  <2>3. Nonzero(u) /\ Len(u) = 2
    BY DEF Nonzero
  <2> QED BY <1>f, <2>2, <2>3 DEF Understood
<1>3. CASE c >= 2048 /\ c < 65536
  <2> PICK u1, u2, u3 \in Nat : encode_utf8(c) = <<u1, u2, u3>> /\ u1 > 0 /\ u2 > 0 /\ u3 > 0
    BY <1>0, <1>3, Decodes3
  <2> DEFINE u == <<u1, u2, u3>>
  <2>2. Found(8, u, c)
    <3> SUFFICES ASSUME NEW s, NEW i \in Nat, Starts(s, i, u) PROVE Decode(8, s, i) = Decoded(3, c)
      BY DEF Found
    <3>1. Unit(s, i) = u1 /\ Unit(s, i + 1) = u2 /\ Unit(s, i + 2) = u3
      BY Starts3
    <3> PICK v1, v2, v3 \in Nat : /\ encode_utf8(c) = <<v1, v2, v3>>
                                  /\ decode_utf8(v1, v2, v3, Unit(s, i + 3)) = Decoded(3, c)
      BY <1>0, <1>3, Decodes3
    <3>2. v1 = u1 /\ v2 = u2 /\ v3 = u3
      <4>1. <<v1, v2, v3>> = <<u1, u2, u3>>
        OBVIOUS
      <4> QED BY <4>1
    <3> QED BY <1>e, <3>1, <3>2
  <2>3. Nonzero(u) /\ Len(u) = 3
    BY DEF Nonzero
  <2> QED BY <1>f, <2>2, <2>3 DEF Understood
<1>4. CASE c >= 65536 /\ c < 1114112
  <2> PICK u1, u2, u3, u4 \in Nat :
        /\ encode_utf8(c) = <<u1, u2, u3, u4>> /\ u1 > 0 /\ u2 > 0 /\ u3 > 0 /\ u4 > 0
        /\ decode_utf8(u1, u2, u3, u4) = Decoded(4, c)
    BY <1>0, <1>4, Decodes4
  <2> DEFINE u == <<u1, u2, u3, u4>>
  <2>2. Found(8, u, c)
    <3> SUFFICES ASSUME NEW s, NEW i \in Nat, Starts(s, i, u) PROVE Decode(8, s, i) = Decoded(4, c)
      BY DEF Found
    <3>1. Unit(s, i) = u1 /\ Unit(s, i + 1) = u2 /\ Unit(s, i + 2) = u3 /\ Unit(s, i + 3) = u4
      BY Starts4
    <3> QED BY <1>e, <3>1
  <2>3. Nonzero(u) /\ Len(u) = 4
    BY DEF Nonzero
  <2> QED BY <1>f, <2>2, <2>3 DEF Understood
<1>5. CASE c >= 1114112
  <2>1. encode_utf8(c) = <<>>
    BY <1>0, <1>5, SMT DEF encode_utf8
  <2> QED BY <1>f, <2>1, NotUnderstood
<1> QED BY <1>0, <1>1, <1>2, <1>3, <1>4, <1>5, SMT

LEMMA Understands16 ==
  ASSUME NEW c, Character(c)
  PROVE  Understood(16, c)
<1>0. c \in Nat /\ c > 0 /\ (c < 55296 \/ c >= 57344)
  BY DEF Character
<1>e. \A s : \A i \in Nat : Decode(16, s, i) = decode_utf16(Unit(s, i), Unit(s, i + 1))
  BY DEF Decode
<1>f. Encode(16, c) = encode_utf16(c)
  BY DEF Encode
<1>1. CASE c < 65536
  <2>1. encode_utf16(c) = <<c>>
    BY <1>0, <1>1, SMT DEF encode_utf16
  <2>2. Found(16, <<c>>, c)
    <3> SUFFICES ASSUME NEW s, NEW i \in Nat, Starts(s, i, <<c>>) PROVE Decode(16, s, i) = Decoded(1, c)
      BY DEF Found
    <3>1. Unit(s, i) = c
      BY Starts1
    <3>2. ~HighSurrogate(c)
      BY <1>0, SMT DEF HighSurrogate
    <3> QED BY <1>e, <3>1, <3>2 DEF decode_utf16
  <2>3. Nonzero(<<c>>) /\ Len(<<c>>) = 1
    BY <1>0 DEF Nonzero
  <2> QED BY <1>f, <2>1, <2>2, <2>3 DEF Understood
<1>2. CASE c >= 65536 /\ c < 1114112
  <2> PICK u1, u2 \in Nat :
        /\ encode_utf16(c) = <<u1, u2>> /\ u1 > 0 /\ u2 > 0
        /\ decode_utf16(u1, u2) = Decoded(2, c)
    BY <1>0, <1>2, DecodesPair
  <2> DEFINE u == <<u1, u2>>
  <2>2. Found(16, u, c)
    <3> SUFFICES ASSUME NEW s, NEW i \in Nat, Starts(s, i, u) PROVE Decode(16, s, i) = Decoded(2, c)
      BY DEF Found
    <3>1. Unit(s, i) = u1 /\ Unit(s, i + 1) = u2
      BY Starts2
    <3> QED BY <1>e, <3>1
  <2>3. Nonzero(u) /\ Len(u) = 2
    BY DEF Nonzero
  <2> QED BY <1>f, <2>2, <2>3 DEF Understood
<1>3. CASE c >= 1114112
  <2>1. encode_utf16(c) = <<>>
    BY <1>0, <1>3, SMT DEF encode_utf16
  <2> QED BY <1>f, <2>1, NotUnderstood
<1> QED BY <1>0, <1>1, <1>2, <1>3, SMT

LEMMA Understands ==
  ASSUME NEW form \in Forms, NEW c, Character(c)
  PROVE  Understood(form, c)
<1>1. CASE form = 8
  BY <1>1, Understands8
<1>2. CASE form = 16
  BY <1>2, Understands16
<1>3. CASE form = 32
  <2>0. c \in Nat /\ c > 0
    BY DEF Character
  <2>1. Encode(32, c) = <<c>>
    BY DEF Encode
  <2>2. Found(32, <<c>>, c)
    <3> SUFFICES ASSUME NEW s, NEW i \in Nat, Starts(s, i, <<c>>) PROVE Decode(32, s, i) = Decoded(1, c)
      BY DEF Found
    <3>1. Unit(s, i) = c
      BY Starts1
    <3> QED BY <3>1 DEF Decode
  <2>3. Nonzero(<<c>>) /\ Len(<<c>>) = 1
    BY <2>0 DEF Nonzero
  <2> QED BY <1>3, <2>1, <2>2, <2>3 DEF Understood
<1> QED BY <1>1, <1>2, <1>3 DEF Forms

-----------------------------------------------------------------------------
(* The encodings of the first characters of a string, one after the other. *)
LEMMA UtfLeast ==
  ASSUME NEW A, A \subseteq Nat, A # {} PROVE \E k \in A : \A j \in A : k <= j
<1> DEFINE R == {ss \in Nat \X Nat : ss[1] < ss[2]}
<1>1. IsWellFoundedOn(R, Nat)
  BY NatLessThanWellFounded DEF OpToRel
<1>2. \A j, l \in Nat : j < l => <<j, l>> \in R
  OBVIOUS
<1> HIDE DEF R
<1>3. PICK k \in A : \A j \in A : ~(<<j, k>> \in R)
  BY <1>1, WFMin
<1>4. ASSUME NEW j \in A PROVE k <= j
  <2>1. j \in Nat /\ k \in Nat /\ ~(<<j, k>> \in R)
    BY <1>3
  <2>2. ~(j < k)
    BY <1>2, <2>1
  <2> QED BY <2>1, <2>2
<1> QED BY <1>4

Sums(f, form, s, m) ==
  f[0] = <<>> /\ \A n \in 1..m : f[n] = f[n - 1] \o Encode(form, s[n])

SumOf(form, s, m) ==
  \E f : f = [n \in 0..m |-> IF n = 0 THEN <<>> ELSE f[n - 1] \o Encode(form, s[n])]

LEMMA OneMore ==
  ASSUME NEW form, NEW s, NEW m \in Nat, SumOf(form, s, m)
  PROVE  SumOf(form, s, m + 1)
<1> PICK f : f = [n \in 0..m |-> IF n = 0 THEN <<>> ELSE f[n - 1] \o Encode(form, s[n])]
  BY DEF SumOf
<1> DEFINE g == [n \in 0..m+1 |-> IF n = m + 1 THEN f[m] \o Encode(form, s[m + 1]) ELSE f[n]]
<1>1. \A n \in 0..m+1 : g[n] = IF n = 0 THEN <<>> ELSE g[n - 1] \o Encode(form, s[n])
  <2> SUFFICES ASSUME NEW n \in 0..m+1
               PROVE  g[n] = IF n = 0 THEN <<>> ELSE g[n - 1] \o Encode(form, s[n])
    OBVIOUS
  <2>1. CASE n = m + 1
    <3>1. n - 1 = m /\ n - 1 \in 0..m+1 /\ n - 1 # m + 1 /\ n # 0
      BY <2>1
    <3>2. g[n - 1] = f[m] /\ g[n] = f[m] \o Encode(form, s[n])
      BY <2>1, <3>1
    <3> QED BY <3>1, <3>2
  <2>2. CASE n = 0
    <3>1. 0 \in 0..m /\ 0 # m + 1 /\ f[0] = <<>>
      OBVIOUS
    <3> QED BY <2>2, <3>1
  <2>3. CASE n \in 1..m
    <3>1. n \in 0..m /\ n # 0 /\ n # m + 1 /\ n - 1 \in 0..m+1 /\ n - 1 # m + 1
      BY <2>3
    <3>2. g[n] = f[n] /\ g[n - 1] = f[n - 1]
      BY <3>1
    <3>3. f[n] = f[n - 1] \o Encode(form, s[n])
      BY <3>1
    <3> QED BY <3>1, <3>2, <3>3
  <2> QED BY <2>1, <2>2, <2>3
<1>2. g = [n \in 0..m+1 |-> g[n]]
  OBVIOUS
<1> HIDE DEF g
<1>3. [n \in 0..m+1 |-> g[n]]
        = [n \in 0..m+1 |-> IF n = 0 THEN <<>> ELSE g[n - 1] \o Encode(form, s[n])]
  BY <1>1
<1>4. g = [n \in 0..m+1 |-> IF n = 0 THEN <<>> ELSE g[n - 1] \o Encode(form, s[n])]
  BY <1>2, <1>3
<1> QED BY <1>4 DEF SumOf

LEMMA NoneYet == ASSUME NEW form, NEW s PROVE SumOf(form, s, 0)
<1> DEFINE f == [n \in 0..0 |-> <<>>]
<1>1. f = [n \in 0..0 |-> IF n = 0 THEN <<>> ELSE f[n - 1] \o Encode(form, s[n])]
  <2>1. \A n \in 0..0 : n = 0
    OBVIOUS
  <2> QED BY <2>1
<1> HIDE DEF f
<1> QED BY <1>1 DEF SumOf

LEMMA EverySum ==
  ASSUME NEW form, NEW s, NEW m \in Nat
  PROVE  SumOf(form, s, m)
<1> DEFINE Not == {n \in Nat : ~SumOf(form, s, n)}
<1>1. SUFFICES ASSUME Not # {} PROVE FALSE
  OBVIOUS
<1>2. Not \subseteq Nat
  OBVIOUS
<1> HIDE DEF Not
<1>3. PICK k \in Not : \A j \in Not : k <= j
  BY <1>1, <1>2, UtfLeast
<1>4. k \in Nat /\ ~SumOf(form, s, k)
  BY DEF Not
<1>5. k # 0
  BY <1>4, NoneYet
<1>6. k - 1 \in Nat /\ k - 1 \notin Not /\ (k - 1) + 1 = k
  BY <1>3, <1>4, <1>5
<1>7. SumOf(form, s, k - 1)
  BY <1>6 DEF Not
<1>8. SumOf(form, s, (k - 1) + 1)
  BY <1>6, <1>7, OneMore
<1> QED BY <1>4, <1>6, <1>8

LEMMA EncodedSums ==
  ASSUME NEW form, NEW s, Len(s) \in Nat
  PROVE  Sums(Encoded(form, s), form, s, Len(s))
<1> DEFINE Goes(f) == f = [n \in 0..Len(s) |-> IF n = 0 THEN <<>> ELSE f[n - 1] \o Encode(form, s[n])]
           e == CHOOSE f : Goes(f)
<1>1. Encoded(form, s) = e
  BY DEF Encoded
<1>2. \E f : Goes(f)
  <2>1. SumOf(form, s, Len(s))
    BY EverySum
  <2> QED BY <2>1 DEF SumOf
<1>3. Goes(e)
  BY <1>2
<1> HIDE DEF e
<1>4. \A n \in 0..Len(s) : e[n] = IF n = 0 THEN <<>> ELSE e[n - 1] \o Encode(form, s[n])
  BY <1>3
<1>5. 0 \in 0..Len(s) /\ \A n \in 1..Len(s) : n \in 0..Len(s) /\ n # 0
  OBVIOUS
<1> QED BY <1>1, <1>4, <1>5 DEF Sums

(* They are determined, so of two strings with the same first characters   *)
(* the encodings of these are the same.                                    *)
SameStart(s, t, m) == \A n \in 1..m : s[n] = t[n]

LEMMA SumsAgree ==
  ASSUME NEW form, NEW s, NEW t, NEW m \in Nat, NEW f, NEW g,
         Sums(f, form, s, m), Sums(g, form, t, m), SameStart(s, t, m)
  PROVE  \A n \in 0..m : f[n] = g[n]
<1> DEFINE Not == {n \in 0..m : f[n] # g[n]}
<1>1. SUFFICES ASSUME Not # {} PROVE FALSE
  OBVIOUS
<1>2. Not \subseteq Nat /\ Not \subseteq 0..m
  OBVIOUS
<1> HIDE DEF Not
<1>3. PICK k \in Not : \A j \in Not : k <= j
  BY <1>1, <1>2, UtfLeast
<1>4. k \in 0..m /\ f[k] # g[k]
  BY DEF Not
<1>5. k # 0
  BY <1>4 DEF Sums
<1>6. k \in 1..m /\ k - 1 \in 0..m /\ k - 1 \notin Not
  BY <1>2, <1>3, <1>4, <1>5
<1>7. f[k - 1] = g[k - 1]
  BY <1>6 DEF Not
<1> QED BY <1>4, <1>6, <1>7 DEF Sums, SameStart

(* They are units, and what comes later goes on from what there is.        *)
Heads(u, w) == Len(u) <= Len(w) /\ \A j \in 1..Len(u) : w[j] = u[j]

LEMMA HeadOfBoth ==
  ASSUME NEW u \in Seq(Nat), NEW w \in Seq(Nat)
  PROVE  /\ u \o w \in Seq(Nat) /\ Heads(u, u \o w) /\ Len(u \o w) = Len(u) + Len(w)
         /\ \A j \in 1..Len(w) : (u \o w)[Len(u) + j] = w[j]
<1>1. u \o w \in Seq(Nat) /\ Len(u \o w) = Len(u) + Len(w)
  BY ConcatProperties
<1>2. \A j \in 1..Len(u) : (u \o w)[j] = u[j]
  OBVIOUS
<1>3. \A j \in 1..Len(w) : (u \o w)[Len(u) + j] = w[j]
  OBVIOUS
<1>4. Len(u) \in Nat /\ Len(w) \in Nat
  OBVIOUS
<1> QED BY <1>1, <1>2, <1>3, <1>4 DEF Heads

LEMMA HeadsOfHeads ==
  ASSUME NEW u \in Seq(Nat), NEW v \in Seq(Nat), NEW w \in Seq(Nat), Heads(u, v), Heads(v, w)
  PROVE  Heads(u, w)
BY DEF Heads

LEMMA HeadsItself ==
  ASSUME NEW u \in Seq(Nat)
  PROVE  Heads(u, u)
BY DEF Heads

(* What a form makes of the characters of a string.                        *)
Fine(form, s, m) == \A n \in 1..m : Encode(form, s[n]) \in Seq(Nat)

LEMMA SumsAreUnits ==
  ASSUME NEW form, NEW s, NEW m \in Nat, NEW f, Sums(f, form, s, m), Fine(form, s, m)
  PROVE  \A n \in 0..m : f[n] \in Seq(Nat)
<1> DEFINE Not == {n \in 0..m : f[n] \notin Seq(Nat)}
<1>1. SUFFICES ASSUME Not # {} PROVE FALSE
  OBVIOUS
<1>2. Not \subseteq Nat /\ Not \subseteq 0..m
  OBVIOUS
<1> HIDE DEF Not
<1>3. PICK k \in Not : \A j \in Not : k <= j
  BY <1>1, <1>2, UtfLeast
<1>4. k \in 0..m /\ f[k] \notin Seq(Nat) /\ <<>> \in Seq(Nat)
  BY DEF Not
<1>5. k # 0
  BY <1>4 DEF Sums
<1>6. k \in 1..m /\ k - 1 \in 0..m /\ k - 1 \notin Not
  BY <1>2, <1>3, <1>4, <1>5
<1>7. f[k - 1] \in Seq(Nat) /\ Encode(form, s[k]) \in Seq(Nat)
  BY <1>6 DEF Not, Fine
<1>8. f[k - 1] \o Encode(form, s[k]) \in Seq(Nat)
  BY <1>7, ConcatProperties
<1> QED BY <1>4, <1>6, <1>8 DEF Sums

LEMMA SumsGoOn ==
  ASSUME NEW form, NEW s, NEW m \in Nat, NEW f, Sums(f, form, s, m), Fine(form, s, m),
         NEW k \in 0..m
  PROVE  \A n \in k..m : Heads(f[k], f[n])
<1>0. \A n \in 0..m : f[n] \in Seq(Nat)
  BY SumsAreUnits
<1> DEFINE Not == {n \in k..m : ~Heads(f[k], f[n])}
<1>1. SUFFICES ASSUME Not # {} PROVE FALSE
  OBVIOUS
<1>2. Not \subseteq Nat /\ Not \subseteq k..m
  OBVIOUS
<1> HIDE DEF Not
<1>3. PICK l \in Not : \A j \in Not : l <= j
  BY <1>1, <1>2, UtfLeast
<1>4. l \in k..m /\ ~Heads(f[k], f[l])
  BY DEF Not
<1>5. l # k
  BY <1>0, <1>4, HeadsItself
<1>6. l \in 1..m /\ l - 1 \in k..m /\ l - 1 \in 0..m /\ l - 1 \notin Not
  BY <1>2, <1>3, <1>4, <1>5
<1>7. Heads(f[k], f[l - 1])
  BY <1>6 DEF Not
<1>8. f[l] = f[l - 1] \o Encode(form, s[l]) /\ Encode(form, s[l]) \in Seq(Nat)
  BY <1>6 DEF Sums, Fine
<1>9. f[k] \in Seq(Nat) /\ f[l - 1] \in Seq(Nat) /\ f[l] \in Seq(Nat)
  BY <1>0, <1>4, <1>6
<1>10. Heads(f[l - 1], f[l])
  BY <1>8, <1>9, HeadOfBoth
<1> QED BY <1>4, <1>7, <1>9, <1>10, HeadsOfHeads

-----------------------------------------------------------------------------
(* A string of characters and what a form makes of it.                     *)
Spelled(form, s) ==
  /\ Len(s) \in Nat
  /\ \A n \in 1..Len(s) : Character(s[n])
  /\ Sums(Encoded(form, s), form, s, Len(s)) /\ Fine(form, s, Len(s))

LEMMA Spells ==
  ASSUME UtfAssumption, NEW form \in Forms, NEW s \in Strings
  PROVE  Spelled(form, s)
<1>1. s \in Seq(CodePoints)
  BY DEF UtfAssumption
<1>2. Len(s) \in Nat /\ \A n \in 1..Len(s) : Character(s[n])
  BY <1>1, CodePointsAre
<1>3. Fine(form, s, Len(s))
  <2> SUFFICES ASSUME NEW n \in 1..Len(s) PROVE Encode(form, s[n]) \in Seq(Nat)
    BY DEF Fine
  <2>1. Understood(form, s[n])
    BY <1>2, Understands
  <2> QED BY <2>1 DEF Understood, Nonzero
<1> QED BY <1>2, <1>3, EncodedSums DEF Spelled

(* Where k characters of a string have been read, the next one stands, and *)
(* after the last one the string is at its end.                            *)
LEMMA NextCharacter ==
  ASSUME NEW form \in Forms, NEW s, Spelled(form, s), NEW k \in Nat, k < Len(s),
         Encode(form, s[k + 1]) # <<>>
  PROVE  LET e == Encoded(form, s)
         IN  /\ e[k] \in Seq(Nat) /\ Encode(form, s[k + 1]) \in Seq(Nat)
             /\ Len(e[k + 1]) = Len(e[k]) + Len(Encode(form, s[k + 1]))
             /\ Len(Encode(form, s[k + 1])) > 0
             /\ Decode(form, e[Len(s)], Len(e[k]) + 1) = Decoded(Len(Encode(form, s[k + 1])), s[k + 1])
<1> DEFINE e == Encoded(form, s)  c == s[k + 1]  u == Encode(form, c)  t == e[Len(s)]  i == Len(e[k]) + 1
<1>1. /\ Len(s) \in Nat /\ Sums(e, form, s, Len(s)) /\ Fine(form, s, Len(s))
      /\ \A n \in 1..Len(s) : Character(s[n])
  BY DEF Spelled
<1>2. k \in 0..Len(s) /\ k + 1 \in 1..Len(s) /\ k + 1 \in 0..Len(s) /\ (k + 1) - 1 = k /\ Len(s) \in k+1..Len(s)
      /\ Len(s) \in 0..Len(s)
  BY <1>1
<1>3. Character(c) /\ Understood(form, c)
  BY <1>1, <1>2, Understands
<1>4. u \in Seq(Nat) /\ (\A j \in 1..Len(u) : u[j] > 0) /\ Len(u) > 0 /\ Found(form, u, c)
  BY <1>3 DEF Understood, Nonzero
<1> HIDE DEF e
<1>5. e[k] \in Seq(Nat) /\ e[k + 1] \in Seq(Nat) /\ t \in Seq(Nat)
  BY <1>1, <1>2, SumsAreUnits
<1>6. e[k + 1] = e[k] \o u
  BY <1>1, <1>2 DEF Sums
<1>7. Heads(e[k + 1], t)
  BY <1>1, <1>2, SumsGoOn
<1> HIDE DEF c, u, t
<1>8. Len(e[k + 1]) = Len(e[k]) + Len(u) /\ \A j \in 1..Len(u) : e[k + 1][Len(e[k]) + j] = u[j]
  BY <1>4, <1>5, <1>6, HeadOfBoth
<1>9. Len(e[k]) \in Nat /\ Len(u) \in Nat /\ Len(t) \in Nat
  BY <1>4, <1>5
<1>10. Starts(t, i, u)
  <2> SUFFICES ASSUME NEW j \in 1..Len(u) PROVE Unit(t, i + j - 1) = u[j]
    BY DEF Starts
  <2> PICK p \in Nat : p = Len(e[k])
    BY <1>9
  <2> PICK w : w = e[k + 1]
    OBVIOUS
  <2>1. i + j - 1 = p + j /\ p + j \in 1..p + Len(u)
    BY <1>9
  <2>2. Len(w) = p + Len(u) /\ w[p + j] = u[j]
    BY <1>8
  <2>3. Len(w) <= Len(t) /\ \A l \in 1..Len(w) : t[l] = w[l]
    BY <1>7 DEF Heads
  <2>4. t[p + j] = u[j] /\ p + j <= Len(t)
    <3>1. p + j \in 1..Len(w)
      BY <2>1, <2>2
    <3>2. t[p + j] = w[p + j]
      BY <2>3, <3>1
    <3>3. p + Len(u) <= Len(t) /\ p + j <= p + Len(u)
      BY <1>9, <2>2, <2>3
    <3>4. p + j <= Len(t)
      BY <1>9, <3>3
    <3> QED BY <2>2, <3>2, <3>4
  <2> QED BY <2>1, <2>4 DEF Unit
<1>11. i \in Nat
  BY <1>9
<1>12. Decode(form, t, i) = Decoded(Len(u), c)
  BY <1>4, <1>10, <1>11 DEF Found
<1> QED BY <1>4, <1>5, <1>8, <1>12 DEF e, c, u, t

LEMMA AtTheEnd ==
  ASSUME NEW form \in Forms, NEW s \in Seq(Nat)
  PROVE  Decode(form, s, Len(s) + 1) = Decoded(1, 0)
<1>1. Unit(s, Len(s) + 1) = 0
  BY DEF Unit
<1>2. \A b2, b3, b4 : decode_utf8(0, b2, b3, b4) = Decoded(1, 0)
  BY SMT DEF decode_utf8
<1>3. \A u2 : decode_utf16(0, u2) = Decoded(1, 0)
  BY SMT DEF decode_utf16, HighSurrogate
<1> QED BY <1>1, <1>2, <1>3 DEF Forms, Decode

LEMMA IInvInit ==
  ASSUME UtfAssumption, Init
  PROVE  IInv
<1>1. pos = 1 /\ rc = 0 /\ out = <<>> /\ result = Running
  BY DEF Init
<1>2. CASE chars # <<>>
  <2>1. /\ from \in Forms /\ to \in Forms /\ len \in 0..MaxLen /\ chars \in Strings
        /\ \A i \in 1..Len(chars) : Encode(from, chars[i]) # <<>>
        /\ in = Encoded(from, chars)[Len(chars)]
    BY <1>2 DEF Init
  <2>2. len \in Nat
    BY <2>1 DEF UtfAssumption
  <2>3. Spelled(from, chars) /\ Spelled(to, chars)
    BY <2>1, Spells
  <2>4. Encoded(from, chars)[0] = <<>> /\ Encoded(to, chars)[0] = <<>> /\ Len(chars) \in Nat
    BY <2>3 DEF Spelled, Sums
  <2>5. CharactersDone(0)
    <3> DEFINE whole == Encoded(to, chars)
    <3>1. 0 \in 0..Len(chars) /\ pos = Len(Encoded(from, chars)[0]) + 1 /\ rc = Len(whole[0])
      BY <1>1, <2>4
    <3>2. \A i \in 1..0 : Encode(to, chars[i]) # <<>>
      OBVIOUS
    <3>3. \E n \in 0..0 : out = whole[n] /\ Len(out) <= len /\ (n < 0 => Len(whole[n + 1]) > len)
      <4>1. 0 \in 0..0 /\ out = whole[0] /\ Len(out) <= len /\ ~(0 < 0)
        BY <1>1, <2>2, <2>4
      <4> QED BY <4>1
    <3> QED BY <1>1, <3>1, <3>2, <3>3 DEF CharactersDone
  <2>6. OfCharacters
    <3>1. 0 \in 0..Len(chars)
      BY <2>4
    <3> QED BY <2>1, <2>2, <2>5, <3>1 DEF OfCharacters
  <2> QED BY <1>2, <2>6 DEF IInv
<1>3. CASE chars = <<>>
  <2>1. from = 8 /\ to = 32 /\ in \in Fragments /\ len = Len(in)
    BY <1>3 DEF Init, UtfAssumption
  <2>2. in \in Seq(0..255)
    BY <2>1 DEF UtfAssumption
  <2>3. Sums(Encoded(8, <<>>), 8, <<>>, 0)
    BY EncodedSums
  <2>4. Encoded(8, <<>>)[0] = <<>>
    BY <2>3 DEF Sums
  <2>5. Len(out) = 0 /\ out \in Seq(Nat)
    BY <1>1
  <2>6. SubSeq(in, 1, pos - 1) = <<>>
    BY <1>1, <2>2
  <2>7. Len(in) \in Nat /\ pos \in 1..Len(in) + 1 /\ rc <= pos - 1
    BY <1>1, <2>2
  <2>8. OfBytes
    BY <1>1, <2>1, <2>2, <2>4, <2>5, <2>6, <2>7 DEF OfBytes
  <2> QED BY <1>3, <2>8 DEF IInv
<1> QED BY <1>2, <1>3

(* Of a round, whatever the conversion: what stays, and the four ways out. *)
Rest == UNCHANGED <<from, to, in, len, chars>>
IsRound(d, units) ==
  /\ result = Running
  /\ \/ d.units = 0 /\ result' = -1 /\ UNCHANGED <<pos, rc, out>>
     \/ d.units > 0 /\ d.code = 0 /\ result' = rc /\ UNCHANGED <<pos, rc, out>>
     \/ d.units > 0 /\ d.code > 0 /\ units = <<>> /\ result' = -1 /\ UNCHANGED <<pos, rc, out>>
     \/ /\ d.units > 0 /\ d.code > 0 /\ units # <<>>
        /\ pos' = pos + d.units
        /\ out' = IF Fits(units) THEN out \o units ELSE out
        /\ rc' = rc + Len(units)
        /\ UNCHANGED result

LEMMA Rounds ==
  ASSUME Convert
  PROVE  Rest /\ IsRound(Decode(from, in, pos), Encode(to, Decode(from, in, pos).code))
BY DEF Convert, Rest, IsRound

(* A round of a string of characters: its end, a character that the other  *)
(* form does not have, or one more.                                        *)
LEMMA AtTheLast ==
  ASSUME UtfAssumption, OfCharacters, CharactersDone(Len(chars)), Convert
  PROVE  CharactersDone(Len(chars))' /\ Rest
<1> DEFINE n == Len(chars)
<1>1. from \in Forms /\ to \in Forms /\ chars \in Strings /\ in = Encoded(from, chars)[n]
  BY DEF OfCharacters
<1>2. Spelled(from, chars)
  BY <1>1, Spells
<1>3. in \in Seq(Nat)
  BY <1>1, <1>2, SumsAreUnits DEF Spelled
<1>4. pos = Len(in) + 1
  BY <1>1 DEF CharactersDone
<1>5. Decode(from, in, pos) = Decoded(1, 0)
  BY <1>1, <1>3, <1>4, AtTheEnd
<1>6. Decode(from, in, pos).units = 1 /\ Decode(from, in, pos).code = 0
  BY <1>5 DEF Decoded
<1>7. result' = rc /\ UNCHANGED <<pos, rc, out>> /\ Rest
  BY <1>6, Rounds DEF IsRound
<1> QED BY <1>7 DEF CharactersDone, Rest

Wrote(k) ==
  LET whole == Encoded(to, chars)
  IN  \E n \in 0..k :
        /\ out = whole[n] /\ Len(out) <= len
        /\ n < k => Len(whole[n + 1]) > len

LEMMA WritesOneMore ==
  ASSUME Spelled(to, chars), len \in Nat, NEW k \in Nat, k < Len(chars), Wrote(k),
         rc = Len(Encoded(to, chars)[k]), NEW units, units = Encode(to, chars[k + 1]),
         out' = (IF Fits(units) THEN out \o units ELSE out), to' = to, chars' = chars, len' = len
  PROVE  Wrote(k + 1)'
<1> DEFINE e == Encoded(to, chars)
<1>1. Len(chars) \in Nat /\ Sums(e, to, chars, Len(chars)) /\ Fine(to, chars, Len(chars))
  BY DEF Spelled
<1>2. k \in 0..Len(chars) /\ k + 1 \in 1..Len(chars) /\ k + 1 \in 0..Len(chars) /\ (k + 1) - 1 = k
  BY <1>1
<1>3. Encoded(to, chars)' = e
  OBVIOUS
<1> PICK n \in 0..k : out = e[n] /\ Len(out) <= len /\ (n < k => Len(e[n + 1]) > len)
  BY DEF Wrote
<1> HIDE DEF e
<1>4. e[k + 1] = e[k] \o units /\ units \in Seq(Nat)
  BY <1>1, <1>2 DEF Sums, Fine
<1>5. \A m \in 0..Len(chars) : e[m] \in Seq(Nat)
  BY <1>1, SumsAreUnits
<1>6. e[k] \in Seq(Nat) /\ e[k + 1] \in Seq(Nat) /\ Len(e[k + 1]) = Len(e[k]) + Len(units)
      /\ Len(units) \in Nat /\ Len(e[k]) \in Nat
  BY <1>2, <1>4, <1>5, HeadOfBoth
<1>13. Len(e[k + 1]) \in Nat
  <2>1. \A w \in Seq(Nat) : Len(w) \in Nat
    OBVIOUS
  <2> QED BY <1>2, <1>5, <2>1
<1>7. rc = Len(e[k])
  BY DEF e
<1>8. Fits(units) <=> Len(e[k + 1]) <= len
  BY <1>6, <1>7 DEF Fits
<1>9. n <= k /\ n \in 0..k+1
  OBVIOUS
<1>10. CASE n < k
  <2>1. n + 1 \in 0..Len(chars) /\ k + 1 \in n+1..Len(chars)
    BY <1>1, <1>2, <1>10
  <2>2. Heads(e[n + 1], e[k + 1])
    BY <1>1, <2>1, SumsGoOn
  <2>3. Len(e[n + 1]) <= Len(e[k + 1]) /\ Len(e[n + 1]) \in Nat
    BY <1>5, <2>1, <2>2 DEF Heads
  <2>4. ~Fits(units)
    <3>1. Len(e[n + 1]) > len
      BY <1>10
    <3>2. ~(Len(e[k + 1]) <= len)
      BY <1>13, <2>3, <3>1
    <3> QED BY <1>8, <3>2
  <2> QED BY <1>3, <1>9, <1>10, <2>4 DEF Wrote
<1>11. CASE n = k /\ Fits(units)
  <2>1. out' = e[k + 1] /\ Len(e[k + 1]) <= len
    <3>1. out' = out \o units /\ Len(e[k + 1]) <= len
      BY <1>8, <1>11
    <3> QED BY <1>4, <1>11, <3>1
  <2>2. k + 1 \in 0..k+1 /\ ~(k + 1 < k + 1)
    OBVIOUS
  <2> QED BY <1>3, <2>1, <2>2 DEF Wrote
<1>12. CASE n = k /\ ~Fits(units)
  <2>1. out' = e[n] /\ Len(out') <= len
    BY <1>12
  <2>2. Len(e[n + 1]) > len
    <3>1. ~(Len(e[k + 1]) <= len)
      BY <1>8, <1>12
    <3> QED BY <1>12, <1>13, <3>1
  <2> QED BY <1>3, <1>9, <2>1, <2>2 DEF Wrote
<1> QED BY <1>9, <1>10, <1>11, <1>12

LEMMA BeforeTheLast ==
  ASSUME UtfAssumption, OfCharacters, NEW k \in 0..Len(chars), k # Len(chars), CharactersDone(k), Convert
  PROVE  (CharactersDone(k)' \/ CharactersDone(k + 1)') /\ Rest
<1> DEFINE c == chars[k + 1]  e == Encoded(from, chars)  w == Encoded(to, chars)
           d == Decode(from, in, pos)  u == Encode(from, c)  v == Encode(to, c)
<1>1. /\ from \in Forms /\ to \in Forms /\ len \in Nat /\ chars \in Strings
      /\ in = e[Len(chars)] /\ \A i \in 1..Len(chars) : Encode(from, chars[i]) # <<>>
  BY DEF OfCharacters
<1>2. Spelled(from, chars) /\ Spelled(to, chars)
  BY <1>1, Spells
<1>3. Len(chars) \in Nat
  BY <1>2 DEF Spelled
<1>4. k \in Nat /\ k < Len(chars) /\ k + 1 \in 1..Len(chars)
  BY <1>3
<1>5. u # <<>>
  BY <1>1, <1>4
<1>6. /\ e[k] \in Seq(Nat) /\ u \in Seq(Nat) /\ Len(e[k + 1]) = Len(e[k]) + Len(u) /\ Len(u) > 0
      /\ Decode(from, e[Len(chars)], Len(e[k]) + 1) = Decoded(Len(u), c)
  BY <1>1, <1>2, <1>4, <1>5, NextCharacter
<1>7. pos = Len(e[k]) + 1 /\ rc = Len(w[k])
  BY DEF CharactersDone
<1>8. d = Decoded(Len(u), c)
  BY <1>1, <1>6, <1>7
<1>9. d.units = Len(u) /\ d.code = c
  BY <1>8 DEF Decoded
<1>10. c \in Nat /\ c > 0
  BY <1>2, <1>4 DEF Spelled, Character
<1>11. Rest /\ IsRound(d, v)
  BY <1>9, Rounds
<1>12. e' = e /\ w' = w
  BY <1>11 DEF Rest
<1>13. CASE v = <<>>
  <2>1. result' = -1 /\ UNCHANGED <<pos, rc, out>>
    BY <1>6, <1>9, <1>10, <1>11, <1>13 DEF IsRound
  <2> QED BY <1>4, <1>11, <1>13, <2>1 DEF CharactersDone, Rest
<1>14. CASE v # <<>>
  <2> HIDE DEF d, u, v
  <2>1. /\ pos' = pos + Len(u) /\ rc' = rc + Len(v) /\ result = Running /\ result' = result
        /\ out' = IF Fits(v) THEN out \o v ELSE out
    BY <1>6, <1>9, <1>10, <1>11, <1>14 DEF IsRound
  <2>2. Wrote(k)
    BY DEF CharactersDone, Wrote
  <2>3. Wrote(k + 1)'
    BY <1>1, <1>2, <1>4, <1>7, <1>11, <2>1, <2>2, WritesOneMore DEF Rest, v
  <2>4. w[k] \in Seq(Nat) /\ v \in Seq(Nat) /\ w[k + 1] = w[k] \o v
    <3>1. k \in 0..Len(chars) /\ k + 1 \in 1..Len(chars) /\ (k + 1) - 1 = k
      BY <1>4
    <3>2. Sums(w, to, chars, Len(chars)) /\ Fine(to, chars, Len(chars))
      BY <1>2 DEF Spelled
    <3>3. \A m \in 0..Len(chars) : w[m] \in Seq(Nat)
      BY <1>3, <3>2, SumsAreUnits
    <3> QED BY <3>1, <3>2, <3>3 DEF Sums, Fine, v
  <2>5. Len(w[k + 1]) = Len(w[k]) + Len(v)
    BY <2>4, HeadOfBoth
  <2>6. rc' = Len(w[k + 1])
    BY <1>7, <2>1, <2>5
  <2>7. pos' = Len(e[k + 1]) + 1
    <3>1. Len(e[k]) \in Nat /\ Len(u) \in Nat
      BY <1>6
    <3> QED BY <1>6, <1>7, <2>1, <3>1
  <2>8. \A i \in 1..k+1 : Encode(to, chars[i]) # <<>>
    <3>1. \A i \in 1..k : Encode(to, chars[i]) # <<>>
      BY DEF CharactersDone
    <3>2. \A i \in 1..k+1 : i \in 1..k \/ i = k + 1
      BY <1>4
    <3> QED BY <1>14, <3>1, <3>2 DEF v
  <2>9. from' = from /\ to' = to /\ chars' = chars /\ len' = len
    BY <1>11 DEF Rest
  <2>10. k + 1 \in 0..Len(chars')
    BY <1>4, <2>9
  <2> HIDE DEF e, w
  <2>11. pos' = Len(Encoded(from, chars)'[k + 1]) + 1 /\ rc' = Len(Encoded(to, chars)'[k + 1])
    BY <1>12, <2>6, <2>7 DEF e, w
  <2>12. \A i \in 1..k+1 : Encode(to', chars'[i]) # <<>>
    BY <2>8, <2>9
  <2>13. CharactersDone(k + 1)'
    BY <2>1, <2>3, <2>10, <2>11, <2>12 DEF CharactersDone, Wrote
  <2> QED BY <1>11, <2>13
<1> QED BY <1>13, <1>14

(* A round of bytes: an error, the end, or a code point of which the bytes *)
(* that are taken are the encoding.                                        *)
Took(d, b, i, n) ==
  /\ d.units = n /\ d.code \in Nat /\ d.code > 0
  /\ i + n - 1 <= Len(b) /\ encode_utf8(d.code) = SubSeq(b, i, i + n - 1)

BytesTaken(d, b, i) ==
  \/ d = Malformed
  \/ d.units > 0 /\ d.code = 0 /\ Unit(b, i) = 0
  \/ \E n \in 1..4 : Took(d, b, i, n)

(* A piece of a string, byte by byte.                                      *)
IsPiece(u, b, i, n) ==
  u \in Seq(Int) /\ Len(u) = n /\ i + n - 1 <= Len(b) /\ \A k \in 1..n : u[k] = b[i + k - 1]

LEMMA PieceTaken ==
  ASSUME NEW b \in Seq(Int), NEW i \in Nat, NEW n \in Nat, i >= 1, n >= 1, NEW u, IsPiece(u, b, i, n),
         NEW d, d.units = n, d.code \in Nat, d.code > 0, encode_utf8(d.code) = u
  PROVE  Took(d, b, i, n)
<1> DEFINE j == i + n - 1
<1>0. j \in Nat /\ j <= Len(b) /\ j = i + n - 1
  BY DEF IsPiece
<1> HIDE DEF j
<1>1. \A k \in i..j : b[k] \in Int
  <2> SUFFICES ASSUME NEW k \in i..j PROVE b[k] \in Int
    OBVIOUS
  <2>1. k \in 1..Len(b)
    BY <1>0
  <2> QED BY <2>1, ElementOfSeq
<1> DEFINE t == SubSeq(b, i, j)
<1>2. t \in Seq(Int) /\ Len(t) = (IF i <= j THEN j - i + 1 ELSE 0) /\ \A k \in 1..j-i+1 : t[k] = b[i + k - 1]
  BY <1>0, <1>1, SubSeqProperties
<1> HIDE DEF t
<1>3. i <= j /\ j - i + 1 = n
  BY <1>0
<1>4. Len(t) = n /\ \A k \in 1..n : t[k] = b[i + k - 1]
  BY <1>2, <1>3
<1>5. \A k \in 1..Len(u) : u[k] = t[k]
  BY <1>4 DEF IsPiece
<1>6. u = t
  BY <1>2, <1>4, <1>5, SeqEqual DEF IsPiece
<1> QED BY <1>0, <1>6 DEF t, Took

LEMMA BytesAre ==
  ASSUME NEW b \in Seq(0..255), NEW i \in 1..Len(b) + 1, NEW j \in Nat
  PROVE  Unit(b, i + j) \in 0..255 /\ (Unit(b, i + j) > 0 => i + j <= Len(b) /\ b[i + j] = Unit(b, i + j))
<1>1. CASE i + j <= Len(b)
  <2>1. i + j \in 1..Len(b)
    BY <1>1
  <2>2. b[i + j] \in 0..255
    BY <2>1, ElementOfSeq
  <2> QED BY <1>1, <2>2 DEF Unit
<1>2. CASE ~(i + j <= Len(b))
  BY <1>2 DEF Unit
<1> QED BY <1>1, <1>2

LEMMA Takes ==
  ASSUME NEW b \in Seq(0..255), NEW i \in 1..Len(b) + 1
  PROVE  BytesTaken(Decode(8, b, i), b, i)
<1> DEFINE b1 == Unit(b, i)  b2 == Unit(b, i + 1)  b3 == Unit(b, i + 2)  b4 == Unit(b, i + 3)
           d == decode_utf8(b1, b2, b3, b4)
<1>0. b \in Seq(Int) /\ i + 0 = i /\ i \in Nat /\ i >= 1 /\ Len(b) \in Nat
  <2>1. Len(b) \in Nat /\ b \in [1..Len(b) -> 0..255]
    BY LenProperties
  <2>2. \A k \in 1..Len(b) : b[k] \in Int
    <3>1. 0..255 \subseteq Int
      OBVIOUS
    <3> QED BY <2>1, <3>1
  <2>3. b \in [1..Len(b) -> Int]
    BY <2>1, <2>2
  <2> QED BY <2>1, <2>3
<1>1. /\ b1 \in 0..255 /\ (b1 > 0 => i <= Len(b) /\ b[i] = b1)
      /\ b2 \in 0..255 /\ (b2 > 0 => i + 1 <= Len(b) /\ b[i + 1] = b2)
      /\ b3 \in 0..255 /\ (b3 > 0 => i + 2 <= Len(b) /\ b[i + 2] = b3)
      /\ b4 \in 0..255 /\ (b4 > 0 => i + 3 <= Len(b) /\ b[i + 3] = b4)
  <2>1. Unit(b, i + 0) \in 0..255 /\ (Unit(b, i + 0) > 0 => i + 0 <= Len(b) /\ b[i + 0] = Unit(b, i + 0))
    BY BytesAre
  <2>2. Unit(b, i + 1) \in 0..255 /\ (Unit(b, i + 1) > 0 => i + 1 <= Len(b) /\ b[i + 1] = Unit(b, i + 1))
    BY BytesAre
  <2>3. Unit(b, i + 2) \in 0..255 /\ (Unit(b, i + 2) > 0 => i + 2 <= Len(b) /\ b[i + 2] = Unit(b, i + 2))
    BY BytesAre
  <2>4. Unit(b, i + 3) \in 0..255 /\ (Unit(b, i + 3) > 0 => i + 3 <= Len(b) /\ b[i + 3] = Unit(b, i + 3))
    BY BytesAre
  <2> QED BY <1>0, <2>1, <2>2, <2>3, <2>4
<1> HIDE DEF b1, b2, b3, b4
<1>2. Reads(d, b1, b2, b3, b4)
  BY <1>1, ReadsBytes
<1>3. Decode(8, b, i) = d
  BY DEF Decode, b1, b2, b3, b4
<1> HIDE DEF d
<1>4. CASE d = Malformed
  BY <1>3, <1>4 DEF BytesTaken
<1>5. CASE d = Decoded(1, b1) /\ b1 < 128
  <2>1. d.units = 1 /\ d.code = b1
    BY <1>5 DEF Decoded
  <2>2. CASE b1 = 0
    BY <1>3, <2>1, <2>2 DEF BytesTaken, b1
  <2>3. CASE b1 > 0
    <3>0. b1 \in Nat
      BY <1>1
    <3>1. encode_utf8(b1) = <<b1>>
      BY <1>5, <3>0, Units1
    <3>2. i <= Len(b) /\ b[i] = b1
      BY <1>1, <2>3
    <3>3. IsPiece(<<b1>>, b, i, 1)
      BY <1>0, <1>1, <3>2 DEF IsPiece
    <3>5. Took(d, b, i, 1)
      BY <1>0, <2>1, <2>3, <3>0, <3>1, <3>3, PieceTaken
    <3> QED BY <1>3, <3>5 DEF BytesTaken
  <2> QED BY <1>1, <2>2, <2>3
<1>6. CASE d.units = 2 /\ d.code \in Nat /\ b1 > 0 /\ Reads2(d, b1, b2)
  <2>1. d.code > 0 /\ b2 > 0 /\ encode_utf8(d.code) = <<b1, b2>>
    BY <1>6 DEF Reads2
  <2>2. i + 1 <= Len(b) /\ b[i] = b1 /\ b[i + 1] = b2
    BY <1>1, <1>6, <2>1
  <2> DEFINE u == <<b1, b2>>
  <2>3. u \in Seq(Int) /\ Len(u) = 2
    BY <1>1
  <2>4. \A k \in 1..2 : u[k] = b[i + k - 1]
    <3> SUFFICES ASSUME NEW k \in 1..2 PROVE u[k] = b[i + k - 1]
      OBVIOUS
    <3>1. i + 1 - 1 = i /\ i + 2 - 1 = i + 1
      BY <1>0
    <3>2. u[1] = b1 /\ u[2] = b2
      OBVIOUS
    <3> QED BY <2>2, <3>1, <3>2
  <2>5. i + 2 - 1 <= Len(b)
    BY <1>0, <2>2
  <2>6. IsPiece(u, b, i, 2)
    BY <2>3, <2>4, <2>5 DEF IsPiece
  <2>8. Took(d, b, i, 2)
    <3>1. d.units = 2 /\ d.code \in Nat
      BY <1>6
    <3> HIDE DEF u
    <3>2. encode_utf8(d.code) = u
      BY <2>1 DEF u
    <3> QED BY <1>0, <2>1, <2>6, <3>1, <3>2, PieceTaken
  <2> QED BY <1>3, <2>8 DEF BytesTaken
<1>7. CASE d.units = 3 /\ d.code \in Nat /\ b1 > 0 /\ Reads3(d, b1, b2, b3)
  <2>1. d.code > 0 /\ b2 > 0 /\ b3 > 0 /\ encode_utf8(d.code) = <<b1, b2, b3>>
    BY <1>7 DEF Reads3
  <2>2. i + 2 <= Len(b) /\ b[i] = b1 /\ b[i + 1] = b2 /\ b[i + 2] = b3
    BY <1>1, <1>7, <2>1
  <2> DEFINE u == <<b1, b2, b3>>
  <2>3. u \in Seq(Int) /\ Len(u) = 3
    BY <1>1
  <2>4. \A k \in 1..3 : u[k] = b[i + k - 1]
    <3> SUFFICES ASSUME NEW k \in 1..3 PROVE u[k] = b[i + k - 1]
      OBVIOUS
    <3>1. i + 1 - 1 = i /\ i + 2 - 1 = i + 1 /\ i + 3 - 1 = i + 2
      BY <1>0
    <3>2. u[1] = b1 /\ u[2] = b2 /\ u[3] = b3
      OBVIOUS
    <3> QED BY <2>2, <3>1, <3>2
  <2>5. i + 3 - 1 <= Len(b)
    BY <1>0, <2>2
  <2>6. IsPiece(u, b, i, 3)
    BY <2>3, <2>4, <2>5 DEF IsPiece
  <2>8. Took(d, b, i, 3)
    <3>1. d.units = 3 /\ d.code \in Nat
      BY <1>7
    <3> HIDE DEF u
    <3>2. encode_utf8(d.code) = u
      BY <2>1 DEF u
    <3> QED BY <1>0, <2>1, <2>6, <3>1, <3>2, PieceTaken
  <2> QED BY <1>3, <2>8 DEF BytesTaken
<1>8. CASE d.units = 4 /\ d.code \in Nat /\ b1 > 0 /\ Reads4(d, b1, b2, b3, b4)
  <2>1. d.code > 0 /\ b2 > 0 /\ b3 > 0 /\ b4 > 0 /\ encode_utf8(d.code) = <<b1, b2, b3, b4>>
    BY <1>8 DEF Reads4
  <2>2. i + 3 <= Len(b) /\ b[i] = b1 /\ b[i + 1] = b2 /\ b[i + 2] = b3 /\ b[i + 3] = b4
    BY <1>1, <1>8, <2>1
  <2> DEFINE u == <<b1, b2, b3, b4>>
  <2>3. u \in Seq(Int) /\ Len(u) = 4
    BY <1>1
  <2>4. \A k \in 1..4 : u[k] = b[i + k - 1]
    <3> SUFFICES ASSUME NEW k \in 1..4 PROVE u[k] = b[i + k - 1]
      OBVIOUS
    <3>1. i + 1 - 1 = i /\ i + 2 - 1 = i + 1 /\ i + 3 - 1 = i + 2 /\ i + 4 - 1 = i + 3
      BY <1>0
    <3>2. u[1] = b1 /\ u[2] = b2 /\ u[3] = b3 /\ u[4] = b4
      OBVIOUS
    <3> QED BY <2>2, <3>1, <3>2
  <2>5. i + 4 - 1 <= Len(b)
    BY <1>0, <2>2
  <2>6. IsPiece(u, b, i, 4)
    BY <2>3, <2>4, <2>5 DEF IsPiece
  <2>8. Took(d, b, i, 4)
    <3>1. d.units = 4 /\ d.code \in Nat
      BY <1>8
    <3> HIDE DEF u
    <3>2. encode_utf8(d.code) = u
      BY <2>1 DEF u
    <3> QED BY <1>0, <2>1, <2>6, <3>1, <3>2, PieceTaken
  <2> QED BY <1>3, <2>8 DEF BytesTaken
<1> QED BY <1>2, <1>4, <1>5, <1>6, <1>7, <1>8 DEF Reads

LEMMA OneCharacterMore ==
  ASSUME NEW s \in Seq(Nat), NEW c \in Nat
  PROVE  /\ s \o <<c>> \in Seq(Nat) /\ Len(s \o <<c>>) = Len(s) + 1
         /\ Encoded(8, s \o <<c>>)[Len(s) + 1] = Encoded(8, s)[Len(s)] \o encode_utf8(c)
<1> DEFINE t == s \o <<c>>  m == Len(s)  e == Encoded(8, s)  f == Encoded(8, t)
<1>1. t \in Seq(Nat) /\ Len(t) = m + 1 /\ m \in Nat /\ t[m + 1] = c /\ \A n \in 1..m : t[n] = s[n]
  OBVIOUS
<1> HIDE DEF t
<1>2. Sums(e, 8, s, m) /\ Sums(f, 8, t, m + 1)
  BY <1>1, EncodedSums
<1> HIDE DEF e, f
<1>3. Sums(f, 8, t, m)
  <2>1. \A n \in 1..m : n \in 1..m+1
    BY <1>1
  <2> QED BY <1>2, <2>1 DEF Sums
<1>4. SameStart(t, s, m)
  BY <1>1 DEF SameStart
<1>5. f[m] = e[m]
  BY <1>1, <1>2, <1>3, <1>4, SumsAgree
<1>6. m + 1 \in 1..m+1 /\ (m + 1) - 1 = m
  BY <1>1
<1>7. f[m + 1] = f[m] \o Encode(8, t[m + 1])
  BY <1>2, <1>6 DEF Sums
<1>8. f[m + 1] = e[m] \o encode_utf8(c)
  BY <1>1, <1>5, <1>7 DEF Encode
<1> QED BY <1>1, <1>8 DEF e, f, t

LEMMA OneAfterAnother ==
  ASSUME NEW b \in Seq(0..255), NEW i \in 1..Len(b), NEW j \in i..Len(b)
  PROVE  SubSeq(b, 1, i - 1) \o SubSeq(b, i, j) = SubSeq(b, 1, j)
OBVIOUS

LEMMA BytesStep ==
  ASSUME OfBytes, Convert
  PROVE  OfBytes' /\ Rest
<1> DEFINE d == Decode(8, in, pos)
<1>1. /\ from = 8 /\ to = 32 /\ in \in Seq(0..255) /\ len = Len(in)
      /\ pos \in 1..Len(in) + 1 /\ out \in Seq(Nat) /\ rc = Len(out) /\ rc <= pos - 1
      /\ Encoded(8, out)[Len(out)] = SubSeq(in, 1, pos - 1)
  BY DEF OfBytes
<1>2. BytesTaken(d, in, pos)
  BY <1>1, Takes
<1> PICK c : c = d.code
  OBVIOUS
<1>3. Encode(to, c) = <<c>>
  BY <1>1 DEF Encode
<1>4. Rest /\ IsRound(d, <<c>>)
  BY <1>1, <1>3, Rounds
<1> HIDE DEF d
<1>5. /\ from' = 8 /\ to' = 32 /\ in' = in /\ in' \in Seq(0..255) /\ len' = Len(in')
  BY <1>1, <1>4 DEF Rest
<1>6. CASE d = Malformed
  <2>1. d.units = 0
    BY <1>6 DEF Malformed, Decoded
  <2>2. result' = -1 /\ UNCHANGED <<pos, rc, out>>
    BY <1>4, <2>1 DEF IsRound
  <2>3. Decode(8, in', pos') = Malformed
    BY <1>5, <1>6, <2>2 DEF d
  <2> QED BY <1>1, <1>4, <1>5, <2>2, <2>3 DEF OfBytes
<1>7. CASE d.units > 0 /\ d.code = 0 /\ Unit(in, pos) = 0
  <2>1. result' = rc /\ UNCHANGED <<pos, rc, out>>
    BY <1>4, <1>7 DEF IsRound
  <2>2. Unit(in', pos') = 0
    BY <1>5, <1>7, <2>1
  <2> QED BY <1>1, <1>4, <1>5, <2>1, <2>2 DEF OfBytes
<1>8. ASSUME NEW n \in 1..4, Took(d, in, pos, n) PROVE OfBytes' /\ Rest
  <2>1. /\ d.units = n /\ d.code = c /\ c \in Nat /\ c > 0
        /\ pos + n - 1 <= Len(in) /\ encode_utf8(c) = SubSeq(in, pos, pos + n - 1)
    BY <1>8 DEF Took
  <2>2. <<c>> # <<>> /\ Len(<<c>>) = 1
    OBVIOUS
  <2>3. /\ result = Running /\ result' = Running
        /\ pos' = pos + n /\ rc' = rc + 1
        /\ out' = IF Fits(<<c>>) THEN out \o <<c>> ELSE out
    BY <1>4, <2>1, <2>2 DEF IsRound
  <2> PICK l \in Nat : l = Len(in)
    BY <1>1
  <2>4. Len(in) \in Nat /\ pos \in 1..Len(in) /\ pos + n - 1 \in pos..Len(in)
    <3>1. pos \in 1..l + 1 /\ pos + n - 1 <= l
      BY <1>1, <2>1
    <3>2. pos \in 1..l /\ pos + n - 1 \in pos..l
      BY <3>1
    <3> QED BY <3>2
  <2>5. Fits(<<c>>)
    <3>1. rc + 1 <= len
      BY <1>1, <2>4
    <3> QED BY <2>2, <3>1 DEF Fits
  <2>6. out' = out \o <<c>>
    BY <2>3, <2>5
  <2>7. /\ out' \in Seq(Nat) /\ Len(out') = Len(out) + 1
        /\ Encoded(8, out')[Len(out) + 1] = Encoded(8, out)[Len(out)] \o encode_utf8(c)
    BY <1>1, <2>1, <2>6, OneCharacterMore
  <2>8. SubSeq(in, 1, pos - 1) \o SubSeq(in, pos, pos + n - 1) = SubSeq(in, 1, pos + n - 1)
    BY <1>1, <2>4, OneAfterAnother
  <2>9. Encoded(8, out')[Len(out')] = SubSeq(in', 1, pos' - 1)
    <3>1. Encoded(8, out')[Len(out')] = SubSeq(in, 1, pos + n - 1)
      BY <1>1, <2>1, <2>7, <2>8
    <3>2. pos' - 1 = pos + n - 1
      BY <2>3, <2>4
    <3> QED BY <1>5, <3>1, <3>2
  <2>10. pos' \in 1..Len(in') + 1 /\ rc' = Len(out') /\ rc' <= pos' - 1
    <3>1. pos + n \in 1..l + 1
      BY <2>4
    <3>2. rc + 1 = Len(out) + 1 /\ rc + 1 <= pos + n - 1
      BY <1>1, <2>4
    <3>3. pos' \in 1..Len(in') + 1
      BY <1>5, <2>3, <3>1
    <3>4. rc' = Len(out')
      BY <2>3, <2>7, <3>2
    <3>5. rc' <= pos' - 1
      BY <1>1, <2>3, <2>4, <3>2
    <3> QED BY <3>3, <3>4, <3>5
  <2> QED BY <1>4, <1>5, <2>3, <2>7, <2>9, <2>10 DEF OfBytes
<1> QED BY <1>2, <1>6, <1>7, <1>8 DEF BytesTaken

-----------------------------------------------------------------------------
(* Every round keeps the invariant, and what is asked for follows of it.   *)
LEMMA IInvStep ==
  ASSUME UtfAssumption, IInv, [Next]_vars
  PROVE  IInv'
<1>1. CASE UNCHANGED vars
  BY <1>1 DEF vars, IInv, OfCharacters, CharactersDone, OfBytes
<1>2. CASE Convert /\ chars # <<>>
  <2>1. OfCharacters
    BY <1>2 DEF IInv
  <2> PICK k \in 0..Len(chars) : CharactersDone(k)
    BY <2>1 DEF OfCharacters
  <2>2. Len(chars) \in Nat
    <3>1. chars \in Strings
      BY <2>1 DEF OfCharacters
    <3> QED BY <3>1 DEF UtfAssumption
  <2>3. Rest /\ \E l \in 0..Len(chars) : CharactersDone(l)'
    <3>1. CASE k = Len(chars)
      <4>1. CharactersDone(Len(chars))' /\ Rest
        BY <1>2, <2>1, <3>1, AtTheLast
      <4>2. chars' = chars
        BY <4>1 DEF Rest
      <4> QED BY <3>1, <4>1, <4>2
    <3>2. CASE k # Len(chars)
      <4>1. (CharactersDone(k)' \/ CharactersDone(k + 1)') /\ Rest
        BY <1>2, <2>1, <3>2, BeforeTheLast
      <4>2. k + 1 \in 0..Len(chars)
        BY <2>2, <3>2
      <4> QED BY <4>1, <4>2
    <3> QED BY <3>1, <3>2
  <2>4. OfCharacters'
    BY <2>1, <2>3 DEF OfCharacters, Rest
  <2>5. chars' # <<>>
    BY <1>2, <2>3 DEF Rest
  <2> QED BY <2>4, <2>5 DEF IInv
<1>3. CASE Convert /\ chars = <<>>
  <2>1. OfBytes
    BY <1>3 DEF IInv
  <2>2. OfBytes' /\ Rest
    BY <1>3, <2>1, BytesStep
  <2>3. chars' = <<>>
    BY <1>3, <2>2 DEF Rest
  <2> QED BY <2>2, <2>3 DEF IInv
<1> QED BY <1>1, <1>2, <1>3 DEF Next

LEMMA CountsAreRight ==
  ASSUME UtfAssumption, IInv
  PROVE  CountsAndTruncates
<1> DEFINE whole == Encoded(to, chars)  l == Len(chars)
<1> SUFFICES ASSUME result # Running, chars # <<>>
             PROVE  IF \E i \in 1..l : Encode(to, chars[i]) = <<>>
                    THEN result = -1
                    ELSE /\ result = Len(whole[l])
                         /\ \E n \in 0..l :
                              /\ out = whole[n] /\ Len(out) <= len
                              /\ n < l => Len(whole[n + 1]) > len
  BY DEF CountsAndTruncates
<1>1. OfCharacters
  BY DEF IInv
<1> PICK k \in 0..l : CharactersDone(k)
  BY <1>1 DEF OfCharacters
<1>2. /\ rc = Len(whole[k]) /\ \A i \in 1..k : Encode(to, chars[i]) # <<>>
      /\ \E n \in 0..k :
           /\ out = whole[n] /\ Len(out) <= len
           /\ n < k => Len(whole[n + 1]) > len
      /\ \/ result = rc /\ k = l
         \/ result = -1 /\ k < l /\ Encode(to, chars[k + 1]) = <<>>
  BY DEF CharactersDone
<1>3. l \in Nat
  <2>1. chars \in Strings
    BY <1>1 DEF OfCharacters
  <2> QED BY <2>1 DEF UtfAssumption
<1> HIDE DEF whole, l
<1>4. CASE result = rc /\ k = l
  <2>1. ~ \E i \in 1..l : Encode(to, chars[i]) = <<>>
    BY <1>2, <1>4
  <2> QED BY <1>2, <1>4, <2>1
<1>5. CASE result = -1 /\ k < l /\ Encode(to, chars[k + 1]) = <<>>
  <2>1. k + 1 \in 1..l
    BY <1>3, <1>5
  <2> QED BY <1>5, <2>1
<1> QED BY <1>2, <1>4, <1>5

LEMMA DecodingIsRight ==
  ASSUME UtfAssumption, IInv
  PROVE  DecodesOnlyEncodings
<1> SUFFICES ASSUME result # Running, chars = <<>>
             PROVE  /\ Encoded(8, out)[Len(out)] = SubSeq(in, 1, pos - 1)
                    /\ result = -1 =>
                         \A c \in CodePoints :
                           LET u == encode_utf8(c)
                           IN  u # <<>> /\ pos + Len(u) - 1 <= Len(in) =>
                                 \E i \in 1..Len(u) : in[pos + i - 1] # u[i]
                    /\ result >= 0 => pos > Len(in) \/ in[pos] = 0
  BY DEF DecodesOnlyEncodings
<1>1. OfBytes
  BY DEF IInv
<1>2. /\ in \in Seq(0..255) /\ pos \in 1..Len(in) + 1 /\ out \in Seq(Nat) /\ rc = Len(out)
      /\ Encoded(8, out)[Len(out)] = SubSeq(in, 1, pos - 1)
      /\ \/ result = rc /\ Unit(in, pos) = 0
         \/ result = -1 /\ Decode(8, in, pos) = Malformed
  BY <1>1 DEF OfBytes
<1>3. rc \in Nat
  BY <1>2
<1>4. ASSUME result = -1, NEW c \in CodePoints, NEW u, u = encode_utf8(c), u # <<>>,
             pos + Len(u) - 1 <= Len(in), \A i \in 1..Len(u) : in[pos + i - 1] = u[i]
      PROVE  FALSE
  <2>1. Decode(8, in, pos) = Malformed
    BY <1>2, <1>3, <1>4
  <2>2. Understood(8, c) /\ Encode(8, c) = u
    BY <1>4, CodePointsAre, Understands DEF Forms, Encode
  <2>3. u \in Seq(Nat) /\ Len(u) > 0 /\ Found(8, u, c)
    BY <1>4, <2>2 DEF Understood, Nonzero
  <2>4. Starts(in, pos, u)
    <3> SUFFICES ASSUME NEW i \in 1..Len(u) PROVE Unit(in, pos + i - 1) = u[i]
      BY DEF Starts
    <3>1. pos + i - 1 <= Len(in)
      BY <1>2, <1>4, <2>3
    <3> QED BY <1>4, <3>1 DEF Unit
  <2>5. pos \in Nat
    BY <1>2
  <2>6. Decode(8, in, pos) = Decoded(Len(u), c)
    BY <2>3, <2>4, <2>5 DEF Found
  <2>7. Decoded(Len(u), c).units = Len(u) /\ Malformed.units = 0
    BY DEF Decoded, Malformed
  <2> QED BY <2>1, <2>3, <2>6, <2>7
<1>5. result >= 0 => pos > Len(in) \/ in[pos] = 0
  BY <1>2, <1>3 DEF Unit
<1>6. result = -1 =>
        \A c \in CodePoints :
          LET u == encode_utf8(c)
          IN  u # <<>> /\ pos + Len(u) - 1 <= Len(in) => \E i \in 1..Len(u) : in[pos + i - 1] # u[i]
  <2> SUFFICES ASSUME result = -1, NEW c \in CodePoints, NEW u, u = encode_utf8(c), u # <<>>,
                      pos + Len(u) - 1 <= Len(in)
               PROVE  \E i \in 1..Len(u) : in[pos + i - 1] # u[i]
    OBVIOUS
  <2> QED BY <1>4
<1> QED BY <1>2, <1>5, <1>6

(* Whatever is converted, from any form to any other: in each state the    *)
(* loop has read whole characters and written those that fit, or has read  *)
(* the encodings of what it wrote.                                         *)
THEOREM Invariant == ASSUME UtfAssumption PROVE Spec => []IInv
<1>1. Init => IInv
  BY IInvInit
<1>2. IInv /\ [Next]_vars => IInv'
  BY IInvStep
<1> QED BY <1>1, <1>2, PTL DEF Spec

(* What utf.h promises of the six conversions, and that bytes are accepted *)
(* exactly if they are encodings in the shortest form.                     *)
THEOREM Exact == ASSUME UtfAssumption PROVE Spec => []ConversionsExact
<1>1. IInv => ConversionsExact
  BY CountsAreRight, DecodingIsRight DEF ConversionsExact
<1> QED BY <1>1, Invariant, PTL
=============================================================================
