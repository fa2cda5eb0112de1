-------------------------------- MODULE Utf ---------------------------------
(***************************************************************************)
(* The conversions between UTF-8, UTF-16 and UTF-32 (runtime/util/utf).    *)
(* A decoder takes the next code point from a string of code units, an     *)
(* encoder makes code units of one; the six conversions are the same loop  *)
(* with another pair of them.                                              *)
(***************************************************************************)
EXTENDS Integers, Sequences

CONSTANTS
  CodePoints,  \* what strings are made of, without 0
  Strings,     \* the strings of code points that are converted
  Fragments,   \* the strings of bytes, which may be malformed
  MaxLen       \* the largest output length

(* Surrogates are no characters: UTF-16 has no form for them. *)
UtfAssumption ==
  /\ CodePoints \subseteq Nat \ {0} /\ CodePoints \cap 55296..57343 = {}
  /\ Strings \subseteq Seq(CodePoints) \ {<<>>} /\ Fragments \subseteq Seq(0..255)
  /\ MaxLen \in Nat

-----------------------------------------------------------------------------
(* The decoders answer how many units they consumed, 0 for an error, and    *)
(* the code point.  Strings end with a 0, and they stop there.              *)
Unit(s, i) == IF i <= Len(s) THEN s[i] ELSE 0
Decoded(units, code) == [units |-> units, code |-> code]
Malformed == Decoded(0, 0)
Continues(b) == b >= 128 /\ b < 192     \* 10xxxxxx

Decoded2(b1, b2) ==
  IF Continues(b2) THEN Decoded(2, b1 * 64 + b2 - 12416) ELSE Malformed

Decoded3(b1, b2, b3) ==
  IF Continues(b2) /\ ~(b1 = 224 /\ b2 < 160) /\ Continues(b3)
  THEN Decoded(3, b1 * 4096 + b2 * 64 + b3 - 925824) ELSE Malformed

(* Mutant: an overlong four-byte form is accepted. *)
BadDecoded4(b1, b2, b3, b4) ==
  IF Continues(b2) /\ ~(b1 = 244 /\ b2 >= 144) /\ Continues(b3) /\ Continues(b4)
  THEN Decoded(4, b1 * 262144 + b2 * 4096 + b3 * 64 + b4 - 63447168) ELSE Malformed

Decoded4(b1, b2, b3, b4) ==
  IF Continues(b2) /\ ~(b1 = 240 /\ b2 < 144) /\ ~(b1 = 244 /\ b2 >= 144)
       /\ Continues(b3) /\ Continues(b4)
  THEN Decoded(4, b1 * 262144 + b2 * 4096 + b3 * 64 + b4 - 63447168) ELSE Malformed

decode_utf8(b1, b2, b3, b4) ==
  CASE b1 < 128 -> Decoded(1, b1)
    [] b1 >= 194 /\ b1 < 224 -> Decoded2(b1, b2)
    [] b1 >= 224 /\ b1 < 240 -> Decoded3(b1, b2, b3)
    [] b1 >= 240 /\ b1 < 245 -> Decoded4(b1, b2, b3, b4)
    [] OTHER -> Malformed

HighSurrogate(u) == u >= 55296 /\ u < 56320
LowSurrogate(u) == u >= 56320 /\ u < 57344

decode_utf16(u1, u2) ==
  IF ~HighSurrogate(u1) THEN Decoded(1, u1)
  ELSE IF LowSurrogate(u2) THEN Decoded(2, u1 * 1024 + u2 - 56613888)
  ELSE Malformed

(* The encoders answer the units, none for an error. *)
Low6(c) == (c % 64) + 128
encode_utf8(c) ==
  CASE c < 128 -> <<c>>
    [] c >= 128 /\ c < 2048 -> <<c \div 64 + 192, Low6(c)>>
    [] c >= 2048 /\ c < 65536 -> <<c \div 4096 + 224, Low6(c \div 64), Low6(c)>>
    [] c >= 65536 /\ c < 1114112 ->
         <<c \div 262144 + 240, Low6(c \div 4096), Low6(c \div 64), Low6(c)>>
    [] OTHER -> <<>>

encode_utf16(c) ==
  CASE c < 65536 -> <<c>>
    [] c >= 65536 /\ c < 1114112 -> <<c \div 1024 + 55232, (c % 1024) + 56320>>
    [] OTHER -> <<>>

Forms == {8, 16, 32}

Decode(form, s, i) ==
  CASE form = 8 -> decode_utf8(Unit(s, i), Unit(s, i + 1), Unit(s, i + 2), Unit(s, i + 3))
    [] form = 16 -> decode_utf16(Unit(s, i), Unit(s, i + 1))
    [] form = 32 -> Decoded(1, Unit(s, i))

Encode(form, c) ==
  CASE form = 8 -> encode_utf8(c) [] form = 16 -> encode_utf16(c) [] form = 32 -> <<c>>

-----------------------------------------------------------------------------
VARIABLES
  from, to,  \* the two forms
  in, len,   \* the input, without its final 0, and the room at out
  chars,     \* history: the code points the input was made of, if it was
  pos, rc,   \* where the loop is, units so far
  out,       \* what was written
  result     \* what is returned, once it is: the units, or -1

vars == <<from, to, in, len, chars, pos, rc, out, result>>

Running == -2

(* The units of the first n characters, for every n. *)
Encoded(form, s) ==
  LET units[n \in 0..Len(s)] == IF n = 0 THEN <<>> ELSE units[n - 1] \o Encode(form, s[n])
  IN  units

(* A string of characters that this form has, or bytes of which the first 0 *)
(* ends the string; there is room for what they may give.                   *)
Init ==
  /\ pos = 1 /\ rc = 0 /\ out = <<>> /\ result = Running
  /\ \/ /\ from \in Forms /\ to \in Forms \ {from} /\ len \in 0..MaxLen
        /\ chars \in Strings /\ \A i \in 1..Len(chars) : Encode(from, chars[i]) # <<>>
        /\ in = Encoded(from, chars)[Len(chars)]
     \/ /\ from = 8 /\ to = 32 /\ in \in Fragments /\ len = Len(in)
        /\ chars = <<>>

Fits(units) == rc + Len(units) <= len

(* One round of the loop: a code point that does not fit is counted all the *)
(* same.                                                                    *)
Convert ==
  LET d == Decode(from, in, pos)
      units == Encode(to, d.code)
  IN  /\ result = Running
      /\ \/ d.units = 0 /\ result' = -1 /\ UNCHANGED <<pos, rc, out>>
         \/ d.units > 0 /\ d.code = 0 /\ result' = rc /\ UNCHANGED <<pos, rc, out>>
         \/ d.units > 0 /\ d.code > 0 /\ units = <<>> /\ result' = -1 /\ UNCHANGED <<pos, rc, out>>
         \/ /\ d.units > 0 /\ d.code > 0 /\ units # <<>>
            /\ pos' = pos + d.units
            /\ out' = IF Fits(units) THEN out \o units ELSE out
            /\ rc' = rc + Len(units)
            /\ UNCHANGED result
      /\ UNCHANGED <<from, to, in, len, chars>>

Next == Convert
Spec == Init /\ [][Next]_vars

-----------------------------------------------------------------------------
TypeOK ==
  /\ from \in Forms /\ to \in Forms \ {from} /\ pos \in 1..Len(in) + 1
  /\ rc \in Nat /\ Len(out) <= len /\ result \in Int

(* "Fills the output buffer up to len code units.  Returns the number of    *)
(* code units that the input would produce" (utf.h): of a string of         *)
(* characters, what is written are its first characters, whole, as many as  *)
(* fit; a string that cannot be encoded is an error.                        *)
CountsAndTruncates ==
  result # Running /\ chars # <<>> =>
    LET whole == Encoded(to, chars)
    IN  IF \E i \in 1..Len(chars) : Encode(to, chars[i]) = <<>>
        THEN result = -1
        ELSE /\ result = Len(whole[Len(chars)])
             /\ \E n \in 0..Len(chars) :
                  /\ out = whole[n] /\ Len(out) <= len
                  /\ n < Len(chars) => Len(whole[n + 1]) > len

(* Bytes are accepted exactly if they are the encodings of code points, in  *)
(* the shortest form: what comes out encodes to what went in, and where the *)
(* decoder stops no character begins.                                       *)
DecodesOnlyEncodings ==
  result # Running /\ chars = <<>> =>
    /\ Encoded(8, out)[Len(out)] = SubSeq(in, 1, pos - 1)
    /\ result = -1 =>
         \A c \in CodePoints :
           LET u == encode_utf8(c)
           IN  u # <<>> /\ pos + Len(u) - 1 <= Len(in) => \E i \in 1..Len(u) : in[pos + i - 1] # u[i]
    /\ result >= 0 => pos > Len(in) \/ in[pos] = 0

(* Both, of every conversion. *)
ConversionsExact == CountsAndTruncates /\ DecodesOnlyEncodings

-----------------------------------------------------------------------------
(* What the loop has done, from which both follow.                         *)

(* Of a string of characters, k have been read and those that fit written; *)
(* only the next one can be an error, only after the last one is the end.  *)
CharactersDone(k) ==
  LET whole == Encoded(to, chars)
  IN  /\ k \in 0..Len(chars)
      /\ pos = Len(Encoded(from, chars)[k]) + 1 /\ rc = Len(whole[k])
      /\ \A i \in 1..k : Encode(to, chars[i]) # <<>>
      /\ \E n \in 0..k :
           /\ out = whole[n] /\ Len(out) <= len
           /\ n < k => Len(whole[n + 1]) > len
      /\ \/ result = Running
         \/ result = rc /\ k = Len(chars)
         \/ result = -1 /\ k < Len(chars) /\ Encode(to, chars[k + 1]) = <<>>

OfCharacters ==
  /\ from \in Forms /\ to \in Forms /\ len \in Nat
  /\ chars \in Strings /\ \A i \in 1..Len(chars) : Encode(from, chars[i]) # <<>>
  /\ in = Encoded(from, chars)[Len(chars)]
  /\ \E k \in 0..Len(chars) : CharactersDone(k)

(* Of bytes, those before pos are the encoding of what was written.        *)
OfBytes ==
  /\ from = 8 /\ to = 32 /\ in \in Seq(0..255) /\ len = Len(in)
  /\ pos \in 1..Len(in) + 1 /\ out \in Seq(Nat) /\ rc = Len(out) /\ rc <= pos - 1
  /\ Encoded(8, out)[Len(out)] = SubSeq(in, 1, pos - 1)
  /\ \/ result = Running
     \/ result = rc /\ Unit(in, pos) = 0
     \/ result = -1 /\ Decode(8, in, pos) = Malformed

IInv == IF chars # <<>> THEN OfCharacters ELSE OfBytes
=============================================================================
