-------------------------------- MODULE Chars --------------------------------
(***************************************************************************)
(* Text as the code sees it: a sequence of Unicode code points (below      *)
(* U+10000, where JavaScript's code units and code points are the same);   *)
(* bytes are the numbers 0..255.  The conversions at the end stand for     *)
(* Node's Buffer and TextDecoder.                                          *)
(***************************************************************************)
EXTENDS Integers, SequencesExt

\* Text("ab") is the text of a literal: printable ASCII except the backquote.
Low == " !\"#$%&'()*+,-./0123456789:;<=>?@ABCDEFGHIJKLMNOPQRSTUVWXYZ[\\]^_"
High == "abcdefghijklmnopqrstuvwxyz{|}~"
CharsOf(string) == {SubSeq(string, k, k) : k \in 1..Len(string)}
Code == [c \in CharsOf(Low) \cup CharsOf(High) |->
  LET string == IF c \in CharsOf(Low) THEN Low ELSE High
      start == IF c \in CharsOf(Low) THEN 31 ELSE 96
  IN start + CHOOSE k \in 1..Len(string) : SubSeq(string, k, k) = c]
Text(string) == [k \in 1..Len(string) |-> Code[SubSeq(string, k, k)]]

TAB == 9
LF == 10
CR == 13
SP == 32
CRLF == <<CR, LF>>
Blank == {SP, TAB}
Space == (9..13) \cup {SP, 160, 65279}       \* what trim() removes
Digits == 48..57
Uppers == 65..90
Lowers == 97..122
Alnum == Digits \cup Uppers \cup Lowers

Undefined == <<-1>>                        \* no text

CodeAt(s, k) == IF k \in DOMAIN s THEN s[k] ELSE -1
From(s, k) == SubSeq(s, k, Len(s))         \* slice(k - 1)
Lower(s) == [k \in DOMAIN s |-> IF s[k] \in Uppers THEN s[k] + 32 ELSE s[k]]
Upper(s) == [k \in DOMAIN s |-> IF s[k] \in Lowers THEN s[k] - 32 ELSE s[k]]
IsAscii(s) == \A k \in DOMAIN s : s[k] < 128
Has(s, set) == \E k \in DOMAIN s : s[k] \in set
Only(s, set) == \A k \in DOMAIN s : s[k] \in set
OccursAt(s, p, k) == k > 0 /\ k + Len(p) - 1 <= Len(s) /\ SubSeq(s, k, k + Len(p) - 1) = p

\* The texts one after the other; by halves, for a long sequence of them.
Concat(texts) ==
  LET RECURSIVE Between(_, _)
      Between(i, j) ==
        CASE i > j -> <<>>
          [] i = j -> texts[i]
          [] OTHER -> LET half == (i + j) \div 2 IN Between(i, half) \o Between(half + 1, j)
  IN Between(1, Len(texts))

\* The first place of p in s at k or after it, 0 if there is none.
Find(s, p, k) ==
  LET places == {i \in k..(Len(s) - Len(p) + 1) : OccursAt(s, p, i)}
  IN IF places = {} THEN 0 ELSE CHOOSE i \in places : \A j \in places : i <= j
LastPlace(s, c) ==
  LET places == {i \in DOMAIN s : s[i] = c}
  IN IF places = {} THEN 0 ELSE CHOOSE i \in places : \A j \in places : j <= i

\* s without what it starts and ends with in set.
TrimLeft(s, set) ==
  LET kept == {k \in DOMAIN s : s[k] \notin set}
  IN IF kept = {} THEN <<>> ELSE From(s, CHOOSE k \in kept : \A j \in kept : k <= j)
TrimRight(s, set) ==
  LET kept == {k \in DOMAIN s : s[k] \notin set}
  IN IF kept = {} THEN <<>> ELSE SubSeq(s, 1, CHOOSE k \in kept : \A j \in kept : k >= j)
Trim(s, set) == TrimLeft(TrimRight(s, set), set)

\* split() and join() on one character or text.
Split(s, p) ==
  LET RECURSIVE Pieces(_)
      Pieces(k) == LET i == Find(s, p, k) IN
        IF i = 0 THEN <<From(s, k)>>
        ELSE <<SubSeq(s, k, i - 1)>> \o Pieces(i + Len(p))
  IN Pieces(1)
Join(pieces, p) ==
  Concat([k \in DOMAIN pieces |-> IF k = 1 THEN pieces[1] ELSE p \o pieces[k]])
-----------------------------------------------------------------------------
(* Hexadecimal, UTF-8 and Base64                                            *)
HexDigit(n) == IF n < 10 THEN 48 + n ELSE 55 + n
HexPair(b) == <<HexDigit(b \div 16), HexDigit(b % 16)>>
HexValue(c) ==
  CASE c \in Digits -> c - 48 [] c \in 65..70 -> c - 55 [] c \in 97..102 -> c - 87 [] OTHER -> -1
IsHex(c) == HexValue(c) >= 0
HexByte(s, k) == 16 * HexValue(s[k]) + HexValue(s[k + 1])
IsHexPair(s, k) == IsHex(CodeAt(s, k)) /\ IsHex(CodeAt(s, k + 1))

Utf8Of(c) ==
  CASE c < 128 -> <<c>>
    [] c \in 128..2047 -> <<192 + (c \div 64), 128 + (c % 64)>>
    [] OTHER -> <<224 + (c \div 4096), 128 + ((c \div 64) % 64), 128 + (c % 64)>>
Utf8(s) == Concat([k \in DOMAIN s |-> Utf8Of(s[k])])

\* A malformed byte becomes U+FFFD.
FromUtf8(b) ==
  LET Trails(k) == CodeAt(b, k) \in 128..191
      RECURSIVE Chars(_)
      Chars(k) ==
        CASE k > Len(b) -> <<>>
          [] b[k] < 128 -> <<b[k]>> \o Chars(k + 1)
          [] b[k] \in 194..223 /\ Trails(k + 1) ->
               <<64 * (b[k] - 192) + b[k + 1] - 128>> \o Chars(k + 2)
          [] b[k] \in 224..239 /\ Trails(k + 1) /\ Trails(k + 2) /\ (b[k] = 224 => b[k + 1] >= 160) ->
               <<4096 * (b[k] - 224) + 64 * (b[k + 1] - 128) + b[k + 2] - 128>> \o Chars(k + 3)
          [] OTHER -> <<65533>> \o Chars(k + 1)
  IN Chars(1)
IsUtf8(b) == Utf8(FromUtf8(b)) = b

Sextets == Text("ABCDEFGHIJKLMNOPQRSTUVWXYZabcdefghijklmnopqrstuvwxyz0123456789+/")
SextetOf == [c \in {Sextets[k] : k \in 1..64} |-> (CHOOSE k \in 1..64 : Sextets[k] = c) - 1]
Pad == 61

Base64(b) ==
  LET Byte(k) == IF k <= Len(b) THEN b[k] ELSE 0
      Group(g) ==
        LET x == Byte(3 * g - 2) y == Byte(3 * g - 1) z == Byte(3 * g) IN
        << Sextets[(x \div 4) + 1], Sextets[16 * (x % 4) + (y \div 16) + 1],
           IF 3 * g - 1 <= Len(b) THEN Sextets[4 * (y % 16) + (z \div 64) + 1] ELSE Pad,
           IF 3 * g <= Len(b) THEN Sextets[(z % 64) + 1] ELSE Pad >>
  IN Concat([g \in 1..((Len(b) + 2) \div 3) |-> Group(g)])

\* Up to the first padding, what is no Base64 character skipped.
FromBase64(s) ==
  LET end == IF Has(s, {Pad}) THEN Find(s, <<Pad>>, 1) - 1 ELSE Len(s)
      kept == SelectSeq(SubSeq(s, 1, end), LAMBDA c : c \in DOMAIN SextetOf)
      v == [k \in DOMAIN kept |-> SextetOf[kept[k]]]
      Byte(k) == LET j == 4 * (k \div 3) + (k % 3) + 1 IN
                 ((64 * v[j] + v[j + 1]) \div 4^(2 - (k % 3))) % 256
  IN [k \in 1..((6 * Len(kept)) \div 8) |-> Byte(k - 1)]
=============================================================================
