------------------------------- MODULE Domains -------------------------------
(***************************************************************************)
(* Domain names and address literals: toAsciiDomain() with Punycode        *)
(* (internal/idna.ts), normalizeDomain() and normalizeDomainLiteral()      *)
(* (internal/domain.ts).  Undefined stands for a rejected domain; why it   *)
(* is rejected no caller looks at.  The tables of Unicode are the          *)
(* platform's, here for the few characters considered.                     *)
(***************************************************************************)
EXTENDS Chars

Hyphen == 45
Dot == 46
Colon == 58

CombiningMarks == 768..879
\* Categories Cc, Cf, Cs, Co, Cn and Z, and the replacement characters.
Disallowed == (0..32) \cup (127..160) \cup {173, 8203, 8204, 8205, 65279, 65532, 65533}
              \cup (55296..63743)
Ignorable == {173, 847, 8203, 65279} \cup (6155..6157) \cup (8288..8292) \cup (65024..65039)
Separators == {12290, 65294, 65377}
\* NFKC of one character, then toLowerCase(): ASCII, Latin-1, full width, fi.
MapChar(c) ==
  CASE c \in Uppers \/ c \in 192..222 \ {215} -> <<c + 32>>
    [] c \in 65313..65338 -> <<c - 65216>>
    [] c = 64257 -> Text("fi")
    [] OTHER -> <<c>>
\* NFC: e and a combining acute accent are one character.
Compose(s) ==
  FoldLeft(LAMBDA out, c : IF c = 769 /\ out # <<>> /\ Last(out) = 101
                           THEN Append(Front(out), 233) ELSE Append(out, c), <<>>, s)
-----------------------------------------------------------------------------
(* Punycode (RFC 3492)                                                      *)
BASE == 36
TMIN == 1
TMAX == 26
SKEW == 38
DAMP == 700
InitialBias == 72
InitialN == 128
MaxInt == 2147483647

Threshold(k, bias) ==
  CASE k <= bias -> TMIN [] k >= bias + TMAX -> TMAX [] OTHER -> k - bias
EncodeDigit(d) == IF d < 26 THEN d + 97 ELSE d + 22
DecodeDigit(c) ==
  CASE c \in Digits -> c - 22 [] c \in Lowers -> c - 97 [] c \in Uppers -> c - 65 [] OTHER -> -1

Adapt(delta, numPoints, firstTime) ==
  LET first == IF firstTime THEN delta \div DAMP ELSE delta \div 2
      RECURSIVE Scaled(_, _)
      Scaled(value, k) ==
        IF value > ((BASE - TMIN) * TMAX) \div 2
        THEN Scaled(value \div (BASE - TMIN), k + BASE)
        ELSE k + (((BASE - TMIN + 1) * value) \div (value + SKEW))
  IN Scaled(first + (first \div numPoints), 0)

\* The digits of one delta.
Variable(delta, bias) ==
  LET RECURSIVE Digit(_, _)
      Digit(q, k) == LET t == Threshold(k, bias) IN
        IF q < t THEN <<EncodeDigit(q)>>
        ELSE <<EncodeDigit(t + ((q - t) % (BASE - t)))>> \o Digit((q - t) \div (BASE - t), k + BASE)
  IN Digit(delta, BASE)

\* encodePunycode().  One round writes every occurrence of the next code point.
EncodePunycode(input) ==
  LET basic == SelectSeq(input, LAMBDA c : c < InitialN)
      Visit(s, c) ==
        CASE c < s.n -> [s EXCEPT !.delta = @ + 1]
          [] c > s.n -> s
          [] OTHER -> [s EXCEPT !.output = @ \o Variable(s.delta, s.bias),
                                !.bias = Adapt(s.delta, s.handled + 1, s.handled = Len(basic)),
                                !.delta = 0, !.handled = @ + 1]
      RECURSIVE Rounds(_)
      Rounds(s) ==
        LET later == {input[k] : k \in DOMAIN input} \cap (s.n..65535)
            next == CHOOSE c \in later : \A d \in later : c <= d
            round == FoldLeft(Visit, [s EXCEPT !.n = next,
                                               !.delta = @ + (next - s.n) * (s.handled + 1)], input)
        IN IF s.handled = Len(input) THEN s.output
           ELSE IF next - s.n > (MaxInt - s.delta) \div (s.handled + 1) THEN Undefined
           ELSE Rounds([round EXCEPT !.delta = @ + 1, !.n = @ + 1])
  IN Rounds([output |-> basic \o (IF basic = <<>> THEN <<>> ELSE <<Hyphen>>),
             handled |-> Len(basic), n |-> InitialN, delta |-> 0, bias |-> InitialBias])

\* decodePunycode()
DecodePunycode(input) ==
  LET delimiter == LastPlace(input, Hyphen)
      \* One generalised integer from pos on: [i, pos], or pos = 0.
      RECURSIVE Integer(_, _, _, _, _)
      Integer(pos, i, w, k, bias) ==
        LET digit == DecodeDigit(CodeAt(input, pos))
            t == Threshold(k, bias)
        IN IF digit < 0 \/ digit > (MaxInt - i) \div w THEN [i |-> 0, pos |-> 0]
           ELSE IF digit < t THEN [i |-> i + digit * w, pos |-> pos + 1]
           ELSE IF w > MaxInt \div (BASE - t) THEN [i |-> 0, pos |-> 0]
           ELSE Integer(pos + 1, i + digit * w, w * (BASE - t), k + BASE, bias)
      RECURSIVE Points(_, _, _, _, _)
      Points(output, pos, n, i, bias) ==
        LET int == Integer(pos, i, 1, BASE, bias)
            length == Len(output) + 1
            point == n + (int.i \div length)
            place == int.i % length
        IN IF pos > Len(input) THEN output
           ELSE IF int.pos = 0 \/ int.i \div length > MaxInt - n \/ point > 1114111 THEN Undefined
           ELSE Points(InsertAt(output, place + 1, point), int.pos, point, place + 1,
                       Adapt(int.i - i, length, i = 0))
  IN IF input = <<>> THEN <<>>
     ELSE IF ~IsAscii(input) THEN Undefined
     ELSE Points(SubSeq(input, 1, delimiter - 1), delimiter + 1, InitialN, 0, InitialBias)
-----------------------------------------------------------------------------
(* IDNA                                                                     *)
AcePrefix == Text("xn--")
MaxLabel == 63

\* isValidLabelText()
IsValidLabelText(label) ==
  /\ label # <<>> /\ Head(label) # Hyphen /\ Last(label) # Hyphen
  /\ OccursAt(label, <<Hyphen, Hyphen>>, 3) => IsPrefix(AcePrefix, label)
  /\ Head(label) \notin CombiningMarks

\* validateALabel()
ValidateALabel(label) ==
  LET decoded == DecodePunycode(From(label, 5))
      encoded == EncodePunycode(decoded)
  IN IF \/ decoded = Undefined \/ IsAscii(decoded) \/ Has(decoded, Disallowed)
        \/ ~IsValidLabelText(decoded)
        \/ encoded = Undefined \/ Len(encoded) + 4 > MaxLabel
     THEN Undefined ELSE AcePrefix \o encoded

\* convertLabel()
ConvertLabel(label) ==
  LET encoded == IF IsAscii(label) THEN label ELSE EncodePunycode(label)
  IN IF label = <<>> \/ Has(label, Disallowed) THEN Undefined
     ELSE IF IsPrefix(AcePrefix, label) THEN ValidateALabel(label)
     ELSE IF \/ Has(label, (0..127) \ (Lowers \cup Digits \cup {Hyphen}))
             \/ ~IsValidLabelText(label)
             \/ encoded = Undefined \/ Len(encoded) > MaxLabel - 4
     THEN Undefined
     ELSE IF IsAscii(label) THEN encoded ELSE AcePrefix \o encoded

\* mapDomain()
MapDomain(input) ==
  Compose(Concat([k \in DOMAIN input |->
    CASE input[k] \in Ignorable -> <<>>
      [] input[k] \in Separators -> <<Dot>>
      [] input[k] = 7838 -> Text("ss")
      [] OTHER -> MapChar(input[k])]))

ToAsciiDomain(domain) ==
  LET labels == Split(MapDomain(domain), <<Dot>>)
      ascii == [k \in DOMAIN labels |-> ConvertLabel(labels[k])]
  IN IF \E k \in DOMAIN ascii : ascii[k] = Undefined THEN Undefined ELSE Join(ascii, <<Dot>>)
-----------------------------------------------------------------------------
(* Domains of addresses                                                     *)

\* LDH_LABEL and isValidStandardizedTag(): letters, digits and inner hyphens.
IsLdh(label) ==
  /\ label # <<>> /\ Only(label, Alnum \cup {Hyphen})
  /\ Head(label) # Hyphen /\ Last(label) # Hyphen

MaxDomain == 255

NormalizeDomain(domain) ==
  LET ascii == IF IsAscii(domain) THEN Lower(domain) ELSE ToAsciiDomain(domain)
      labels == Split(ascii, <<Dot>>)
  IN IF /\ domain # <<>> /\ ascii # Undefined /\ Len(ascii) <= MaxDomain
        /\ \A k \in DOMAIN labels : IsLdh(labels[k]) /\ Len(labels[k]) <= MaxLabel
     THEN ascii ELSE Undefined

NumberOf(digits) == FoldLeft(LAMBDA n, c : 10 * n + c - 48, 0, digits)

IsValidIPv4(value) ==
  LET parts == Split(value, <<Dot>>) IN
  /\ Len(parts) = 4
  /\ \A k \in 1..4 : /\ Len(parts[k]) \in 1..3 /\ Only(parts[k], Digits)
                     /\ Len(parts[k]) > 1 => parts[k][1] # 48
                     /\ NumberOf(parts[k]) <= 255

IsValidIPv6(value) ==
  LET dot == LastPlace(value, Dot)
      colon == LastPlace(value, Colon)
      text == IF dot = 0 THEN value ELSE SubSeq(value, 1, colon)
      pair == <<Colon, Colon>>
      tail == IF OccursAt(text, pair, 1) THEN From(text, 3) ELSE text
      middle == IF OccursAt(tail, pair, Len(tail) - 1) THEN SubSeq(tail, 1, Len(tail) - 2) ELSE tail
      colons == Len(Split(text, <<Colon>>)) - 1
  IN /\ value # <<>>
     /\ dot # 0 => colon < dot /\ IsValidIPv4(From(value, colon + 1))
     /\ IF Find(text, pair, 1) # 0 THEN Len(Split(text, pair)) <= 2 /\ colons <= 7 ELSE colons = 7
     /\ \A k \in DOMAIN Split(middle, <<Colon>>) :
          LET part == Split(middle, <<Colon>>)[k] IN Len(part) <= 4 /\ \A j \in DOMAIN part : IsHex(part[j])

NormalizeDomainLiteral(content) ==
  LET colon == Find(content, <<Colon>>, 1)
      ipv6 == Lower(SubSeq(content, 1, 5)) = Text("ipv6:")
      valid == \/ ipv6 /\ IsValidIPv6(From(content, 6))
               \/ ~ipv6 /\ IsValidIPv4(content)
               \/ /\ ~ipv6 /\ colon > 1 /\ IsLdh(SubSeq(content, 1, colon - 1))
                  /\ colon < Len(content)
                  /\ Only(From(content, colon + 1), (33..90) \cup (94..126))
  IN IF content # <<>> /\ valid THEN Text("[") \o content \o Text("]") ELSE Undefined
=============================================================================
