---------------------------- MODULE EncodedWords ----------------------------
(***************************************************************************)
(* RFC 2047 encoded words: the one encoder (encodeRfc2047() in address.ts) *)
(* and the two decoders, the strict one for display names                  *)
(* (internal/encoded-word.ts) and the lenient one for inbound headers      *)
(* (mime/parse.ts).                                                        *)
(***************************************************************************)
EXTENDS Chars

CONSTANTS MaxEncodedWordBytes,  \* MAX_ENCODED_WORD_BYTES, 45 in the code
          MaxEncodedWord        \* MAX_ENCODED_WORD, 998 in the code

ASSUME EncodedWordAssumption ==
  MaxEncodedWordBytes \in Nat \ {0} /\ MaxEncodedWord \in Nat

WordStart == Text("=?")
WordEnd == Text("?=")
Question == Text("?")
Underscore == 95
Equals == 61
Utf8Label == Text("utf-8")
AsciiLabel == Text("us-ascii")

\* encodeWord(), and encodeRfc2047(): as many characters to a word as fit.
EncodeWord(chunk) == Text("=?UTF-8?B?") \o Base64(Utf8(chunk)) \o WordEnd

\* Fault: the bytes are cut, not the characters.
EncodeByBytes(value) ==
  LET bytes == Utf8(value)
      Cut(k) == SubSeq(bytes, (k - 1) * MaxEncodedWordBytes + 1,
                  IF k * MaxEncodedWordBytes < Len(bytes) THEN k * MaxEncodedWordBytes ELSE Len(bytes))
  IN Join([k \in 1..((Len(bytes) + MaxEncodedWordBytes - 1) \div MaxEncodedWordBytes) |->
            Text("=?UTF-8?B?") \o Base64(Cut(k)) \o WordEnd], <<SP>>)

EncodeRfc2047(value) ==
  LET RECURSIVE Chunks(_, _)
      Chunks(chunk, k) ==
        CASE k > Len(value) -> IF chunk = <<>> THEN <<>> ELSE <<EncodeWord(chunk)>>
          [] k <= Len(value) /\ chunk # <<>>
               /\ Len(Utf8(chunk)) + Len(Utf8Of(value[k])) > MaxEncodedWordBytes ->
               <<EncodeWord(chunk)>> \o Chunks(<<value[k]>>, k + 1)
          [] OTHER -> Chunks(Append(chunk, value[k]), k + 1)
  IN Join(Chunks(<<>>, 1), <<SP>>)
-----------------------------------------------------------------------------
(* The strict decoder                                                       *)

\* decodeBase64() there: only the canonical encoding of some bytes.
StrictBase64(payload) ==
  LET bytes == FromBase64(payload)
  IN IF Len(payload) % 4 = 0 /\ Base64(bytes) = payload THEN bytes ELSE Undefined

\* decodeQ() there.
StrictQ(payload) ==
  LET RECURSIVE Bytes(_)
      Prefixed(byte, rest) == IF rest = Undefined THEN Undefined ELSE <<byte>> \o rest
      Bytes(k) ==
        CASE k > Len(payload) -> <<>>
          [] payload[k] = Underscore -> Prefixed(SP, Bytes(k + 1))
          [] payload[k] = Equals ->
               IF IsHexPair(payload, k + 1)
               THEN Prefixed(HexByte(payload, k + 1), Bytes(k + 3)) ELSE Undefined
          [] payload[k] \in 32..126 \ {Underscore, Equals} -> Prefixed(payload[k], Bytes(k + 1))
          [] OTHER -> Undefined
  IN Bytes(1)

\* decodeWord(); the letter is that of the encoding.
DecodeWord(letter, payload) ==
  CASE letter \in {66, 98} -> StrictBase64(payload)
    [] letter \in {81, 113} -> StrictQ(payload)
    [] OTHER -> Undefined

\* What TextDecoder makes of the bytes under a label it knows: the two that
\* mail needs.  (windows-1252 differs from Latin-1 in 128..159 only.)
Latin1Labels == {Text("iso-8859-1"), Text("latin1"), Text("windows-1252")}
TextDecoder(label, bytes) ==
  CASE label = Utf8Label -> FromUtf8(bytes)
    [] label \in Latin1Labels -> bytes
    [] OTHER -> Undefined

\* decodeCharset()
DecodeCharset(charset, bytes) ==
  IF Lower(charset) = AsciiLabel
  THEN [k \in DOMAIN bytes |-> IF bytes[k] < 128 THEN bytes[k] ELSE 65533]
  ELSE TextDecoder(Lower(charset), bytes)

\* decodeHeaderWords(): Undefined when a word's charset is unknown.
DecodeHeaderWords(value) ==
  LET RECURSIVE Decode(_, _, _)
      Decode(cursor, output, previousWasEncoded) ==
        LET start == Find(value, WordStart, cursor)
            charsetEnd == Find(value, Question, start + 2)
            encodingEnd == charsetEnd + 2
            textEnd == Find(value, WordEnd, encodingEnd + 1)
            bytes == DecodeWord(value[charsetEnd + 1], SubSeq(value, encodingEnd + 1, textEnd - 1))
            between == SubSeq(value, cursor, start - 1)
            text == DecodeCharset(SubSeq(value, start + 2, charsetEnd - 1), bytes)
            Verbatim(to) == Decode(to + 1, output \o SubSeq(value, cursor, to), FALSE)
        IN CASE start = 0 \/ charsetEnd = 0 -> output \o From(value, cursor)
             [] CodeAt(value, encodingEnd) # Question[1] -> Verbatim(start + 1)
             [] textEnd = 0 -> output \o From(value, cursor)
             [] textEnd - start > MaxEncodedWord -> Verbatim(start + 1)
             [] bytes = Undefined -> Verbatim(textEnd + 1)
             [] text = Undefined -> Undefined
             [] OTHER -> Decode(textEnd + 2,
                           output \o (IF previousWasEncoded /\ Only(between, Blank)
                                      THEN <<>> ELSE between) \o text, TRUE)
  IN Decode(1, <<>>, FALSE)
-----------------------------------------------------------------------------
(* The lenient decoder                                                      *)

\* decodeBytes(): the charset's decoder, else UTF-8, else Latin-1.
DecodeBytes(bytes, charset) ==
  LET label == Lower(Trim(charset, Space))
      named == IF label \in {<<>>, AsciiLabel, Text("ascii"), Text("unknown-8bit")}
               THEN Undefined ELSE TextDecoder(label, bytes)
  IN IF named # Undefined THEN named ELSE IF IsUtf8(bytes) THEN FromUtf8(bytes) ELSE bytes

\* What follows an escape character stays as it is unless it is a hex pair:
\* decodeQEncodedWord() and percentDecode().
Unescape(value, escape) ==
  LET RECURSIVE Bytes(_)
      Bytes(k) ==
        CASE k > Len(value) -> <<>>
          [] value[k] = escape /\ IsHexPair(value, k + 1) ->
               <<HexByte(value, k + 1)>> \o Bytes(k + 3)
          [] OTHER -> <<value[k] % 256>> \o Bytes(k + 1)
  IN Bytes(1)
DecodeQEncodedWord(value) ==
  Unescape([k \in DOMAIN value |-> IF value[k] = Underscore THEN SP ELSE value[k]], Equals)

\* The next match of the pattern of decodeEncodedWords() at k or after it:
\* its places of start, payload and end, 0 without a match.
MatchWord(value, k) ==
  LET Matches(i, c, e) ==
        /\ OccursAt(value, WordStart, i) /\ c > i + 2
        /\ ~Has(SubSeq(value, i + 2, c - 1), Space)
        /\ CodeAt(value, c) = Question[1] /\ CodeAt(value, c + 2) = Question[1]
        /\ CodeAt(value, c + 1) \in {66, 98, 81, 113}
        /\ e = Find(value, Question, c + 3) /\ OccursAt(value, WordEnd, e)
      Charset(i) == Find(value, Question, i + 2)
      End(i) == Find(value, Question, Charset(i) + 3)
      starts == {i \in k..Len(value) : OccursAt(value, WordStart, i) /\ Matches(i, Charset(i), End(i))}
      i == CHOOSE j \in starts : \A other \in starts : j <= other
  IN IF starts = {} THEN [start |-> 0] ELSE [start |-> i, charset |-> Charset(i), end |-> End(i)]

\* decodeEncodedWords(): blanks between two encoded words are dropped.
DecodeEncodedWords(value) ==
  LET RECURSIVE Decode(_, _)
      Decode(k, afterWord) ==
        LET m == MatchWord(value, k)
            payload == SubSeq(value, m.charset + 3, m.end - 1)
            bytes == IF value[m.charset + 1] \in {66, 98} THEN FromBase64(payload)
                     ELSE DecodeQEncodedWord(payload)
            between == SubSeq(value, k, m.start - 1)
        IN IF m.start = 0 THEN From(value, k)
           ELSE (IF afterWord /\ Only(between, Blank) THEN <<>> ELSE between)
                \o DecodeBytes(bytes, SubSeq(value, m.start + 2, m.charset - 1))
                \o Decode(m.end + 2, TRUE)
  IN Decode(1, FALSE)

\* reinterpretHeaderBytes(): header bytes read as Latin-1 may be UTF-8.
ReinterpretHeaderBytes(value) ==
  LET bytes == [k \in DOMAIN value |-> value[k] % 256]
  IN IF Has(value, 128..255) /\ IsUtf8(bytes) THEN FromUtf8(bytes) ELSE value

DecodeHeaderText(value) == DecodeEncodedWords(ReinterpretHeaderBytes(value))
=============================================================================
