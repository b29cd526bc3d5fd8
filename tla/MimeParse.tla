------------------------------ MODULE MimeParse ------------------------------
(***************************************************************************)
(* The inbound parser (mime/parse.ts): headers, parameters, transfer       *)
(* encodings, address headers, multipart bodies and the walk that collects *)
(* bodies and attachments.                                                 *)
(***************************************************************************)
EXTENDS Addresses

CONSTANTS MaxDepth,   \* MAX_DEPTH, 20 in the code
          MaxParts    \* MAX_PARTS, 2000 in the code

ASSUME ParseAssumption == MaxDepth \in Nat /\ MaxParts \in Nat
-----------------------------------------------------------------------------
(* Headers                                                                  *)

\* The place after the line end at k.
AfterLineEnd(data, k) == IF OccursAt(data, CRLF, k) THEN k + 2 ELSE k + 1

\* findHeaderEnd(): the first line end that another one follows at once.
HeaderEnd(data) ==
  LET IsEnd(k) == CodeAt(data, k) \in {CR, LF}
      ends == {k \in DOMAIN data : IsEnd(k) /\ IsEnd(AfterLineEnd(data, k))}
      first == CHOOSE k \in ends : \A j \in ends : k <= j
  IN IF ends = {} THEN [headerEnd |-> Len(data), bodyStart |-> Len(data) + 1]
     ELSE [headerEnd |-> first - 1, bodyStart |-> AfterLineEnd(data, AfterLineEnd(data, first))]

\* The lines of a text, ended by CR LF, LF or CR.
LinesOf(text) ==
  LET unix == Concat([k \in DOMAIN text |->
                CASE OccursAt(text, CRLF, k) -> <<>>
                  [] text[k] = CR -> <<LF>>
                  [] OTHER -> <<text[k]>>])
  IN Split(unix, <<LF>>)

\* parseHeaders().  After a line that is no field, its continuations are
\* no fields either.
ParseHeaders(text) ==
  LET lines == LinesOf(text)
      RECURSIVE Read(_, _, _)
      Read(k, fields, open) ==
        LET line == lines[k]
            colon == Find(line, <<Colon>>, 1)
            name == Trim(SubSeq(line, 1, colon - 1), Space)
            continued == [Last(fields) EXCEPT !.value = @ \o line]
        IN IF k > Len(lines) THEN fields
           ELSE IF line = <<>> THEN Read(k + 1, fields, open)
           ELSE IF Head(line) \in Blank /\ open
                THEN Read(k + 1, Append(Front(fields), continued), TRUE)
           ELSE IF colon <= 1 \/ name = <<>> THEN Read(k + 1, fields, FALSE)
           ELSE Read(k + 1, Append(fields, [name |-> name,
                                            value |-> Trim(From(line, colon + 1), Blank)]), TRUE)
  IN Read(1, <<>>, FALSE)

ParseEntity(data) ==
  [headers |-> ParseHeaders(SubSeq(data, 1, HeaderEnd(data).headerEnd)),
   body |-> From(data, HeaderEnd(data).bodyStart)]

Lookup(headers, name) ==
  LET found == SelectSeq(headers, LAMBDA h : Lower(h.name) = Text(name))
  IN IF found = <<>> THEN Undefined ELSE found[1].value
-----------------------------------------------------------------------------
(* Parameters                                                               *)
Star == 42
Apostrophe == 39
Slash == 47
Percent == 37

\* splitSegments(): at the semicolons outside quotes.
SplitSegments(value) ==
  LET RECURSIVE Cut(_, _, _)
      Cut(k, start, quoted) ==
        LET c == CodeAt(value, k) IN
        CASE k > Len(value) -> <<From(value, start)>>
          [] c = Backslash /\ quoted -> Cut(k + 2, start, quoted)
          [] c = DQuote -> Cut(k + 1, start, ~quoted)
          [] c = Semicolon /\ ~quoted -> <<SubSeq(value, start, k - 1)>> \o Cut(k + 1, k + 1, FALSE)
          [] OTHER -> Cut(k + 1, start, quoted)
  IN Cut(1, 1, FALSE)

\* A backslash stands for the character after it.
Unescaped(s) ==
  LET RECURSIVE Plain(_)
      Plain(k) == IF k > Len(s) THEN <<>>
                  ELSE IF s[k] = Backslash /\ k < Len(s) THEN <<s[k + 1]>> \o Plain(k + 2)
                  ELSE <<s[k]>> \o Plain(k + 1)
  IN Plain(1)

Unquoted(s) ==
  IF Len(s) >= 2 /\ s[1] = DQuote /\ Last(s) = DQuote THEN Unescaped(SubSeq(s, 2, Len(s) - 1)) ELSE s

PercentDecode(value) == Unescape(value, Percent)

\* A value with its charset in front: [charset, bytes].
Extended(value) ==
  LET first == Find(value, <<Apostrophe>>, 1)
      second == IF first = 0 THEN 0 ELSE Find(value, <<Apostrophe>>, first + 1)
  IN IF second = 0 THEN [charset |-> Utf8Label, bytes |-> PercentDecode(value)]
     ELSE [charset |-> IF first = 1 THEN Utf8Label ELSE SubSeq(value, 1, first - 1),
           bytes |-> PercentDecode(From(value, second + 1))]

\* The key of a piece, base*index or base*index*; index -1 of none.
PieceOf(key) ==
  LET encoded == Last(key) = Star
      bare == IF encoded THEN Front(key) ELSE key
      star == LastPlace(bare, Star)
      digits == From(bare, star + 1)
  IN [ base |-> SubSeq(bare, 1, star - 1), encoded |-> encoded,
       index |-> IF star > 0 /\ digits # <<>> /\ Only(digits, Digits) THEN NumberOf(digits) ELSE -1 ]

\* The pieces of one parameter in the order of their indexes.
InOrder(pieces) == SortSeq(pieces, LAMBDA p, q : p.key.index < q.key.index)

\* Continued parameters (RFC 2231): only the first piece names the charset.
JoinPieces(pieces) ==
  LET sorted == InOrder(pieces)
      first == Extended(sorted[1].value)
      Bytes(k) ==
        CASE sorted[k].key.encoded /\ k = 1 -> first.bytes
          [] sorted[k].key.encoded /\ k > 1 -> PercentDecode(sorted[k].value)
          [] OTHER -> [j \in DOMAIN sorted[k].value |-> sorted[k].value[j] % 256]
  IN DecodeBytes(Concat([k \in DOMAIN sorted |-> Bytes(k)]),
                 IF sorted[1].key.encoded THEN first.charset ELSE Utf8Label)

Param(key, value) == [key |-> key, value |-> value]

\* parseMediaType(); the last parameter of a name counts, a continued one
\* over the others.
ParseMediaType(value) ==
  LET segments == SplitSegments(value)
      main == Lower(Trim(segments[1], Space))
      slash == Find(main, <<Slash>>, 1)
      Read(segment) ==
        LET equals == Find(segment, <<Equals>>, 1)
        IN IF equals <= 1 THEN <<>>
           ELSE <<Param(Lower(Trim(SubSeq(segment, 1, equals - 1), Space)),
                        Unquoted(Trim(From(segment, equals + 1), Space)))>>
      plain == Concat([k \in 1..(Len(segments) - 1) |-> Read(Trim(segments[k + 1], Space))])
      Single(p) ==
        CASE ~Has(p.key, {Star}) -> <<p>>
          [] Has(p.key, {Star}) /\ Find(p.key, <<Star>>, 1) = Len(p.key) ->
               <<Param(Front(p.key), DecodeBytes(Extended(p.value).bytes, Extended(p.value).charset))>>
          [] OTHER -> <<>>
      pieces == SelectSeq([k \in DOMAIN plain |-> Param(PieceOf(plain[k].key), plain[k].value)],
                          LAMBDA p : p.key.index >= 0)
      bases == SetToSeq({pieces[k].key.base : k \in DOMAIN pieces})
  IN IF value = Undefined \/ Trim(value, Space) = <<>>
     THEN [type |-> Text("text"), subtype |-> Text("plain"), params |-> <<>>]
     ELSE [ type |-> IF slash > 1 THEN SubSeq(main, 1, slash - 1) ELSE main,
            subtype |-> IF slash > 1 THEN From(main, slash + 1) ELSE <<>>,
            params |-> Concat([k \in DOMAIN plain |-> Single(plain[k])])
                       \o [k \in DOMAIN bases |->
                             Param(bases[k], JoinPieces(SelectSeq(pieces, LAMBDA p : p.key.base = bases[k])))] ]

ParamOf(media, name) ==
  LET found == SelectSeq(media.params, LAMBDA p : p.key = Text(name))
  IN IF found = <<>> THEN Undefined ELSE Last(found).value
-----------------------------------------------------------------------------
(* Transfer encodings                                                       *)
DecodeQuotedPrintable(bytes) ==
  LET RECURSIVE Decoded(_)
      Decoded(k) ==
        CASE k > Len(bytes) -> <<>>
          [] CodeAt(bytes, k) = Equals /\ OccursAt(bytes, CRLF, k + 1) -> Decoded(k + 3)
          [] CodeAt(bytes, k) = Equals /\ CodeAt(bytes, k + 1) = LF -> Decoded(k + 2)
          [] CodeAt(bytes, k) = Equals /\ k = Len(bytes) -> <<>>
          [] CodeAt(bytes, k) = Equals /\ IsHexPair(bytes, k + 1) ->
               <<HexByte(bytes, k + 1)>> \o Decoded(k + 3)
          [] OTHER -> <<bytes[k]>> \o Decoded(k + 1)
  IN Decoded(1)

DecodeTransferEncoding(bytes, encoding) ==
  LET name == Lower(Trim(encoding, Space)) IN
  CASE name = Text("base64") -> FromBase64(bytes)
    [] name = Text("quoted-printable") -> DecodeQuotedPrintable(bytes)
    [] OTHER -> bytes
-----------------------------------------------------------------------------
(* Address headers                                                          *)

\* splitAddressList(): at the commas outside quotes, comments and angles.
SplitAddressList(value) ==
  LET Less1(n) == IF n > 0 THEN n - 1 ELSE 0
      RECURSIVE Cut(_, _, _, _, _)
      Cut(k, start, quoted, angles, comments) ==
        LET c == CodeAt(value, k)
            On(a, b) == Cut(k + 1, start, quoted, a, b)
        IN CASE k > Len(value) -> <<From(value, start)>>
             [] c = Backslash -> Cut(k + 2, start, quoted, angles, comments)
             [] c = DQuote -> Cut(k + 1, start, ~quoted, angles, comments)
             [] c = Less /\ ~quoted -> On(angles + 1, comments)
             [] c = Greater /\ ~quoted -> On(Less1(angles), comments)
             [] c = Open /\ ~quoted -> On(angles, comments + 1)
             [] c = Close /\ ~quoted -> On(angles, Less1(comments))
             [] c = Comma /\ ~quoted /\ angles = 0 /\ comments = 0 ->
                  <<SubSeq(value, start, k - 1)>> \o Cut(k + 1, k + 1, FALSE, 0, 0)
             [] OTHER -> On(angles, comments)
  IN Cut(1, 1, FALSE, 0, 0)

Entry(m) == [address |-> MailboxToString(m), name |-> m.displayName]

\* parseOneAddress(): what cannot be parsed keeps what its angles hold.
ParseOneAddress(piece) ==
  LET parsed == ParseAddress(piece)
      open == LastPlace(piece, Less)
      bare == TrimRight(piece, Space)
      inAngles == /\ open > 0 /\ Last(bare) = Greater
                  /\ ~Has(SubSeq(bare, open + 1, Len(bare) - 1), {Less, Greater})
  IN IF ~Failed(parsed) THEN Entry(parsed.value)
     ELSE [address |-> Trim(IF inAngles THEN SubSeq(bare, open + 1, Len(bare) - 1) ELSE piece, Space),
           name |-> Undefined]

SalvageAddressList(value) ==
  LET pieces == [k \in DOMAIN SplitAddressList(value) |-> Trim(SplitAddressList(value)[k], Space)]
      kept == SelectSeq(pieces, LAMBDA piece : piece # <<>>)
  IN [k \in DOMAIN kept |-> ParseOneAddress(kept[k])]

HeaderAddressList(headers, name) ==
  LET value == Lookup(headers, name)
      unfolded == ReinterpretHeaderBytes(value)
      parsed == ParseAddressList(unfolded)
  IN IF value = Undefined \/ Trim(value, Space) = <<>> THEN <<>>
     ELSE IF Failed(parsed) THEN SalvageAddressList(unfolded)
     ELSE [k \in DOMAIN parsed.value |-> Entry(parsed.value[k])]

MessageId(headers) ==
  LET id == Trim(Lookup(headers, "message-id"), Space)
  IN IF id # <<>> /\ Head(id) = Less /\ Last(id) = Greater THEN SubSeq(id, 2, Len(id) - 1) ELSE id
-----------------------------------------------------------------------------
(* Multipart bodies                                                         *)

\* The place after the delimiter line whose delimiter ends before k: 0 when
\* the line closes the multipart or ends the body, -1 when it goes on.
AfterDelimiter(body, k) ==
  LET after == AfterBlanks(body, k) IN
  CASE OccursAt(body, Text("--"), after) \/ after > Len(body) -> 0
    [] OccursAt(body, CRLF, after) -> after + 2
    [] CodeAt(body, after) = LF -> after + 1
    [] OTHER -> -1

\* Fault: a CR before the LF belongs to the part.
PartEndBeforeLf(body, found) == found - 2

\* The end of the part before the delimiter line at found.
PartEnd(body, found) ==
  CASE found = 1 -> 0
    [] OccursAt(body, CRLF, found - 2) -> found - 3
    [] OTHER -> found - 2

\* splitMultipart()
SplitMultipart(body, boundary) ==
  LET delimiter == Text("--") \o boundary
      RECURSIVE Parts(_, _)
      Parts(position, partStart) ==
        LET found == Find(body, delimiter, position)
            next == found + Len(delimiter)
            after == AfterDelimiter(body, next)
            part == IF partStart = 0 THEN <<>> ELSE <<SubSeq(body, partStart, PartEnd(body, found))>>
        IN CASE found = 0 -> IF partStart = 0 THEN <<>> ELSE <<From(body, partStart)>>
             [] found > 1 /\ CodeAt(body, found - 1) # LF -> Parts(next, partStart)
             [] after = 0 -> part
             [] after = -1 -> part \o Parts(next, partStart)
             [] OTHER -> part \o Parts(after, after)
  IN Parts(1, 0)
-----------------------------------------------------------------------------
(* The message                                                              *)
Attachment(filename, contentType, contentId, inline, content) ==
  [filename |-> filename, contentType |-> contentType, contentId |-> contentId,
   inline |-> inline, content |-> content]

\* Without one angle bracket at each end.
Unangled(id) ==
  LET open == IF id # <<>> /\ Head(id) = Less THEN Tail(id) ELSE id
  IN IF open # <<>> /\ Last(open) = Greater THEN Front(open) ELSE open

\* What walkEntity() makes of an entity that is not a multipart.
Leaf(entity, state) ==
  LET contentType == ParseMediaType(Lookup(entity.headers, "content-type"))
      disposition == ParseMediaType(Lookup(entity.headers, "content-disposition"))
      placement == IF ParamOf(disposition, "disposition") # Undefined
                   THEN Lower(ParamOf(disposition, "disposition")) ELSE disposition.type
      filename == IF ParamOf(disposition, "filename") # Undefined
                  THEN ParamOf(disposition, "filename") ELSE ParamOf(contentType, "name")
      hasFilename == filename \notin {Undefined, <<>>}
      id == Lookup(entity.headers, "content-id")
      contentId == IF id = Undefined THEN Undefined ELSE Unangled(Trim(id, Space))
      isText == placement # Text("attachment") /\ ~hasFilename /\ contentId = Undefined
                /\ contentType.type = Text("text")
      decoded == DecodeTransferEncoding(entity.body, Lookup(entity.headers, "content-transfer-encoding"))
      charset == IF ParamOf(contentType, "charset") = Undefined THEN <<>> ELSE ParamOf(contentType, "charset")
      text == DecodeBytes(decoded, charset)
  IN CASE isText /\ contentType.subtype = Text("plain") ->
            [state EXCEPT !.text = IF @ = Undefined THEN text ELSE @]
       [] isText /\ contentType.subtype = Text("html") ->
            [state EXCEPT !.html = IF @ = Undefined THEN text ELSE @]
       [] OTHER -> [state EXCEPT !.attachments = Append(@,
            Attachment(IF hasFilename THEN DecodeHeaderText(filename) ELSE Undefined,
              IF contentType.subtype = <<>> THEN contentType.type
              ELSE contentType.type \o <<Slash>> \o contentType.subtype,
              contentId,
              placement = Text("inline") \/ (placement # Text("attachment") /\ contentId # Undefined),
              decoded))]

\* walkEntity(); a message nested too deep or of too many parts is rejected.
RECURSIVE WalkEntity(_, _, _), WalkParts(_, _, _)
WalkEntity(entity, depth, state) ==
  LET counted == [state EXCEPT !.partCount = @ + 1]
      contentType == ParseMediaType(Lookup(entity.headers, "content-type"))
      boundary == ParamOf(contentType, "boundary")
      parts == SelectSeq(SplitMultipart(entity.body, boundary), LAMBDA part : part # <<>>)
  IN CASE state.rejected -> state
       [] ~state.rejected /\ (depth > MaxDepth \/ counted.partCount > MaxParts) ->
            [state EXCEPT !.rejected = TRUE]
       [] ~state.rejected /\ depth <= MaxDepth /\ counted.partCount <= MaxParts
            /\ contentType.type = Text("multipart") /\ contentType.subtype # <<>>
            /\ boundary \notin {Undefined, <<>>} ->
            WalkParts(parts, depth + 1, counted)
       [] OTHER -> Leaf(entity, counted)
WalkParts(parts, depth, state) ==
  IF parts = <<>> THEN state
  ELSE WalkParts(Tail(parts), depth, WalkEntity(ParseEntity(Head(parts)), depth, state))

\* parseEmail()
ParseEmail(data) ==
  LET empty == [text |-> Undefined, html |-> Undefined, attachments |-> <<>>, partCount |-> 0,
                rejected |-> FALSE]
      root == ParseEntity(data)
      walked == IF data = <<>> THEN empty ELSE WalkEntity(root, 0, empty)
      headers == IF data = <<>> THEN <<>> ELSE root.headers
      subject == Lookup(headers, "subject")
  IN [ headers |-> headers, rejected |-> walked.rejected,
       subject |-> IF subject = Undefined THEN Undefined ELSE DecodeHeaderText(subject),
       from |-> HeaderAddressList(headers, "from"), to |-> HeaderAddressList(headers, "to"),
       cc |-> HeaderAddressList(headers, "cc"), bcc |-> HeaderAddressList(headers, "bcc"),
       replyTo |-> HeaderAddressList(headers, "reply-to"),
       messageId |-> MessageId(headers),
       text |-> walked.text, html |-> walked.html, attachments |-> walked.attachments ]
=============================================================================
