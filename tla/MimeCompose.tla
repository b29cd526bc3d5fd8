----------------------------- MODULE MimeCompose -----------------------------
(***************************************************************************)
(* What a Message is built into: the headers and their folding (message.ts *)
(* and internal/headers.ts), the body, its transfer encoding and its       *)
(* attachments (internal/mime.ts).                                         *)
(***************************************************************************)
EXTENDS Addresses

CONSTANTS MaxTextLine,      \* maxTextLineLength, 998 in the code
          MaxQuotedLine,    \* 75 in encodeQuotedPrintable()
          Base64Line,       \* 76 in encodeBase64Lines()
          RecommendedLine   \* RECOMMENDED_LINE_LENGTH, 78 in the code

ASSUME ComposeAssumption ==
  /\ MaxTextLine \in Nat /\ RecommendedLine \in Nat
  /\ MaxQuotedLine \in Nat \ 0..2 /\ Base64Line \in Nat \ {0}

Line(text) == text \o CRLF
EndsInCrlf(s) == OccursAt(s, CRLF, Len(s) - 1)
EnsureTrailingCrlf(s) == IF EndsInCrlf(s) THEN s ELSE Line(s)
-----------------------------------------------------------------------------
(* Bodies (internal/mime.ts)                                                *)

\* CR LF, a lone CR and a lone LF each become CR LF.
NormalizeLineEndings(s) ==
  Concat([k \in DOMAIN s |->
    CASE s[k] = LF /\ CodeAt(s, k - 1) = CR -> <<>>
      [] s[k] \in {CR, LF} -> CRLF
      [] OTHER -> <<s[k]>>])

HasLongLine(s) ==
  LET lines == Split(NormalizeLineEndings(s), CRLF)
  IN \E k \in DOMAIN lines : Len(lines[k]) > MaxTextLine

SelectTextEncoding(s) ==
  IF HasLongLine(s) THEN Text("quoted-printable")
  ELSE IF IsAscii(s) THEN Text("7bit") ELSE Text("8bit")

\* Whether the byte at k is the last of its line.
EndsLineAt(bytes, k) == k = Len(bytes) \/ OccursAt(bytes, CRLF, k + 1)

QuotedToken(bytes, k) ==
  IF bytes[k] \in (33..126) \ {Equals} \/ (bytes[k] \in Blank /\ ~EndsLineAt(bytes, k))
  THEN <<bytes[k]>> ELSE <<Equals>> \o HexPair(bytes[k])

EncodeQuotedPrintable(value) ==
  LET bytes == Utf8(value)
      RECURSIVE Encoded(_, _)
      Encoded(k, lineLength) ==
        LET token == QuotedToken(bytes, k)
            soft == lineLength + Len(token) > MaxQuotedLine
        IN CASE k > Len(bytes) -> <<>>
             [] OccursAt(bytes, CRLF, k) -> CRLF \o Encoded(k + 2, 0)
             [] OTHER -> (IF soft THEN <<Equals>> \o CRLF ELSE <<>>) \o token
                         \o Encoded(k + 1, IF soft THEN Len(token) ELSE lineLength + Len(token))
  IN EnsureTrailingCrlf(Encoded(1, 0))

EncodeBase64Lines(data) ==
  LET encoded == Base64(data)
      lines == (Len(encoded) + Base64Line - 1) \div Base64Line
      End(k) == IF k * Base64Line < Len(encoded) THEN k * Base64Line ELSE Len(encoded)
  IN Concat([k \in 1..lines |-> Line(SubSeq(encoded, (k - 1) * Base64Line + 1, End(k)))])

\* encodeRfc2231() and formatDisposition()
Rfc2231Literal == Alnum \cup {Backquote} \cup {Code[c] : c \in CharsOf("!#$&+-.^_|~")}
EncodeRfc2231(value) ==
  Concat([k \in DOMAIN Utf8(value) |->
    IF Utf8(value)[k] \in Rfc2231Literal THEN <<Utf8(value)[k]>>
    ELSE Text("%") \o HexPair(Utf8(value)[k])])

\* Fault: what a quoted filename must escape is not.
DispositionUnescaped(disposition, filename) ==
  CASE filename \in {Undefined, <<>>} -> disposition
    [] ~IsAscii(filename) -> disposition \o Text("; filename*=utf-8''") \o EncodeRfc2231(filename)
    [] OTHER -> disposition \o Text("; filename=\"") \o filename \o Text("\"")

FormatDisposition(disposition, filename) ==
  CASE filename \in {Undefined, <<>>} -> disposition
    [] ~IsAscii(filename) -> disposition \o Text("; filename*=utf-8''") \o EncodeRfc2231(filename)
    [] OTHER -> disposition \o Text("; filename=") \o Quote(filename)

\* generateBoundary(): random, so different from each other and from all text.
Boundary(k) == Text("----=_mxraven_") \o <<48 + k>>
Delimiter(k) == Text("--") \o Boundary(k)
MultipartType(subtype, k) ==
  Text("multipart/") \o subtype \o Text("; boundary=\"") \o Boundary(k) \o Text("\"")

PlainType == Text("text/plain; charset=utf-8")
HtmlType == Text("text/html; charset=utf-8")
TypeLine(type) == Line(Text("Content-Type: ") \o type)
EncodingLine(encoding) == Line(Text("Content-Transfer-Encoding: ") \o encoding)
BodyPart(type, encoding, data) == [contentType |-> type, encoding |-> encoding, data |-> data]
QuotedPrintable == Text("quoted-printable")

\* renderTextPart() in a multipart, renderTextBody() as the whole body.
RenderTextPart(type, body) ==
  LET encoding == SelectTextEncoding(body)
      normalized == NormalizeLineEndings(body)
  IN Line(Delimiter(1)) \o TypeLine(type) \o EncodingLine(encoding) \o CRLF
     \o (IF encoding = QuotedPrintable THEN EncodeQuotedPrintable(normalized)
         ELSE EnsureTrailingCrlf(normalized))

RenderTextBody(type, body) ==
  LET normalized == NormalizeLineEndings(body)
      encoding == SelectTextEncoding(normalized)
  IN BodyPart(type, encoding,
       IF encoding = QuotedPrintable THEN EncodeQuotedPrintable(normalized) ELSE normalized)

BuildMultipartAlternative(text, html) ==
  BodyPart(MultipartType(Text("alternative"), 1),
    IF Text("8bit") \in {SelectTextEncoding(text), SelectTextEncoding(html)}
    THEN Text("8bit") ELSE Text("7bit"),
    RenderTextPart(PlainType, text) \o RenderTextPart(HtmlType, html)
      \o Line(Delimiter(1) \o Text("--")))

\* One attachment of wrapAttachments().
RenderAttachment(a) ==
  Line(Delimiter(2)) \o TypeLine(a.contentType) \o EncodingLine(Text("base64"))
  \o Line(Text("Content-Disposition: ")
          \o FormatDisposition(IF a.inline THEN Text("inline") ELSE Text("attachment"), a.filename))
  \o (IF a.contentId \in {Undefined, <<>>} THEN <<>>
      ELSE Line(Text("Content-ID: <") \o a.contentId \o Text(">")))
  \o CRLF \o EncodeBase64Lines(a.data)

WrapAttachments(body, attachments) ==
  BodyPart(MultipartType(Text("mixed"), 2), Text("7bit"),
    Line(Delimiter(2)) \o TypeLine(body.contentType) \o EncodingLine(body.encoding) \o CRLF
      \o EnsureTrailingCrlf(body.data)
      \o Concat([k \in DOMAIN attachments |-> RenderAttachment(attachments[k])])
      \o Line(Delimiter(2) \o Text("--")))
-----------------------------------------------------------------------------
(* Headers (internal/headers.ts)                                            *)
Field(name, value) == [name |-> name, value |-> value]
IsValidName(name) == name # <<>> /\ Only(name, (33..126) \ {Colon})
IsValidValue(value) == ~Has(value, (0..31) \ {TAB}) /\ ~Has(value, {127})
HasHeader(headers, name) == \E k \in DOMAIN headers : Lower(headers[k].name) = Lower(name)

\* foldHeader()
FoldHeader(field) ==
  LET whole == field.name \o Text(": ") \o field.value
      Words(s) == SelectSeq(Split([k \in DOMAIN s |-> IF s[k] = TAB THEN SP ELSE s[k]], <<SP>>),
                            LAMBDA word : word # <<>>)
      RECURSIVE Lines(_, _, _)
      Lines(words, current, hasWord) ==
        LET candidate == current \o <<SP>> \o Head(words)
        IN CASE words = <<>> -> <<current>>
             [] words # <<>> /\ hasWord /\ Len(candidate) > RecommendedLine ->
                  <<current>> \o Lines(Tail(words), <<SP>> \o Head(words), TRUE)
             [] OTHER -> Lines(Tail(words), candidate, TRUE)
  IN IF Len(whole) <= RecommendedLine THEN Line(whole)
     ELSE Line(Join(Lines(Words(field.value), field.name \o <<Colon>>, FALSE), CRLF))

SerializeHeaders(headers) == Concat([k \in DOMAIN headers |-> FoldHeader(headers[k])])
-----------------------------------------------------------------------------
(* The builder (message.ts).  A mail has the fields of class Message; an    *)
(* address or text that was not set is empty, a body Undefined.             *)

Bodies(mail) ==
  CASE mail.text # Undefined /\ mail.html # Undefined ->
         <<BuildMultipartAlternative(mail.text, mail.html)>>
    [] mail.text = Undefined /\ mail.html # Undefined -> <<RenderTextBody(HtmlType, mail.html)>>
    [] mail.text # Undefined /\ mail.html = Undefined -> <<RenderTextBody(PlainType, mail.text)>>
    [] OTHER -> <<>>

\* renderBody(): no body or one.
RenderBody(mail) ==
  LET bodies == IF Bodies(mail) = <<>> THEN <<BodyPart(PlainType, Text("7bit"), <<>>)>> ELSE Bodies(mail)
  IN IF mail.attachments = <<>> THEN Bodies(mail) ELSE <<WrapAttachments(bodies[1], mail.attachments)>>

IsValidAttachment(a) ==
  /\ a.data # <<>> \/ a.filename # Undefined
  /\ \A value \in {a.filename, a.contentType, a.contentId} : value = Undefined \/ IsValidValue(value)

\* build(rendered): what the template rendered replaces the bodies.
Rendered(mail, rendered) ==
  [mail EXCEPT !.text = IF rendered.text # Undefined THEN rendered.text ELSE @,
               !.html = rendered.html,
               !.subject = IF @ = <<>> /\ rendered.subject # Undefined THEN rendered.subject ELSE @]
IsRenderable(mail, rendered) ==
  mail.subject = <<>> /\ rendered.subject # Undefined => IsValidValue(rendered.subject)

Parsed(texts) == [k \in DOMAIN texts |-> ParseAddress(texts[k])]
Values(results) == [k \in DOMAIN results |-> results[k].value]
Optional(text) == IF Trim(text, Space) = <<>> THEN <<>> ELSE <<text>>
EncodeHeaderValue(value) == IF IsAscii(value) THEN value ELSE EncodeRfc2047(value)
WrapAngle(id) == IF id # <<>> /\ Head(id) = Less THEN id ELSE <<Less>> \o id \o <<Greater>>

\* The header of a list of mailboxes or of a text, if there is any.
Addressed(name, results) ==
  IF results = <<>> THEN <<>> ELSE <<Field(Text(name), FormatAddressList(Values(results)))>>
Given(name, value) == IF value = <<>> THEN <<>> ELSE <<Field(Text(name), value)>>

BuildHeaders(mail) ==
  LET from == Parsed(Optional(mail.from))
      recipients == Parsed(mail.to \o mail.cc \o mail.bcc)
      fields ==
        Addressed("From", from) \o Addressed("Sender", Parsed(Optional(mail.sender)))
        \o Addressed("Reply-To", Parsed(Optional(mail.replyTo)))
        \o Addressed("To", Parsed(mail.to)) \o Addressed("Cc", Parsed(mail.cc))
        \o Given("Subject", EncodeHeaderValue(mail.subject))
        \o Given("Message-ID", IF mail.messageId = <<>> THEN <<>> ELSE WrapAngle(mail.messageId))
        \o Given("In-Reply-To", IF mail.inReplyTo = <<>> THEN <<>> ELSE WrapAngle(mail.inReplyTo))
        \o Given("References", Join([k \in DOMAIN mail.references |-> WrapAngle(mail.references[k])], <<SP>>))
        \o mail.headers
      dated == fields \o IF HasHeader(fields, Text("Date")) THEN <<>>
                        ELSE <<Field(Text("Date"), Text("now"))>>
      domain == IF from # <<>> THEN from[1].value.domain ELSE recipients[1].value.domain
      body == RenderBody(mail)
  IN dated
     \o (IF HasHeader(fields, Text("Message-ID")) THEN <<>>
         ELSE <<Field(Text("Message-ID"), Text("<unique@") \o domain \o Text(">"))>>)
     \o (IF body = <<>> THEN <<>>
         ELSE << Field(Text("MIME-Version"), Text("1.0")),
                 Field(Text("Content-Type"), body[1].contentType),
                 Field(Text("Content-Transfer-Encoding"), body[1].encoding) >>)

\* Whether build() collects no problem.
IsBuildable(mail) ==
  LET addresses == Parsed(Optional(mail.from) \o Optional(mail.sender) \o Optional(mail.replyTo)
                          \o mail.to \o mail.cc \o mail.bcc)
  IN /\ \A k \in DOMAIN addresses : ~Failed(addresses[k])
     /\ Optional(mail.from) # <<>> \/ mail.nullSender \/ HasHeader(mail.headers, Text("From"))
     /\ mail.to \o mail.cc \o mail.bcc # <<>>
     /\ \A k \in DOMAIN mail.headers :
          IsValidName(mail.headers[k].name) /\ IsValidValue(mail.headers[k].value)
     /\ \A k \in DOMAIN mail.attachments : IsValidAttachment(mail.attachments[k])

Build(mail) ==
  LET headers == BuildHeaders(mail)
      body == Concat([k \in DOMAIN RenderBody(mail) |-> RenderBody(mail)[k].data])
      path == Parsed(Optional(mail.from) \o mail.to \o mail.cc \o mail.bcc)
  IN [ data |-> Utf8(SerializeHeaders(headers) \o CRLF \o body),
       headers |-> headers,
       from |-> IF mail.nullSender THEN <<>> ELSE Values(Parsed(Optional(mail.from))),
       recipients |-> Values(Parsed(mail.to \o mail.cc \o mail.bcc)),
       eightBitMime |-> ~IsAscii(body),
       smtpUtf8 |-> \/ \E k \in DOMAIN path : ~IsAscii(path[k].value.localPart \o path[k].value.domain)
                    \/ \E k \in DOMAIN headers : ~IsAscii(headers[k].value) ]
=============================================================================
