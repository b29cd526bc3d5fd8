------------------------------ MODULE MailText ------------------------------
(***************************************************************************)
(* The text side of the library: what it formats is what it, or a server,  *)
(* reads back.  A state is one subject of the checks: a Message under      *)
(* construction by the calls of its builder (message.ts), or a text grown  *)
(* piece by piece from the alphabet of its topic.  When it is finished it  *)
(* is built, formatted or parsed, and read back.                           *)
(***************************************************************************)
EXTENDS MimeCompose, MimeParse, Envelope

CONSTANTS Alphabet,     \* topic -> the texts a text of that topic is made of
          MaxLength,    \* topic -> the pieces of its longest text
          Mailboxes, Texts, Subjects, Identifiers, Fields, Attachables, Templates,
                        \* what the builder is called with
          MaxCalls      \* the calls of the builder beside from() and to()

VARIABLES topic,        \* "none", "mail" or a topic of Alphabet
          text,         \* the text grown, but for a mail
          mail          \* the fields of class Message

textVars == <<topic, text, mail>>
-----------------------------------------------------------------------------
(* The builder (class Message): each call sets a field or adds to one.      *)
NewMessage ==
  [ from |-> <<>>, sender |-> <<>>, replyTo |-> <<>>, to |-> <<>>, cc |-> <<>>, bcc |-> <<>>,
    subject |-> <<>>, messageId |-> <<>>, inReplyTo |-> <<>>, references |-> <<>>,
    headers |-> <<>>, text |-> Undefined, html |-> Undefined, attachments |-> <<>>,
    nullSender |-> FALSE, template |-> <<>> ]

\* The calls made, at least.
Lists == {"to", "cc", "bcc", "headers", "attachments", "references"}
Calls(m) ==
  Cardinality({f \in DOMAIN m \ Lists : m[f] # NewMessage[f]})
  + FoldFunctionOnSet(LAMBDA s, n : n + Len(s), 0, m, Lists)

SetField(field, values) == \E v \in values : mail' = [mail EXCEPT ![field] = v]
AddTo(list, values) == \E v \in values : mail' = [mail EXCEPT ![list] = Append(@, v)]

Call ==
  /\ topic = "mail" /\ Calls(mail) < MaxCalls + 2
  /\ \/ \E field \in {"sender", "replyTo"} : SetField(field, Mailboxes)
     \/ \E list \in {"to", "cc", "bcc"} : AddTo(list, Mailboxes)
     \/ SetField("subject", Subjects)
     \/ \E field \in {"messageId", "inReplyTo"} : SetField(field, Identifiers)
     \/ AddTo("references", Identifiers)
     \/ SetField("text", Texts)
     \/ SetField("html", Texts)
     \/ AddTo("headers", Fields)
     \/ AddTo("attachments", Attachables)
     \/ \E t \in Templates : mail' = [mail EXCEPT !.template = <<t>>]   \* render()
     \/ SetField("nullSender", {TRUE})
  /\ UNCHANGED <<topic, text>>
-----------------------------------------------------------------------------
NoSubject == topic = "none" /\ text = <<>> /\ mail = NewMessage

\* A message starts with from() and to().
StartMail ==
  /\ topic = "none" /\ topic' = "mail" /\ UNCHANGED text
  /\ \E mailbox \in Mailboxes : mail' = [NewMessage EXCEPT !.from = mailbox, !.to = <<mailbox>>]

StartText == topic = "none" /\ topic' \in DOMAIN Alphabet /\ UNCHANGED <<text, mail>>

Grow ==
  /\ topic \in DOMAIN Alphabet /\ Len(text) < MaxLength[topic]
  /\ \E piece \in Alphabet[topic] : text' = Append(text, piece)
  /\ UNCHANGED <<topic, mail>>

\* The subject is sent, or parsed, and another one may follow.
Finish == topic # "none" /\ topic' = "none" /\ text' = <<>> /\ mail' = NewMessage
Finishes(t) == topic = t /\ topic' = "none"

NextSubject == Finish \/ StartMail \/ Call \/ StartText \/ Grow

-----------------------------------------------------------------------------
(* A message and what the parser reads of it                                *)

\* resolve() builds the message m with what its template rendered.
Resolved(m) == IF m.template = <<>> THEN m ELSE Rendered(m, m.template[1])
Resolves(m) ==
  /\ m.template = <<>> \/ IsRenderable(m, m.template[1])
  /\ IsBuildable(Resolved(m))

\* What folding keeps: it makes one space of the blanks between two words, and
\* drops those at the ends.
SurvivesFolding(field) ==
  \/ Len(field.name) + 2 + Len(field.value) <= RecommendedLine
  \/ ~Has(field.value, {TAB}) /\ Trim(field.value, Blank) = field.value
     /\ Find(field.value, <<SP, SP>>, 1) = 0

\* A text the header decoder leaves alone, on its own or once encoded.
IsPlain(value) ==
  /\ Trim(value, Blank) = value
  /\ IsAscii(value) => DecodeHeaderText(value) = value

\* subject(), messageId(), inReplyTo() and references() take their text unchecked,
\* and a line break in it is written as it is: the rest of the text becomes a
\* header, or the body.  header(), attach() and the subject of a template are
\* checked, and a subject outside ASCII is encoded, its line breaks with it.
HasNoLineBreak(m) ==
  LET written == {EncodeHeaderValue(m.subject), m.messageId, m.inReplyTo}
                 \cup {m.references[k] : k \in DOMAIN m.references}
  IN \A value \in written : ~Has(value, {CR, LF})

\* A body is read as it was given, with CR LF line ends; a last one may be
\* gone or added.
IsReadAs(found, given) ==
  LET n == NormalizeLineEndings(given) IN
  IF given = Undefined THEN found = Undefined
  ELSE found \in {n, Line(n), IF EndsInCrlf(n) THEN SubSeq(n, 1, Len(n) - 2) ELSE n}

\* An attachment a mail reader takes for a body: inline text with no name.
ReadsAsBody(a) ==
  /\ a.inline /\ a.contentId = Undefined /\ a.filename \in {Undefined, <<>>}
  /\ OccursAt(a.contentType, Text("text/"), 1)

MediaTypeOf(contentType) == SubSeq(contentType, 1,
  IF Has(contentType, {Semicolon}) THEN Find(contentType, <<Semicolon>>, 1) - 1 ELSE Len(contentType))
Received(a) ==
  Attachment(IF a.filename = <<>> THEN Undefined ELSE a.filename, MediaTypeOf(a.contentType),
             a.contentId, a.inline, a.data)
EntriesOf(texts) == [k \in DOMAIN texts |-> Entry(ParseAddress(texts[k]).value)]

\* The commands of the envelope, for a server that offers everything.
Offers == ParseExtensions([k \in 1..6 |-> Text(
  <<"greeting", "SIZE 1000", "8bitmime", "SMTPUTF8", "DSN", "DELIVERBY 60">>[k])])
Server == [isTls |-> TRUE, extensions |-> Offers]
NoOptions == [requireTls |-> FALSE, deliveryBy |-> NoDeadline, dsnRet |-> <<>>, envid |-> <<>>,
              extensionParams |-> <<>>]

\* A message of bytes that are not all ASCII is announced as one, and so is
\* its size.
IsAnnounced(built) ==
  LET command == BuildMailFromCommand(Server, ToEnvelope(built, NoOptions)).value
      words == Split(command, <<SP>>)
      Says(s) == \E k \in DOMAIN words : words[k] = Text(s)
  IN /\ ~IsAscii(built.data) => Says("BODY=8BITMIME") \/ Says("SMTPUTF8")
     /\ Says("SIZE=" \o ToString(Len(built.data)))

\* What read says of the message m, built as said: its parts, but for what the
\* parser or folding changes on purpose.
IsReadBack(m, built, read) ==
  LET attached == [k \in DOMAIN m.attachments |-> Received(m.attachments[k])] IN
  (\A k \in DOMAIN built.headers : SurvivesFolding(built.headers[k])) =>
    /\ ~read.rejected
    /\ read.from = EntriesOf(Optional(m.from)) /\ read.replyTo = EntriesOf(Optional(m.replyTo))
    /\ read.to = EntriesOf(m.to) /\ read.cc = EntriesOf(m.cc) /\ read.bcc = <<>>
    /\ m.messageId # <<>> => WrapAngle(read.messageId) = WrapAngle(m.messageId)
    /\ IsPlain(m.subject) => read.subject = IF m.subject = <<>> THEN Undefined ELSE m.subject
    /\ (\A k \in DOMAIN m.attachments : ~ReadsAsBody(m.attachments[k])) =>
         /\ IsReadAs(read.text, IF m.text = Undefined /\ m.html = Undefined THEN <<>> ELSE m.text)
         /\ IsReadAs(read.html, m.html)
         /\ (\A k \in DOMAIN attached : DecodeHeaderText(attached[k].filename) = attached[k].filename)
            => read.attachments = attached

\* A message that resolves, and whose subject and identifiers hold no bare line
\* break (HasNoLineBreak: the builder does not check them), is read back by the
\* parser as it was composed: addresses, subject, identifier, bodies and
\* attachments, whatever their transfer encodings, nesting and folding; its blind
\* copies are in no header; and its envelope announces what its bytes need.
MailIsReadBack ==
  [][Finishes("mail") /\ Resolves(mail) /\ HasNoLineBreak(mail) =>
       \E m \in {Resolved(mail)} : \E built \in {Build(m)} :
         IsReadBack(m, built, ParseEmail(built.data)) /\ IsAnnounced(built)]_textVars
-----------------------------------------------------------------------------
(* Inbound bodies                                                           *)

\* The lines of a text, each with its LF.
Lined(s) ==
  LET pieces == Split(s, <<LF>>)
  IN [k \in DOMAIN pieces |-> IF k < Len(pieces) THEN Append(pieces[k], LF) ELSE pieces[k]]
WithoutEnd(line) ==
  IF EndsInCrlf(line) THEN SubSeq(line, 1, Len(line) - 2)
  ELSE IF line # <<>> /\ Last(line) = LF THEN Front(line) ELSE line

\* A multipart body read line by line, for the boundary b.
IsDelimiter(line) == TrimRight(WithoutEnd(line), Blank) = Text("--b")
IsClosing(line) == OccursAt(line, Text("--b--"), 1)
Lookalike(line) == OccursAt(line, Text("--b"), 1) /\ ~IsDelimiter(line) /\ ~IsClosing(line)
PartsByLine(body) ==
  LET lines == Lined(body)
      cuts == {k \in DOMAIN lines : IsDelimiter(lines[k]) \/ IsClosing(lines[k])}
      End(k) == IF \E j \in cuts : j > k THEN CHOOSE j \in cuts : j > k /\ (\A i \in cuts : i > k => j <= i)
                ELSE Len(lines) + 1
      Opens(k) == k \in cuts /\ \A j \in cuts : j <= k => ~IsClosing(lines[j])
      Part(k) == LET part == Concat(SubSeq(lines, k + 1, End(k) - 1))
                 IN IF End(k) \in cuts THEN WithoutEnd(part) ELSE part
  IN Concat([k \in DOMAIN lines |-> IF Opens(k) THEN <<Part(k)>> ELSE <<>>])
NonEmpty(parts) == SelectSeq(parts, LAMBDA part : part # <<>>)

\* An entity cut at its first empty line, if that is not its first line.
CutAtEmptyLine(data) ==
  LET lines == Lined(data)
      ends == {k \in 2..(Len(lines) - 1) : WithoutEnd(lines[k]) = <<>>}
      end == CHOOSE k \in ends : \A j \in ends : k <= j
  IN IF ends = {} THEN [head |-> WithoutEnd(data), body |-> <<>>]
     ELSE [head |-> WithoutEnd(Concat(SubSeq(lines, 1, end - 1))),
           body |-> Concat(SubSeq(lines, end + 1, Len(lines)))]

\* The parser, which works on places in the text, finds the parts that a
\* reader of lines finds, whatever line ends, preamble, epilogue and missing
\* closing delimiter; and cuts an entity into the same head and body.
PartsAreFound(body) ==
  (\A k \in DOMAIN Lined(body) : ~Lookalike(Lined(body)[k])) =>
    NonEmpty(SplitMultipart(body, Text("b"))) = NonEmpty(PartsByLine(body))
EntityIsCut(data) ==
  WithoutEnd(Lined(data)[1]) # <<>> =>
    LET cut == CutAtEmptyLine(data) IN
    ParseEntity(data) = [headers |-> ParseHeaders(cut.head), body |-> cut.body]

\* Every body and every entity is read the same in both ways.
InboundIsFaithful ==
  [][/\ Finishes("multipart") => PartsAreFound(Concat(text))
     /\ Finishes("entity") => EntityIsCut(Concat(text))]_textVars
-----------------------------------------------------------------------------
(* Addresses                                                                *)

\* A local part that formatting writes as the parser reads it: one with
\* characters outside ASCII is never quoted.
LocalIsSafe(localPart) ==
  \/ IsAscii(localPart)
  \/ /\ Only(localPart, Atext \cup {Dot} \cup (128..65535))
     /\ ~NeedsQuoting([k \in DOMAIN localPart |-> IF localPart[k] < 128 THEN localPart[k] ELSE 97])
\* A name that does not look like an encoded word, nor hides a TAB.
NameIsSafe(name) ==
  \/ name = Undefined \/ ~IsAscii(name)
  \/ /\ DecodeHeaderWords(name) = name
     /\ Has(name, {TAB}) => NeedsDisplayNameQuoting(name)
IsSafe(mailbox) == LocalIsSafe(mailbox.localPart) /\ NameIsSafe(mailbox.displayName)

\* Formatting the mailboxes of a list gives a text that the strict parsers, the
\* lenient one of inbound headers, and the reader of the RCPT TO command all read
\* as the same mailboxes again.
MailboxesRoundTrip(mailboxes) ==
  LET formatted == FormatAddressList(mailboxes) IN
  /\ ParseAddressList(formatted).value = mailboxes
  /\ SalvageAddressList(formatted) = [k \in DOMAIN mailboxes |-> Entry(mailboxes[k])]
  /\ \A k \in DOMAIN mailboxes :
       LET mailbox == mailboxes[k]
           command == BuildRcptToCommand(Server, BuiltRecipient(mailbox), TRUE).value
           path == AngleAddr(command, Len("RCPT TO:") + 1)
       IN /\ ParseAddress(FormatAddress(mailbox)).value = mailbox
          /\ path.value = [mailbox EXCEPT !.displayName = Undefined]
          /\ path.at = Len(command) + 1

\* Whatever the two parsers accept they agree on, and it survives formatting.
AddressRoundTrips(s) ==
  LET one == ParseAddress(s)
      list == ParseAddressList(s)
  IN /\ ~Failed(one) => list.value = <<one.value>>
     /\ ~Failed(list) /\ (\A k \in DOMAIN list.value : IsSafe(list.value[k])) =>
          MailboxesRoundTrip(list.value)

\* However an address or a list of them is written, it is read one way by every
\* reader, and what is written of it is read as the same again.
AddressesRoundTrip == [][Finishes("address") => AddressRoundTrips(Concat(text))]_textVars
-----------------------------------------------------------------------------
(* Encodings of a value                                                     *)
LinesWithin(s, max) == \A k \in DOMAIN Split(s, CRLF) : Len(Split(s, CRLF)[k]) <= max

\* RFC 2047: by both decoders.
WordsInvert(s) == DecodeHeaderWords(EncodeRfc2047(s)) = s /\ DecodeHeaderText(EncodeRfc2047(s)) = s

\* Quoted-printable, in lines that end in no blank; Base64.
BodiesInvert(s) ==
  LET n == NormalizeLineEndings(s)
      quoted == EncodeQuotedPrintable(n)
  IN /\ DecodeTransferEncoding(quoted, QuotedPrintable) \in {Utf8(n), Utf8(Line(n))}
     /\ IsAscii(quoted) /\ LinesWithin(quoted, MaxQuotedLine + 1)
     /\ \A k \in DOMAIN quoted : quoted[k] \in Blank => CodeAt(quoted, k + 1) # CR
     /\ FromBase64(EncodeBase64Lines(Utf8(s))) = Utf8(s)
     /\ LinesWithin(EncodeBase64Lines(Utf8(s)), Base64Line)

\* A filename, whole and continued in two pieces that come in either order.
FilenameInverts(s) ==
  LET Of(disposition) == ParamOf(ParseMediaType(disposition), "filename")
      Piece(index, value) == Text("; filename*" \o index \o "*=") \o value
      Encoded == Text("utf-8''")
  IN /\ Of(FormatDisposition(Text("inline"), s)) = s
     /\ \A k \in 1..(Len(s) - 1) :
          LET first == Piece("0", Encoded \o EncodeRfc2231(SubSeq(s, 1, k)))
              second == Piece("1", EncodeRfc2231(From(s, k + 1)))
          IN Of(Text("inline") \o first \o second) = s /\ Of(Text("inline") \o second \o first) = s

\* A folded field unfolds to its words, in lines as short as they can be.
FieldUnfolds(s) ==
  LET field == Field(Text("X-A"), s)
      folded == FoldHeader(field)
  IN /\ SurvivesFolding(field) => ParseHeaders(folded) = <<[field EXCEPT !.value = Trim(s, Blank)]>>
     /\ \A k \in DOMAIN Split(folded, CRLF) :
          LET line == Split(folded, CRLF)[k] IN
          Len(line) <= RecommendedLine \/ ~Has(SubSeq(line, 6, Len(line)), {SP})

\* Delivery status parameters, as a server reads them.
ParametersInvert(s) ==
  LET envelope == [ToEnvelope([from |-> <<>>, data |-> <<>>, eightBitMime |-> FALSE,
                               smtpUtf8 |-> FALSE], NoOptions) EXCEPT !.envid = s]
      command == BuildMailFromCommand(Server, envelope)
      recipient == ToSmtpRecipient([address |-> Text("a@b"), notify |-> <<Text("never")>>,
                                    orcpt |-> s]).value
      rcpt == BuildRcptToCommand(Server, recipient, FALSE)
      Value(words, key) ==
        LET found == SelectSeq(words, LAMBDA word : OccursAt(word, Text(key), 1))
        IN From(found[1], Len(key) + 1)
  IN /\ ~Failed(command) /\ s # <<>> =>
          ParseXtext(Value(Split(command.value, <<SP>>), "ENVID=")) = s
     /\ ~Failed(rcpt) /\ ~Has(s, {Semicolon}) /\ Trim(s, Space) # <<>> =>
          ParseXtext(Value(Split(rcpt.value, <<SP>>), "ORCPT=rfc822;")) = Trim(s, Space)

\* The reference and the identifier a final reply ends with, whatever comes
\* before them, bare or in angle brackets.
RepliesAreRead(s) ==
  /\ \A form \in {"r1", "<r1>", " <r1> ok", "r1;x", "r1 ok"} :
       ParseMessageRef(s \o Text("message_ref=" \o form)) = Text("r1")
  /\ ExtractMessageId(s \o Text(" <q1> ok")) = Text("<q1>")
  /\ ExtractMessageId(s \o Text(" Queued as q1 ok")) = Text("q1")
  /\ ExtractMessageId(s \o Text(" ID=q1 ok")) = Text("q1")

\* Internationalized domain labels: every Punycode label decodes to what it
\* was made from, and a converted domain is converted to itself.
LabelsInvert(s) ==
  LET domain == ToAsciiDomain(s) IN
  /\ DecodePunycode(EncodePunycode(s)) = s
  /\ domain # Undefined => ToAsciiDomain(domain) = domain /\ NormalizeDomain(domain) = domain

\* Every encoding the library writes is undone by the decoder that reads it.
CodecsInvert ==
  [][\A s \in {Concat(text)} :
       /\ Finishes("value") => /\ WordsInvert(s) /\ FieldUnfolds(s) /\ ParametersInvert(s)
                               /\ RepliesAreRead(s)
                               /\ s # <<>> => FilenameInverts(s)
       /\ Finishes("octets") => BodiesInvert(s) /\ WordsInvert(s)
       /\ Finishes("label") /\ s # <<>> => LabelsInvert(s)]_textVars
=============================================================================
