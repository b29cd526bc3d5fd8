------------------------------ MODULE Envelope ------------------------------
(***************************************************************************)
(* The commands of an SMTP envelope (internal/smtp/transaction.ts), with   *)
(* delivery status parameters (internal/smtp/dsn.ts), the extensions of an *)
(* EHLO reply (internal/smtp/extensions.ts), what the public client asks   *)
(* for (client.ts) and what is read out of the final reply (result.ts).    *)
(* A result is Ok or Fail with the kind of the error that is thrown.       *)
(***************************************************************************)
EXTENDS Addresses

CONSTANTS MaxEnvelopeId,          \* MAX_ENVELOPE_ID_LENGTH, 100 in the code
          MaxOriginalRecipient    \* MAX_ORIGINAL_RECIPIENT_LENGTH, 500 in the code

ASSUME EnvelopeAssumption == MaxEnvelopeId \in Nat /\ MaxOriginalRecipient \in Nat

Plus == 43
NoBreak(s) == ~Has(s, {CR, LF})
-----------------------------------------------------------------------------
(* Delivery status parameters                                               *)

EncodeXtext(s) ==
  Concat([k \in DOMAIN s |->
    IF s[k] \in (33..126) \ {Plus, Equals} THEN <<s[k]>> ELSE <<Plus>> \o HexPair(s[k])])

\* Undefined when an escape or a character is invalid; hex digits are upper case.
ParseXtext(wire) ==
  LET IsUpperHex(c) == c \in Digits \cup (65..70)
      RECURSIVE Decoded(_)
      Decoded(k) ==
        CASE k > Len(wire) -> <<>>
          [] wire[k] = Plus /\ IsUpperHex(CodeAt(wire, k + 1)) /\ IsUpperHex(CodeAt(wire, k + 2)) ->
               LET rest == Decoded(k + 3)
               IN IF rest = Undefined THEN Undefined ELSE <<HexByte(wire, k + 1)>> \o rest
          [] wire[k] \in (33..126) \ {Plus, Equals} ->
               LET rest == Decoded(k + 1)
               IN IF rest = Undefined THEN Undefined ELSE <<wire[k]>> \o rest
          [] OTHER -> Undefined
  IN Decoded(1)

NormalizeDsnReturn(value) ==
  IF Upper(value) \in {Text("FULL"), Text("HDRS")} THEN Ok(Upper(value), 0) ELSE Fail("dsn")

NotifyValues == {Text("NEVER"), Text("SUCCESS"), Text("FAILURE"), Text("DELAY")}
NormalizeDsnNotify(values) ==
  LET normalized == [k \in DOMAIN values |-> Upper(values[k])]
      all == {normalized[k] : k \in DOMAIN normalized}
  IN IF values # <<>> /\ all \subseteq NotifyValues /\ (Text("NEVER") \in all => Len(values) = 1)
     THEN Ok(normalized, 0) ELSE Fail("dsn")

IsPrintableAscii(s) == s # <<>> /\ Only(s, {TAB} \cup (32..126))
FormatDsnEnvelopeId(decoded) ==
  IF IsPrintableAscii(decoded) /\ Len(EncodeXtext(decoded)) + Len("ENVID=") <= MaxEnvelopeId
  THEN Ok(EncodeXtext(decoded), 0) ELSE Fail("dsn")

\* encodeUtf8Orcpt(), of an address without line breaks.
EncodeUtf8Orcpt(address, smtpUtf8) ==
  LET RECURSIVE Hex(_)
      Hex(n) == (IF n < 16 THEN <<>> ELSE Hex(n \div 16)) \o <<HexDigit(n % 16)>>
      IsQChar(c) == c \in (33..126) \ {Backslash, Plus, Equals}
  IN Concat([k \in DOMAIN address |->
       IF IsQChar(address[k]) \/ (address[k] >= 128 /\ smtpUtf8) THEN <<address[k]>>
       ELSE Text("\\x{") \o Hex(address[k]) \o Text("}")])

FormatDsnOriginalRecipient(addressType, decoded, smtpUtf8) ==
  LET isUtf8 == Lower(addressType) = Utf8Label
      wire == addressType \o <<Semicolon>>
              \o (IF isUtf8 THEN EncodeUtf8Orcpt(decoded, smtpUtf8) ELSE EncodeXtext(decoded))
  IN IF /\ addressType # <<>> /\ Only(addressType, Atext \ {Equals})
        /\ IF isUtf8 THEN decoded # <<>> /\ NoBreak(decoded) ELSE IsPrintableAscii(decoded)
        /\ Len(wire) + Len("ORCPT=") <= MaxOriginalRecipient
     THEN Ok(wire, 0) ELSE Fail("dsn")
-----------------------------------------------------------------------------
(* The extensions of an EHLO reply                                          *)
Extension(name, value) == [name |-> name, value |-> value]

\* parseExtensions(): the first line is the greeting.
ParseExtensions(lines) ==
  [k \in 1..(Len(lines) - 1) |->
    LET line == lines[k + 1] separator == Find(line, <<SP>>, 1)
    IN IF separator = 0 THEN Extension(Upper(line), <<>>)
       ELSE Extension(Upper(SubSeq(line, 1, separator - 1)), From(line, separator + 1))]

HasExtension(extensions, name) == \E k \in DOMAIN extensions : extensions[k].name = Text(name)
ExtensionParam(extensions, name) ==
  LET found == SelectSeq(extensions, LAMBDA e : e.name = Text(name))
  IN IF found = <<>> THEN <<>> ELSE Last(found).value

\* parseDeliveryByMinimum() and parsePositiveInt(): 0 of what is no number.
Number(value) ==
  LET digits == Trim(value, Space)
  IN IF digits # <<>> /\ Only(digits, Digits)
     THEN FoldLeft(LAMBDA n, c : 10 * n + c - 48, 0, digits) ELSE 0
-----------------------------------------------------------------------------
(* The commands: a context is whether the session uses TLS, and the         *)
(* extensions.                                                              *)
When(condition, texts) == IF condition THEN texts ELSE <<>>
Parameter(name, value) == Text(name) \o <<Equals>> \o value
NoDeadline == [mode |-> <<>>, seconds |-> 0, trace |-> FALSE]

\* formatDeliveryBy()
FormatDeliveryBy(by) ==
  IF Upper(by.mode) \notin {Text("N"), Text("R")} \/ (Upper(by.mode) = Text("R") /\ by.seconds <= 0)
  THEN Fail("invalidDeliveryBy")
  ELSE Ok(Text(ToString(by.seconds)) \o <<Semicolon>> \o Upper(by.mode)
          \o (IF by.trace THEN Text("T") ELSE <<>>), 0)

\* The path of a mailbox, or of none.
Path(mailboxes) ==
  <<Less>> \o (IF mailboxes = <<>> THEN <<>> ELSE MailboxToString(mailboxes[1])) \o <<Greater>>
Command(verb, path, params) ==
  Text(verb) \o path \o (IF params = <<>> THEN <<>> ELSE <<SP>> \o Join(params, <<SP>>))

BuildMailFromCommand(context, envelope) ==
  LET Offers(name) == HasExtension(context.extensions, name)
      by == envelope.deliveryBy
      deadline == FormatDeliveryBy(by)
      minimum == Number(ExtensionParam(context.extensions, "DELIVERBY"))
      ret == NormalizeDsnReturn(envelope.dsnRet)
      envid == FormatDsnEnvelopeId(envelope.envid)
      asksRet == envelope.dsnRet # <<>> /\ Offers("DSN")
      asksEnvid == envelope.envid # <<>> /\ Offers("DSN")
      extra == SelectSeq(envelope.extensionParams,
                         LAMBDA p : ~(Upper(p.name) = Text("BY") /\ by # NoDeadline))
      params ==
        When(Offers("SIZE") /\ envelope.size > 0, <<Parameter("SIZE", Text(ToString(envelope.size)))>>)
        \o When(envelope.bodyType = "8BITMIME" /\ Offers("8BITMIME"), <<Text("BODY=8BITMIME")>>)
        \o When(envelope.bodyType = "BINARYMIME" /\ Offers("BINARYMIME"), <<Text("BODY=BINARYMIME")>>)
        \o When(envelope.smtpUtf8 /\ Offers("SMTPUTF8"), <<Text("SMTPUTF8")>>)
        \o When(envelope.requireTls, <<Text("REQUIRETLS")>>)
        \o When(by # NoDeadline, <<Parameter("BY", deadline.value)>>)
        \o When(envelope.auth # <<>>, <<Parameter("AUTH", <<Less>> \o envelope.auth \o <<Greater>>)>>)
        \o When(asksRet, <<Parameter("RET", ret.value)>>)
        \o When(asksEnvid, <<Parameter("ENVID", envid.value)>>)
        \o [k \in DOMAIN extra |->
             Upper(extra[k].name)
             \o (IF extra[k].value = <<>> THEN <<>> ELSE <<Equals>> \o extra[k].value)]
  IN CASE envelope.requireTls /\ ~(context.isTls /\ Offers("REQUIRETLS")) -> Fail("requireTls")
       [] by # NoDeadline /\ ~Offers("DELIVERBY") -> Fail("deliveryByNotSupported")
       [] by # NoDeadline /\ Failed(deadline) -> deadline
       [] by.mode = Text("R") /\ minimum > 0 /\ by.seconds < minimum -> Fail("deliveryByBelowMinimum")
       [] asksRet /\ Failed(ret) -> ret
       [] asksEnvid /\ Failed(envid) -> envid
       [] OTHER -> Ok(Command("MAIL FROM:", Path(envelope.from), params), 0)

BuildRcptToCommand(context, recipient, smtpUtf8) ==
  LET dsn == HasExtension(context.extensions, "DSN")
      asksNotify == dsn /\ recipient.dsnNotify # <<>>
      asksOrcpt == dsn /\ recipient.dsnOrcpt # <<>>
      separator == Find(recipient.dsnOrcpt, <<Semicolon>>, 1)
      notify == NormalizeDsnNotify(recipient.dsnNotify)
      orcpt == FormatDsnOriginalRecipient(SubSeq(recipient.dsnOrcpt, 1, separator - 1),
                                          From(recipient.dsnOrcpt, separator + 1), smtpUtf8)
  IN CASE asksNotify /\ Failed(notify) -> notify
       [] asksOrcpt /\ (separator = 0 \/ Failed(orcpt)) -> Fail("dsn")
       [] OTHER -> Ok(Command("RCPT TO:", Path(<<recipient.address>>),
                        When(asksNotify, <<Parameter("NOTIFY", Join(notify.value, <<Comma>>))>>)
                        \o When(asksOrcpt, <<Parameter("ORCPT", orcpt.value)>>)), 0)
-----------------------------------------------------------------------------
(* The public client (client.ts)                                            *)

\* toEnvelope(), of a message built by Build, and of the options of send().
ToEnvelope(built, options) ==
  [ from |-> built.from, size |-> Len(built.data), smtpUtf8 |-> built.smtpUtf8,
    bodyType |-> IF built.eightBitMime THEN "8BITMIME" ELSE "none", auth |-> <<>>,
    requireTls |-> options.requireTls, deliveryBy |-> options.deliveryBy,
    dsnRet |-> options.dsnRet, envid |-> options.envid,
    extensionParams |-> options.extensionParams ]
BuiltRecipient(mailbox) == [address |-> mailbox, dsnNotify |-> <<>>, dsnOrcpt |-> <<>>]

\* normalizeOrcpt() and toSmtpRecipient()
NormalizeOrcpt(value) ==
  LET trimmed == Trim(value, Space)
  IN IF Has(trimmed, {Semicolon}) THEN trimmed ELSE Text("rfc822;") \o trimmed
ToSmtpRecipient(recipient) ==
  Then(ParseAddress(recipient.address), LAMBDA mailbox, at :
    Ok([address |-> mailbox, dsnNotify |-> recipient.notify,
        dsnOrcpt |-> IF recipient.orcpt = Undefined THEN <<>> ELSE NormalizeOrcpt(recipient.orcpt)], at))

\* parseMessageRef() (result.ts) and extractMessageId() (transaction.ts)
ParseMessageRef(message) ==
  LET key == Text("message_ref=")
      at == Find(message, key, 1)
      rest == Trim(From(message, at + Len(key)), Space)
      value == IF rest # <<>> /\ Head(rest) = Less THEN Tail(rest) ELSE rest
      ends == {k \in DOMAIN value : value[k] \in {Greater, Semicolon} \cup Space}
  IN IF at = 0 THEN <<>>
     ELSE IF ends = {} THEN value
     ELSE SubSeq(value, 1, (CHOOSE k \in ends : \A j \in ends : k <= j) - 1)

ExtractMessageId(message) ==
  LET trimmed == Trim(message, Space)
      open == Find(trimmed, <<Less>>, 1)
      close == Find(trimmed, <<Greater>>, open)
      FirstWord(s) == Split([k \in DOMAIN s |-> IF s[k] \in Space THEN SP ELSE s[k]], <<SP>>)[1]
      After(key) == LET at == Find(Lower(trimmed), key, 1)
                    IN IF at = 0 THEN <<>> ELSE FirstWord(Trim(From(trimmed, at + Len(key)), Space))
      queued == After(Text("queued as "))
  IN IF open # 0 /\ close # 0 THEN SubSeq(trimmed, open, close)
     ELSE IF queued # <<>> THEN queued ELSE After(Text("id="))
=============================================================================
