------------------------------ MODULE Addresses ------------------------------
(***************************************************************************)
(* Formatting and parsing of RFC 5322 addresses (address.ts).  A parser of *)
(* the class AddressParser takes the source and a position and results in  *)
(* a value and the next position, or in the kind of the error it throws.   *)
(***************************************************************************)
EXTENDS EncodedWords, Domains

CONSTANTS MaxLocalPart,   \* MAX_LOCAL_PART_OCTETS, 64 in the code
          MaxAddress      \* MAX_ADDRESS_OCTETS, 254 in the code

ASSUME AddressAssumption == MaxLocalPart \in Nat /\ MaxAddress \in Nat

DQuote == 34
Comma == 44
Backslash == 92
AtSign == 64
Open == 40
Close == 41
Less == 60
Greater == 62
Semicolon == 59
Backquote == 96

Atext == Alnum \cup {Backquote} \cup {Code[c] : c \in CharsOf("!#$%&'*+-/=?^_{|}~")}
LineSeparators == {8232, 8233}
Controls == ((0..31) \ {TAB}) \cup {127}                      \* isControlChar()
ForbiddenInDisplay == Controls \cup (128..159) \cup LineSeparators
-----------------------------------------------------------------------------
(* Formatting                                                               *)
EscapeQuoted(s) ==
  Concat([k \in DOMAIN s |->
    IF s[k] \in {DQuote, Backslash} THEN <<Backslash, s[k]>> ELSE <<s[k]>>])
Quote(s) == <<DQuote>> \o EscapeQuoted(s) \o <<DQuote>>

NeedsQuoting(localPart) ==
  \/ localPart = <<>>
  \/ /\ IsAscii(localPart)
     /\ \/ Head(localPart) = Dot \/ Last(localPart) = Dot
        \/ Find(localPart, <<Dot, Dot>>, 1) # 0
        \/ ~Only(localPart, Atext \cup {Dot})

LocalText(localPart) == IF NeedsQuoting(localPart) THEN Quote(localPart) ELSE localPart

MailboxToString(m) ==
  IF m.localPart = <<>> /\ m.domain = <<>> THEN <<>>
  ELSE LocalText(m.localPart) \o <<AtSign>> \o m.domain

NameSpecials == {Code[c] : c \in CharsOf("\"(),.:;<>@[\\]")}
\* Fault: blanks at the ends of a name are not looked at.
QuotesSpecialsOnly(name) == Has(name, NameSpecials)

NeedsDisplayNameQuoting(name) ==
  \/ Has(name, NameSpecials)
  \/ Head(name) \in Blank \/ Last(name) \in Blank
  \/ \E k \in 2..Len(name) : name[k] \in Blank /\ name[k - 1] \in Blank

FormatAddress(m) ==
  LET name == m.displayName
      angle == <<Less>> \o MailboxToString(m) \o <<Greater>>
  IN IF name \in {Undefined, <<>>} THEN MailboxToString(m)
     ELSE IF Has(name, ForbiddenInDisplay) THEN Undefined
     ELSE (IF ~IsAscii(name) THEN EncodeRfc2047(name)
           ELSE IF NeedsDisplayNameQuoting(name) THEN Quote(name) ELSE name)
          \o <<SP>> \o angle

FormatAddressList(mailboxes) ==
  Join([k \in DOMAIN mailboxes |-> FormatAddress(mailboxes[k])], <<Comma, SP>>)
-----------------------------------------------------------------------------
(* Results                                                                  *)
Ok(value, at) == [value |-> value, at |-> at, error |-> "none"]
Fail(kind) == [value |-> <<>>, at |-> 0, error |-> kind]
Failed(r) == r.error # "none"
Then(r, F(_, _)) == IF Failed(r) THEN r ELSE F(r.value, r.at)

\* expect()
Expect(s, i, c, kind) == IF CodeAt(s, i) = c THEN Ok(<<c>>, i + 1) ELSE Fail(kind)

\* The character after a backslash.
Escaped(s, i, missing, broken) ==
  CASE CodeAt(s, i) = -1 -> Fail(missing)
    [] CodeAt(s, i) \in {CR, LF} -> Fail(broken)
    [] OTHER -> Ok(<<s[i]>>, i + 1)
-----------------------------------------------------------------------------
(* Blanks and comments                                                      *)

RECURSIVE AfterBlanks(_, _)
AfterBlanks(s, i) == IF CodeAt(s, i) \in Blank THEN AfterBlanks(s, i + 1) ELSE i

\* consumeFoldedWhitespace()
FoldedWhitespace(s, i) ==
  IF OccursAt(s, CRLF, i) /\ CodeAt(s, i + 2) \in Blank
  THEN Ok(<<SP>>, AfterBlanks(s, i + 3)) ELSE Fail("invalidLineEnding")

RECURSIVE SkipFws(_, _)
SkipFws(s, i) ==
  CASE CodeAt(s, i) \in Blank -> SkipFws(s, i + 1)
    [] CodeAt(s, i) \in {CR, LF} -> Then(FoldedWhitespace(s, i), LAMBDA v, at : SkipFws(s, at))
    [] OTHER -> Ok(<<>>, i)

\* consumeComment(), past its opening.
RECURSIVE Comment(_, _, _)
Comment(s, i, depth) ==
  LET c == CodeAt(s, i)
      Go(v, at) == Comment(s, at, depth)
  IN CASE c = -1 -> Fail("invalidHeaderValue")
       [] c = Open -> Comment(s, i + 1, depth + 1)
       [] c = Close -> IF depth = 1 THEN Ok(<<>>, i + 1) ELSE Comment(s, i + 1, depth - 1)
       [] c = Backslash -> Then(Escaped(s, i + 1, "invalidHeaderValue", "invalidLineEnding"), Go)
       [] c \in {CR, LF} -> Then(FoldedWhitespace(s, i), Go)
       [] c \in Controls \ {CR, LF} -> Fail("invalidHeaderValue")
       [] OTHER -> Comment(s, i + 1, depth)

\* skipCfws(); something was skipped iff the position moved.
RECURSIVE SkipCfws(_, _)
SkipCfws(s, i) ==
  Then(SkipFws(s, i), LAMBDA v, at :
    IF CodeAt(s, at) # Open THEN Ok(<<>>, at)
    ELSE Then(Comment(s, at + 1, 1), LAMBDA w, after : SkipCfws(s, after)))
-----------------------------------------------------------------------------
(* Words                                                                    *)
CanStartAtom(c) == c \in Atext \/ c >= 128

\* parseAtom()
Atom(s, i) ==
  LET RECURSIVE End(_)
      End(k) == IF CanStartAtom(CodeAt(s, k)) THEN End(k + 1) ELSE k
  IN IF End(i) = i THEN Fail("invalidLocalPart") ELSE Ok(SubSeq(s, i, End(i) - 1), End(i))

\* parseQuotedString(), past its opening.
RECURSIVE InQuotes(_, _, _)
InQuotes(s, i, value) ==
  LET c == CodeAt(s, i)
      Add(v, at) == InQuotes(s, at, value \o v)
  IN CASE c = -1 -> Fail("invalidHeaderValue")
       [] c = DQuote -> Ok(value, i + 1)
       [] c = Backslash -> Then(Escaped(s, i + 1, "invalidHeaderValue", "invalidLineEnding"), Add)
       [] c \in {CR, LF} -> Then(FoldedWhitespace(s, i), Add)
       [] c \in Controls \ {CR, LF} -> Fail("invalidHeaderValue")
       [] OTHER -> InQuotes(s, i + 1, Append(value, c))

Word(s, i) == IF CodeAt(s, i) = DQuote THEN InQuotes(s, i + 1, <<>>) ELSE Atom(s, i)

\* The dot-separated rest of a local part or a domain, whose first word ends
\* at i: Next(s, k) parses another word.
RestAfterWord(s, i, value, Next(_, _)) ==
  Then(SkipCfws(s, i), LAMBDA v, at :
    IF CodeAt(s, at) # Dot THEN Ok(value, i)
    ELSE Then(SkipCfws(s, at + 1), LAMBDA w, after :
           Then(Next(s, after), LAMBDA rest, end : Ok(value \o <<Dot>> \o rest, end))))

\* parseLocalPart()
RECURSIVE LocalPart(_, _)
LocalPart(s, i) ==
  IF CodeAt(s, i) \in {-1, AtSign, Less, Greater, Comma} THEN Fail("invalidLocalPart")
  ELSE Then(Word(s, i), LAMBDA word, at : RestAfterWord(s, at, word, LocalPart))

\* parseDomainLiteral(), past its opening.
RECURSIVE DomainLiteral(_, _, _)
DomainLiteral(s, i, value) ==
  LET c == CodeAt(s, i)
      Add(v, at) == DomainLiteral(s, at, value \o v)
  IN CASE c = 93 -> Ok(value, i + 1)
       [] c = Backslash -> Then(Escaped(s, i + 1, "invalidDomainLiteral", "invalidDomainLiteral"), Add)
       [] c \in Blank \cup {CR, LF} -> Then(SkipFws(s, i), Add)
       [] c \in (33..126) \ {91, 93, Backslash} -> DomainLiteral(s, i + 1, Append(value, c))
       [] OTHER -> Fail("invalidDomainLiteral")

RECURSIVE DotAtom(_, _)
DotAtom(s, i) ==
  IF ~CanStartAtom(CodeAt(s, i))
  THEN Fail(IF CodeAt(s, i) \in {-1, Greater, Comma} THEN "domainEmpty" ELSE "invalidDomain")
  ELSE Then(Atom(s, i), LAMBDA label, at : RestAfterWord(s, at, label, DotAtom))

\* parseDomain()
DomainPart(s, i) ==
  IF CodeAt(s, i) = 91
  THEN Then(DomainLiteral(s, i + 1, <<>>), LAMBDA v, at : Ok([text |-> v, literal |-> TRUE], at))
  ELSE Then(DotAtom(s, i), LAMBDA v, at : Ok([text |-> v, literal |-> FALSE], at))

\* parseAddrSpecShape()
AddrSpecShape(s, i) ==
  Then(LocalPart(s, i), LAMBDA localPart, a :
  Then(SkipCfws(s, a), LAMBDA v, b :
  Then(Expect(s, b, AtSign, "missingAt"), LAMBDA w, c :
  Then(SkipCfws(s, c), LAMBDA x, d :
  Then(DomainPart(s, d), LAMBDA domain, e :
    Ok([localPart |-> localPart, domain |-> domain], e))))))
-----------------------------------------------------------------------------
(* Mailboxes                                                                *)
Surrogates == 55296..57343

\* toMailbox() and makeMailbox()
ToMailbox(shape, at) ==
  LET local == shape.localPart
      domain == IF shape.domain.literal THEN NormalizeDomainLiteral(shape.domain.text)
                ELSE NormalizeDomain(shape.domain.text)
      octets == Len(Utf8(LocalText(local)))
  IN CASE Has(local \o shape.domain.text, Surrogates) -> Fail("invalidUtf8")
       [] domain = Undefined -> Fail("invalidDomain")
       [] Has(local, (0..31) \cup (127..159) \cup LineSeparators) -> Fail("invalidLocalPart")
       [] octets > MaxLocalPart -> Fail("localPartTooLong")
       [] octets + 1 + Len(domain) > MaxAddress -> Fail("addressTooLong")
       [] OTHER -> Ok([localPart |-> local, domain |-> domain, displayName |-> Undefined], at)

\* parseAngleAddr()
AngleAddr(s, i) ==
  Then(Expect(s, i, Less, "invalidAddress"), LAMBDA v, a :
  Then(SkipCfws(s, a), LAMBDA w, b :
  Then(AddrSpecShape(s, b), LAMBDA shape, c :
  Then(SkipCfws(s, c), LAMBDA x, d :
  Then(Expect(s, d, Greater, "invalidAddress"), LAMBDA y, e : ToMailbox(shape, e))))))

\* parsePhrase(): blanks and comments between words become one space.
RECURSIVE Phrase(_, _, _)
Phrase(s, i, output) ==
  Then(SkipCfws(s, i), LAMBDA v, at :
    LET c == CodeAt(s, at)
        gap == IF at > i /\ output # <<>> THEN <<SP>> ELSE <<>>
    IN CASE c \in {-1, Less, Colon, AtSign, Comma} -> Ok(output, at)
         [] c = Dot -> IF output = <<>> THEN Fail("invalidAddress")
                       ELSE Phrase(s, at + 1, output \o gap \o <<Dot>>)
         [] OTHER -> Then(Word(s, at), LAMBDA word, after : Phrase(s, after, output \o gap \o word)))

\* finalizeDisplayName()
Named(mailbox, phrase, at) ==
  LET name == DecodeHeaderWords(phrase)
  IN CASE phrase = <<>> -> Ok(mailbox, at)
       [] name = Undefined -> Fail("unsupportedCharset")
       [] Has(name, ForbiddenInDisplay) -> Fail("invalidHeaderValue")
       [] OTHER -> Ok([mailbox EXCEPT !.displayName = IF name = <<>> THEN Undefined ELSE name], at)

AtEntryEnd(s, i) == CodeAt(s, i) \in {-1, Comma, Semicolon}

\* Zero or more commas, each with the blanks after it.
RECURSIVE SkipCommas(_, _)
SkipCommas(s, i) ==
  IF CodeAt(s, i) # Comma THEN Ok(<<>>, i)
  ELSE Then(SkipCfws(s, i + 1), LAMBDA v, at : SkipCommas(s, at))

RECURSIVE Entity(_, _, _), Members(_, _, _)

\* parseEntity(): a mailbox, or the mailboxes of a group.
Entity(s, start, groups) ==
  Then(SkipCfws(s, start), LAMBDA v, i :
    LET shape == AddrSpecShape(s, i)
        spec == Then(shape, LAMBDA value, a : SkipCfws(s, a))
        isSpec == ~Failed(shape) /\ ~Failed(spec) /\ AtEntryEnd(s, spec.at)
        One(m, at) == Ok(<<m>>, at)
    IN CASE CodeAt(s, i) = Less -> Then(AngleAddr(s, i), One)
         [] CodeAt(s, i) = AtSign -> Fail("localPartEmpty")
         [] CodeAt(s, i) \notin {Less, AtSign} /\ Failed(spec)
              /\ ~(Failed(shape) /\ shape.error \in {"missingAt", "invalidLocalPart"}) -> spec
         [] CodeAt(s, i) \notin {Less, AtSign} /\ isSpec ->
              Then(ToMailbox(shape.value, spec.at), One)
         [] OTHER ->
              Then(Phrase(s, i, <<>>), LAMBDA phrase, a :
                IF CodeAt(s, a) = Colon /\ groups
                THEN Then(SkipCfws(s, a + 1), LAMBDA w, b :
                       Then(SkipCommas(s, b), LAMBDA x, c :
                         CASE CodeAt(s, c) = Semicolon -> Ok(<<>>, c + 1)
                           [] c > b /\ CodeAt(s, c) # Semicolon -> Fail("invalidAddress")
                           [] OTHER -> Members(s, c, <<>>)))
                ELSE IF CodeAt(s, a) # Less THEN Fail("invalidAddress")
                ELSE Then(AngleAddr(s, a), LAMBDA mailbox, b :
                       Then(Named(mailbox, phrase, b), One))))

\* The members of a group from i on (parseGroup()).
Members(s, i, before) ==
  Then(Entity(s, i, FALSE), LAMBDA one, a :
  Then(SkipCfws(s, a), LAMBDA v, b :
    CASE CodeAt(s, b) = Semicolon -> Ok(before \o one, b + 1)
      [] CodeAt(s, b) # Comma /\ CodeAt(s, b) # Semicolon -> Fail("invalidAddress")
      [] OTHER -> Then(SkipCfws(s, b + 1), LAMBDA w, c :
           IF AtEntryEnd(s, c) THEN Fail("invalidAddress") ELSE Members(s, c, before \o one))))

\* parse(): exactly one mailbox.
ParseAddress(s) ==
  Then(Entity(s, 1, FALSE), LAMBDA one, a :
  Then(SkipCfws(s, a), LAMBDA v, b :
    IF b <= Len(s) THEN Fail("invalidAddress") ELSE Ok(one[1], b)))

\* parseList(): the entries from i on, at least one.
RECURSIVE Entries(_, _, _)
Entries(s, i, before) ==
  Then(Entity(s, i, TRUE), LAMBDA some, a :
  Then(SkipCfws(s, a), LAMBDA v, b :
    CASE CodeAt(s, b) = -1 -> Ok(before \o some, b)
      [] CodeAt(s, b) \notin {-1, Comma} -> Fail("invalidAddress")
      [] OTHER -> Then(SkipCfws(s, b + 1), LAMBDA w, c :
           IF CodeAt(s, c) \in {-1, Comma} THEN Fail("invalidAddress")
           ELSE Entries(s, c, before \o some))))

ParseAddressList(s) ==
  Then(SkipCfws(s, 1), LAMBDA v, a :
  Then(SkipCommas(s, a), LAMBDA w, b :
    CASE CodeAt(s, b) = -1 -> IF b > a THEN Fail("invalidAddress") ELSE Ok(<<>>, b)
      [] OTHER -> Entries(s, b, <<>>)))
=============================================================================
