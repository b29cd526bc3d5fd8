------------------------------- MODULE MCMail -------------------------------
(* Small instances of SmtpContent and MailText for TLC, checked in one run:  *)
(* the subjects of MailText are taken once the empty message is on the wire. *)
EXTENDS SmtpContent, MailText

ShortMessages == UNION {[1..n -> Bytes] : n \in 0..5}

Texts1(strings) == {Text(s) : s \in strings}
E == <<233>>      \* a letter of Latin-1
I == <<20363>>    \* an ideograph
O == <<769>>      \* a combining accent

TopicPieces ==
  [ address |-> Texts1({"a", ".", "\"", "\\", " ", "(", ")", "@", "<", ">", ",", ":", ";", "\"a ", "<a@b>", "@b"})
                \cup {E, <<TAB>>},
    value |-> Texts1({"a", "\"", "\\", ";", "*", "'", "%", " ", "=", "+", "?"}) \cup {E, I, <<TAB>>},
    octets |-> Texts1({"a", "=", " ", "="}) \cup {E, I, <<CR>>, <<LF>>, <<TAB>>},
    label |-> Texts1({"a", "Z", "-", "."}) \cup {E, I, O, <<12360>>},
    multipart |-> Texts1({"--b", "--b--", "--b ", "x"}) \cup {<<LF>>, CRLF},
    entity |-> Texts1({"A: x", " y", "z"}) \cup {<<LF>>, CRLF} ]
TopicLength ==
  [address |-> 4, value |-> 3, octets |-> 5, label |-> 5, multipart |-> 6, entity |-> 6]

SomeMailboxes == {Text("\"x, y\" <c@d>"), E \o Text(" z <\"q r\"@b>")}
SomeTexts == {<<>>, Text("=. a ") \o CRLF \o CRLF, E \o <<LF>> \o Text("x y"), Text("twelve chars")}
Broken == Text("i") \o CRLF \o Text("Bcc: j@k")
SomeSubjects ==
  { Text("s"), Text("five words on two lines"), E \o I \o Text(" ") \o E, Text("=?utf-8?Q?a?="),
    Broken, E \o CRLF \o Text("Bcc: x") }
SomeIdentifiers == {Text("id@h"), Text("<id@h>"), Broken}
SomeTemplates ==
  { [text |-> Undefined, html |-> Text("<p>"), subject |-> Text("t")],
    [text |-> E, html |-> <<>>, subject |-> Undefined] }
SomeFields == {Field(Text("X-A"), Text("1")), Field(Text("date"), Text("then"))}
Attach(filename, contentType, contentId, inline, data_) ==
  [filename |-> filename, contentType |-> contentType, contentId |-> contentId, inline |-> inline,
   data |-> data_]
Binary == Text("application/octet-stream")
SomeAttachables ==
  { Attach(Text("a;\\\"b"), Binary, Undefined, FALSE, <<0, 255, 13, 10, 61>>),
    Attach(E \o Text(" x"), Text("text/plain; charset=x"), Undefined, FALSE, <<1, 2>>),
    Attach(Text("p.png"), Text("image/png"), Text("cid"), TRUE, <<7>>),
    Attach(Text("empty"), Binary, Undefined, FALSE, <<>>),
    Attach(Undefined, Text("text/html"), Undefined, TRUE, Text("<i>")),
    Attach(Undefined, Binary, Undefined, FALSE, <<>>) }

MCInit == Init /\ NoSubject
MCNext ==
  \/ NoSubject /\ Next /\ UNCHANGED textVars
  \/ done /\ message = <<>> /\ transfer = "data" /\ NextSubject /\ UNCHANGED vars
MCSpec == MCInit /\ [][MCNext]_<<vars, textVars>>
=============================================================================
