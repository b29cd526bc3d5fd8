------------------------ MODULE SmtpTransactionProofs ------------------------
(***************************************************************************)
(* Theorems about SmtpTransaction, for any number of recipients, chunks    *)
(* and transactions and every setting: what is reported sent was taken     *)
(* over by the server, a session goes back to the pool owing nothing, and  *)
(* replies are matched with commands.  Everything rests on an account of   *)
(* the replies that are owed: each command has a place in its transaction, *)
(* and those the client has not read the reply of have consecutive places. *)
(***************************************************************************)
EXTENDS SmtpTransaction, TLAPS

\* The client can still read.
Live == up /\ ~aborted

\* The place of a command in its transaction.
PosOf(cmd) ==
  CASE cmd.verb = "NOOP" -> 1
    [] cmd.verb = "MAIL" -> 2
    [] cmd.verb = "RCPT" -> 2 + cmd.arg
    [] cmd.verb = "DATA" -> 3 + Rcpts
    [] cmd.verb = "CONTENT" -> 4 + Rcpts
    [] OTHER -> 2 + Rcpts + cmd.arg

\* The place of the command whose reply is awaited, of the last one written, and
\* of the last one the server has answered.
At ==
  CASE pc = "noop" -> 1
    [] pc = "mail" -> 2
    [] pc = "rcpt" -> 2 + i
    [] pc = "data" -> 3 + Rcpts
    [] pc = "content" -> 4 + Rcpts
    [] OTHER -> 2 + Rcpts + i
Sent == IF setting.pipelining /\ pc \in {"mail", "rcpt"} THEN 2 + Rcpts ELSE At
Answered == Sent - Len(toServer)

\* The place of the first command whose reply was not read to its end.
FirstOwed == IF toClient = <<>> THEN Answered + 1 ELSE PosOf(toClient[1].to)

\* A command of the current transaction, but for RSET.
Current(cmd) ==
  /\ cmd.txn = n /\ cmd.verb # "RSET"
  /\ IF cmd.verb = "RCPT" THEN cmd.arg \in Recipients
     ELSE IF cmd.verb = "BDAT" THEN cmd.arg \in 1..Chunks ELSE cmd.arg = 0
  /\ cmd.verb = "BDAT" => setting.transfer = "bdat"
  /\ cmd.verb \in {"DATA", "CONTENT"} => setting.transfer = "data"

\* A line that others of its reply follow comes right before the last of them,
\* and agrees with it.
WireInv ==
  /\ \A k \in DOMAIN toClient :
       /\ toClient[k].more =>
            /\ k + 1 \in DOMAIN toClient /\ ~toClient[k + 1].more
            /\ toClient[k + 1].code = toClient[k].code /\ toClient[k + 1].to = toClient[k].to
       /\ toClient[k].code = "3xx" => toClient[k].to.verb = "DATA"
  /\ got # "none" => toClient # <<>> /\ toClient[1].code = got
  /\ \A k \in DOMAIN toServer : toServer[k].verb = "RCPT" => toServer[k].arg \in Recipients

\* Where the client is.
PlaceInv ==
  /\ pc = "rcpt" => i \in Recipients
  /\ pc = "bdat" => i \in 1..Chunks /\ setting.transfer = "bdat"
  /\ pc \in {"data", "content"} => setting.transfer = "data"
  /\ pc \in {"noop", "start", "mail"} => outcome = NoOutcome

\* The replies owed are those to the commands from FirstOwed to Sent, in this
\* order: the server has still to answer some, and has answered the others.
OwesCommands ==
  \A k \in DOMAIN toServer : Current(toServer[k]) /\ PosOf(toServer[k]) = Answered + k
OwesReplies ==
  /\ \A k \in DOMAIN toClient : Current(toClient[k].to) /\ PosOf(toClient[k].to) <= Answered
  /\ \A j, k \in DOMAIN toClient : j <= k => PosOf(toClient[j].to) <= PosOf(toClient[k].to)
  /\ \A k \in DOMAIN toClient : k + 1 \in DOMAIN toClient /\ ~toClient[k].more
       => PosOf(toClient[k + 1].to) = PosOf(toClient[k].to) + 1
  /\ toClient # <<>> => PosOf(toClient[Len(toClient)].to) = Answered
Owes == OwesCommands /\ OwesReplies

\* The reply that comes next is the one awaited; or it is that of a recipient who
\* was given up before, and then the message will not be sent.
InStep == FirstOwed = At
Behind == ~Ordered /\ pc \in {"rcpt", "data"} /\ 3 <= FirstOwed /\ FirstOwed < At

Asking == Trusted /\ Live /\ pc \in Waiting \ {"rset"}
OwedInv == Asking => Owes /\ (InStep \/ Behind)

\* A session that is ready owes nothing and the server has no transaction.
ReadyInv ==
  Trusted /\ pc \in {"ready", "start"} => toServer = <<>> /\ toClient = <<>> /\ srv = Fresh

\* RSET is sent when nothing is owed, if replies cannot be out of step.
ResetInv ==
  Ordered /\ Live /\ pc = "rset" =>
    /\ \A k \in DOMAIN toServer : toServer[k] = Cmd("RSET", 0)
    /\ \A k \in DOMAIN toClient : toClient[k].to = Cmd("RSET", 0)

\* What the client was told of each recipient is what the server decided.
Agrees(rcpts) ==
  \A r \in Recipients : /\ outcome[r] = "accepted" => r \in rcpts
                        /\ outcome[r] = "rejected" => r \notin rcpts
Delivered == \E q \in queued : q.txn = n /\ Agrees(q.rcpts)

\* The server's transaction, as long as the client is in step.
ServerInv ==
  Asking /\ InStep =>
    /\ Answered < 2 => srv = Fresh
    /\ pc = "rcpt" => \A r \in i..Rcpts : outcome[r] = "none"
    /\ pc \in {"mail", "rcpt", "data"} =>
         /\ \A r \in srv.rcpts : 2 + r <= Answered
         /\ Agrees(srv.rcpts)
         /\ \A k \in DOMAIN toClient : toClient[k].to.verb = "RCPT" =>
              /\ toClient[k].code = "2xx" => toClient[k].to.arg \in srv.rcpts
              /\ toClient[k].code = "5xx" => toClient[k].to.arg \notin srv.rcpts
    /\ pc \in {"content", "bdat"} =>
         /\ toServer # <<>> => Agrees(srv.rcpts)
         /\ toClient # <<>> /\ toClient[1].code = "2xx" =>
              IF pc = "bdat" /\ i < Chunks THEN Agrees(srv.rcpts) ELSE Delivered /\ srv = Fresh

\* The message is only sent when every required recipient was accepted.
RequiredInv ==
  setting.requireAll /\ Live =>
    /\ ~setting.pipelining /\ pc = "rcpt" => \A r \in 1..(i - 1) : outcome[r] = "accepted"
    /\ pc \in {"data", "content", "bdat"}
         /\ (~setting.pipelining \/ ~(setting.late \/ setting.garbled))
       => Having([outcome |-> outcome], "accepted") = Recipients
-----------------------------------------------------------------------------
(* Sequences *)

\* What is left of a sequence without its first element.
LEMMA TailFacts ==
  ASSUME NEW S, NEW s \in Seq(S), s # <<>>
  PROVE  /\ Tail(s) \in Seq(S) /\ Len(Tail(s)) = Len(s) - 1
         /\ \A k \in 1..(Len(s) - 1) : Tail(s)[k] = s[k + 1]
         /\ DOMAIN Tail(s) = 1..(Len(s) - 1) /\ Len(s) \in Nat \ {0} /\ s[1] \in S
OBVIOUS

\* A sequence with another appended.
LEMMA CatFacts ==
  ASSUME NEW S, NEW s \in Seq(S), NEW t \in Seq(S)
  PROVE  /\ s \o t \in Seq(S) /\ Len(s \o t) = Len(s) + Len(t)
         /\ \A k \in 1..Len(s) : (s \o t)[k] = s[k]
         /\ \A k \in 1..Len(t) : (s \o t)[Len(s) + k] = t[k]
         /\ DOMAIN (s \o t) = 1..(Len(s) + Len(t)) /\ Len(s) \in Nat /\ Len(t) \in Nat
OBVIOUS

\* A sequence with another of length one appended.
LEMMA CatOneFacts ==
  ASSUME NEW S, NEW s \in Seq(S), NEW t \in Seq(S), Len(t) = 1
  PROVE  /\ Len(s \o t) = Len(s) + 1 /\ DOMAIN (s \o t) = 1..(Len(s) + 1)
         /\ \A k \in 1..Len(s) : (s \o t)[k] = s[k]
         /\ (s \o t)[Len(s) + 1] = t[1]
         /\ Len(s) \in Nat /\ DOMAIN s = 1..Len(s)
<1> DEFINE u == s \o t
<1>1. /\ Len(u) = Len(s) + Len(t) /\ DOMAIN u = 1..(Len(s) + Len(t)) /\ Len(s) \in Nat
      /\ \A k \in 1..Len(s) : u[k] = s[k]
      /\ \A k \in 1..Len(t) : u[Len(s) + k] = t[k]
  BY ONLY CatFacts, s \in Seq(S), t \in Seq(S)
<1>2. DOMAIN s = 1..Len(s)
  OBVIOUS
<1> HIDE DEF u
<1>3. u[Len(s) + 1] = t[1]
  BY ONLY <1>1, Len(t) = 1
<1>4. QED
  BY <1>1, <1>2, <1>3 DEF u

\* A sequence with one element appended.
LEMMA AppendFacts ==
  ASSUME NEW S, NEW s \in Seq(S), NEW e \in S
  PROVE  /\ Append(s, e) \in Seq(S) /\ Len(Append(s, e)) = Len(s) + 1 /\ Len(s) \in Nat
         /\ \A k \in 1..Len(s) : Append(s, e)[k] = s[k]
         /\ Append(s, e)[Len(s) + 1] = e /\ DOMAIN Append(s, e) = 1..(Len(s) + 1)
OBVIOUS

\* The commands of a pipelined envelope.
LEMMA EnvelopeFacts ==
  ASSUME TypeOK
  PROVE  LET cmds == <<Cmd("MAIL", 0)>> \o [r \in Recipients |-> Cmd("RCPT", r)] IN
         /\ cmds \in Seq(Commands) /\ Len(cmds) = Rcpts + 1
         /\ cmds[1] = Cmd("MAIL", 0) /\ \A r \in Recipients : cmds[r + 1] = Cmd("RCPT", r)
<1> DEFINE rcpts == [r \in Recipients |-> Cmd("RCPT", r)]
<1>1. rcpts \in Seq(Commands) /\ Len(rcpts) = Rcpts
  BY TransactionAssumption DEF TypeOK, Recipients, Cmd, Commands, Verbs
<1>2. <<Cmd("MAIL", 0)>> \in Seq(Commands)
  BY TransactionAssumption DEF TypeOK, Cmd, Commands, Verbs
<1>3. \A r \in Recipients : rcpts[r] = Cmd("RCPT", r)
  OBVIOUS
<1> HIDE DEF rcpts
<1> QED BY <1>1, <1>2, <1>3, CatFacts, TransactionAssumption DEF Recipients
-----------------------------------------------------------------------------
(* Types, places and the shape of replies *)

\* The commands the client writes but for those of an envelope: none, or one.
Writes(cmds) ==
  \/ cmds = <<>>
  \/ \E cmd \in Commands : /\ cmd.verb = "RCPT" => cmd.arg \in Recipients
                           /\ cmds = <<cmd>>

\* What a move of the client keeps.
ClientTyped ==
  /\ pc \in Waiting \cup {"ready", "start", "gone"} /\ i \in 0..(Rcpts + Chunks)
  /\ outcome \in [Recipients -> Outcomes] /\ mailOk \in BOOLEAN /\ got \in Codes \cup {"none"}
  /\ toServer \in Seq(Commands)
  /\ claimed \in Seq([txn : 0..MaxTxn, outcome : [Recipients -> Outcomes]])
  /\ \A k \in DOMAIN toServer : toServer[k].verb = "RCPT" => toServer[k].arg \in Recipients
  /\ PlaceInv

\* A command made by Cmd is one.
LEMMA CmdFacts ==
  ASSUME TypeOK, NEW verb \in Verbs, NEW k \in 0..(Rcpts + Chunks),
         verb = "RCPT" => k \in Recipients
  PROVE  Writes(<<Cmd(verb, k)>>)
BY DEF Writes, Cmd, Commands, TypeOK

\* Asking writes what it is given, or nothing.
LEMMA AskWrites ==
  ASSUME TypeOK, WireInv, NEW phase, NEW k, NEW cmds, Writes(cmds), Ask(phase, k, cmds)
  PROVE  /\ toServer' \in Seq(Commands) /\ got' = "none" /\ claimed' = claimed
         /\ pc' = phase /\ i' = k
         /\ \A j \in DOMAIN toServer' :
              toServer'[j].verb = "RCPT" => toServer'[j].arg \in Recipients
<1>1. cmds \in Seq(Commands) /\ \A j \in DOMAIN cmds : cmds[j].verb = "RCPT" => cmds[j].arg \in Recipients
  <2>1. CASE cmds = <<>>
    BY <2>1
  <2>2. CASE cmds # <<>>
    <3>1. PICK cmd \in Commands : /\ cmd.verb = "RCPT" => cmd.arg \in Recipients
                                 /\ cmds = <<cmd>>
      BY <2>2 DEF Writes
    <3>2. cmds \in Seq(Commands) /\ Len(cmds) = 1 /\ cmds[1] = cmd
      BY <3>1
    <3> QED BY <3>1, <3>2
  <2> QED BY <2>1, <2>2
<1>2. /\ toServer \o cmds \in Seq(Commands)
      /\ \A j \in DOMAIN (toServer \o cmds) :
           (toServer \o cmds)[j].verb = "RCPT" => (toServer \o cmds)[j].arg \in Recipients
  BY <1>1, CatFacts DEF TypeOK, WireInv
<1> QED BY <1>2 DEF Ask, TypeOK, WireInv

\* Where the client goes once the recipients are through.
LEMMA EnvelopeTyped ==
  ASSUME TypeOK, WireInv, NEW out, EnvelopeSent(out), UNCHANGED setting
  PROVE  /\ pc' \in {"rset", "data", "bdat"} /\ i' \in 0..(Rcpts + Chunks) /\ got' = "none"
         /\ toServer' \in Seq(Commands) /\ claimed' = claimed /\ PlaceInv'
         /\ \A j \in DOMAIN toServer' :
              toServer'[j].verb = "RCPT" => toServer'[j].arg \in Recipients
<1> USE TransactionAssumption DEF PlaceInv
<1>1. setting.transfer \in {"data", "bdat"}
  BY DEF TypeOK
<1>2. CASE BestEffortReset
  BY <1>2, CmdFacts, AskWrites DEF BestEffortReset, Verbs
<1>3. CASE Ask("data", 0, <<Cmd("DATA", 0)>>) /\ setting.transfer = "data"
  BY <1>3, CmdFacts, AskWrites DEF Verbs
<1>4. CASE Ask("bdat", 1, <<Cmd("BDAT", 1)>>) /\ setting.transfer = "bdat"
  BY <1>4, CmdFacts, AskWrites DEF Verbs
<1> QED BY <1>1, <1>2, <1>3, <1>4 DEF EnvelopeSent, SendMessage

\* A move of the client after the reply to a recipient, or without one.
LEMMA RecipientTyped ==
  ASSUME TypeOK, WireInv, PlaceInv, pc = "rcpt", NEW out,
         NextRecipient(out) \/ NextPipelined(out) \/ EnvelopeSent(out), UNCHANGED setting
  PROVE  /\ pc' \in Waiting \cup {"gone"} /\ i' \in 0..(Rcpts + Chunks) /\ got' = "none"
         /\ toServer' \in Seq(Commands) /\ claimed' = claimed /\ PlaceInv'
         /\ \A j \in DOMAIN toServer' :
              toServer'[j].verb = "RCPT" => toServer'[j].arg \in Recipients
<1> USE TransactionAssumption DEF PlaceInv, Waiting
<1>1. i \in Recipients /\ Rcpts \in Nat /\ Chunks \in Nat
  OBVIOUS
<1>2. CASE EnvelopeSent(out)
  BY <1>2, EnvelopeTyped
<1>3. CASE BestEffortReset
  BY <1>3, CmdFacts, AskWrites DEF BestEffortReset, Verbs
<1>4. CASE i < Rcpts /\ Ask("rcpt", i + 1, <<Cmd("RCPT", i + 1)>>)
  BY <1>1, <1>4, CmdFacts, AskWrites DEF Verbs, Recipients
<1>5. CASE i < Rcpts /\ Ask("rcpt", i + 1, <<>>)
  BY <1>1, <1>5, AskWrites DEF Writes, Recipients
<1>6. CASE Fail
  BY <1>6 DEF Fail, TypeOK, WireInv
<1> QED BY <1>2, <1>3, <1>4, <1>5, <1>6 DEF NextRecipient, NextPipelined

\* A transaction that ends, well or not.
LEMMA EndTyped ==
  ASSUME TypeOK, WireInv, Succeed \/ Fail, UNCHANGED <<setting, outcome, mailOk>>
  PROVE  ClientTyped' /\ got' = "none"
<1>1. /\ outcome' \in [Recipients -> Outcomes] /\ mailOk' \in BOOLEAN
      /\ pc' \in {"ready", "gone"} /\ i' = 0 /\ got' = "none" /\ toServer' = toServer
  BY DEF TypeOK, Succeed, Fail
<1>2. claimed' \in Seq([txn : 0..MaxTxn, outcome : [Recipients -> Outcomes]])
  <2>1. [txn |-> n, outcome |-> outcome] \in [txn : 0..MaxTxn, outcome : [Recipients -> Outcomes]]
    BY DEF TypeOK
  <2>2. Append(claimed, [txn |-> n, outcome |-> outcome])
          \in Seq([txn : 0..MaxTxn, outcome : [Recipients -> Outcomes]])
    BY <2>1, AppendFacts DEF TypeOK
  <2> QED BY <2>2 DEF TypeOK, Succeed, Fail
<1> QED BY <1>1, <1>2, TransactionAssumption DEF ClientTyped, PlaceInv, TypeOK, WireInv

\* What the client does with a reply, or with the lack of one, keeps its types.
LEMMA ReplyTyped ==
  ASSUME TypeOK, WireInv, PlaceInv, NEW code \in Codes, OnReply(code), UNCHANGED <<setting, n>>
  PROVE  ClientTyped' /\ got' = "none"
<1> USE TransactionAssumption DEF PlaceInv, ClientTyped
<1>1. /\ i \in 0..(Rcpts + Chunks) /\ outcome \in [Recipients -> Outcomes] /\ mailOk \in BOOLEAN
      /\ IsSuccess(code) \in BOOLEAN
      /\ claimed \in Seq([txn : 0..MaxTxn, outcome : [Recipients -> Outcomes]])
  BY DEF TypeOK, IsSuccess
<1>2. CASE pc = "noop"
  BY <1>1, <1>2 DEF OnReply, Fail, TypeOK, WireInv, Waiting
<1>3. CASE pc = "mail"
  <2>1. \/ Ask("rcpt", 1, <<>>) \/ Ask("rcpt", 1, <<Cmd("RCPT", 1)>>) \/ Fail
    BY <1>3 DEF OnReply
  <2>2. mailOk' = IsSuccess(code) /\ outcome' = outcome
    BY <1>3 DEF OnReply
  <2>3. CASE Ask("rcpt", 1, <<>>)
    BY <1>1, <2>2, <2>3, AskWrites DEF Writes, Recipients, Waiting
  <2>4. CASE Ask("rcpt", 1, <<Cmd("RCPT", 1)>>)
    BY <1>1, <2>2, <2>4, CmdFacts, AskWrites DEF Verbs, Recipients, Waiting
  <2>5. CASE Fail
    BY <1>1, <2>2, <2>5 DEF Fail, TypeOK, WireInv
  <2> QED BY <2>1, <2>3, <2>4, <2>5
<1>4. CASE pc = "rcpt"
  BY <1>1, <1>4, RecipientTyped DEF OnReply, Outcomes
<1>5. CASE pc = "rset"
  BY <1>1, <1>5 DEF OnReply, Fail, TypeOK, WireInv
<1>6. CASE pc = "data"
  <2>1. CASE Ask("content", 0, <<Cmd("CONTENT", 0)>>)
    BY <1>1, <1>6, <2>1, CmdFacts, AskWrites DEF OnReply, Verbs, Waiting
  <2>2. CASE Fail
    BY <1>1, <1>6, <2>2 DEF OnReply, Fail, TypeOK, WireInv
  <2> QED BY <1>6, <2>1, <2>2 DEF OnReply
<1>7. CASE pc = "content"
  BY <1>7, EndTyped DEF OnReply
<1>8. CASE pc = "bdat"
  <2>1. CASE i < Chunks /\ Ask("bdat", i + 1, <<Cmd("BDAT", i + 1)>>)
    BY <1>1, <1>8, <2>1, CmdFacts, AskWrites DEF OnReply, Verbs, Waiting
  <2>2. CASE Succeed \/ Fail
    BY <1>8, <2>2, EndTyped DEF OnReply
  <2> QED BY <1>8, <2>1, <2>2 DEF OnReply
<1> QED BY <1>2, <1>3, <1>4, <1>5, <1>6, <1>7, <1>8 DEF OnReply

\* The same when the read fails.
LEMMA ErrorTyped ==
  ASSUME TypeOK, WireInv, PlaceInv, OnError, UNCHANGED <<setting, n>>
  PROVE  ClientTyped' /\ got' = "none"
<1> USE TransactionAssumption DEF PlaceInv, ClientTyped
<1>1. CASE pc = "rcpt"
  BY <1>1, RecipientTyped DEF OnError, Outcomes, TypeOK
<1>2. CASE pc # "rcpt"
  BY <1>2 DEF OnError, Fail, TypeOK, WireInv
<1> QED BY <1>1, <1>2

\* What is left of the lines after the first.
LEMMA LinesLeft ==
  ASSUME TypeOK, WireInv, toClient # <<>>, toClient' = Tail(toClient), UNCHANGED setting
  PROVE  /\ toClient' \in Seq(Lines) /\ Line \in Lines
         /\ Line.more => /\ toClient' # <<>> /\ ~toClient'[1].more
                         /\ toClient'[1].code = Line.code
         /\ \A k \in DOMAIN toClient' :
              /\ toClient'[k].more =>
                   /\ k + 1 \in DOMAIN toClient' /\ ~toClient'[k + 1].more
                   /\ toClient'[k + 1].code = toClient'[k].code
                   /\ toClient'[k + 1].to = toClient'[k].to
              /\ toClient'[k].code = "3xx" => toClient'[k].to.verb = "DATA"
<1>1. toClient \in Seq(Lines)
  BY DEF TypeOK
<1>2. /\ toClient' \in Seq(Lines) /\ Len(toClient') = Len(toClient) - 1 /\ Len(toClient) \in Nat \ {0}
      /\ \A k \in 1..(Len(toClient) - 1) : toClient'[k] = toClient[k + 1]
      /\ DOMAIN toClient' = 1..(Len(toClient) - 1) /\ toClient[1] \in Lines
      /\ DOMAIN toClient = 1..Len(toClient)
  BY <1>1, TailFacts
<1>3. Line = toClient[1]
  BY <1>1 DEF Line
<1> QED BY <1>2, <1>3 DEF WireInv

\* A line is only found malformed where the server may garble one.
LEMMA MalformedIsGarbled ==
  ASSUME WireInv, TypeOK, ReadMalformed
  PROVE  setting.garbled
<1>1. toClient \in Seq(Lines) /\ toClient # <<>>
  BY DEF TypeOK, ReadMalformed, LineReadable
<1>2. Line = toClient[1]
  BY <1>1 DEF Line
<1> QED BY <1>2 DEF ReadMalformed, WellFormed, WireInv

\* Reading keeps types, places and the shape of replies.
LEMMA ReadTyped ==
  ASSUME TypeOK, WireInv, PlaceInv, ReadLine \/ ReadMalformed \/ ReadFails
  PROVE  TypeOK' /\ WireInv' /\ PlaceInv'
<1> USE DEF TypeOK, WireInv, ClientTyped, PlaceInv
<1>1. CASE ReadFails
  BY <1>1, ErrorTyped DEF ReadFails
<1>2. CASE ReadMalformed
  <2>1. ClientTyped' /\ got' = "none"
    BY <1>2, ErrorTyped DEF ReadMalformed
  <2> QED BY <1>2, <2>1, LinesLeft DEF ReadMalformed, LineReadable
<1>3. CASE ReadLine /\ Line.more
  BY <1>3, LinesLeft DEF ReadLine, LineReadable, WellFormed, Lines
<1>4. CASE ReadLine /\ ~Line.more
  <2>1. Line.code \in Codes
    BY <1>4, LinesLeft DEF ReadLine, LineReadable, WellFormed, Lines
  <2>2. ClientTyped' /\ got' = "none"
    BY <1>4, <2>1, ReplyTyped DEF ReadLine
  <2> QED BY <1>4, <2>2, LinesLeft DEF ReadLine, LineReadable
<1> QED BY <1>1, <1>2, <1>3, <1>4

\* So does the beginning of a transaction.
LEMMA BeginTyped ==
  ASSUME TypeOK, WireInv, PlaceInv, Begin \/ Start
  PROVE  TypeOK' /\ WireInv' /\ PlaceInv'
<1> USE TransactionAssumption DEF TypeOK, WireInv, PlaceInv
<1>1. CASE Begin
  <2> DEFINE noop == [verb |-> "NOOP", txn |-> n + 1, arg |-> 0]
  <2>1. noop \in Commands /\ noop.verb # "RCPT" /\ n + 1 \in 0..MaxTxn
    BY <1>1 DEF Begin, Commands, Verbs
  <2>2. toServer' = toServer \/ toServer' = Append(toServer, noop)
    BY <1>1 DEF Begin
  <2>3. toServer \in Seq(Commands)
    OBVIOUS
  <2>4. /\ /\ Append(toServer, noop) \in Seq(Commands)
           /\ Len(Append(toServer, noop)) = Len(toServer) + 1 /\ Len(toServer) \in Nat
        /\ \A k \in 1..Len(toServer) : Append(toServer, noop)[k] = toServer[k]
        /\ Append(toServer, noop)[Len(toServer) + 1] = noop
        /\ DOMAIN Append(toServer, noop) = 1..(Len(toServer) + 1)
    BY <2>1, <2>3, AppendFacts
  <2> HIDE DEF noop
  <2>5. \A k \in DOMAIN toServer' : toServer'[k].verb = "RCPT" => toServer'[k].arg \in Recipients
    <3>1. CASE toServer' = toServer
      BY <3>1
    <3>2. CASE toServer' = Append(toServer, noop)
      <4>1. \A k \in 1..(Len(toServer) + 1) : k \in 1..Len(toServer) \/ k = Len(toServer) + 1
        BY <2>4
      <4>2. \A k \in 1..Len(toServer) : toServer[k].verb = "RCPT" => toServer[k].arg \in Recipients
        BY <2>3
      <4> QED BY ONLY <2>1, <2>4, <3>2, <4>1, <4>2
    <3> QED BY <2>2, <3>1, <3>2
  <2>6. toServer' \in Seq(Commands)
    BY <2>2, <2>3, <2>4
  <2>7. /\ pc' \in {"start", "noop"} /\ i' = 0 /\ got' = "none" /\ n' = n + 1
        /\ outcome' = NoOutcome /\ mailOk' = FALSE /\ aborted' = FALSE
        /\ UNCHANGED <<setting, claimed, up, toClient, srv, queued>>
    BY <1>1 DEF Begin
  <2>8. NoOutcome \in [Recipients -> Outcomes]
    BY DEF NoOutcome, Outcomes
  <2>9. /\ {mailOk, aborted, up}' \subseteq BOOLEAN /\ i' \in 0..(Rcpts + Chunks)
        /\ claimed' \in Seq([txn : 0..MaxTxn, outcome : [Recipients -> Outcomes]])
    <3>1. claimed' \in Seq([txn : 0..MaxTxn, outcome : [Recipients -> Outcomes]])
      BY <2>7
    <3>2. i' \in 0..(Rcpts + Chunks)
      BY <2>7
    <3>3. mailOk' \in BOOLEAN /\ aborted' \in BOOLEAN /\ up' \in BOOLEAN
      BY <2>7
    <3> QED BY <3>1, <3>2, <3>3
  <2>10. TypeOK'
    BY <2>1, <2>6, <2>7, <2>8, <2>9 DEF Waiting
  <2> QED BY <2>5, <2>7, <2>10
<1>2. CASE Start /\ Fail
  BY <1>2 DEF Start, Fail
<1>3. CASE Start /\ SendEnvelope
  <2> DEFINE cmds == IF setting.pipelining
                     THEN <<Cmd("MAIL", 0)>> \o [r \in Recipients |-> Cmd("RCPT", r)]
                     ELSE <<Cmd("MAIL", 0)>>
  <2>1. cmds \in Seq(Commands) /\ \A k \in DOMAIN cmds : cmds[k].verb = "RCPT" => cmds[k].arg \in Recipients
    <3>1. CASE setting.pipelining
      <4>1. /\ cmds \in Seq(Commands) /\ Len(cmds) = Rcpts + 1 /\ cmds[1] = Cmd("MAIL", 0)
            /\ \A r \in Recipients : cmds[r + 1] = Cmd("RCPT", r)
        BY <3>1, EnvelopeFacts
      <4>2. \A k \in DOMAIN cmds : k = 1 \/ (k - 1 \in Recipients /\ cmds[k] = Cmd("RCPT", k - 1))
        BY <4>1 DEF Recipients
      <4> QED BY <4>1, <4>2 DEF Cmd
    <3>2. CASE ~setting.pipelining
      BY <3>2 DEF Cmd, Commands, Verbs
    <3> QED BY <3>1, <3>2
  <2>2. /\ toServer' = IF aborted \/ ~up THEN toServer ELSE toServer \o cmds
        /\ pc' = "mail" /\ i' = 0 /\ got' = "none" /\ claimed' = claimed
    BY <1>3 DEF SendEnvelope, Ask
  <2> HIDE DEF cmds
  <2>3. /\ toServer' \in Seq(Commands)
        /\ \A k \in DOMAIN toServer' : toServer'[k].verb = "RCPT" => toServer'[k].arg \in Recipients
    BY <2>1, <2>2, CatFacts
  <2> QED BY <1>3, <2>2, <2>3 DEF Start, Waiting
<1> QED BY <1>1, <1>2, <1>3 DEF Start

\* The server's verdicts on a command.
LEMMA VerdictFacts ==
  ASSUME TypeOK, NEW cmd \in Commands, cmd.verb = "RCPT" => cmd.arg \in Recipients,
         NEW v \in Verdicts(cmd)
  PROVE  /\ v[1] \in Codes /\ v[2] \in [phase : {"idle", "mail", "data"}, rcpts : SUBSET Recipients]
         /\ v[1] = "3xx" => cmd.verb = "DATA"
<1>1. /\ srv \in [phase : {"idle", "mail", "data"}, rcpts : SUBSET Recipients]
      /\ Fresh \in [phase : {"idle", "mail", "data"}, rcpts : SUBSET Recipients]
      /\ [phase |-> "mail", rcpts |-> {}] \in [phase : {"idle", "mail", "data"}, rcpts : SUBSET Recipients]
      /\ [srv EXCEPT !.phase = "data"] \in [phase : {"idle", "mail", "data"}, rcpts : SUBSET Recipients]
      /\ cmd.verb = "RCPT" => [srv EXCEPT !.rcpts = @ \cup {cmd.arg}]
                                \in [phase : {"idle", "mail", "data"}, rcpts : SUBSET Recipients]
  BY DEF TypeOK, Fresh
<1> QED BY <1>1 DEF Verdicts, Codes

\* The reply to a command: its last line, for a start.
ReplyTo(code, cmd) == <<[code |-> code, more |-> FALSE, to |-> cmd]>>
LEMMA ReplyFacts ==
  ASSUME NEW cmd \in Commands, NEW code \in Codes
  PROVE  /\ ReplyTo(code, cmd) \in Seq(Lines) /\ Len(ReplyTo(code, cmd)) = 1
         /\ ReplyTo(code, cmd)[1].to = cmd /\ ReplyTo(code, cmd)[1].code = code
         /\ ~ReplyTo(code, cmd)[1].more
BY DEF ReplyTo, Lines

\* The server answers the first command under way with a reply that comes behind
\* those that are still to be read.
LEMMA ServerFacts ==
  ASSUME TypeOK, WireInv, ServerReplies
  PROVE  \E v \in Verdicts(toServer[1]) :
           /\ toServer # <<>> /\ toServer[1] \in Commands
           /\ toServer[1].verb = "RCPT" => toServer[1].arg \in Recipients
           /\ v[1] \in Codes /\ srv' = v[2] /\ toClient' = toClient \o ReplyTo(v[1], toServer[1])
           /\ toServer' = Tail(toServer) /\ UNCHANGED <<client, up>>
           /\ queued' = IF Delivers(toServer[1], v[1])
                        THEN queued \cup {[txn |-> toServer[1].txn, rcpts |-> srv.rcpts]} ELSE queued
<1>1. toServer # <<>> /\ toServer \in Seq(Commands) /\ toClient \in Seq(Lines)
  BY DEF ServerReplies, TypeOK
<1>2. Head(toServer) = toServer[1] /\ toServer[1] \in Commands /\ 1 \in DOMAIN toServer
  BY <1>1
<1>3. toServer[1].verb = "RCPT" => toServer[1].arg \in Recipients
  BY <1>2 DEF WireInv
<1>4. \A v \in Verdicts(toServer[1]) : v[1] \in Codes
  BY <1>2, <1>3, VerdictFacts
<1>5. PICK v \in Verdicts(toServer[1]) :
        /\ srv' = v[2]
        /\ toClient' = Append(toClient, [code |-> v[1], more |-> FALSE, to |-> toServer[1]])
        /\ queued' = IF Delivers(toServer[1], v[1])
                     THEN queued \cup {[txn |-> toServer[1].txn, rcpts |-> srv.rcpts]} ELSE queued
  BY <1>2 DEF ServerReplies
<1>6. toServer' = Tail(toServer) /\ UNCHANGED <<client, up>>
  BY DEF ServerReplies
<1>7. toClient' = toClient \o ReplyTo(v[1], toServer[1])
  <2>1. \A line \in Lines : Append(toClient, line) = toClient \o <<line>>
    BY <1>1
  <2>2. [code |-> v[1], more |-> FALSE, to |-> toServer[1]] \in Lines
    BY <1>2, <1>4 DEF Lines
  <2> QED BY <1>5, <2>1, <2>2 DEF ReplyTo
<1> QED BY <1>1, <1>2, <1>3, <1>4, <1>5, <1>6, <1>7

\* Answering keeps types, places and the shape of replies.
LEMMA ServerTyped ==
  ASSUME TypeOK, WireInv, PlaceInv, ServerReplies
  PROVE  TypeOK' /\ WireInv' /\ PlaceInv'
<1> DEFINE cmd == toServer[1]
<1> PICK v \in Verdicts(cmd) :
        /\ toServer # <<>> /\ cmd \in Commands /\ (cmd.verb = "RCPT" => cmd.arg \in Recipients)
        /\ v[1] \in Codes /\ srv' = v[2] /\ toClient' = toClient \o ReplyTo(v[1], cmd)
        /\ toServer' = Tail(toServer) /\ UNCHANGED <<client, up>>
        /\ queued' = IF Delivers(cmd, v[1])
                     THEN queued \cup {[txn |-> cmd.txn, rcpts |-> srv.rcpts]} ELSE queued
  BY ServerFacts
<1> DEFINE lines == ReplyTo(v[1], cmd)
<1>1. /\ toServer # <<>> /\ cmd \in Commands /\ (cmd.verb = "RCPT" => cmd.arg \in Recipients)
      /\ v[1] \in Codes /\ srv' = v[2] /\ toClient' = toClient \o lines
      /\ toServer' = Tail(toServer) /\ UNCHANGED <<client, up>>
      /\ queued' = IF Delivers(cmd, v[1])
                   THEN queued \cup {[txn |-> cmd.txn, rcpts |-> srv.rcpts]} ELSE queued
  OBVIOUS
<1> HIDE DEF cmd
<1>2. /\ v[2] \in [phase : {"idle", "mail", "data"}, rcpts : SUBSET Recipients]
      /\ v[1] = "3xx" => cmd.verb = "DATA"
  BY <1>1, VerdictFacts
<1>3. /\ lines \in Seq(Lines) /\ Len(lines) = 1
      /\ lines[1].to = cmd /\ lines[1].code = v[1] /\ ~lines[1].more
  BY <1>1, ReplyFacts
<1> HIDE DEF lines
<1>4. /\ toServer' \in Seq(Commands) /\ Len(toServer') = Len(toServer) - 1
      /\ \A k \in 1..(Len(toServer) - 1) : toServer'[k] = toServer[k + 1]
      /\ DOMAIN toServer' = 1..(Len(toServer) - 1)
  BY <1>1, TailFacts DEF TypeOK
<1>5. /\ toClient' \in Seq(Lines)
      /\ \A k \in 1..Len(toClient) : toClient'[k] = toClient[k]
      /\ \A k \in 1..Len(lines) : toClient'[Len(toClient) + k] = lines[k]
      /\ DOMAIN toClient' = 1..(Len(toClient) + Len(lines)) /\ Len(toClient) \in Nat
      /\ DOMAIN toClient = 1..Len(toClient) /\ DOMAIN lines = 1..Len(lines)
  <2>1. toClient \in Seq(Lines) /\ lines \in Seq(Lines)
    BY <1>3 DEF TypeOK
  <2>2. /\ toClient \o lines \in Seq(Lines)
        /\ \A k \in 1..Len(toClient) : (toClient \o lines)[k] = toClient[k]
        /\ \A k \in 1..Len(lines) : (toClient \o lines)[Len(toClient) + k] = lines[k]
        /\ DOMAIN (toClient \o lines) = 1..(Len(toClient) + Len(lines)) /\ Len(toClient) \in Nat
    BY ONLY <2>1, CatFacts
  <2>3. DOMAIN toClient = 1..Len(toClient) /\ DOMAIN lines = 1..Len(lines)
    BY ONLY <1>3, <2>1
  <2> QED BY <1>1, <2>2, <2>3
<1>6. TypeOK'
  <2>1. queued' \subseteq [txn : 0..MaxTxn, rcpts : SUBSET Recipients]
    BY <1>1 DEF TypeOK, Commands
  <2> QED BY <1>1, <1>2, <1>4, <1>5, <2>1 DEF TypeOK, client
<1>7. \A k \in DOMAIN toClient' :
        /\ toClient'[k].more =>
             /\ k + 1 \in DOMAIN toClient' /\ ~toClient'[k + 1].more
             /\ toClient'[k + 1].code = toClient'[k].code /\ toClient'[k + 1].to = toClient'[k].to
        /\ toClient'[k].code = "3xx" => toClient'[k].to.verb = "DATA"
  <2> SUFFICES ASSUME NEW k \in DOMAIN toClient'
               PROVE  /\ toClient'[k].more =>
                           /\ k + 1 \in DOMAIN toClient' /\ ~toClient'[k + 1].more
                           /\ toClient'[k + 1].code = toClient'[k].code
                           /\ toClient'[k + 1].to = toClient'[k].to
                      /\ toClient'[k].code = "3xx" => toClient'[k].to.verb = "DATA"
    OBVIOUS
  <2>1. CASE k \in DOMAIN toClient
    BY <1>3, <1>5, <2>1 DEF WireInv
  <2>2. CASE k = Len(toClient) + 1
    BY <1>2, <1>3, <1>5, <2>2
  <2>3. k \in DOMAIN toClient \/ k = Len(toClient) + 1
    BY ONLY <1>3, <1>5, k \in DOMAIN toClient'
  <2> QED BY <2>1, <2>2, <2>3
<1>8. got' # "none" => toClient' # <<>> /\ toClient'[1].code = got'
  BY <1>1, <1>3, <1>5 DEF WireInv, client
<1>9. \A k \in DOMAIN toServer' : toServer'[k].verb = "RCPT" => toServer'[k].arg \in Recipients
  BY <1>4 DEF WireInv, TypeOK
<1>10. WireInv' /\ PlaceInv'
  BY <1>1, <1>7, <1>8, <1>9 DEF WireInv, PlaceInv, client
<1> QED BY <1>6, <1>10

\* A reply that goes on has one line more, before the last and like it.
LEMMA GoesOnFacts ==
  ASSUME TypeOK, ReplyGoesOn
  PROVE  /\ toClient' \in Seq(Lines) /\ Len(toClient) \in Nat \ {0} /\ Len(toClient') = Len(toClient) + 1
         /\ DOMAIN toClient = 1..Len(toClient) /\ DOMAIN toClient' = 1..(Len(toClient) + 1)
         /\ toClient # <<>> /\ toClient' # <<>> /\ ~toClient[1].more /\ toClient'[1].more
         /\ toClient'[1].code = toClient[1].code /\ toClient'[1].to = toClient[1].to
         /\ \A k \in 1..Len(toClient) : toClient'[k + 1] = toClient[k]
         /\ pc \in Waiting
         /\ UNCHANGED <<setting, pc, n, i, outcome, mailOk, got, aborted, claimed, up, toServer, srv, queued>>
<1>1. toClient \in Seq(Lines) /\ toClient # <<>>
  BY DEF TypeOK, ReplyGoesOn
<1>2. Line = toClient[1] /\ Line \in Lines /\ ~Line.more
  BY <1>1 DEF Line, ReplyGoesOn
<1> DEFINE line == [Line EXCEPT !.more = TRUE]
<1>3. line \in Lines /\ line.more /\ line.code = Line.code /\ line.to = Line.to
  BY <1>2 DEF Lines
<1>4. toClient' = <<line>> \o toClient
  BY DEF ReplyGoesOn
<1> HIDE DEF line
<1>5. <<line>> \in Seq(Lines) /\ Len(<<line>>) = 1 /\ <<line>>[1] = line
  BY <1>3
<1>6. /\ toClient' \in Seq(Lines) /\ Len(toClient') = 1 + Len(toClient)
      /\ toClient'[1] = line /\ \A k \in 1..Len(toClient) : toClient'[1 + k] = toClient[k]
      /\ DOMAIN toClient' = 1..(1 + Len(toClient)) /\ Len(toClient) \in Nat
  BY <1>1, <1>4, <1>5, CatFacts
<1>7. Len(toClient) \in Nat \ {0} /\ DOMAIN toClient = 1..Len(toClient) /\ toClient' # <<>>
  BY <1>1, <1>6
<1>8. \A k \in 1..Len(toClient) : toClient'[k + 1] = toClient[k]
  BY <1>6
<1>9. /\ pc \in Waiting
      /\ UNCHANGED <<setting, pc, n, i, outcome, mailOk, got, aborted, claimed, up, toServer, srv, queued>>
  BY DEF ReplyGoesOn, client
<1> QED BY <1>1, <1>2, <1>3, <1>6, <1>7, <1>8, <1>9

\* It keeps types, places and the shape of replies.
LEMMA GoesOnTyped ==
  ASSUME TypeOK, WireInv, PlaceInv, ReplyGoesOn
  PROVE  TypeOK' /\ WireInv' /\ PlaceInv'
<1>1. TypeOK' /\ PlaceInv'
  BY GoesOnFacts DEF TypeOK, PlaceInv
<1>2. ASSUME NEW k \in DOMAIN toClient'
      PROVE  /\ toClient'[k].more =>
                  /\ k + 1 \in DOMAIN toClient' /\ ~toClient'[k + 1].more
                  /\ toClient'[k + 1].code = toClient'[k].code
                  /\ toClient'[k + 1].to = toClient'[k].to
             /\ toClient'[k].code = "3xx" => toClient'[k].to.verb = "DATA"
  <2>1. CASE k = 1
    BY <2>1, GoesOnFacts DEF WireInv
  <2>2. CASE k # 1
    <3>1. k - 1 \in DOMAIN toClient /\ k = (k - 1) + 1 /\ k - 1 \in Nat
      BY <1>2, <2>2, GoesOnFacts
    <3>2. toClient'[k] = toClient[k - 1]
      BY <3>1, GoesOnFacts
    <3>3. ASSUME toClient[k - 1].more
          PROVE  /\ k \in DOMAIN toClient /\ ~toClient[k].more
                 /\ toClient[k].code = toClient[k - 1].code /\ toClient[k].to = toClient[k - 1].to
      BY <3>1, <3>3 DEF WireInv
    <3>4. k \in DOMAIN toClient => k + 1 \in DOMAIN toClient' /\ toClient'[k + 1] = toClient[k]
      BY GoesOnFacts
    <3> QED BY <3>1, <3>2, <3>3, <3>4 DEF WireInv
  <2> QED BY <2>1, <2>2
<1>3. WireInv'
  BY <1>2, GoesOnFacts DEF WireInv
<1> QED BY <1>1, <1>3

\* The types, the places and the shape of replies, at all times.
WellTyped == TypeOK /\ WireInv /\ PlaceInv
LEMMA TypesInvariant == Spec => []WellTyped
<1>1. Init => WellTyped
  <2> SUFFICES ASSUME Init PROVE WellTyped
    OBVIOUS
  <2> USE TransactionAssumption DEF Init
  <2>1. mailOk \in BOOLEAN /\ aborted \in BOOLEAN /\ up \in BOOLEAN
    OBVIOUS
  <2>2. outcome \in [Recipients -> Outcomes] /\ i \in 0..(Rcpts + Chunks)
    BY DEF NoOutcome, Outcomes
  <2>3. toServer \in Seq(Commands) /\ toClient \in Seq(Lines) /\ DOMAIN toServer = {} /\ DOMAIN toClient = {}
    OBVIOUS
  <2>4. claimed \in Seq([txn : 0..MaxTxn, outcome : [Recipients -> Outcomes]])
    OBVIOUS
  <2>5. TypeOK
    BY <2>1, <2>2, <2>3, <2>4 DEF TypeOK, Fresh
  <2> QED BY <2>3, <2>5 DEF WellTyped, WireInv, PlaceInv
<1>2. WellTyped /\ [Next]_vars => WellTyped'
  <2> SUFFICES ASSUME TypeOK, WireInv, PlaceInv, [Next]_vars PROVE WellTyped'
    BY DEF WellTyped
  <2>1. CASE Begin \/ Start
    BY <2>1, BeginTyped DEF WellTyped
  <2>2. CASE ReadLine \/ ReadMalformed \/ ReadFails
    BY <2>2, ReadTyped DEF WellTyped
  <2>3. CASE Abort
    BY <2>3 DEF WellTyped, Abort, TypeOK, WireInv, PlaceInv
  <2>4. CASE Drop
    BY <2>4 DEF WellTyped, Drop, client, TypeOK, WireInv, PlaceInv
  <2>5. CASE ServerReplies
    BY <2>5, ServerTyped DEF WellTyped
  <2>6. CASE UNCHANGED vars
    BY <2>6 DEF WellTyped, vars, client, TypeOK, WireInv, PlaceInv
  <2>7. CASE ReplyGoesOn
    BY <2>7, GoesOnTyped DEF WellTyped
  <2> QED BY <2>1, <2>2, <2>3, <2>4, <2>5, <2>6, <2>7 DEF Next, ClientStep, Terminated
<1> QED BY <1>1, <1>2, PTL DEF Spec
-----------------------------------------------------------------------------
(* The moves of the client *)

\* Nothing appended.
LEMMA CatNothing == ASSUME NEW S, NEW s \in Seq(S) PROVE s \o <<>> = s
OBVIOUS

\* The client has the reply to the next command to wait for: one it has written
\* before, or one it writes now.
Advances ==
  /\ pc \in {"mail", "rcpt", "data", "bdat"} /\ pc' \in {"rcpt", "data", "content", "bdat"}
  /\ pc = "mail" => pc' = "rcpt" /\ i' = 1
  /\ pc = "rcpt" => \/ pc' = "rcpt" /\ i' = i + 1
                    \/ pc' = "data"
                    \/ pc' = "bdat" /\ i' = 1
  /\ pc = "data" => pc' = "content"
  /\ pc = "bdat" => pc' = "bdat" /\ i' = i + 1
  /\ \/ Sent' = Sent /\ toServer' = toServer
     \/ /\ Sent' = Sent + 1 /\ At' = Sent'
        /\ \E cmd \in Commands : /\ toServer' = toServer \o <<cmd>>
                                 /\ Current(cmd) /\ PosOf(cmd) = Sent'

Resets == pc' = "rset" /\ toServer' = toServer \o <<Cmd("RSET", 0)>>

\* The writing of one more command.
LEMMA AdvanceWrites ==
  ASSUME NEW cmd \in Commands, toServer' = toServer \o <<cmd>>, Current(cmd), PosOf(cmd) = Sent + 1,
         Sent' = Sent + 1, At' = Sent'
  PROVE  /\ Sent' = Sent + 1 /\ At' = Sent'
         /\ \E c \in Commands : /\ toServer' = toServer \o <<c>>
                                /\ Current(c) /\ PosOf(c) = Sent'
OBVIOUS

\* After the recipients the message is sent, or nothing of it.
LEMMA EnvelopeMoves ==
  ASSUME WellTyped, Live, UNCHANGED <<setting, n>>, pc = "rcpt", Sent = 2 + Rcpts,
         NEW out, EnvelopeSent(out)
  PROVE  (Advances /\ At' = 3 + Rcpts) \/ Resets
<1> USE TransactionAssumption DEF WellTyped, TypeOK, PlaceInv, Live, Ask
<1>1. setting.transfer \in {"data", "bdat"}
  OBVIOUS
<1>2. CASE BestEffortReset
  BY <1>2 DEF BestEffortReset, Resets
<1>3. CASE Ask("data", 0, <<Cmd("DATA", 0)>>) /\ setting.transfer = "data"
  <2>1. /\ Cmd("DATA", 0) \in Commands /\ Current(Cmd("DATA", 0)) /\ PosOf(Cmd("DATA", 0)) = 3 + Rcpts
    BY <1>3 DEF Cmd, Commands, Verbs, Current, PosOf
  <2>2. At' = 3 + Rcpts /\ Sent' = 3 + Rcpts
    BY <1>3 DEF At, Sent
  <2>3. pc' = "data" /\ toServer' = toServer \o <<Cmd("DATA", 0)>>
    BY <1>3
  <2> QED BY ONLY pc = "rcpt", Sent = 2 + Rcpts, Rcpts \in Nat, <2>1, <2>2, <2>3, AdvanceWrites
          DEF Advances
<1>4. CASE Ask("bdat", 1, <<Cmd("BDAT", 1)>>) /\ setting.transfer = "bdat"
  <2>1. /\ Cmd("BDAT", 1) \in Commands /\ Current(Cmd("BDAT", 1)) /\ PosOf(Cmd("BDAT", 1)) = 3 + Rcpts
    BY <1>4 DEF Cmd, Commands, Verbs, Current, PosOf
  <2>2. At' = 3 + Rcpts /\ Sent' = 3 + Rcpts
    BY <1>4 DEF At, Sent
  <2>3. pc' = "bdat" /\ i' = 1 /\ toServer' = toServer \o <<Cmd("BDAT", 1)>>
    BY <1>4
  <2> QED BY ONLY pc = "rcpt", Sent = 2 + Rcpts, Rcpts \in Nat, <2>1, <2>2, <2>3, AdvanceWrites
          DEF Advances
<1> QED BY <1>1, <1>2, <1>3, <1>4 DEF EnvelopeSent, SendMessage

\* After one recipient comes the next, the message, or nothing more.
LEMMA RecipientMoves ==
  ASSUME WellTyped, Live, UNCHANGED <<setting, n>>, pc = "rcpt", NEW out,
         IF setting.pipelining THEN NextPipelined(out) ELSE NextRecipient(out)
  PROVE  (Advances /\ At' = At + 1) \/ (Resets /\ Sent = At) \/ pc' = "gone"
<1> USE TransactionAssumption DEF WellTyped, TypeOK, PlaceInv, Live, Ask
<1>1. i \in Recipients /\ Rcpts \in Nat /\ toServer \in Seq(Commands) /\ At = 2 + i
  BY DEF At
<1>2. CASE i < Rcpts /\ ~setting.pipelining /\ Ask("rcpt", i + 1, <<Cmd("RCPT", i + 1)>>)
  <2>1. /\ Cmd("RCPT", i + 1) \in Commands /\ Current(Cmd("RCPT", i + 1))
        /\ PosOf(Cmd("RCPT", i + 1)) = 3 + i
    BY <1>1, <1>2 DEF Cmd, Commands, Verbs, Current, PosOf, Recipients
  <2>2. At' = 3 + i /\ Sent' = 3 + i /\ Sent = 2 + i
    BY <1>1, <1>2 DEF At, Sent
  <2>3. pc' = "rcpt" /\ i' = i + 1 /\ toServer' = toServer \o <<Cmd("RCPT", i + 1)>> /\ i \in Nat
    BY <1>1, <1>2 DEF Recipients
  <2> QED BY ONLY pc = "rcpt", <1>1, <2>1, <2>2, <2>3, AdvanceWrites DEF Advances
<1>3. CASE i < Rcpts /\ setting.pipelining /\ Ask("rcpt", i + 1, <<>>)
  <2>1. At' = 3 + i /\ Sent' = 2 + Rcpts /\ Sent = 2 + Rcpts
    BY <1>1, <1>3 DEF At, Sent
  <2>2. toServer' = toServer
    BY <1>1, <1>3, CatNothing
  <2>3. pc' = "rcpt" /\ i' = i + 1
    BY <1>3
  <2> QED BY ONLY <1>1, <2>1, <2>2, <2>3, i \in Recipients, pc = "rcpt" DEF Advances, Recipients
<1>4. CASE BestEffortReset /\ (setting.pipelining => i = Rcpts)
  BY <1>1, <1>4 DEF BestEffortReset, Resets, At, Sent
<1>5. CASE Fail
  BY <1>5 DEF Fail
<1>6. CASE i = Rcpts /\ EnvelopeSent(out)
  <2>1. Sent = 2 + Rcpts /\ At = 2 + Rcpts
    BY <1>1, <1>6 DEF At, Sent
  <2> QED BY <1>1, <1>6, <2>1, EnvelopeMoves
<1>7. i < Rcpts \/ i = Rcpts
  BY <1>1 DEF Recipients
<1> QED BY <1>2, <1>3, <1>4, <1>5, <1>6, <1>7 DEF NextRecipient, NextPipelined

\* What the client does with a reply.
LEMMA ReplyMoves ==
  ASSUME WellTyped, Live, UNCHANGED <<setting, n>>, NEW code \in Codes, OnReply(code)
  PROVE  /\ \/ pc' = "gone" \/ (pc = "rcpt" /\ Resets /\ Sent = At)
            \/ pc = "noop" /\ pc' = "start" /\ toServer' = toServer
            \/ Advances /\ At' = At + 1
            \/ /\ Succeed /\ code = "2xx"
               /\ pc = "content" \/ (pc = "bdat" /\ i = Chunks)
         /\ pc' = "content" => code = "3xx"
         /\ pc = "bdat" /\ pc' = "bdat" => code = "2xx" /\ i < Chunks
         /\ pc = "rcpt" => outcome' = [outcome EXCEPT ![i] = IF code = "2xx" THEN "accepted"
                                                             ELSE "rejected"]
         /\ pc # "rcpt" => outcome' = outcome
         /\ pc' = "ready" => Succeed
         /\ pc = "mail" => pc' \in {"rcpt", "gone"}
<1> USE TransactionAssumption DEF WellTyped, TypeOK, PlaceInv, Live, Ask, IsSuccess
<1>1. toServer \in Seq(Commands)
  OBVIOUS
<1>2. CASE pc \in {"noop", "rset", "content"}
  <2>1. outcome' = outcome /\ pc # "rcpt" /\ pc # "bdat" /\ pc # "mail"
    BY ONLY <1>2, OnReply(code) DEF OnReply
  <2>2. \/ pc' = "gone"
        \/ pc = "noop" /\ pc' = "start" /\ toServer' = toServer
        \/ Succeed /\ code = "2xx" /\ pc = "content" /\ pc' = "ready"
    BY ONLY <1>2, OnReply(code) DEF OnReply, Fail, Succeed, IsSuccess
  <2> QED BY ONLY <2>1, <2>2
<1>3. CASE pc = "mail"
  <2>1. outcome' = outcome
    BY <1>3 DEF OnReply
  <2>2. CASE setting.pipelining /\ Ask("rcpt", 1, <<>>)
    <3>1. At' = 3 /\ At = 2 /\ Sent' = 2 + Rcpts /\ Sent = 2 + Rcpts
      BY <1>3, <2>2 DEF At, Sent
    <3>2. toServer' = toServer
      BY <1>1, <2>2, CatNothing
    <3> QED BY <1>3, <2>1, <2>2, <3>1, <3>2 DEF Advances
  <2>3. CASE ~setting.pipelining /\ Ask("rcpt", 1, <<Cmd("RCPT", 1)>>)
    <3>1. /\ Cmd("RCPT", 1) \in Commands /\ Current(Cmd("RCPT", 1)) /\ PosOf(Cmd("RCPT", 1)) = 3
      BY DEF Cmd, Commands, Verbs, Current, PosOf, Recipients
    <3>2. At' = 3 /\ At = 2 /\ Sent' = 3 /\ Sent = 2
      BY <1>3, <2>3 DEF At, Sent
    <3> QED BY <1>3, <2>1, <2>3, <3>1, <3>2 DEF Advances
  <2>4. CASE Fail
    <3>1. pc' = "gone"
      BY <2>4 DEF Fail
    <3> QED BY ONLY <1>3, <2>1, <3>1
  <2> QED BY <1>3, <2>2, <2>3, <2>4 DEF OnReply
<1>4. CASE pc = "rcpt"
  <2>1. /\ outcome' = [outcome EXCEPT ![i] = IF code = "2xx" THEN "accepted" ELSE "rejected"]
        /\ IF setting.pipelining THEN NextPipelined(outcome') ELSE NextRecipient(outcome')
    BY <1>4 DEF OnReply
  <2>2. (Advances /\ At' = At + 1) \/ (Resets /\ Sent = At) \/ pc' = "gone"
    <3> DEFINE out == [outcome EXCEPT ![i] = IF code = "2xx" THEN "accepted" ELSE "rejected"]
    <3>1. IF setting.pipelining THEN NextPipelined(out) ELSE NextRecipient(out)
      BY <2>1
    <3> QED BY <1>4, <3>1, RecipientMoves
  <2>3. pc' \in {"rcpt", "data", "bdat", "rset", "gone"}
    BY ONLY <1>4, <2>2 DEF Advances, Resets
  <2> QED BY ONLY <1>4, <2>1, <2>2, <2>3
<1>5. CASE pc = "data"
  <2>1. CASE code = "3xx" /\ Ask("content", 0, <<Cmd("CONTENT", 0)>>)
    <3>1. /\ Cmd("CONTENT", 0) \in Commands /\ Current(Cmd("CONTENT", 0))
          /\ PosOf(Cmd("CONTENT", 0)) = 4 + Rcpts
      BY <1>5 DEF Cmd, Commands, Verbs, Current, PosOf
    <3>2. At' = 4 + Rcpts /\ At = 3 + Rcpts /\ Sent' = 4 + Rcpts /\ Sent = 3 + Rcpts
      BY <1>5, <2>1 DEF At, Sent
    <3>3. outcome' = outcome
      BY <1>5 DEF OnReply
    <3>4. pc' = "content" /\ toServer' = toServer \o <<Cmd("CONTENT", 0)>> /\ Rcpts \in Nat
      BY <2>1
    <3>5. Advances /\ At' = At + 1
      BY ONLY <1>5, <3>1, <3>2, <3>4, AdvanceWrites DEF Advances
    <3> QED BY ONLY <1>5, <2>1, <3>3, <3>4, <3>5
  <2>2. CASE Fail
    <3>1. pc' = "gone" /\ outcome' = outcome
      BY <1>5, <2>2 DEF OnReply, Fail
    <3> QED BY ONLY <1>5, <3>1
  <2> QED BY <1>5, <2>1, <2>2 DEF OnReply
<1>6. CASE pc = "bdat"
  <2>1. i \in 1..Chunks
    BY <1>6
  <2>2. CASE code = "2xx" /\ i < Chunks /\ Ask("bdat", i + 1, <<Cmd("BDAT", i + 1)>>)
    <3>1. /\ Cmd("BDAT", i + 1) \in Commands /\ Current(Cmd("BDAT", i + 1))
          /\ PosOf(Cmd("BDAT", i + 1)) = 3 + Rcpts + i
      <4>1. Cmd("BDAT", i + 1) \in Commands
        BY <2>1, <2>2 DEF Cmd, Commands, Verbs
      <4>2. Current(Cmd("BDAT", i + 1))
        BY <1>6, <2>1, <2>2 DEF Cmd, Current
      <4>3. PosOf(Cmd("BDAT", i + 1)) = 3 + Rcpts + i
        BY <2>1 DEF Cmd, PosOf
      <4> QED BY <4>1, <4>2, <4>3
    <3>2. At' = 3 + Rcpts + i /\ At = 2 + Rcpts + i /\ Sent' = 3 + Rcpts + i /\ Sent = 2 + Rcpts + i
      BY <1>6, <2>1, <2>2 DEF At, Sent
    <3>3. outcome' = outcome
      BY <1>6 DEF OnReply
    <3>4. /\ pc' = "bdat" /\ i' = i + 1 /\ toServer' = toServer \o <<Cmd("BDAT", i + 1)>>
          /\ Rcpts \in Nat /\ i \in Nat
      BY <2>1, <2>2
    <3>5. Advances /\ At' = At + 1
      BY ONLY <1>6, <3>1, <3>2, <3>4, AdvanceWrites DEF Advances
    <3> QED BY ONLY <1>6, <2>2, <3>3, <3>4, <3>5
  <2>3. CASE Succeed /\ i = Chunks /\ code = "2xx"
    BY <1>6, <2>3 DEF OnReply, Succeed
  <2>4. CASE Fail
    <3>1. pc' = "gone" /\ outcome' = outcome
      BY <1>6, <2>4 DEF OnReply, Fail
    <3> QED BY ONLY <1>6, <3>1
  <2> QED BY <1>6, <2>2, <2>3, <2>4 DEF OnReply
<1> QED BY <1>2, <1>3, <1>4, <1>5, <1>6 DEF OnReply

\* What it does without one: only the next recipient, or the message, may follow.
LEMMA ErrorMoves ==
  ASSUME WellTyped, Live, UNCHANGED <<setting, n>>, OnError
  PROVE  /\ \/ pc' = "gone" \/ (pc = "rcpt" /\ Resets)
            \/ /\ pc = "rcpt" /\ Advances /\ At < At'
               /\ ~setting.pipelining => At' = At + 1
         /\ pc = "rcpt" => outcome' = [outcome EXCEPT ![i] = "error"]
         /\ pc # "rcpt" => outcome' = outcome
<1> USE TransactionAssumption DEF WellTyped
<1>1. CASE pc = "rcpt"
  <2> DEFINE out == [outcome EXCEPT ![i] = "error"]
  <2>1. /\ outcome' = out
        /\ IF setting.pipelining THEN EnvelopeSent(out) ELSE NextRecipient(out)
    BY <1>1 DEF OnError
  <2>2. i \in 1..Rcpts /\ At = 2 + i
    BY <1>1 DEF PlaceInv, At, Recipients
  <2>3. CASE setting.pipelining
    <3>1. Sent = 2 + Rcpts
      BY <1>1, <2>3 DEF Sent
    <3>2. (Advances /\ At' = 3 + Rcpts) \/ Resets
      BY <1>1, <2>1, <2>3, <3>1, EnvelopeMoves
    <3> QED BY <1>1, <2>1, <2>2, <2>3, <3>2
  <2>4. CASE ~setting.pipelining
    <3>1. (Advances /\ At' = At + 1) \/ (Resets /\ Sent = At) \/ pc' = "gone"
      BY <1>1, <2>1, <2>4, RecipientMoves
    <3> QED BY ONLY <1>1, <2>1, <2>2, <2>4, <3>1, Rcpts \in Nat, TransactionAssumption
  <2> QED BY <2>3, <2>4
<1>2. CASE pc # "rcpt"
  <2>1. pc' = "gone" /\ outcome' = outcome
    BY ONLY <1>2, OnError DEF OnError, Fail
  <2> QED BY ONLY <1>2, <2>1
<1> QED BY <1>1, <1>2
-----------------------------------------------------------------------------
(* The account of the replies owed *)

\* Places are numbers, those of the client in the order of a transaction.
LEMMA Places ==
  ASSUME WellTyped
  PROVE  /\ \A cmd \in Commands : PosOf(cmd) \in Nat
         /\ pc \in Waiting \ {"rset"} => At \in Nat /\ Sent \in Nat /\ At <= Sent
         /\ Len(toServer) \in Nat /\ Len(toClient) \in Nat
         /\ pc = "rcpt" => 3 <= At /\ At <= 2 + Rcpts
<1> USE TransactionAssumption DEF WellTyped, TypeOK
<1>1. ASSUME NEW cmd \in Commands PROVE PosOf(cmd) \in Nat
  <2>1. cmd.arg \in Nat /\ Rcpts \in Nat
    BY DEF Commands
  <2> QED BY ONLY <2>1 DEF PosOf
<1>2. pc \in Waiting \ {"rset"} => At \in Nat
  <2>1. i \in Nat /\ Rcpts \in Nat
    OBVIOUS
  <2> QED BY ONLY <2>1 DEF At, Waiting
<1>3. pc \in Waiting \ {"rset"} => Sent \in Nat /\ At <= Sent
  BY <1>2 DEF At, Sent, Waiting, PlaceInv, Recipients
<1>4. pc = "rcpt" => 3 <= At /\ At <= 2 + Rcpts
  BY DEF At, PlaceInv, Recipients
<1> QED BY <1>1, <1>2, <1>3, <1>4

\* The command awaited is known by its place.
LEMMA PlaceTells ==
  ASSUME WellTyped, pc \in Waiting \ {"rset"}, NEW cmd \in Commands, Current(cmd), PosOf(cmd) = At
  PROVE  <<cmd.verb, cmd.txn, cmd.arg>> = Awaited
<1>1. /\ cmd.verb \in Verbs \ {"RSET"} /\ cmd.arg \in Nat /\ i \in Nat
      /\ Rcpts \in Nat \ {0} /\ Chunks \in Nat \ {0}
  BY TransactionAssumption DEF WellTyped, TypeOK, Commands, Current
<1>2. \/ cmd.verb = "NOOP" /\ cmd.arg = 0 /\ At = 1
      \/ cmd.verb = "MAIL" /\ cmd.arg = 0 /\ At = 2
      \/ cmd.verb = "RCPT" /\ cmd.arg \in 1..Rcpts /\ At = 2 + cmd.arg
      \/ cmd.verb = "DATA" /\ cmd.arg = 0 /\ At = 3 + Rcpts /\ setting.transfer = "data"
      \/ cmd.verb = "CONTENT" /\ cmd.arg = 0 /\ At = 4 + Rcpts /\ setting.transfer = "data"
      \/ cmd.verb = "BDAT" /\ cmd.arg \in 1..Chunks /\ At = 2 + Rcpts + cmd.arg /\ setting.transfer = "bdat"
  BY <1>1 DEF Verbs, Current, PosOf, Recipients
<1>3. \/ pc = "noop" /\ At = 1 /\ Awaited = <<"NOOP", n, 0>>
      \/ pc = "mail" /\ At = 2 /\ Awaited = <<"MAIL", n, 0>>
      \/ pc = "rcpt" /\ i \in 1..Rcpts /\ At = 2 + i /\ Awaited = <<"RCPT", n, i>>
      \/ pc = "data" /\ At = 3 + Rcpts /\ setting.transfer = "data" /\ Awaited = <<"DATA", n, 0>>
      \/ pc = "content" /\ At = 4 + Rcpts /\ setting.transfer = "data" /\ Awaited = <<"CONTENT", n, 0>>
      \/ pc = "bdat" /\ i \in 1..Chunks /\ At = 2 + Rcpts + i /\ setting.transfer = "bdat"
         /\ Awaited = <<"BDAT", n, i>>
  BY <1>1 DEF At, Awaited, Waiting, WellTyped, PlaceInv, Recipients
<1>4. cmd.txn = n
  BY DEF Current
<1>5. \/ cmd.verb = "NOOP" /\ pc = "noop" /\ cmd.arg = 0
      \/ cmd.verb = "MAIL" /\ pc = "mail" /\ cmd.arg = 0
      \/ cmd.verb = "RCPT" /\ pc = "rcpt" /\ cmd.arg = i
      \/ cmd.verb = "DATA" /\ pc = "data" /\ cmd.arg = 0
      \/ cmd.verb = "CONTENT" /\ pc = "content" /\ cmd.arg = 0
      \/ cmd.verb = "BDAT" /\ pc = "bdat" /\ cmd.arg = i
  BY ONLY <1>1, <1>2, <1>3
<1> QED BY ONLY <1>3, <1>4, <1>5

\* Writing the next command, or none, keeps the account of the commands.
LEMMA CommandsKept ==
  ASSUME WellTyped, pc \in Waiting \ {"rset"}, OwesCommands, Advances, UNCHANGED <<setting, n>>
  PROVE  OwesCommands' /\ Answered' = Answered
<1>1. Sent \in Nat /\ Len(toServer) \in Nat /\ toServer \in Seq(Commands)
  BY Places DEF WellTyped, TypeOK
<1>2. CASE Sent' = Sent /\ toServer' = toServer
  BY <1>2 DEF OwesCommands, Answered, Current
<1>3. CASE Sent' = Sent + 1 /\ \E cmd \in Commands : /\ toServer' = toServer \o <<cmd>>
                                                   /\ Current(cmd) /\ PosOf(cmd) = Sent'
  <2>1. PICK cmd \in Commands : toServer' = toServer \o <<cmd>> /\ Current(cmd) /\ PosOf(cmd) = Sent'
    BY <1>3
  <2>2. <<cmd>> \in Seq(Commands) /\ Len(<<cmd>>) = 1 /\ <<cmd>>[1] = cmd
    OBVIOUS
  <2>3. /\ Len(toServer') = Len(toServer) + 1 /\ DOMAIN toServer' = 1..(Len(toServer) + 1)
        /\ \A k \in 1..Len(toServer) : toServer'[k] = toServer[k]
        /\ toServer'[Len(toServer) + 1] = cmd
    BY <1>1, <2>1, <2>2, CatFacts
  <2>4. Answered' = Answered
    BY <1>1, <1>3, <2>3 DEF Answered
  <2>5. DOMAIN toServer = 1..Len(toServer)
    BY <1>1
  <2>6. ASSUME NEW k \in DOMAIN toServer'
        PROVE  Current(toServer'[k]) /\ PosOf(toServer'[k]) = Answered + k
    <3>1. CASE k \in 1..Len(toServer)
      BY <2>3, <2>5, <3>1 DEF OwesCommands
    <3>2. CASE k = Len(toServer) + 1
      BY <1>1, <1>3, <2>1, <2>3, <3>2 DEF Answered
    <3> QED BY <1>1, <2>3, <3>1, <3>2
  <2> QED BY <2>4, <2>6 DEF OwesCommands, Current
<1> QED BY <1>2, <1>3 DEF Advances

\* Reading a line keeps the account of the replies, and the last line of one
\* makes the next reply the first that is owed.
LEMMA RepliesKept ==
  ASSUME WellTyped, pc \in Waiting \ {"rset"}, OwesReplies, toClient # <<>>, toClient' = Tail(toClient),
         Answered' = Answered, UNCHANGED <<setting, n>>
  PROVE  OwesReplies' /\ FirstOwed' = IF Line.more THEN FirstOwed ELSE FirstOwed + 1
<1> DEFINE len == Len(toClient)
<1>1. toClient \in Seq(Lines) /\ len \in Nat \ {0} /\ DOMAIN toClient = 1..len /\ Line = toClient[1]
  BY DEF WellTyped, TypeOK, Line
<1>2. /\ toClient' \in Seq(Lines) /\ Len(toClient') = len - 1 /\ DOMAIN toClient' = 1..(len - 1)
      /\ \A k \in 1..(len - 1) : toClient'[k] = toClient[k + 1]
  BY <1>1, TailFacts
<1>3. Answered \in Int
  BY Places DEF Answered
<1>4. OwesReplies'
  <2>1. \A k \in 1..(len - 1) : Current(toClient[k + 1].to) /\ PosOf(toClient[k + 1].to) <= Answered
    BY <1>1 DEF OwesReplies
  <2>2. \A j, k \in 1..(len - 1) : j <= k => PosOf(toClient[j + 1].to) <= PosOf(toClient[k + 1].to)
    BY <1>1 DEF OwesReplies
  <2>3. \A k \in 1..(len - 1) : k + 1 \in 1..(len - 1) /\ ~toClient[k + 1].more
          => PosOf(toClient[k + 2].to) = PosOf(toClient[k + 1].to) + 1
    BY <1>1 DEF OwesReplies
  <2>4. len - 1 # 0 => toClient'[len - 1] = toClient[len]
    BY <1>1, <1>2
  <2>5. toClient' # <<>> => PosOf(toClient'[Len(toClient')].to) = Answered
    BY <1>1, <1>2, <2>4 DEF OwesReplies
  <2>6. \A k \in 1..(len - 1) : k + 1 \in 1..(len - 1) => toClient'[k + 1] = toClient[k + 2]
    BY <1>2
  <2> QED BY <1>2, <2>1, <2>2, <2>3, <2>5, <2>6 DEF OwesReplies, Current
<1>5. FirstOwed' = IF Line.more THEN FirstOwed ELSE FirstOwed + 1
  <2>1. FirstOwed = PosOf(toClient[1].to)
    BY DEF FirstOwed
  <2>2. CASE len = 1
    <3>1. toClient' = <<>> /\ FirstOwed = Answered
      BY <1>1, <1>2, <2>1, <2>2 DEF OwesReplies
    <3>2. ~Line.more
      BY <1>1, <2>2 DEF WellTyped, WireInv
    <3> QED BY <3>1, <3>2 DEF FirstOwed
  <2>3. CASE len # 1
    <3>1. toClient' # <<>> /\ FirstOwed' = PosOf(toClient[2].to) /\ 2 \in DOMAIN toClient
      <4>1. toClient'[1] = toClient[2] /\ toClient' # <<>> /\ 2 \in DOMAIN toClient
        BY <1>1, <1>2, <2>3
      <4> QED BY <4>1 DEF FirstOwed
    <3>2. Line.more => toClient[2].to = toClient[1].to
      BY <1>1 DEF WellTyped, WireInv
    <3>3. ~Line.more => PosOf(toClient[2].to) = PosOf(toClient[1].to) + 1
      BY <1>1, <3>1 DEF OwesReplies
    <3> QED BY <2>1, <3>1, <3>2, <3>3
  <2> QED BY <2>2, <2>3
<1> QED BY <1>4, <1>5

\* So does giving up the wait for a reply, which is still owed.
LEMMA RepliesUnread ==
  ASSUME OwesReplies, toClient' = toClient, Answered' = Answered, UNCHANGED <<setting, n>>
  PROVE  OwesReplies' /\ FirstOwed' = FirstOwed
BY DEF OwesReplies, FirstOwed, Current

\* Answering a command keeps the account: its reply is owed in the same place.
LEMMA ServerOwes ==
  ASSUME WellTyped, pc \in Waiting \ {"rset"}, Owes, ServerReplies
  PROVE  Owes' /\ FirstOwed' = FirstOwed /\ At' = At /\ Answered' = Answered + 1
<1> DEFINE cmd == toServer[1]
<1> DEFINE len == Len(toClient)
<1> PICK v \in Verdicts(cmd) :
        /\ toServer # <<>> /\ cmd \in Commands /\ v[1] \in Codes
        /\ toClient' = toClient \o ReplyTo(v[1], cmd)
        /\ toServer' = Tail(toServer) /\ UNCHANGED <<client, up>>
  BY ServerFacts DEF WellTyped
<1> DEFINE lines == ReplyTo(v[1], cmd)
<1>1. /\ toServer # <<>> /\ cmd \in Commands /\ v[1] \in Codes /\ toClient' = toClient \o lines
      /\ toServer' = Tail(toServer) /\ UNCHANGED <<client, up>>
  OBVIOUS
<1> HIDE DEF cmd
<1>2. lines \in Seq(Lines) /\ Len(lines) = 1 /\ lines[1].to = cmd
  BY <1>1, ReplyFacts
<1> HIDE DEF lines
<1>3. /\ Len(toServer') = Len(toServer) - 1 /\ Len(toServer) \in Nat \ {0}
      /\ \A k \in 1..(Len(toServer) - 1) : toServer'[k] = toServer[k + 1]
      /\ DOMAIN toServer' = 1..(Len(toServer) - 1) /\ DOMAIN toServer = 1..Len(toServer)
  BY <1>1, TailFacts DEF WellTyped, TypeOK
<1>4. /\ len \in Nat /\ DOMAIN toClient = 1..len
      /\ Len(toClient') = len + 1 /\ DOMAIN toClient' = 1..(len + 1)
      /\ \A k \in 1..len : toClient'[k] = toClient[k]
      /\ toClient'[len + 1] = lines[1]
  BY <1>1, <1>2, CatOneFacts DEF WellTyped, TypeOK
<1>5. UNCHANGED <<setting, pc, n, i, Sent, At>>
  BY <1>1 DEF client, Sent, At
<1>6. Sent \in Nat /\ Answered \in Int /\ Answered' = Answered + 1
  BY <1>3, <1>5, Places DEF Answered
<1>7. Current(cmd) /\ PosOf(cmd) = Answered + 1
  BY <1>3 DEF Owes, OwesCommands, cmd
<1>8. OwesCommands'
  <2>1. \A k \in 1..(Len(toServer) - 1) :
          Current(toServer[k + 1]) /\ PosOf(toServer[k + 1]) = Answered + (k + 1)
    BY <1>3 DEF Owes, OwesCommands
  <2>2. \A k \in 1..(Len(toServer) - 1) : Answered + (k + 1) = Answered' + k
    BY <1>6
  <2> QED BY <1>3, <1>5, <2>1, <2>2 DEF OwesCommands, Current
<1>9. /\ \A k \in 1..len : toClient'[k] = toClient[k] /\ PosOf(toClient[k].to) <= Answered
                          /\ PosOf(toClient[k].to) \in Nat
      /\ \A k \in DOMAIN toClient' : k \in 1..len \/ (k = len + 1 /\ toClient'[k].to = cmd)
  <2>1. \A k \in 1..len : toClient[k].to \in Commands
    <3>1. toClient \in Seq(Lines) /\ \A line \in Lines : line.to \in Commands
      BY DEF WellTyped, TypeOK, Lines
    <3>2. \A k \in 1..len : toClient[k] \in Lines
      BY <1>4, <3>1
    <3> QED BY <3>1, <3>2
  <2>2. \A k \in 1..len : PosOf(toClient[k].to) <= Answered /\ PosOf(toClient[k].to) \in Nat
    BY <1>4, <2>1, Places DEF Owes, OwesReplies
  <2> QED BY <1>2, <1>4, <2>2
<1>10. OwesReplies'
  <2>1. \A k \in DOMAIN toClient' : Current(toClient'[k].to) /\ PosOf(toClient'[k].to) <= Answered + 1
    <3>1. \A k \in 1..len : Current(toClient[k].to)
      BY <1>4 DEF Owes, OwesReplies
    <3> SUFFICES ASSUME NEW k \in DOMAIN toClient'
                 PROVE  Current(toClient'[k].to) /\ PosOf(toClient'[k].to) <= Answered + 1
      OBVIOUS
    <3>2. CASE k \in 1..len
      BY ONLY <1>6, <1>9, <3>1, <3>2
    <3>3. CASE toClient'[k].to = cmd
      BY ONLY <1>6, <1>7, <3>3
    <3> QED BY ONLY <1>9, <3>2, <3>3, k \in DOMAIN toClient'
  <2>2. \A j, k \in DOMAIN toClient' : j <= k => PosOf(toClient'[j].to) <= PosOf(toClient'[k].to)
    <3>1. \A j, k \in 1..len : j <= k => PosOf(toClient[j].to) <= PosOf(toClient[k].to)
      BY <1>4 DEF Owes, OwesReplies
    <3> QED BY ONLY <1>4, <1>6, <1>7, <1>9, <3>1
  <2>3. ASSUME NEW k \in DOMAIN toClient', k + 1 \in DOMAIN toClient', ~toClient'[k].more
        PROVE  PosOf(toClient'[k + 1].to) = PosOf(toClient'[k].to) + 1
    <3>1. k \in Nat
      BY ONLY <2>3, <1>2, <1>4
    <3>2. CASE k < len
      <4>1. k \in 1..len /\ k + 1 \in 1..len
        BY ONLY <2>3, <1>4, <3>1, <3>2
      <4> QED BY <1>4, <2>3, <4>1 DEF Owes, OwesReplies
    <3>3. CASE k = len
      <4>1. k \in 1..len /\ k + 1 = len + 1 /\ toClient'[k + 1].to = cmd /\ toClient # <<>>
        <5>1. k \in 1..len /\ k + 1 = len + 1 /\ len # 0
          BY ONLY <2>3, <1>4, <3>1, <3>3
        <5>2. k + 1 \in DOMAIN toClient' /\ ~(k + 1 \in 1..len)
          BY ONLY <2>3, <1>4, <5>1
        <5>3. toClient # <<>>
          BY ONLY <5>1
        <5>4. toClient'[k + 1].to = cmd
          BY ONLY <1>9, <5>2
        <5> QED BY <5>1, <5>3, <5>4
      <4>2. PosOf(toClient[len].to) = Answered
        BY <4>1 DEF Owes, OwesReplies
      <4> QED BY <1>4, <1>7, <3>3, <4>1, <4>2
    <3>4. k <= len
      BY ONLY <2>3, <1>4, <3>1
    <3> QED BY <1>4, <3>1, <3>2, <3>3, <3>4
  <2>4. PosOf(toClient'[Len(toClient')].to) = Answered + 1
    BY <1>2, <1>4, <1>7, <1>9
  <2>5. \A k \in DOMAIN toClient' : Current(toClient[k].to)'
    BY <1>5, <2>1 DEF Current
  <2> QED BY <1>6, <2>1, <2>2, <2>3, <2>4, <2>5 DEF OwesReplies
<1>11. FirstOwed' = FirstOwed
  <2>1. toClient' # <<>> /\ 1 \in DOMAIN toClient'
    BY <1>2, <1>4
  <2>2. CASE toClient = <<>>
    <3>1. toClient'[1].to = cmd
      BY <1>4, <1>9, <2>1, <2>2
    <3> QED BY <1>7, <2>1, <2>2, <3>1 DEF FirstOwed
  <2>3. CASE toClient # <<>>
    <3>1. toClient'[1] = toClient[1]
      BY <1>4, <2>3
    <3> QED BY <2>1, <2>3, <3>1 DEF FirstOwed
  <2> QED BY <2>2, <2>3
<1> QED BY <1>5, <1>6, <1>8, <1>10, <1>11 DEF Owes
-----------------------------------------------------------------------------
(* The next reply *)

\* The first line under way is of the first reply owed.
LEMMA FirstLine ==
  ASSUME WellTyped, Owes, toClient # <<>>
  PROVE  /\ Line = toClient[1] /\ 1 \in DOMAIN toClient /\ Line \in Lines /\ Line.to \in Commands
         /\ Current(Line.to) /\ PosOf(Line.to) = FirstOwed /\ FirstOwed <= Answered
         /\ Line.code = "3xx" => Line.to.verb = "DATA"
<1>1. toClient \in Seq(Lines)
  BY DEF WellTyped, TypeOK
<1>2. Line = toClient[1] /\ 1 \in DOMAIN toClient /\ Line \in Lines
  BY <1>1 DEF Line
<1>3. Line.to \in Commands
  BY <1>2 DEF Lines
<1>4. FirstOwed = PosOf(Line.to)
  BY <1>2 DEF FirstOwed
<1> QED BY <1>2, <1>3, <1>4 DEF Owes, OwesReplies, WellTyped, WireInv

\* What is owed is never beyond the first command to be answered.
LEMMA FirstOwedBound ==
  ASSUME WellTyped, pc \in Waiting \ {"rset"}, Owes
  PROVE  /\ FirstOwed \in Int /\ Answered \in Int /\ FirstOwed <= Answered + 1
         /\ toClient # <<>> => FirstOwed <= Answered
<1>1. Answered \in Int
  BY Places DEF Answered
<1>2. CASE toClient = <<>>
  BY <1>1, <1>2 DEF FirstOwed
<1>3. CASE toClient # <<>>
  <2>1. FirstOwed \in Int /\ FirstOwed <= Answered
    BY <1>3, FirstLine, Places
  <2> QED BY <1>1, <1>3, <2>1
<1> QED BY <1>2, <1>3

\* When the reply awaited is to the last command written and its last line is
\* here, nothing else is under way.
LEMMA NothingLeft ==
  ASSUME WellTyped, pc \in Waiting \ {"rset"}, Owes, InStep, Sent = At, toClient # <<>>, ~Line.more
  PROVE  toServer = <<>> /\ Tail(toClient) = <<>> /\ Answered = At
<1> DEFINE len == Len(toClient)
<1>1. /\ toServer \in Seq(Commands) /\ toClient \in Seq(Lines) /\ len \in Nat \ {0}
      /\ Len(toServer) \in Nat /\ At \in Nat /\ Sent \in Nat
  BY Places DEF WellTyped, TypeOK
<1>2. FirstOwed <= Answered /\ FirstOwed = At /\ PosOf(Line.to) = FirstOwed /\ Line = toClient[1]
  BY FirstLine DEF InStep
<1>3. Len(toServer) = 0 /\ Answered = At
  BY <1>1, <1>2 DEF Answered
<1>4. len = 1
  <2> SUFFICES ASSUME len # 1 PROVE FALSE
    OBVIOUS
  <2>1. 1 \in DOMAIN toClient /\ 2 \in DOMAIN toClient
    <3>1. DOMAIN toClient = 1..len
      BY <1>1
    <3> QED BY ONLY <1>1, <3>1, len # 1
  <2>2. PosOf(toClient[1 + 1].to) = PosOf(toClient[1].to) + 1
    BY <1>2, <2>1 DEF Owes, OwesReplies
  <2>3. PosOf(toClient[2].to) <= Answered
    BY <2>1 DEF Owes, OwesReplies
  <2> QED BY <1>1, <1>2, <1>3, <2>2, <2>3
<1> QED BY <1>1, <1>3, <1>4

\* Only a transaction that succeeds is reported.
LEMMA ReplyClaims ==
  ASSUME NEW code, OnReply(code)
  PROVE  claimed' = claimed \/ Succeed
BY DEF OnReply, Fail, Ask, NextPipelined, NextRecipient, EnvelopeSent, SendMessage, BestEffortReset
LEMMA ErrorClaims ==
  ASSUME OnError
  PROVE  claimed' = claimed
BY DEF OnError, Fail, Ask, NextPipelined, NextRecipient, EnvelopeSent, SendMessage, BestEffortReset

\* What was reported stays true when nothing more is.
LEMMA SuccessKept ==
  ASSUME SuccessIsDelivery, claimed' = claimed, queued \subseteq queued'
  PROVE  SuccessIsDelivery'
BY DEF SuccessIsDelivery, Having

\* A transaction that ends with the success of its last command was delivered.
LEMMA SuccessAdds ==
  ASSUME WellTyped, SuccessIsDelivery, Succeed, Delivered, queued' = queued
  PROVE  SuccessIsDelivery'
<1> DEFINE result == [txn |-> n, outcome |-> outcome]
<1> DEFINE Results == [txn : 0..MaxTxn, outcome : [Recipients -> Outcomes]]
<1>1. claimed \in Seq(Results) /\ result \in Results /\ claimed' = Append(claimed, result)
  BY DEF WellTyped, TypeOK, Succeed
<1>2. PICK q \in queued : q.txn = n /\ Agrees(q.rcpts)
  BY DEF Delivered
<1>3. /\ q.txn = result.txn /\ Having(result, "accepted") \subseteq q.rcpts
      /\ q.rcpts \cap Having(result, "rejected") = {}
  BY <1>2 DEF Agrees, Having
<1> HIDE DEF result, Results
<1>4. /\ \A k \in 1..Len(claimed) : claimed'[k] = claimed[k]
      /\ claimed'[Len(claimed) + 1] = result /\ DOMAIN claimed' = 1..(Len(claimed) + 1)
      /\ Len(claimed) \in Nat /\ DOMAIN claimed = 1..Len(claimed)
  BY <1>1, AppendFacts
<1>5. \A k \in DOMAIN claimed' : k \in DOMAIN claimed \/ k = Len(claimed) + 1
  BY <1>4
<1>6. \A k \in DOMAIN claimed : \E p \in queued :
        /\ p.txn = claimed[k].txn
        /\ Having(claimed[k], "accepted") \subseteq p.rcpts
        /\ p.rcpts \cap Having(claimed[k], "rejected") = {}
  BY DEF SuccessIsDelivery
<1>7. ASSUME NEW k \in DOMAIN claimed'
      PROVE  \E p \in queued :
               /\ p.txn = claimed'[k].txn
               /\ Having(claimed'[k], "accepted") \subseteq p.rcpts
               /\ p.rcpts \cap Having(claimed'[k], "rejected") = {}
  <2>1. CASE k \in DOMAIN claimed
    BY <1>4, <1>6, <2>1
  <2>2. CASE k = Len(claimed) + 1
    BY <1>3, <1>4, <2>2
  <2> QED BY <1>5, <2>1, <2>2
<1> QED BY <1>7 DEF SuccessIsDelivery, Having
-----------------------------------------------------------------------------
(* The client in step with the server *)

\* A recipient's outcome after the end of its reply, or after a malformed line.
Settles ==
  /\ pc = "rcpt" => \E o \in Outcomes : /\ outcome' = [outcome EXCEPT ![i] = o]
                                        /\ o = "accepted" => Line.code = "2xx"
                                        /\ o = "rejected" => Line.code \in {"3xx", "5xx"}
  /\ pc # "rcpt" => outcome' = outcome

\* The client in step takes the next place, in step.
LEMMA StepServer ==
  ASSUME WellTyped, WellTyped', Asking, Owes, InStep, ServerInv, toClient # <<>>, ~Line.more,
         toClient' = Tail(toClient), Advances, At' = At + 1, Answered' = Answered, Settles,
         pc = "bdat" => Line.code = "2xx" /\ i < Chunks,
         UNCHANGED <<setting, n, srv, queued>>
  PROVE  ServerInv'
<1> DEFINE len == Len(toClient)
<1>1. /\ toClient \in Seq(Lines) /\ len \in Nat \ {0} /\ DOMAIN toClient = 1..len
      /\ DOMAIN toClient' = 1..(len - 1) /\ \A k \in 1..(len - 1) : toClient'[k] = toClient[k + 1]
  <2>1. toClient \in Seq(Lines)
    BY DEF WellTyped, TypeOK
  <2> QED BY <2>1, TailFacts
<1>2. /\ Line = toClient[1] /\ 1 \in DOMAIN toClient /\ Line.to \in Commands /\ Current(Line.to)
      /\ PosOf(Line.to) = At
  BY FirstLine DEF InStep
<1>3. pc \in Waiting \ {"rset"}
  BY DEF Asking
<1>4. /\ i \in Nat /\ Rcpts \in Nat \ {0} /\ outcome \in [Recipients -> Outcomes] /\ Recipients = 1..Rcpts
      /\ pc = "rcpt" => i \in Recipients
  BY TransactionAssumption DEF WellTyped, TypeOK, PlaceInv, Recipients
<1>5. Answered < 2 => srv = Fresh
  BY DEF ServerInv
<1>6. /\ pc \in {"mail", "rcpt", "data", "bdat"} /\ pc' \in {"rcpt", "data", "content", "bdat"}
      /\ pc = "mail" => pc' = "rcpt" /\ i' = 1
      /\ pc = "rcpt" => \/ pc' = "rcpt" /\ i' = i + 1
                        \/ pc' = "data"
                        \/ pc' = "bdat" /\ i' = 1
      /\ pc = "data" => pc' = "content"
      /\ pc = "bdat" => pc' = "bdat" /\ i' = i + 1
  BY DEF Advances
<1>7. pc \in {"mail", "rcpt", "data"} => Agrees(srv.rcpts)'
  <2> SUFFICES ASSUME pc \in {"mail", "rcpt", "data"}, NEW r \in Recipients
               PROVE  /\ outcome'[r] = "accepted" => r \in srv.rcpts
                      /\ outcome'[r] = "rejected" => r \notin srv.rcpts
    BY DEF Agrees
  <2>1. /\ outcome[r] = "accepted" => r \in srv.rcpts
        /\ outcome[r] = "rejected" => r \notin srv.rcpts
    BY DEF ServerInv, Agrees
  <2>2. CASE pc # "rcpt"
    BY <2>1, <2>2 DEF Settles
  <2>3. CASE pc = "rcpt"
    <3>1. Line.to.verb = "RCPT" /\ Line.to.arg = i
      BY <1>2, <1>3, <2>3, PlaceTells DEF Awaited
    <3>4. Line.code # "3xx"
      BY <3>1, FirstLine
    <3>2. /\ Line.code = "2xx" => i \in srv.rcpts
          /\ Line.code = "5xx" => i \notin srv.rcpts
      BY <1>2, <2>3, <3>1 DEF ServerInv
    <3>3. PICK o \in Outcomes : /\ outcome' = [outcome EXCEPT ![i] = o]
                                /\ o = "accepted" => Line.code = "2xx"
                                /\ o = "rejected" => Line.code = "5xx"
      BY <2>3, <3>4 DEF Settles
    <3> QED BY ONLY <1>4, <2>1, <2>3, <3>2, <3>3, r \in Recipients
  <2> QED BY <2>2, <2>3
<1>8. pc' = "rcpt" => \A r \in i'..Rcpts : outcome'[r] = "none"
  <2>1. CASE pc = "mail"
    BY <1>4, <2>1 DEF WellTyped, PlaceInv, NoOutcome, Settles
  <2>2. CASE pc = "rcpt" /\ pc' = "rcpt"
    <3>1. \A r \in i..Rcpts : outcome[r] = "none"
      BY <2>2 DEF ServerInv
    <3>2. PICK o \in Outcomes : outcome' = [outcome EXCEPT ![i] = o]
      BY <2>2 DEF Settles
    <3> QED BY ONLY <1>4, <1>6, <2>2, <3>1, <3>2
  <2> QED BY <1>6, <2>1, <2>2
<1>9. pc' \in {"rcpt", "data"} =>
        /\ \A r \in srv.rcpts : 2 + r <= Answered
        /\ \A k \in DOMAIN toClient' : toClient'[k].to.verb = "RCPT" =>
             /\ toClient'[k].code = "2xx" => toClient'[k].to.arg \in srv.rcpts
             /\ toClient'[k].code = "5xx" => toClient'[k].to.arg \notin srv.rcpts
  <2> SUFFICES ASSUME pc \in {"mail", "rcpt"}
               PROVE  /\ \A r \in srv.rcpts : 2 + r <= Answered
                      /\ \A k \in DOMAIN toClient' : toClient'[k].to.verb = "RCPT" =>
                           /\ toClient'[k].code = "2xx" => toClient'[k].to.arg \in srv.rcpts
                           /\ toClient'[k].code = "5xx" => toClient'[k].to.arg \notin srv.rcpts
    BY <1>6
  <2>1. /\ \A r \in srv.rcpts : 2 + r <= Answered
        /\ \A k \in DOMAIN toClient : toClient[k].to.verb = "RCPT" =>
             /\ toClient[k].code = "2xx" => toClient[k].to.arg \in srv.rcpts
             /\ toClient[k].code = "5xx" => toClient[k].to.arg \notin srv.rcpts
    BY DEF ServerInv
  <2>2. \A k \in DOMAIN toClient' : k + 1 \in DOMAIN toClient /\ toClient'[k] = toClient[k + 1]
    BY ONLY <1>1
  <2> QED BY <2>1, <2>2
<1>10. pc' \in {"content", "bdat"} => toClient' = <<>> /\ Agrees(srv.rcpts)'
  <2> SUFFICES ASSUME pc' \in {"content", "bdat"} PROVE toClient' = <<>> /\ Agrees(srv.rcpts)'
    OBVIOUS
  <2>1. Sent = At
    <3>1. CASE pc = "rcpt"
      <4>1. At = 2 + i /\ At' = 2 + Rcpts + i' /\ i' = 1 /\ Sent \in {2 + Rcpts, At}
        BY <1>6, <3>1 DEF At, Sent
      <4> QED BY <1>4, <4>1
    <3>2. CASE pc # "rcpt"
      BY <1>6, <3>2 DEF Sent
    <3> QED BY <3>1, <3>2
  <2>2. toServer = <<>> /\ toClient' = <<>>
    BY <1>3, <2>1, NothingLeft
  <2>3. CASE pc = "bdat"
    <3>1. Agrees(srv.rcpts)
      BY <1>2, <2>3 DEF ServerInv
    <3> QED BY <2>2, <2>3, <3>1 DEF Agrees, Settles
  <2> QED BY <1>6, <1>7, <2>2, <2>3
<1>11. pc' \in {"rcpt", "data"} => Agrees(srv.rcpts)'
  BY <1>6, <1>7
<1> QED BY <1>5, <1>6, <1>8, <1>9, <1>10, <1>11 DEF ServerInv
-----------------------------------------------------------------------------
(* What holds of a transaction as long as replies can be relied on *)

DeliveryInv ==
  OwedInv /\ ReadyInv /\ ResetInv /\ ServerInv /\ (Trusted => SuccessIsDelivery)

\* It holds of a session that is given up, and of a client that cannot read.
LEMMA GoneKeeps ==
  ASSUME DeliveryInv, pc' = "gone", claimed' = claimed, queued' = queued, setting' = setting
  PROVE  DeliveryInv'
<1>1. Trusted => SuccessIsDelivery'
  BY SuccessKept DEF DeliveryInv
<1> QED BY <1>1 DEF DeliveryInv, OwedInv, ReadyInv, ResetInv, ServerInv, Asking, Waiting, Trusted, Ordered
LEMMA DeafKeeps ==
  ASSUME DeliveryInv, ~Live', pc' \notin {"ready", "start"}, claimed' = claimed, queued' = queued,
         setting' = setting
  PROVE  DeliveryInv'
<1>1. Trusted => SuccessIsDelivery'
  BY SuccessKept DEF DeliveryInv
<1> QED BY <1>1 DEF DeliveryInv, OwedInv, ReadyInv, ResetInv, ServerInv, Asking, Trusted, Ordered

\* It holds when RSET is sent, with nothing else under way if replies are in order.
LEMMA ResetKeeps ==
  ASSUME DeliveryInv, WellTyped, pc = "rcpt", Live, Resets, claimed' = claimed,
         UNCHANGED <<setting, n, queued>>,
         Ordered => Sent = At /\ toClient # <<>> /\ ~Line.more /\ toClient' = Tail(toClient)
  PROVE  DeliveryInv'
<1>1. Trusted => SuccessIsDelivery'
  BY SuccessKept DEF DeliveryInv
<1>2. ResetInv'
  <2> SUFFICES ASSUME Ordered
               PROVE  /\ \A k \in DOMAIN toServer' : toServer'[k] = Cmd("RSET", 0)
                      /\ \A k \in DOMAIN toClient' : toClient'[k].to = Cmd("RSET", 0)
    BY DEF ResetInv, Ordered, Cmd
  <2>1. Asking
    BY DEF Asking, Trusted, Waiting
  <2>2. Owes /\ InStep
    BY <2>1 DEF DeliveryInv, OwedInv, Behind
  <2>3. toServer = <<>> /\ toClient' = <<>>
    BY <2>2, NothingLeft DEF Waiting
  <2>4. toServer' = <<>> \o <<Cmd("RSET", 0)>>
    BY <2>3 DEF Resets
  <2>5. <<Cmd("RSET", 0)>> \in Seq({Cmd("RSET", 0)})
    OBVIOUS
  <2>6. toServer' = <<Cmd("RSET", 0)>>
    BY <2>4, <2>5
  <2> QED BY <2>3, <2>6
<1>3. pc' = "rset"
  BY DEF Resets
<1> QED BY <1>1, <1>2, <1>3 DEF DeliveryInv, OwedInv, ReadyInv, ServerInv, Asking, Trusted, Ordered

\* It holds when the client goes on to the next place after the end of a reply
\* or a malformed line: in step, or behind as before.
LEMMA AdvanceKeeps ==
  ASSUME DeliveryInv, WellTyped, WellTyped', Live, Advances, Settles, toClient # <<>>, ~Line.more,
         toClient' = Tail(toClient), claimed' = claimed,
         pc = "bdat" => Line.code = "2xx" /\ i < Chunks,
         pc' = "content" => Line.code = "3xx",
         At' = At + 1 \/ (~Ordered /\ pc = "rcpt" /\ At < At'),
         UNCHANGED <<setting, n, aborted, up, srv, queued>>
  PROVE  DeliveryInv'
<1>1. (Trusted => SuccessIsDelivery)'
  BY SuccessKept DEF DeliveryInv, Trusted, Ordered
<1>2. /\ pc \in {"mail", "rcpt", "data", "bdat"} /\ pc' \in {"rcpt", "data", "content", "bdat"}
      /\ pc = "data" => pc' = "content"
      /\ pc = "rcpt" => pc' # "content"
  BY DEF Advances
<1>3. CASE ~Trusted
  BY <1>1, <1>2, <1>3 DEF DeliveryInv, OwedInv, ReadyInv, ResetInv, ServerInv, Asking, Trusted, Ordered
<1>4. CASE Trusted
  <2>1. Asking /\ Asking' /\ pc \in Waiting \ {"rset"} /\ pc' \in Waiting \ {"rset"}
    BY <1>2, <1>4 DEF Asking, Trusted, Ordered, Live, Waiting
  <2>2. Owes /\ (InStep \/ Behind)
    BY <2>1 DEF DeliveryInv, OwedInv
  <2>3. OwesCommands' /\ Answered' = Answered
    BY <2>1, <2>2, CommandsKept DEF Owes
  <2>4. OwesReplies' /\ FirstOwed' = FirstOwed + 1
    BY <2>1, <2>2, <2>3, RepliesKept DEF Owes
  <2>5. At \in Int /\ At' \in Int /\ FirstOwed \in Int
    <3>1. At \in Int /\ FirstOwed \in Int
      BY <2>1, <2>2, Places, FirstOwedBound
    <3>2. At' \in Int
      <4>1. i' \in Nat /\ Rcpts \in Nat
        BY TransactionAssumption DEF WellTyped, TypeOK
      <4> QED BY ONLY <4>1, <2>1 DEF At, Waiting
    <3> QED BY <3>1, <3>2
  <2>6. ~(Behind /\ pc = "data")
    <3> SUFFICES ASSUME Behind, pc = "data" PROVE FALSE
      OBVIOUS
    <3>1. Line.code = "3xx"
      BY <1>2
    <3>2. /\ Line.to.verb = "DATA" /\ PosOf(Line.to) = FirstOwed
      BY <2>2, <3>1, FirstLine
    <3>3. PosOf(Line.to) = At
      BY <3>2 DEF PosOf, At
    <3> QED BY <2>5, <3>2, <3>3 DEF Behind
  <2>7. CASE Behind
    <3>1. pc = "rcpt" /\ pc' \in {"rcpt", "data"} /\ ~Ordered' /\ ~InStep'
      <4>1. pc = "rcpt" /\ ~Ordered /\ FirstOwed < At
        BY <2>6, <2>7 DEF Behind
      <4>2. setting'.transfer = "data" /\ ~Ordered'
        BY <1>4, <4>1 DEF Trusted, Ordered
      <4>3. pc' # "bdat"
        BY <4>2 DEF WellTyped, PlaceInv
      <4>4. FirstOwed' < At'
        BY <2>4, <2>5, <4>1
      <4> QED BY <1>2, <2>4, <2>5, <4>1, <4>2, <4>3, <4>4 DEF InStep
    <3>2. 3 <= FirstOwed' /\ FirstOwed' < At'
      BY <2>4, <2>5, <2>7 DEF Behind
    <3>3. Behind'
      BY <3>1, <3>2 DEF Behind
    <3> QED BY <1>1, <1>2, <2>1, <2>3, <2>4, <3>1, <3>3
            DEF DeliveryInv, OwedInv, ReadyInv, ResetInv, ServerInv, Owes
  <2>8. CASE InStep
    <3>1. CASE At' = At + 1
      <4>1. InStep'
        BY <2>4, <2>8, <3>1 DEF InStep
      <4>2. ServerInv'
        BY <2>1, <2>2, <2>3, <2>8, <3>1, StepServer DEF DeliveryInv
      <4> QED BY <1>1, <1>2, <2>3, <2>4, <4>1, <4>2
              DEF DeliveryInv, OwedInv, ReadyInv, ResetInv, Owes
    <3>2. CASE At' # At + 1
      <4>1. ~Ordered /\ pc = "rcpt" /\ FirstOwed' < At' /\ 3 <= FirstOwed' /\ ~InStep'
        <5>1. ~Ordered /\ pc = "rcpt" /\ At < At'
          BY <3>2
        <5>2. 3 <= At
          BY <5>1, Places
        <5> QED BY <2>4, <2>5, <2>8, <3>2, <5>1, <5>2 DEF InStep
      <4>2. pc' \in {"rcpt", "data"} /\ ~Ordered'
        <5>1. setting'.transfer = "data" /\ ~Ordered'
          BY <1>4, <4>1 DEF Trusted, Ordered
        <5> QED BY <1>2, <4>1, <5>1 DEF WellTyped, PlaceInv
      <4>3. Behind'
        BY <4>1, <4>2 DEF Behind
      <4> QED BY <1>1, <1>2, <2>1, <2>3, <2>4, <4>1, <4>3
              DEF DeliveryInv, OwedInv, ReadyInv, ResetInv, ServerInv, Owes
    <3> QED BY <3>1, <3>2
  <2> QED BY <2>2, <2>7, <2>8
<1> QED BY <1>3, <1>4

\* It holds when a line is read that others of the same reply follow.
LEMMA MoreKeeps ==
  ASSUME DeliveryInv, WellTyped, ReadLine, Line.more
  PROVE  DeliveryInv'
<1>1. /\ toClient # <<>> /\ toClient' = Tail(toClient) /\ Live /\ pc \in Waiting
      /\ UNCHANGED <<pc, i, outcome, toServer, claimed, setting, n, aborted, up, srv, queued>>
  BY DEF ReadLine, LineReadable, Live
<1>2. (Trusted => SuccessIsDelivery)'
  BY <1>1, SuccessKept DEF DeliveryInv, Trusted, Ordered
<1>3. /\ toClient \in Seq(Lines) /\ Len(toClient) \in Nat \ {0}
      /\ DOMAIN toClient' = 1..(Len(toClient) - 1) /\ DOMAIN toClient = 1..Len(toClient)
      /\ \A k \in 1..(Len(toClient) - 1) : toClient'[k] = toClient[k + 1]
  BY <1>1, TailFacts DEF WellTyped, TypeOK
<1>4. \A k \in DOMAIN toClient' : k + 1 \in DOMAIN toClient /\ toClient'[k] = toClient[k + 1]
  BY ONLY <1>3
<1>5. ResetInv'
  BY <1>1, <1>4 DEF DeliveryInv, ResetInv, Ordered, Live, Cmd
<1>6. CASE ~Asking
  BY <1>1, <1>2, <1>5, <1>6 DEF DeliveryInv, OwedInv, ReadyInv, ServerInv, Asking, Trusted, Ordered,
     Live, Waiting
<1>7. CASE Asking
  <2>1. pc \in Waiting \ {"rset"} /\ Owes /\ (InStep \/ Behind)
    BY <1>7 DEF DeliveryInv, OwedInv, Asking
  <2>2. Sent' = Sent /\ At' = At /\ Answered' = Answered
    BY <1>1 DEF Sent, At, Answered
  <2>3. OwesReplies' /\ FirstOwed' = FirstOwed
    BY <1>1, <2>1, <2>2, RepliesKept DEF Owes
  <2>4. OwesCommands'
    BY <1>1, <2>1, <2>2 DEF Owes, OwesCommands, Current
  <2>5. (InStep <=> InStep') /\ (Behind <=> Behind')
    BY <1>1, <2>2, <2>3 DEF InStep, Behind, Ordered
  <2>6. toClient' # <<>> /\ toClient'[1].code = toClient[1].code
    <3>1. Line = toClient[1]
      BY <2>1, <1>1, FirstLine
    <3> QED BY <1>1, <3>1, LinesLeft DEF WellTyped
  <2>7. ServerInv'
    <3> SUFFICES ASSUME InStep PROVE ServerInv'
      BY <2>5 DEF ServerInv
    <3> QED BY <1>1, <1>4, <1>7, <2>2, <2>6 DEF DeliveryInv, ServerInv, Agrees, Delivered
  <2> QED BY <1>1, <1>2, <1>5, <1>7, <2>1, <2>3, <2>4, <2>5, <2>7
          DEF DeliveryInv, OwedInv, ReadyInv, Owes, Waiting
<1> QED BY <1>6, <1>7

\* It holds when a reply was read to its end.
LEMMA ReplyKeeps ==
  ASSUME DeliveryInv, WellTyped, WellTyped', ReadLine, ~Line.more
  PROVE  DeliveryInv'
<1>1. /\ toClient # <<>> /\ toClient' = Tail(toClient) /\ Live /\ pc \in Waiting
      /\ UNCHANGED <<setting, n, aborted, up, srv, queued>> /\ OnReply(Line.code)
  BY DEF ReadLine, LineReadable, Live
<1>2. Line.code \in Codes
  BY <1>1, LinesLeft DEF ReadLine, WellFormed, Lines, WellTyped
<1>3. /\ \/ pc' = "gone" \/ (pc = "rcpt" /\ Resets /\ Sent = At)
         \/ pc = "noop" /\ pc' = "start" /\ toServer' = toServer
         \/ Advances /\ At' = At + 1
         \/ /\ Succeed /\ Line.code = "2xx"
            /\ pc = "content" \/ (pc = "bdat" /\ i = Chunks)
      /\ pc' = "content" => Line.code = "3xx"
      /\ pc = "bdat" /\ pc' = "bdat" => Line.code = "2xx" /\ i < Chunks
      /\ pc = "rcpt" => outcome' = [outcome EXCEPT ![i] = IF Line.code = "2xx" THEN "accepted"
                                                          ELSE "rejected"]
      /\ pc # "rcpt" => outcome' = outcome
      /\ pc' = "ready" => Succeed
  BY <1>1, <1>2, ReplyMoves
<1>4. claimed' = claimed \/ Succeed
  BY <1>1, ReplyClaims
<1>5. Succeed => pc' = "ready"
  BY DEF Succeed
<1>6. CASE pc' = "gone"
  <2>1. claimed' = claimed
    BY <1>4, <1>5, <1>6
  <2> QED BY <1>1, <1>6, <2>1, GoneKeeps
<1>7. CASE pc = "rcpt" /\ Resets /\ Sent = At
  <2>1. claimed' = claimed
    BY <1>4, <1>5, <1>7 DEF Resets
  <2> QED BY <1>1, <1>7, <2>1, ResetKeeps
<1>8. CASE pc = "noop" /\ pc' = "start" /\ toServer' = toServer
  <2>1. claimed' = claimed
    BY <1>4, <1>5, <1>8
  <2>2. (Trusted => SuccessIsDelivery)'
    BY <1>1, <2>1, SuccessKept DEF DeliveryInv, Trusted, Ordered
  <2>3. ASSUME Trusted PROVE toServer' = <<>> /\ toClient' = <<>> /\ srv' = Fresh
    <3>1. Asking /\ pc \in Waiting \ {"rset"}
      BY <1>1, <1>8, <2>3 DEF Asking, Waiting
    <3>2. Owes /\ InStep
      BY <1>8, <3>1 DEF DeliveryInv, OwedInv, Behind
    <3>3. Sent = At /\ At = 1
      BY <1>8 DEF Sent, At
    <3>4. toServer = <<>> /\ toClient' = <<>> /\ Answered = 1
      BY <1>1, <3>1, <3>2, <3>3, NothingLeft
    <3>5. srv = Fresh
      BY <3>1, <3>2, <3>4 DEF DeliveryInv, ServerInv
    <3> QED BY <1>1, <1>8, <3>4, <3>5
  <2> QED BY <1>1, <1>8, <2>2, <2>3
          DEF DeliveryInv, OwedInv, ReadyInv, ResetInv, ServerInv, Asking, Trusted, Ordered, Waiting
<1>9. CASE Advances /\ At' = At + 1
  <2>1. pc' # "ready" /\ (pc = "bdat" => pc' = "bdat")
    BY <1>9 DEF Advances
  <2>2. claimed' = claimed
    BY <1>4, <1>5, <2>1
  <2>3. Settles
    <3>1. CASE pc = "rcpt"
      BY <1>2, <1>3, <3>1 DEF Settles, Codes, Outcomes
    <3>2. CASE pc # "rcpt"
      BY <1>3, <3>2 DEF Settles
    <3> QED BY <3>1, <3>2
  <2> QED BY <1>1, <1>3, <1>9, <2>1, <2>2, <2>3, AdvanceKeeps
<1>10. CASE /\ Succeed /\ Line.code = "2xx"
            /\ pc = "content" \/ (pc = "bdat" /\ i = Chunks)
  <2>1. pc' = "ready" /\ toServer' = toServer
    BY <1>10 DEF Succeed
  <2>2. ASSUME Trusted PROVE toServer' = <<>> /\ toClient' = <<>> /\ srv' = Fresh /\ Delivered
    <3>1. Asking /\ pc \in Waiting \ {"rset"}
      BY <1>1, <1>10, <2>2 DEF Asking, Waiting
    <3>2. Owes /\ InStep
      BY <1>10, <3>1 DEF DeliveryInv, OwedInv, Behind
    <3>3. Sent = At
      BY <1>10 DEF Sent
    <3>4. toServer = <<>> /\ toClient' = <<>>
      BY <1>1, <3>1, <3>2, <3>3, NothingLeft
    <3>5. toClient[1].code = "2xx" /\ ~(pc = "bdat" /\ i < Chunks)
      <4>1. Line = toClient[1]
        BY <1>1, <3>2, FirstLine
      <4> QED BY <1>10, <4>1, TransactionAssumption
    <3>6. Delivered /\ srv = Fresh
      BY <1>1, <1>10, <3>1, <3>2, <3>5 DEF DeliveryInv, ServerInv
    <3> QED BY <1>1, <2>1, <3>4, <3>6
  <2>3. (Trusted => SuccessIsDelivery)'
    BY <1>1, <1>10, <2>2, SuccessAdds DEF DeliveryInv, Trusted, Ordered
  <2> QED BY <1>1, <2>1, <2>2, <2>3
          DEF DeliveryInv, OwedInv, ReadyInv, ResetInv, ServerInv, Asking, Trusted, Ordered, Waiting
<1> QED BY <1>3, <1>6, <1>7, <1>8, <1>9, <1>10

\* It holds when the client goes on to a later place with the reply it awaited
\* still owed, in whole or what its malformed line has left of it: behind.
LEMMA LeftKeeps ==
  ASSUME DeliveryInv, WellTyped, WellTyped', Live, ~Ordered, pc = "rcpt", Advances, At < At', claimed' = claimed,
         \/ toClient' = toClient
         \/ toClient # <<>> /\ Line.more /\ toClient' = Tail(toClient),
         UNCHANGED <<setting, n, aborted, up, srv, queued>>
  PROVE  DeliveryInv'
<1>1. (Trusted => SuccessIsDelivery)'
  BY SuccessKept DEF DeliveryInv, Trusted, Ordered
<1>2. pc' \in {"rcpt", "data", "bdat"}
  BY DEF Advances
<1>3. CASE ~Trusted
  BY <1>1, <1>2, <1>3 DEF DeliveryInv, OwedInv, ReadyInv, ResetInv, ServerInv, Asking,
     Trusted, Ordered
<1>4. CASE Trusted
  <2>1. setting.transfer = "data" /\ Asking /\ pc \in Waiting \ {"rset"}
    BY <1>4 DEF Trusted, Asking, Waiting
  <2>2. pc' # "bdat"
    BY <2>1 DEF WellTyped, PlaceInv
  <2>3. Owes /\ (InStep \/ Behind)
    BY <2>1 DEF DeliveryInv, OwedInv
  <2>4. OwesCommands' /\ Answered' = Answered
    BY <2>1, <2>3, CommandsKept DEF Owes
  <2>5. OwesReplies' /\ FirstOwed' = FirstOwed
    <3>1. CASE toClient' = toClient
      BY <2>3, <2>4, <3>1, RepliesUnread DEF Owes
    <3>2. CASE toClient # <<>> /\ Line.more /\ toClient' = Tail(toClient)
      BY <2>1, <2>3, <2>4, <3>2, RepliesKept DEF Owes
    <3> QED BY <3>1, <3>2
  <2>6. At \in Int /\ FirstOwed \in Int /\ 3 <= At /\ At' \in Int
    <3>1. At \in Int /\ FirstOwed \in Int /\ 3 <= At
      BY <2>1, <2>3, Places, FirstOwedBound
    <3>2. i' \in Nat /\ Rcpts \in Nat
      BY TransactionAssumption DEF WellTyped, TypeOK
    <3>3. At' \in Int
      BY ONLY <1>2, <3>2 DEF At
    <3> QED BY <3>1, <3>3
  <2>7. 3 <= FirstOwed' /\ FirstOwed' < At' /\ ~InStep'
    <3>1. 3 <= FirstOwed /\ FirstOwed <= At
      BY <2>3, <2>6 DEF InStep, Behind
    <3> QED BY ONLY At < At', <2>5, <2>6, <3>1 DEF InStep
  <2>8. Behind'
    BY <1>2, <2>2, <2>7 DEF Behind, Ordered
  <2> QED BY <1>1, <1>2, <2>2, <2>4, <2>5, <2>7, <2>8
          DEF DeliveryInv, OwedInv, ReadyInv, ResetInv, ServerInv, Owes
<1> QED BY <1>3, <1>4

\* It holds when a malformed line was read.
LEMMA MalformedKeeps ==
  ASSUME DeliveryInv, WellTyped, WellTyped', ReadMalformed
  PROVE  DeliveryInv'
<1>1. /\ toClient # <<>> /\ toClient' = Tail(toClient) /\ Live /\ OnError
      /\ UNCHANGED <<setting, n, aborted, up, srv, queued>>
  BY DEF ReadMalformed, LineReadable, Live
<1>2. ~Ordered
  BY MalformedIsGarbled DEF Ordered, WellTyped
<1>3. claimed' = claimed
  BY <1>1, ErrorClaims
<1>4. /\ \/ pc' = "gone" \/ (pc = "rcpt" /\ Resets)
         \/ pc = "rcpt" /\ Advances /\ At < At'
      /\ pc = "rcpt" => outcome' = [outcome EXCEPT ![i] = "error"]
  BY <1>1, ErrorMoves
<1>5. CASE pc' = "gone"
  BY <1>1, <1>3, <1>5, GoneKeeps
<1>6. CASE pc = "rcpt" /\ Resets
  BY <1>1, <1>2, <1>3, <1>6, ResetKeeps
<1>7. CASE pc = "rcpt" /\ Advances /\ At < At' /\ Line.more
  BY <1>1, <1>2, <1>3, <1>7, LeftKeeps
<1>8. CASE pc = "rcpt" /\ Advances /\ At < At' /\ ~Line.more
  <2>1. Settles
    BY <1>4, <1>8 DEF Settles, Outcomes
  <2>2. pc' # "content"
    BY <1>8 DEF Advances
  <2> QED BY <1>1, <1>2, <1>3, <1>8, <2>1, <2>2, AdvanceKeeps
<1> QED BY <1>4, <1>5, <1>6, <1>7, <1>8

\* It holds when a read fails.
LEMMA FailKeeps ==
  ASSUME DeliveryInv, WellTyped, WellTyped', ReadFails
  PROVE  DeliveryInv'
<1>1. /\ UNCHANGED <<setting, n, aborted, up, toClient, srv, queued>> /\ OnError
      /\ setting.late \/ aborted \/ ~up
  BY DEF ReadFails
<1>2. claimed' = claimed
  BY <1>1, ErrorClaims
<1>3. (Trusted => SuccessIsDelivery)'
  BY <1>1, <1>2, SuccessKept DEF DeliveryInv, Trusted, Ordered
<1>4. CASE ~Live
  <2>1. pc' \notin {"ready", "start"}
    <3>1. CASE pc = "rcpt"
      <4> DEFINE out == [outcome EXCEPT ![i] = "error"]
      <4>1. IF setting.pipelining THEN EnvelopeSent(out) ELSE NextRecipient(out)
        BY <1>1, <3>1 DEF OnError
      <4>2. pc' \in Waiting \cup {"gone"}
        BY <1>1, <3>1, <4>1, RecipientTyped DEF WellTyped
      <4> QED BY <4>2 DEF Waiting
    <3>2. CASE pc # "rcpt"
      BY <1>1, <3>2 DEF OnError, Fail
    <3> QED BY <3>1, <3>2
  <2>2. ~Live'
    BY <1>1, <1>4 DEF Live
  <2> QED BY <1>1, <1>2, <2>1, <2>2, DeafKeeps
<1>5. CASE Live
  <2>1. ~Ordered
    BY <1>1, <1>5 DEF Live, Ordered
  <2>2. /\ \/ pc' = "gone" \/ (pc = "rcpt" /\ Resets)
           \/ pc = "rcpt" /\ Advances /\ At < At'
        /\ pc = "rcpt" => outcome' = [outcome EXCEPT ![i] = "error"]
    BY <1>1, <1>5, ErrorMoves
  <2>3. CASE pc' = "gone"
    BY <1>1, <1>2, <2>3, GoneKeeps
  <2>4. CASE pc = "rcpt" /\ Resets
    BY <1>1, <1>2, <1>5, <2>1, <2>4, ResetKeeps
  <2>5. CASE pc = "rcpt" /\ Advances /\ At < At'
    BY <1>1, <1>2, <1>5, <2>1, <2>5, LeftKeeps
  <2> QED BY <2>2, <2>3, <2>4, <2>5
<1> QED BY <1>4, <1>5

\* It holds when the client's next message takes the session.
LEMMA BeginKeeps ==
  ASSUME DeliveryInv, WellTyped, Begin
  PROVE  DeliveryInv'
<1>1. /\ pc = "ready" /\ n' = n + 1 /\ aborted' = FALSE /\ n \in Nat
      /\ pc' = IF n = 0 THEN "start" ELSE "noop"
      /\ toServer' = IF n > 0 /\ up
                     THEN Append(toServer, [verb |-> "NOOP", txn |-> n + 1, arg |-> 0]) ELSE toServer
      /\ UNCHANGED <<setting, claimed, up, toClient, srv, queued>>
  BY DEF Begin, WellTyped, TypeOK
<1>2. (Trusted => SuccessIsDelivery)'
  BY <1>1, SuccessKept DEF DeliveryInv, Trusted, Ordered
<1>3. CASE ~Trusted \/ n = 0 \/ ~up
  <2>1. Trusted => toServer = <<>> /\ toClient = <<>> /\ srv = Fresh
    BY <1>1 DEF DeliveryInv, ReadyInv
  <2>2. Trusted' = Trusted /\ ~Asking'
    BY <1>1, <1>3 DEF Trusted, Ordered, Asking, Live, Waiting
  <2> QED BY <1>1, <1>2, <1>3, <2>1, <2>2 DEF DeliveryInv, OwedInv, ReadyInv, ResetInv, ServerInv
<1>4. CASE Trusted /\ n # 0 /\ up
  <2> DEFINE noop == [verb |-> "NOOP", txn |-> n + 1, arg |-> 0]
  <2>1. toServer = <<>> /\ toClient = <<>> /\ srv = Fresh
    BY <1>1, <1>4 DEF DeliveryInv, ReadyInv
  <2>2. /\ toServer' = <<noop>> /\ pc' = "noop" /\ toClient' = <<>> /\ srv' = Fresh
    BY <1>1, <1>4, <2>1
  <2>3. /\ At' = 1 /\ Sent' = 1 /\ Answered' = 0 /\ FirstOwed' = 1
    <3>1. Len(toServer') = 1 /\ At' = 1 /\ Sent' = 1
      BY <2>2 DEF At, Sent
    <3>2. Answered' = 0
      BY <3>1 DEF Answered
    <3> QED BY <2>2, <3>1, <3>2 DEF FirstOwed
  <2>4. OwesCommands'
    <3>1. \A k \in DOMAIN toServer' : k = 1 /\ toServer'[k] = noop
      BY <2>2
    <3>2. noop.verb = "NOOP" /\ noop.txn = n' /\ noop.arg = 0 /\ PosOf(noop) = 1
      BY <1>1 DEF PosOf
    <3> HIDE DEF noop
    <3> QED BY <2>3, <3>1, <3>2 DEF OwesCommands, Current
  <2>5. OwesReplies'
    <3>1. DOMAIN toClient' = {} /\ toClient' = <<>>
      BY <2>2
    <3> QED BY <3>1 DEF OwesReplies
  <2> QED BY <1>2, <2>2, <2>3, <2>4, <2>5
          DEF DeliveryInv, OwedInv, ReadyInv, ResetInv, ServerInv, Owes, InStep
<1> QED BY <1>1, <1>3, <1>4

\* It holds when the envelope is sent, and when it cannot be.
LEMMA StartKeeps ==
  ASSUME DeliveryInv, WellTyped, Start
  PROVE  DeliveryInv'
<1>1. /\ pc = "start" /\ (SendEnvelope \/ Fail)
      /\ UNCHANGED <<setting, n, outcome, mailOk, aborted, up, toClient, srv, queued>>
  BY DEF Start
<1>2. CASE Fail
  <2>1. pc' = "gone" /\ claimed' = claimed
    BY <1>2 DEF Fail
  <2> QED BY <1>1, <2>1, GoneKeeps
<1>3. CASE SendEnvelope
  <2> DEFINE cmds == IF setting.pipelining
                     THEN <<Cmd("MAIL", 0)>> \o [r \in Recipients |-> Cmd("RCPT", r)]
                     ELSE <<Cmd("MAIL", 0)>>
  <2>1. /\ toServer' = IF aborted \/ ~up THEN toServer ELSE toServer \o cmds
        /\ pc' = "mail" /\ i' = 0 /\ claimed' = claimed
    BY <1>3 DEF SendEnvelope, Ask
  <2>2. CASE ~Live
    BY <1>1, <2>1, <2>2, DeafKeeps DEF Live
  <2>3. CASE ~Trusted
    <3>1. (Trusted => SuccessIsDelivery)'
      BY <1>1, <2>1, SuccessKept DEF DeliveryInv, Trusted, Ordered
    <3> QED BY <1>1, <2>1, <2>3, <3>1 DEF DeliveryInv, OwedInv, ReadyInv, ResetInv, ServerInv, Asking,
            Trusted, Ordered
  <2>4. CASE Live /\ Trusted
    <3>1. (Trusted => SuccessIsDelivery)'
      BY <1>1, <2>1, SuccessKept DEF DeliveryInv, Trusted, Ordered
    <3>2. toServer = <<>> /\ toClient' = <<>> /\ srv' = Fresh
      BY <1>1, <2>4 DEF DeliveryInv, ReadyInv
    <3>3. /\ cmds \in Seq(Commands) /\ Len(cmds) = IF setting.pipelining THEN 1 + Rcpts ELSE 1
          /\ cmds[1] = Cmd("MAIL", 0)
          /\ setting.pipelining => \A r \in Recipients : cmds[r + 1] = Cmd("RCPT", r)
      <4>1. CASE setting.pipelining
        BY <4>1, EnvelopeFacts, TransactionAssumption DEF WellTyped
      <4>2. CASE ~setting.pipelining
        BY <4>2, TransactionAssumption DEF Cmd, Commands, Verbs, WellTyped, TypeOK
      <4> QED BY <4>1, <4>2
    <3> HIDE DEF cmds
    <3>4. toServer' = cmds
      BY <2>1, <2>4, <3>2, <3>3 DEF Live
    <3>5. /\ At' = 2 /\ Sent' = IF setting.pipelining THEN 2 + Rcpts ELSE 2
      BY <1>1, <2>1 DEF At, Sent
    <3>6. Answered' = 1 /\ FirstOwed' = 2
      <4>1. Answered' = Sent' - Len(cmds) /\ Rcpts \in Nat
        BY <3>4, TransactionAssumption DEF Answered
      <4>2. Answered' = 1
        BY ONLY <3>3, <3>5, <4>1
      <4> QED BY <3>2, <4>2 DEF FirstOwed
    <3>7. \A k \in DOMAIN cmds : \/ k = 1
                                 \/ setting.pipelining /\ k - 1 \in Recipients /\ k = (k - 1) + 1
      BY <3>3, TransactionAssumption DEF Recipients
    <3>8. ASSUME NEW k \in DOMAIN toServer'
          PROVE  Current(toServer'[k]) /\ PosOf(toServer'[k]) = 1 + k
      <4>1. CASE k = 1
        BY <3>3, <3>4, <4>1 DEF Current, Cmd, PosOf
      <4>2. CASE setting.pipelining /\ k - 1 \in Recipients /\ k = (k - 1) + 1
        <5>1. toServer'[k] = Cmd("RCPT", k - 1)
          BY <3>3, <3>4, <4>2
        <5> QED BY <4>2, <5>1 DEF Current, Cmd, PosOf, Recipients
      <4> QED BY <3>4, <3>7, <3>8, <4>1, <4>2
    <3>9. OwesCommands'
      BY <1>1, <3>6, <3>8 DEF OwesCommands, Current
    <3>10. OwesReplies'
      <4>1. DOMAIN toClient' = {} /\ toClient' = <<>>
        BY <3>2
      <4> QED BY <4>1 DEF OwesReplies
    <3>11. ServerInv'
      <4>1. outcome' = NoOutcome
        BY <1>1 DEF WellTyped, PlaceInv
      <4>2. srv'.rcpts = {} /\ DOMAIN toClient' = {}
        BY <3>2 DEF Fresh
      <4> QED BY <2>1, <3>2, <4>1, <4>2 DEF ServerInv, Agrees, NoOutcome
    <3> QED BY <2>1, <3>1, <3>5, <3>6, <3>9, <3>10, <3>11
            DEF DeliveryInv, OwedInv, ReadyInv, ResetInv, Owes, InStep
  <2> QED BY <2>2, <2>3, <2>4
<1> QED BY <1>1, <1>2, <1>3

\* The answer to the first command under way, and the transaction after it.
LEMMA VerdictMoves ==
  ASSUME WellTyped, NEW cmd \in Commands, NEW v \in Verdicts(cmd)
  PROVE  /\ cmd.verb = "NOOP" => v[2] = srv
         /\ cmd.verb = "MAIL" => v[2].rcpts = {}
         /\ cmd.verb = "RCPT" => \/ v[1] = "2xx" /\ v[2].rcpts = srv.rcpts \cup {cmd.arg}
                                 \/ v[1] = "5xx" /\ v[2].rcpts = srv.rcpts
         /\ cmd.verb = "DATA" => v[2].rcpts = srv.rcpts
         /\ cmd.verb = "CONTENT" /\ v[1] = "2xx" => v[2] = Fresh
         /\ cmd.verb = "BDAT" /\ v[1] = "2xx" => v[2] = IF cmd.arg = Chunks THEN Fresh ELSE srv
<1>1. srv \in [phase : {"idle", "mail", "data"}, rcpts : SUBSET Recipients]
  BY DEF WellTyped, TypeOK
<1>2. CASE cmd.verb = "RCPT"
  BY <1>1, <1>2 DEF Verdicts, Fresh
<1>3. CASE cmd.verb = "BDAT"
  BY <1>1, <1>3 DEF Verdicts, Fresh
<1>4. CASE cmd.verb \in {"NOOP", "RSET"}
  BY <1>1, <1>4 DEF Verdicts, Fresh
<1>5. CASE cmd.verb = "MAIL"
  BY <1>1, <1>5 DEF Verdicts, Fresh
<1>6. CASE cmd.verb = "DATA"
  BY <1>1, <1>6 DEF Verdicts, Fresh
<1>7. CASE cmd.verb = "CONTENT"
  BY <1>1, <1>7 DEF Verdicts, Fresh
<1> QED BY <1>2, <1>3, <1>4, <1>5, <1>6, <1>7 DEF Commands, Verbs

\* The server answers the client that is in step.
LEMMA ServerStep ==
  ASSUME DeliveryInv, WellTyped, WellTyped', ServerReplies, Asking, InStep
  PROVE  ServerInv'
<1> DEFINE cmd == toServer[1]
<1> DEFINE len == Len(toClient)
<1> PICK v \in Verdicts(cmd) :
        /\ toServer # <<>> /\ cmd \in Commands /\ v[1] \in Codes
        /\ toClient' = toClient \o ReplyTo(v[1], cmd)
        /\ toServer' = Tail(toServer) /\ UNCHANGED <<client, up>> /\ srv' = v[2]
        /\ queued' = IF Delivers(cmd, v[1])
                     THEN queued \cup {[txn |-> cmd.txn, rcpts |-> srv.rcpts]} ELSE queued
  BY ServerFacts DEF WellTyped
<1> DEFINE lines == ReplyTo(v[1], cmd)
<1>1. /\ toServer # <<>> /\ cmd \in Commands /\ v[1] \in Codes /\ toClient' = toClient \o lines
      /\ toServer' = Tail(toServer) /\ UNCHANGED <<client, up>> /\ srv' = v[2]
      /\ queued' = IF Delivers(cmd, v[1])
                   THEN queued \cup {[txn |-> cmd.txn, rcpts |-> srv.rcpts]} ELSE queued
  OBVIOUS
<1>2. pc \in Waiting \ {"rset"} /\ Owes
  BY DEF DeliveryInv, OwedInv, Asking
<1>3. Len(toServer) \in Nat \ {0} /\ 1 \in DOMAIN toServer /\ Len(Tail(toServer)) = Len(toServer) - 1
  BY <1>1, TailFacts DEF WellTyped, TypeOK
<1>4. Current(cmd) /\ PosOf(cmd) = Answered + 1
  <2>1. \A k \in DOMAIN toServer : Current(toServer[k]) /\ PosOf(toServer[k]) = Answered + k
    BY <1>2 DEF Owes, OwesCommands
  <2> QED BY ONLY <1>3, <2>1
<1> HIDE DEF cmd
<1>5. lines \in Seq(Lines) /\ Len(lines) = 1 /\ lines[1].to = cmd /\ lines[1].code = v[1]
  BY <1>1, ReplyFacts
<1> HIDE DEF lines
<1>6. /\ cmd.verb = "NOOP" => srv' = srv
      /\ cmd.verb = "MAIL" => srv'.rcpts = {}
      /\ cmd.verb = "RCPT" => \/ v[1] = "2xx" /\ srv'.rcpts = srv.rcpts \cup {cmd.arg}
                              \/ v[1] = "5xx" /\ srv'.rcpts = srv.rcpts
      /\ cmd.verb = "DATA" => srv'.rcpts = srv.rcpts
      /\ cmd.verb = "CONTENT" /\ v[1] = "2xx" => srv' = Fresh
      /\ cmd.verb = "BDAT" /\ v[1] = "2xx" => srv' = IF cmd.arg = Chunks THEN Fresh ELSE srv
  BY <1>1, VerdictMoves
<1>7. /\ len \in Nat /\ DOMAIN toClient = 1..len /\ DOMAIN toClient' = 1..(len + 1)
      /\ \A k \in 1..len : toClient'[k] = toClient[k]
      /\ toClient'[len + 1] = lines[1]
      /\ toClient = <<>> => len = 0
  <2>1. toClient \in Seq(Lines)
    BY DEF WellTyped, TypeOK
  <2>2. toClient = <<>> => len = 0
    OBVIOUS
  <2> QED BY <1>1, <1>5, <2>1, <2>2, CatOneFacts
<1>8. \A k \in DOMAIN toClient' : \/ k \in DOMAIN toClient /\ toClient'[k] = toClient[k]
                                  \/ toClient'[k].to = cmd /\ toClient'[k].code = v[1]
  <2>1. \A k \in 1..(len + 1) : k \in 1..len \/ k = len + 1
    BY <1>7
  <2> QED BY <1>5, <1>7, <2>1
<1>9. /\ At' = At /\ InStep' = InStep /\ Answered' = Answered + 1 /\ Owes'
      /\ UNCHANGED <<setting, pc, n, i, outcome, aborted, up>>
  BY <1>1, <1>2, ServerOwes DEF InStep, client
<1>10. /\ Answered \in Int /\ At \in Nat /\ Sent \in Nat /\ At <= Answered + 1 /\ Answered + 1 <= Sent
       /\ toClient # <<>> => At <= Answered
       /\ Answered = Sent - Len(toServer)
  BY <1>2, <1>3, FirstOwedBound, Places DEF InStep, Answered
<1>11. \/ cmd.verb = "NOOP" /\ Answered = 0
       \/ cmd.verb = "MAIL" /\ Answered = 1
       \/ cmd.verb = "RCPT" /\ cmd.arg \in Recipients /\ Answered + 1 = 2 + cmd.arg
       \/ cmd.verb = "DATA" /\ Answered + 1 = 3 + Rcpts /\ setting.transfer = "data"
       \/ cmd.verb = "CONTENT" /\ Answered + 1 = 4 + Rcpts /\ setting.transfer = "data"
       \/ cmd.verb = "BDAT" /\ cmd.arg \in 1..Chunks /\ Answered + 1 = 2 + Rcpts + cmd.arg
          /\ setting.transfer = "bdat"
  <2>1. cmd.verb \in Verbs /\ cmd.arg \in Nat /\ Rcpts \in Nat
    BY <1>1, TransactionAssumption DEF Commands
  <2> QED BY ONLY <1>4, <1>10, <2>1 DEF Verbs, Current, PosOf
<1>12. Rcpts \in Nat \ {0} /\ Chunks \in Nat \ {0} /\ Recipients = 1..Rcpts
  BY TransactionAssumption DEF Recipients
<1>13. Answered' < 2 => srv' = Fresh
  <2>1. Answered < 2 => srv = Fresh
    BY DEF DeliveryInv, ServerInv
  <2> QED BY ONLY <1>6, <1>9, <1>10, <1>11, <1>12, <2>1
<1>14. pc = "rcpt" => \A r \in i..Rcpts : outcome[r] = "none"
  BY DEF DeliveryInv, ServerInv
<1>15. ASSUME pc \in {"mail", "rcpt", "data"}
       PROVE  /\ \A r \in srv'.rcpts : 2 + r <= Answered'
              /\ Agrees(srv'.rcpts)
              /\ \A k \in DOMAIN toClient' : toClient'[k].to.verb = "RCPT" =>
                   /\ toClient'[k].code = "2xx" => toClient'[k].to.arg \in srv'.rcpts
                   /\ toClient'[k].code = "5xx" => toClient'[k].to.arg \notin srv'.rcpts
  <2>1. /\ \A r \in srv.rcpts : 2 + r <= Answered
        /\ Agrees(srv.rcpts)
        /\ \A k \in DOMAIN toClient : toClient[k].to.verb = "RCPT" =>
             /\ toClient[k].code = "2xx" => toClient[k].to.arg \in srv.rcpts
             /\ toClient[k].code = "5xx" => toClient[k].to.arg \notin srv.rcpts
    BY <1>15 DEF DeliveryInv, ServerInv
  <2>2. srv.rcpts \subseteq Recipients /\ srv'.rcpts \subseteq Recipients /\ Recipients \subseteq Nat
    BY <1>12 DEF WellTyped, TypeOK
  <2>3. \A k \in DOMAIN toClient : toClient[k].to.verb = "RCPT" =>
          toClient[k].to.arg \in Recipients /\ 2 + toClient[k].to.arg <= Answered
    <3>1. \A k \in DOMAIN toClient : Current(toClient[k].to) /\ PosOf(toClient[k].to) <= Answered
      BY <1>2 DEF Owes, OwesReplies
    <3> QED BY ONLY <3>1 DEF Current, PosOf
  <2>4. pc = "mail" => At = 2 /\ Sent <= 2 + Rcpts
    BY <1>12 DEF At, Sent
  <2>5. pc = "rcpt" => At = 2 + i /\ i \in Recipients /\ Sent <= 2 + Rcpts
    BY <1>12 DEF At, Sent, WellTyped, PlaceInv
  <2>6. pc = "data" => At = 3 + Rcpts /\ Sent = 3 + Rcpts /\ setting.transfer = "data"
    BY DEF At, Sent, WellTyped, PlaceInv
  <2>7. pc = "mail" => outcome = NoOutcome
    BY DEF WellTyped, PlaceInv
  <2>8. cmd.verb \in {"MAIL", "RCPT", "DATA"}
    <3>1. CASE pc = "data"
      BY ONLY <1>10, <1>11, <1>12, <2>6, <3>1
    <3>2. CASE pc # "data"
      <4>1. At >= 2 /\ Sent <= 2 + Rcpts
        BY <1>12, <1>15, <2>4, <2>5, <3>2
      <4> QED BY ONLY <1>10, <1>11, <1>12, <4>1
    <3> QED BY <3>1, <3>2
  <2>9. CASE cmd.verb = "MAIL"
    <3>1. pc = "mail"
      BY <1>10, <1>11, <1>12, <1>15, <2>5, <2>6, <2>9
    <3>2. Agrees({})
      BY <2>7, <3>1 DEF Agrees, NoOutcome
    <3>3. \A k \in DOMAIN toClient : toClient[k].to.verb # "RCPT"
      BY <1>11, <2>2, <2>3, <2>9, <1>12
    <3> QED BY <1>6, <1>8, <2>9, <3>2, <3>3
  <2>10. CASE cmd.verb = "RCPT"
    <3> DEFINE r == cmd.arg
    <3>1. r \in Recipients /\ r \in Nat /\ Answered = 1 + r /\ outcome[r] = "none"
      <4>1. r \in Recipients /\ r \in Nat /\ Answered = 1 + r
        BY <1>10, <1>11, <1>12, <2>10
      <4>2. pc # "data"
        BY <1>10, <1>12, <2>6, <4>1
      <4>3. pc = "mail" => outcome[r] = "none"
        BY <2>7, <4>1 DEF NoOutcome
      <4>4. pc = "rcpt" => r \in i..Rcpts
        BY ONLY <1>10, <1>12, <2>5, <4>1
      <4> QED BY <1>14, <1>15, <4>1, <4>2, <4>3, <4>4
    <3>2. r \notin srv.rcpts
      BY <2>1, <3>1
    <3> HIDE DEF r
    <3>3. \/ v[1] = "2xx" /\ srv'.rcpts = srv.rcpts \cup {r}
          \/ v[1] = "5xx" /\ srv'.rcpts = srv.rcpts
      BY <1>6, <2>10 DEF r
    <3>4. \A x \in srv'.rcpts : 2 + x <= Answered'
      <4>1. \A x \in srv.rcpts : x \in Nat
        BY <2>2
      <4> QED BY ONLY <1>9, <1>10, <2>1, <3>1, <3>3, <4>1
    <3>5. Agrees(srv'.rcpts)
      BY ONLY <2>1, <3>1, <3>3 DEF Agrees
    <3>6. ASSUME NEW k \in DOMAIN toClient', toClient'[k].to.verb = "RCPT"
          PROVE  /\ toClient'[k].code = "2xx" => toClient'[k].to.arg \in srv'.rcpts
                 /\ toClient'[k].code = "5xx" => toClient'[k].to.arg \notin srv'.rcpts
      <4>1. CASE k \in DOMAIN toClient /\ toClient'[k] = toClient[k]
        <5>1. toClient[k].to.arg # r
          BY <2>2, <2>3, <3>1, <3>6, <4>1
        <5> QED BY <2>1, <3>3, <3>6, <4>1, <5>1
      <4>2. CASE toClient'[k].to = cmd /\ toClient'[k].code = v[1]
        BY <3>2, <3>3, <4>2 DEF r
      <4> QED BY <1>8, <3>6, <4>1, <4>2
    <3> QED BY <3>4, <3>5, <3>6
  <2>11. CASE cmd.verb = "DATA"
    <3>1. srv'.rcpts = srv.rcpts
      BY <1>6, <2>11
    <3>2. \A r \in srv.rcpts : 2 + r <= Answered'
      <4>1. \A r \in srv.rcpts : r \in Nat
        BY <2>2
      <4> QED BY ONLY <1>9, <1>10, <2>1, <4>1
    <3> QED BY <1>8, <2>1, <2>11, <3>1, <3>2
  <2> QED BY <2>8, <2>9, <2>10, <2>11
<1>16. ASSUME pc \in {"content", "bdat"}
       PROVE  /\ toServer' = <<>>
              /\ toClient' # <<>> /\ toClient'[1].code = "2xx" =>
                   IF pc = "bdat" /\ i < Chunks THEN Agrees(srv'.rcpts)
                   ELSE (\E q \in queued' : q.txn = n /\ Agrees(q.rcpts)) /\ srv' = Fresh
  <2>1. Sent = At
    BY <1>16 DEF Sent
  <2>2. Len(toServer) = 1 /\ Answered + 1 = At /\ toClient = <<>>
    BY ONLY <1>3, <1>10, <2>1
  <2>3. toServer' = <<>>
    <3>1. toServer' \in Seq(Commands) /\ Len(toServer') = 0
      BY <1>1, <1>3, <2>2 DEF WellTyped, TypeOK
    <3> QED BY ONLY <3>1
  <2>4. Agrees(srv.rcpts)
    BY <1>1, <1>16 DEF DeliveryInv, ServerInv
  <2>5. toClient'[1].code = "2xx" => v[1] = "2xx"
    <3>1. toClient'[1] = lines[1]
      BY <1>5, <1>7, <2>2
    <3> QED BY <1>5, <3>1
  <2>6. cmd.verb = (IF pc = "bdat" THEN "BDAT" ELSE "CONTENT") /\ (pc = "bdat" => cmd.arg = i)
        /\ cmd.txn = n
    <3>1. <<cmd.verb, cmd.txn, cmd.arg>> = Awaited
      BY <1>1, <1>2, <1>4, <2>2, PlaceTells
    <3> QED BY <1>16, <3>1 DEF Awaited
  <2>7. pc = "bdat" => i \in 1..Chunks
    BY DEF WellTyped, PlaceInv
  <2>8. ASSUME v[1] = "2xx"
        PROVE  IF pc = "bdat" /\ i < Chunks THEN Agrees(srv'.rcpts)
               ELSE (\E q \in queued' : q.txn = n /\ Agrees(q.rcpts)) /\ srv' = Fresh
    <3>1. CASE pc = "bdat" /\ i < Chunks
      BY <1>6, <1>12, <2>4, <2>6, <2>7, <2>8, <3>1
    <3>2. CASE ~(pc = "bdat" /\ i < Chunks)
      <4>1. srv' = Fresh /\ Delivers(cmd, v[1])
        BY <1>6, <1>12, <2>6, <2>7, <2>8, <3>2 DEF Delivers
      <4>2. [txn |-> n, rcpts |-> srv.rcpts] \in queued'
        BY <1>1, <2>6, <4>1
      <4> QED BY <2>4, <3>2, <4>1, <4>2
    <3> QED BY <3>1, <3>2
  <2> QED BY <2>3, <2>5, <2>8
<1>17. ServerInv'
  <2>1. pc' = pc /\ n' = n /\ i' = i /\ outcome' = outcome
    BY <1>9
  <2>2. \A S : Agrees(S) => \A r \in Recipients : /\ outcome'[r] = "accepted" => r \in S
                                                  /\ outcome'[r] = "rejected" => r \notin S
    BY <2>1 DEF Agrees
  <2> QED BY <1>13, <1>14, <1>15, <1>16, <2>1, <2>2 DEF ServerInv, Agrees, Delivered
<1> QED BY <1>17

\* It holds when the server answers.
LEMMA ServerKeeps ==
  ASSUME DeliveryInv, WellTyped, WellTyped', ServerReplies
  PROVE  DeliveryInv'
<1>1. /\ toServer # <<>> /\ toServer' = Tail(toServer) /\ UNCHANGED <<client, up>>
      /\ UNCHANGED <<setting, pc, n, i, outcome, aborted, claimed>> /\ queued \subseteq queued'
  BY DEF ServerReplies, client
<1>2. (Trusted => SuccessIsDelivery)'
  BY <1>1, SuccessKept DEF DeliveryInv, Trusted, Ordered
<1>3. ReadyInv'
  BY <1>1 DEF DeliveryInv, ReadyInv, Trusted, Ordered
<1>4. ResetInv'
  <2> SUFFICES ASSUME Ordered, Live, pc = "rset"
               PROVE  /\ \A k \in DOMAIN toServer' : toServer'[k] = Cmd("RSET", 0)
                      /\ \A k \in DOMAIN toClient' : toClient'[k].to = Cmd("RSET", 0)
    BY <1>1 DEF ResetInv, Ordered, Live, Cmd
  <2>1. /\ \A k \in DOMAIN toServer : toServer[k] = Cmd("RSET", 0)
        /\ \A k \in DOMAIN toClient : toClient[k].to = Cmd("RSET", 0)
    BY DEF DeliveryInv, ResetInv
  <2>2. PICK v \in Verdicts(toServer[1]) :
          /\ toServer[1] \in Commands /\ v[1] \in Codes
          /\ toClient' = toClient \o ReplyTo(v[1], toServer[1])
    BY ServerFacts DEF WellTyped
  <2> DEFINE lines == ReplyTo(v[1], toServer[1])
  <2>3. toClient' = toClient \o lines
    BY <2>2
  <2>4. /\ DOMAIN toServer' = 1..(Len(toServer) - 1) /\ Len(toServer) \in Nat \ {0}
        /\ DOMAIN toServer = 1..Len(toServer)
        /\ \A k \in 1..(Len(toServer) - 1) : toServer'[k] = toServer[k + 1]
    BY <1>1, TailFacts DEF WellTyped, TypeOK
  <2>5. \A k \in DOMAIN toServer' : toServer'[k] = Cmd("RSET", 0)
    <3>1. \A k \in DOMAIN toServer' : k + 1 \in DOMAIN toServer /\ toServer'[k] = toServer[k + 1]
      BY ONLY <2>4
    <3> QED BY <2>1, <3>1
  <2>6. toServer[1] = Cmd("RSET", 0)
    BY <2>1, <2>4
  <2>7. lines \in Seq(Lines) /\ Len(lines) = 1 /\ lines[1].to = Cmd("RSET", 0)
    BY <2>2, <2>6, ReplyFacts
  <2> HIDE DEF lines
  <2>8. toClient \in Seq(Lines)
    BY DEF WellTyped, TypeOK
  <2>9. \A k \in DOMAIN toClient' : toClient'[k].to = Cmd("RSET", 0)
    <3>1. /\ DOMAIN toClient' = 1..(Len(toClient) + 1) /\ toClient'[Len(toClient) + 1] = lines[1]
          /\ \A k \in 1..Len(toClient) : toClient'[k] = toClient[k]
          /\ Len(toClient) \in Nat /\ DOMAIN toClient = 1..Len(toClient)
      BY <2>3, <2>7, <2>8, CatOneFacts
    <3>2. \A k \in 1..(Len(toClient) + 1) : k \in 1..Len(toClient) \/ k = Len(toClient) + 1
      BY <3>1
    <3> QED BY <2>1, <2>7, <3>1, <3>2
  <2> QED BY <2>5, <2>9
<1>5. CASE ~Asking
  BY <1>1, <1>2, <1>3, <1>4, <1>5 DEF DeliveryInv, OwedInv, ServerInv, Asking, Live, Trusted, Ordered
<1>6. CASE Asking
  <2>1. pc \in Waiting \ {"rset"} /\ Owes /\ (InStep \/ Behind)
    BY <1>6 DEF DeliveryInv, OwedInv, Asking
  <2>2. Owes' /\ FirstOwed' = FirstOwed /\ At' = At
    BY <2>1, ServerOwes
  <2>3. InStep' = InStep /\ Behind' = Behind
    BY <1>1, <2>2 DEF InStep, Behind, Ordered
  <2>4. OwedInv'
    BY <2>1, <2>2, <2>3 DEF OwedInv
  <2>5. ServerInv'
    <3>1. CASE InStep
      BY <1>6, <3>1, ServerStep
    <3>2. CASE ~InStep
      BY <2>3, <3>2 DEF ServerInv
    <3> QED BY <3>1, <3>2
  <2> QED BY <1>2, <1>3, <1>4, <2>4, <2>5 DEF DeliveryInv
<1> QED BY <1>5, <1>6

\* It holds when a reply goes on: what is owed, and in which order, is the same.
LEMMA GoesOnKeeps ==
  ASSUME DeliveryInv, WellTyped, ReplyGoesOn
  PROVE  DeliveryInv'
<1> DEFINE len == Len(toClient)
<1>1. /\ toClient' \in Seq(Lines) /\ len \in Nat \ {0} /\ Len(toClient') = len + 1
      /\ DOMAIN toClient = 1..len /\ DOMAIN toClient' = 1..(len + 1)
      /\ toClient # <<>> /\ toClient' # <<>> /\ ~toClient[1].more /\ toClient'[1].more
      /\ toClient'[1].code = toClient[1].code /\ toClient'[1].to = toClient[1].to
      /\ \A k \in 1..len : toClient'[k + 1] = toClient[k]
      /\ pc \in Waiting
      /\ UNCHANGED <<setting, pc, n, i, outcome, aborted, claimed, up, toServer, srv, queued>>
  BY GoesOnFacts DEF WellTyped
<1>2. \A k \in 1..(len + 1) : k = 1 \/ (k - 1 \in 1..len /\ toClient'[k] = toClient[k - 1])
  <2> SUFFICES ASSUME NEW k \in 1..(len + 1), k # 1
               PROVE  k - 1 \in 1..len /\ toClient'[k] = toClient[k - 1]
    OBVIOUS
  <2>1. k - 1 \in 1..len /\ (k - 1) + 1 = k
    BY ONLY <1>1, k \in 1..(len + 1), k # 1
  <2> QED BY <1>1, <2>1
<1>3. \A k \in DOMAIN toClient' : \E j \in DOMAIN toClient :
        toClient'[k].to = toClient[j].to /\ toClient'[k].code = toClient[j].code
  <2> SUFFICES ASSUME NEW k \in 1..(len + 1)
               PROVE  \E j \in 1..len : toClient'[k].to = toClient[j].to
                                       /\ toClient'[k].code = toClient[j].code
    BY <1>1
  <2>1. 1 \in 1..len
    BY ONLY <1>1
  <2>2. CASE k = 1
    BY ONLY <1>1, <2>1, <2>2
  <2>3. CASE k # 1
    <3>1. k - 1 \in 1..len /\ toClient'[k] = toClient[k - 1]
      BY ONLY <1>2, <2>3, k \in 1..(len + 1)
    <3> QED BY ONLY <3>1
  <2> QED BY <2>2, <2>3
<1>4. (Trusted => SuccessIsDelivery)'
  BY <1>1, SuccessKept DEF DeliveryInv, Trusted, Ordered
<1>5. ReadyInv' /\ ResetInv'
  BY <1>1, <1>3 DEF DeliveryInv, ReadyInv, ResetInv, Trusted, Ordered, Live, Waiting, Cmd
<1>6. UNCHANGED <<At, Sent, Answered, FirstOwed, Live, Ordered, Trusted>>
  BY <1>1 DEF At, Sent, Answered, FirstOwed, Live, Ordered, Trusted
<1>7. OwedInv'
  <2> SUFFICES ASSUME Asking PROVE Owes' /\ (InStep \/ Behind)'
    BY <1>1, <1>6 DEF OwedInv, Asking
  <2>1. Owes /\ (InStep \/ Behind)
    BY DEF DeliveryInv, OwedInv
  <2>2. (InStep \/ Behind)' /\ OwesCommands'
    BY <1>1, <1>6, <2>1 DEF InStep, Behind, Owes, OwesCommands, Current
  <2>3. \A k \in DOMAIN toClient' : Current(toClient'[k].to) /\ PosOf(toClient'[k].to) <= Answered
    BY <1>3, <2>1 DEF Owes, OwesReplies
  <2>4. ASSUME NEW j \in DOMAIN toClient', NEW k \in DOMAIN toClient', j <= k
        PROVE  PosOf(toClient'[j].to) <= PosOf(toClient'[k].to)
    <3> DEFINE from(x) == IF x = 1 THEN 1 ELSE x - 1
    <3>1. \A x \in 1..(len + 1) : from(x) \in 1..len /\ toClient'[x].to = toClient[from(x)].to
      BY <1>1, <1>2
    <3>2. from(j) <= from(k)
      BY <1>1, <2>4
    <3>3. \A x, y \in 1..len : x <= y => PosOf(toClient[x].to) <= PosOf(toClient[y].to)
      BY <1>1, <2>1 DEF Owes, OwesReplies
    <3> HIDE DEF from
    <3>4. j \in 1..(len + 1) /\ k \in 1..(len + 1)
      BY <1>1, <2>4
    <3> QED BY <3>1, <3>2, <3>3, <3>4
  <2>5. ASSUME NEW k \in DOMAIN toClient', k + 1 \in DOMAIN toClient', ~toClient'[k].more
        PROVE  PosOf(toClient'[k + 1].to) = PosOf(toClient'[k].to) + 1
    <3>1. k # 1 /\ k \in 1..(len + 1) /\ k + 1 \in 1..(len + 1)
      BY <1>1, <2>5
    <3>2. k - 1 \in 1..len /\ k \in 1..len /\ (k - 1) + 1 = k
      BY ONLY <1>1, <3>1
    <3>3. toClient'[k] = toClient[k - 1] /\ toClient'[k + 1] = toClient[k]
      BY <1>1, <1>2, <3>1, <3>2
    <3>4. \A x \in DOMAIN toClient : x + 1 \in DOMAIN toClient /\ ~toClient[x].more
            => PosOf(toClient[x + 1].to) = PosOf(toClient[x].to) + 1
      BY <2>1 DEF Owes, OwesReplies
    <3> QED BY <1>1, <2>5, <3>2, <3>3, <3>4
  <2>6. PosOf(toClient'[Len(toClient')].to) = Answered
    <3>1. toClient'[len + 1] = toClient[len]
      BY <1>1
    <3> QED BY <1>1, <2>1, <3>1 DEF Owes, OwesReplies
  <2>7. \A k \in DOMAIN toClient' : Current(toClient[k].to)'
    BY <1>1, <2>3 DEF Current
  <2> QED BY <1>6, <2>2, <2>3, <2>4, <2>5, <2>6, <2>7 DEF Owes, OwesReplies
<1>8. ServerInv'
  <2> SUFFICES ASSUME Asking, InStep PROVE ServerInv'
    BY <1>1, <1>6 DEF ServerInv, Asking, InStep
  <2>1. ServerInv
    BY DEF DeliveryInv
  <2>2. \A S : Agrees(S) => \A r \in Recipients : /\ outcome'[r] = "accepted" => r \in S
                                                  /\ outcome'[r] = "rejected" => r \notin S
    BY <1>1 DEF Agrees
  <2>3. ASSUME NEW k \in DOMAIN toClient', toClient'[k].to.verb = "RCPT",
               \A j \in DOMAIN toClient : toClient[j].to.verb = "RCPT" =>
                 /\ toClient[j].code = "2xx" => toClient[j].to.arg \in srv.rcpts
                 /\ toClient[j].code = "5xx" => toClient[j].to.arg \notin srv.rcpts
        PROVE  /\ toClient'[k].code = "2xx" => toClient'[k].to.arg \in srv.rcpts
               /\ toClient'[k].code = "5xx" => toClient'[k].to.arg \notin srv.rcpts
    <3>1. PICK j \in DOMAIN toClient :
            toClient'[k].to = toClient[j].to /\ toClient'[k].code = toClient[j].code
      BY <1>3
    <3> QED BY <2>3, <3>1
  <2>4. Agrees(srv.rcpts)' <=> Agrees(srv.rcpts)
    BY <1>1 DEF Agrees
  <2>5. Delivered' <=> Delivered
    BY <1>1 DEF Delivered, Agrees
  <2>6. toClient # <<>> /\ toClient' # <<>> /\ toClient'[1].code = toClient[1].code
        /\ UNCHANGED <<setting, pc, i, outcome, toServer, srv, Answered>>
    BY <1>1, <1>6
  <2>7. /\ (Answered < 2 => srv = Fresh)'
        /\ (pc = "rcpt" => \A r \in i..Rcpts : outcome[r] = "none")'
    BY <2>1, <2>6 DEF ServerInv
  <2>8. ASSUME pc \in {"mail", "rcpt", "data"}
        PROVE  /\ (\A r \in srv.rcpts : 2 + r <= Answered)'
               /\ Agrees(srv.rcpts)'
               /\ (\A k \in DOMAIN toClient : toClient[k].to.verb = "RCPT" =>
                     /\ toClient[k].code = "2xx" => toClient[k].to.arg \in srv.rcpts
                     /\ toClient[k].code = "5xx" => toClient[k].to.arg \notin srv.rcpts)'
    <3>1. /\ \A r \in srv.rcpts : 2 + r <= Answered
          /\ Agrees(srv.rcpts)
          /\ \A k \in DOMAIN toClient : toClient[k].to.verb = "RCPT" =>
               /\ toClient[k].code = "2xx" => toClient[k].to.arg \in srv.rcpts
               /\ toClient[k].code = "5xx" => toClient[k].to.arg \notin srv.rcpts
      BY <2>1, <2>8 DEF ServerInv
    <3>2. (\A r \in srv.rcpts : 2 + r <= Answered)' /\ Agrees(srv.rcpts)'
      BY <2>4, <2>6, <3>1
    <3> QED BY <2>3, <2>6, <3>1, <3>2
  <2>9. ASSUME pc \in {"content", "bdat"}
        PROVE  /\ (toServer # <<>> => Agrees(srv.rcpts))'
               /\ (toClient # <<>> /\ toClient[1].code = "2xx" =>
                    IF pc = "bdat" /\ i < Chunks THEN Agrees(srv.rcpts) ELSE Delivered /\ srv = Fresh)'
    <3>1. /\ toServer # <<>> => Agrees(srv.rcpts)
          /\ toClient # <<>> /\ toClient[1].code = "2xx" =>
               IF pc = "bdat" /\ i < Chunks THEN Agrees(srv.rcpts) ELSE Delivered /\ srv = Fresh
      BY <2>1, <2>9 DEF ServerInv
    <3> QED BY <2>4, <2>5, <2>6, <3>1
  <2> QED BY <2>6, <2>7, <2>8, <2>9 DEF ServerInv
<1> QED BY <1>4, <1>5, <1>7, <1>8 DEF DeliveryInv
-----------------------------------------------------------------------------
(* What the runs check, for every value of the constants *)

\* It holds when the caller's signal fires, and when the connection fails.
LEMMA SilenceKeeps ==
  ASSUME DeliveryInv, Abort \/ Drop
  PROVE  DeliveryInv'
<1>1. /\ ~Live' /\ UNCHANGED <<setting, pc, n, i, outcome, claimed, toServer, toClient, srv, queued>>
  BY DEF Abort, Drop, client, Live
<1>2. (Trusted => SuccessIsDelivery)'
  BY <1>1, SuccessKept DEF DeliveryInv, Trusted, Ordered
<1> QED BY <1>1, <1>2 DEF DeliveryInv, OwedInv, ReadyInv, ResetInv, ServerInv, Asking, Trusted, Ordered

\* The account of what is owed, and of what the server was told, always holds.
LEMMA DeliveryInvariant == Spec => [](WellTyped /\ DeliveryInv)
<1>1. Init => DeliveryInv
  <2> SUFFICES ASSUME Init PROVE DeliveryInv
    OBVIOUS
  <2>1. pc = "ready" /\ claimed = <<>> /\ toServer = <<>> /\ toClient = <<>> /\ srv = Fresh
    BY DEF Init
  <2>2. DOMAIN claimed = {}
    BY <2>1
  <2> QED BY <2>1, <2>2 DEF DeliveryInv, OwedInv, ReadyInv, ResetInv, ServerInv, Asking, Waiting,
          SuccessIsDelivery
<1>2. WellTyped /\ WellTyped' /\ DeliveryInv /\ [Next]_vars => DeliveryInv'
  <2> SUFFICES ASSUME WellTyped, WellTyped', DeliveryInv, [Next]_vars PROVE DeliveryInv'
    OBVIOUS
  <2>1. CASE Begin
    BY <2>1, BeginKeeps
  <2>2. CASE Start
    BY <2>2, StartKeeps
  <2>3. CASE ReadLine
    BY <2>3, MoreKeeps, ReplyKeeps
  <2>4. CASE ReadMalformed
    BY <2>4, MalformedKeeps
  <2>5. CASE ReadFails
    BY <2>5, FailKeeps
  <2>6. CASE Abort \/ Drop
    BY <2>6, SilenceKeeps
  <2>7. CASE ServerReplies
    BY <2>7, ServerKeeps
  <2>8. CASE UNCHANGED vars
    <3>1. UNCHANGED <<setting, pc, n, i, outcome, aborted, claimed, up, toServer, toClient, srv, queued>>
      BY <2>8 DEF vars, client
    <3>2. UNCHANGED <<At, Sent, Answered, FirstOwed, Live, Ordered, Trusted>>
      BY <3>1 DEF At, Sent, Answered, FirstOwed, Live, Ordered, Trusted
    <3> QED BY <3>1, <3>2 DEF DeliveryInv, OwedInv, ReadyInv, ResetInv, ServerInv, Asking, Owes,
            OwesCommands, OwesReplies, InStep, Behind, Current, Agrees, Delivered, Cmd,
            SuccessIsDelivery, Having
  <2>9. CASE ReplyGoesOn
    BY <2>9, GoesOnKeeps
  <2> QED BY <2>1, <2>2, <2>3, <2>4, <2>5, <2>6, <2>7, <2>8, <2>9 DEF Next, ClientStep, Terminated
<1> QED BY <1>1, <1>2, TypesInvariant, PTL DEF Spec

\* Every variable has its type.
THEOREM TypeCorrect == Spec => []TypeOK
<1>1. WellTyped => TypeOK
  BY DEF WellTyped
<1> QED BY <1>1, TypesInvariant, PTL

\* A message reported sent was taken over by the server for every recipient
\* reported accepted and none reported rejected, where the verdict can be relied
\* on: the message goes with DATA, or no reply is late and no line malformed.
THEOREM SentIsDelivered == Spec => []SuccessIsDeliveryIfTrusted
<1>1. DeliveryInv => SuccessIsDeliveryIfTrusted
  BY DEF DeliveryInv, SuccessIsDeliveryIfTrusted
<1> QED BY <1>1, DeliveryInvariant, PTL

\* Under the same condition a session the pool takes back owes and is owed nothing.
THEOREM ReleasedClean == Spec => []CleanReleaseIfTrusted
<1>1. DeliveryInv => CleanReleaseIfTrusted
  BY DEF DeliveryInv, ReadyInv, CleanRelease, CleanReleaseIfTrusted
<1> QED BY <1>1, DeliveryInvariant, PTL

\* Unless a malformed line leaves the rest of its reply unread, or a reply is late,
\* the first line the client can read answers the command it waits on, however
\* many lines each reply has.
THEOREM RepliesMatch == Spec => []RepliesInStep
<1>1. WellTyped /\ DeliveryInv => RepliesInStep
  <2> SUFFICES ASSUME WellTyped, DeliveryInv, Ordered, LineReadable
               PROVE  <<Line.to.verb, Line.to.txn, Line.to.arg>> = Awaited
    BY DEF RepliesInStep
  <2>1. Live /\ pc \in Waiting /\ toClient # <<>> /\ Trusted
    BY DEF LineReadable, Live, Trusted
  <2>2. CASE pc = "rset"
    <3>1. toClient \in Seq(Lines)
      BY DEF WellTyped, TypeOK
    <3>2. Line = toClient[1] /\ 1 \in DOMAIN toClient
      BY <2>1, <3>1 DEF Line
    <3>3. Line.to = Cmd("RSET", 0)
      BY <2>1, <2>2, <3>2 DEF DeliveryInv, ResetInv
    <3> QED BY <2>2, <3>3 DEF Awaited, Cmd
  <2>3. CASE pc # "rset"
    <3>1. Owes /\ InStep
      BY <2>1, <2>3 DEF DeliveryInv, OwedInv, Asking, Behind
    <3>2. Line.to \in Commands /\ Current(Line.to) /\ PosOf(Line.to) = At
      BY <2>1, <3>1, FirstLine DEF InStep
    <3> QED BY <2>1, <2>3, <3>2, PlaceTells
  <2> QED BY <2>2, <2>3
<1> QED BY <1>1, DeliveryInvariant, PTL

\* Once the signal has fired nothing more is written for the message and no
\* success is reported, whatever is under way.
THEOREM AbortIsFinal == Spec => AbortStops
<1>1. TypeOK /\ [Next]_vars => (aborted /\ aborted' => Len(toServer') <= Len(toServer) /\ claimed' = claimed)
  <2> SUFFICES ASSUME TypeOK, [Next]_vars, aborted, aborted'
               PROVE  Len(toServer') <= Len(toServer) /\ claimed' = claimed
    OBVIOUS
  <2>1. Len(toServer) \in Nat
    BY DEF TypeOK
  <2>2. CASE Start
    BY <2>1, <2>2 DEF Start, SendEnvelope, Ask, Fail
  <2>3. CASE ReadFails
    BY <2>1, <2>3 DEF ReadFails, OnError, Fail, Ask, NextRecipient, EnvelopeSent, SendMessage,
       BestEffortReset
  <2>4. CASE ServerReplies
    <3>1. Len(Tail(toServer)) = Len(toServer) - 1
      BY <2>4, TailFacts DEF TypeOK, ServerReplies
    <3> QED BY <2>1, <2>4, <3>1 DEF ServerReplies, client
  <2>5. CASE Abort \/ Drop \/ UNCHANGED vars
    BY <2>1, <2>5 DEF Abort, Drop, vars, client
  <2>6. ~Begin /\ ~ReadLine /\ ~ReadMalformed
    BY DEF Begin, ReadLine, ReadMalformed, LineReadable
  <2>7. CASE ReplyGoesOn
    BY <2>1, <2>7 DEF ReplyGoesOn, client
  <2> QED BY <2>2, <2>3, <2>4, <2>5, <2>6, <2>7 DEF Next, ClientStep, Terminated
<1> QED BY <1>1, TypeCorrect, PTL DEF Spec, AbortStops

\* What is required of the recipients is known when the message is sent.
LEMMA RequiredMoves ==
  ASSUME WellTyped, RequiredInv, Live, pc = "rcpt", setting.requireAll, NEW o \in Outcomes,
         ~setting.pipelining \/ ~(setting.late \/ setting.garbled),
         outcome' = [outcome EXCEPT ![i] = o],
         IF setting.pipelining THEN NextPipelined(outcome') ELSE NextRecipient(outcome')
  PROVE  /\ ~setting.pipelining /\ pc' = "rcpt" => \A r \in 1..(i' - 1) : outcome'[r] = "accepted"
         /\ pc' \in {"data", "content", "bdat"} => \A r \in Recipients : outcome'[r] = "accepted"
<1>1. /\ outcome \in [Recipients -> Outcomes] /\ i \in Recipients /\ Recipients = 1..Rcpts /\ Rcpts \in Nat
  BY TransactionAssumption DEF WellTyped, TypeOK, PlaceInv, Recipients
<1>2. CASE setting.pipelining
  BY <1>1, <1>2 DEF NextPipelined, Ask, Fail, BestEffortReset
<1>3. CASE ~setting.pipelining
  <2>1. \A r \in 1..(i - 1) : outcome[r] = "accepted"
    BY <1>3 DEF RequiredInv
  <2>2. CASE outcome'[i] # "accepted"
    BY <1>3, <2>2 DEF NextRecipient, BestEffortReset, Ask
  <2>3. CASE outcome'[i] = "accepted"
    <3>1. \A r \in 1..i : outcome'[r] = "accepted"
      BY ONLY <1>1, <2>1, <2>3, outcome' = [outcome EXCEPT ![i] = o]
    <3>2. CASE i < Rcpts
      BY <1>1, <1>3, <2>3, <3>1, <3>2 DEF NextRecipient, Ask
    <3>3. CASE i = Rcpts
      BY <1>1, <1>3, <2>3, <3>1, <3>3 DEF NextRecipient, EnvelopeSent, SendMessage, BestEffortReset, Ask
    <3> QED BY <1>1, <3>2, <3>3
  <2> QED BY <2>2, <2>3
<1> QED BY <1>2, <1>3

\* A required recipient that was not accepted keeps the message from being sent.
LEMMA RequiredKept ==
  ASSUME WellTyped, RequiredInv, [Next]_vars
  PROVE  RequiredInv'
<1> SUFFICES ASSUME setting'.requireAll, Live',
                    (~setting.pipelining \/ ~(setting.late \/ setting.garbled))'
             PROVE  /\ ~setting'.pipelining /\ pc' = "rcpt" => \A r \in 1..(i' - 1) : outcome'[r] = "accepted"
                    /\ pc' \in {"data", "content", "bdat"}
                         => \A r \in Recipients : outcome'[r] = "accepted"
  BY DEF RequiredInv, Having
<1>1. CASE Begin \/ Start
  <2>1. pc' \in {"start", "noop", "mail", "gone"}
    BY <1>1 DEF Begin, Start, SendEnvelope, Ask, Fail
  <2> QED BY <2>1
<1>2. CASE UNCHANGED <<setting, pc, i, outcome, up, aborted>>
  BY <1>2 DEF RequiredInv, Having, Live
<1>3. CASE ReadLine /\ ~Line.more
  <2>1. /\ Live /\ UNCHANGED <<setting, n>> /\ OnReply(Line.code) /\ Line.code \in Codes
    BY <1>3, LinesLeft DEF ReadLine, LineReadable, Live, WellFormed, Lines, WellTyped
  <2>2. CASE pc = "rcpt"
    <3> DEFINE o == IF Line.code = "2xx" THEN "accepted" ELSE "rejected"
    <3>1. /\ o \in Outcomes /\ outcome' = [outcome EXCEPT ![i] = o]
          /\ IF setting.pipelining THEN NextPipelined(outcome') ELSE NextRecipient(outcome')
      BY <2>1, <2>2 DEF OnReply, IsSuccess, Outcomes
    <3> QED BY <2>1, <2>2, <3>1, RequiredMoves
  <2>3. CASE pc \in {"data", "bdat"}
    <3>1. outcome' = outcome /\ pc' \in {"content", "bdat", "ready", "gone"}
      BY <2>1, <2>3 DEF OnReply, Ask, Fail, Succeed
    <3> QED BY <2>1, <2>3, <3>1 DEF RequiredInv, Having
  <2>4. CASE pc = "mail"
    <3>1. pc' = "gone" \/ (pc' = "rcpt" /\ i' = 1)
      BY <2>1, <2>4 DEF OnReply, Ask, Fail
    <3> QED BY <3>1
  <2>5. CASE pc \in {"noop", "rset", "content"}
    BY <2>1, <2>5 DEF OnReply, Fail, Succeed
  <2> QED BY <1>3, <2>2, <2>3, <2>4, <2>5 DEF ReadLine, LineReadable, Waiting
<1>4. CASE ReadMalformed \/ ReadFails
  <2>1. Live /\ UNCHANGED <<setting, n>> /\ OnError
    <3>1. UNCHANGED <<setting, n, aborted, up>> /\ OnError
      BY <1>4 DEF ReadMalformed, ReadFails
    <3> QED BY <3>1 DEF Live
  <2>2. ~setting.pipelining
    <3>1. ReadMalformed => setting.garbled
      BY MalformedIsGarbled DEF WellTyped
    <3>2. ReadFails => setting.late
      BY <2>1 DEF ReadFails, Live
    <3> QED BY <1>4, <2>1, <3>1, <3>2
  <2>3. CASE pc = "rcpt"
    <3>1. /\ outcome' = [outcome EXCEPT ![i] = "error"] /\ "error" \in Outcomes
          /\ IF setting.pipelining THEN NextPipelined(outcome') ELSE NextRecipient(outcome')
      BY <2>1, <2>2, <2>3 DEF OnError, Outcomes
    <3> QED BY <2>1, <2>2, <2>3, <3>1, RequiredMoves
  <2>4. CASE pc # "rcpt"
    BY <2>1, <2>4 DEF OnError, Fail
  <2> QED BY <2>3, <2>4
<1>5. CASE ReadLine /\ Line.more
  BY <1>2, <1>5 DEF ReadLine
<1>6. CASE ServerReplies \/ ReplyGoesOn \/ Terminated \/ UNCHANGED vars
  BY <1>2, <1>6 DEF ServerReplies, ReplyGoesOn, Terminated, vars, client
<1>7. ~Abort /\ ~Drop
  BY DEF Abort, Drop, Live
<1> QED BY <1>1, <1>3, <1>4, <1>5, <1>6, <1>7 DEF Next, ClientStep

\* A caller that requires every recipient is told of success only when all were
\* accepted: one recipient at a time whatever goes wrong, and of pipelined ones
\* when every reply arrives in time and well-formed.
THEOREM RequiredMeansAll == Spec => []RequireAllUnlessLost
<1>1. Init => RequiredInv /\ RequireAllUnlessLost
  <2> SUFFICES ASSUME Init PROVE RequiredInv /\ RequireAllUnlessLost
    OBVIOUS
  <2>1. pc = "ready" /\ DOMAIN claimed = {}
    BY DEF Init
  <2> QED BY <2>1 DEF RequiredInv, RequireAllUnlessLost, RequireAllHonoured
<1>2. WellTyped /\ RequiredInv /\ [Next]_vars => RequiredInv'
  BY RequiredKept
<1>3. WellTyped /\ RequiredInv /\ RequireAllUnlessLost /\ [Next]_vars => RequireAllUnlessLost'
  <2> SUFFICES ASSUME WellTyped, RequiredInv, RequireAllUnlessLost, [Next]_vars,
                      (~setting.pipelining \/ ~(setting.late \/ setting.garbled))', setting'.requireAll
               PROVE  \A k \in DOMAIN claimed' : \A r \in Recipients : claimed'[k].outcome[r] = "accepted"
    BY DEF RequireAllUnlessLost, RequireAllHonoured, Having
  <2>1. setting' = setting
    BY DEF Next, ClientStep, Begin, Start, ReadLine, ReadMalformed, ReadFails, Abort, Drop, ServerReplies,
       ReplyGoesOn, Terminated, vars, client
  <2>2. \A k \in DOMAIN claimed : \A r \in Recipients : claimed[k].outcome[r] = "accepted"
    BY <2>1 DEF RequireAllUnlessLost, RequireAllHonoured, Having
  <2>3. claimed' = claimed \/ (Live /\ Succeed /\ pc \in {"content", "bdat"})
    <3>1. CASE ReadLine /\ ~Line.more
      <4>1. OnReply(Line.code) /\ Live
        BY <3>1 DEF ReadLine, LineReadable, Live
      <4>2. claimed' = claimed \/ pc \in {"content", "bdat"}
        BY <4>1 DEF OnReply, Fail, Ask, NextPipelined, NextRecipient, EnvelopeSent, SendMessage,
           BestEffortReset
      <4> QED BY <4>1, <4>2, ReplyClaims
    <3>2. CASE ReadLine /\ Line.more
      BY <3>2 DEF ReadLine
    <3>3. CASE ReadMalformed \/ ReadFails
      BY <3>3, ErrorClaims DEF ReadMalformed, ReadFails
    <3>4. CASE \/ Begin \/ Start \/ Abort \/ Drop \/ ServerReplies \/ ReplyGoesOn \/ Terminated
               \/ UNCHANGED vars
      BY <3>4 DEF Begin, Start, SendEnvelope, Ask, Fail, Abort, Drop, ServerReplies, ReplyGoesOn,
         Terminated, vars, client
    <3> QED BY <3>1, <3>2, <3>3, <3>4 DEF Next, ClientStep
  <2>4. CASE claimed' = claimed
    BY <2>2, <2>4
  <2>5. CASE Live /\ Succeed /\ pc \in {"content", "bdat"}
    <3> DEFINE result == [txn |-> n, outcome |-> outcome]
    <3> DEFINE Results == [txn : 0..MaxTxn, outcome : [Recipients -> Outcomes]]
    <3>1. claimed \in Seq(Results) /\ result \in Results /\ claimed' = Append(claimed, result)
      BY <2>5 DEF WellTyped, TypeOK, Succeed
    <3>2. \A r \in Recipients : result.outcome[r] = "accepted"
      BY <2>1, <2>5 DEF RequiredInv, Having
    <3> HIDE DEF result, Results
    <3>3. /\ \A k \in 1..Len(claimed) : claimed'[k] = claimed[k]
          /\ claimed'[Len(claimed) + 1] = result /\ DOMAIN claimed' = 1..(Len(claimed) + 1)
          /\ Len(claimed) \in Nat /\ DOMAIN claimed = 1..Len(claimed)
      BY <3>1, AppendFacts
    <3>4. \A k \in DOMAIN claimed' : k \in DOMAIN claimed \/ k = Len(claimed) + 1
      BY ONLY <3>3
    <3> QED BY ONLY <2>2, <3>2, <3>3, <3>4
  <2> QED BY <2>3, <2>4, <2>5
<1> QED BY <1>1, <1>2, <1>3, TypesInvariant, PTL DEF Spec
=============================================================================
