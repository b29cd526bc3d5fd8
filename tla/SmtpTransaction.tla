-------------------------- MODULE SmtpTransaction --------------------------
(***************************************************************************)
(* Consecutive mail transactions on one pooled SMTP session, against a     *)
(* server that answers every command in order (internal/smtp/session.ts,   *)
(* the reading side of connection.ts, and the verdict pool.ts draws from   *)
(* the outcome: release or destroy).                                       *)
(*                                                                         *)
(* Commands and reply lines travel through two FIFO channels.  A read that *)
(* times out, is aborted or meets a malformed line leaves the connection   *)
(* usable, and the lines it left unread are what the next read gets.  A    *)
(* reply has any number of lines, without end if the server so wishes.     *)
(* Every line carries, for the properties only, the command it answers.    *)
(***************************************************************************)
EXTENDS Naturals, FiniteSets, SequencesExt

CONSTANTS Rcpts,      \* how many recipients each message has
          Chunks,     \* how many BDAT chunks it makes, 1 when sent whole
          Settings,   \* the settings considered, one of which is in force
          MaxTxn      \* bound: transactions tried on this session

ASSUME TransactionAssumption ==
  /\ Rcpts \in Nat \ {0} /\ Chunks \in Nat \ {0} /\ MaxTxn \in Nat
  /\ Settings \subseteq [transfer : {"data", "bdat"}, pipelining : BOOLEAN,
                          requireAll : BOOLEAN, late : BOOLEAN, garbled : BOOLEAN]

VARIABLES setting,  \* how the message is sent, whether the server advertises
                    \* PIPELINING, options.requireAllRecipients, and whether a reply
                    \* may come after the read timeout or have a malformed line
          pc,       \* the reply the client awaits; "ready" in the pool, "gone" destroyed
          n,        \* number of the current transaction
          i,        \* recipient, or chunk, whose reply is awaited
          outcome,  \* the current transaction's recipient outcomes
          mailOk,   \* the MAIL FROM reply was a success
          got,      \* code of the reply lines read so far, or "none"
          aborted,  \* the caller's signal has fired
          up,       \* the connection has not failed
          claimed,  \* the results of the transactions reported successful
          toServer, toClient, \* commands and reply lines under way
          srv,      \* the server's transaction: phase and accepted recipients
          queued    \* the messages the server took responsibility for

client == <<setting, pc, n, i, outcome, mailOk, got, aborted, claimed>>
vars == <<client, up, toServer, toClient, srv, queued>>

Recipients == 1..Rcpts
Waiting == {"noop", "mail", "rcpt", "rset", "data", "content", "bdat"}
Verbs == {"NOOP", "MAIL", "RCPT", "RSET", "DATA", "CONTENT", "BDAT"}
Codes == {"2xx", "3xx", "5xx"}
Outcomes == {"none", "accepted", "rejected", "error"}

Cmd(verb, k) == [verb |-> verb, txn |-> n, arg |-> k]
Commands == [verb : Verbs, txn : 0..MaxTxn, arg : 0..(Rcpts + Chunks)]
Lines == [code : Codes, more : BOOLEAN, to : Commands]

NoOutcome == [r \in Recipients |-> "none"]
Fresh == [phase |-> "idle", rcpts |-> {}]

Init ==
  /\ setting \in Settings
  /\ pc = "ready" /\ n = 0 /\ i = 0 /\ got = "none"
  /\ outcome = NoOutcome /\ mailOk = FALSE
  /\ aborted = FALSE /\ up = TRUE /\ claimed = <<>>
  /\ toServer = <<>> /\ toClient = <<>>
  /\ srv = Fresh /\ queued = {}
-----------------------------------------------------------------------------
(* What the client does between two awaits *)

\* Fault: a command is written though the signal has fired.
AskAfterAbort(phase, k, cmds) ==
  /\ pc' = phase /\ i' = k /\ got' = "none"
  /\ toServer' = IF ~up THEN toServer ELSE toServer \o cmds
  /\ UNCHANGED claimed

\* Write the commands and await a reply.  A write is refused when the signal
\* has fired or the connection has failed; the wait then fails as well.
Ask(phase, k, cmds) ==
  /\ pc' = phase /\ i' = k /\ got' = "none"
  /\ toServer' = IF aborted \/ ~up THEN toServer ELSE toServer \o cmds
  /\ UNCHANGED claimed

\* The transaction throws: the pool destroys the session.
Fail ==
  /\ pc' = "gone" /\ i' = 0 /\ got' = "none"
  /\ UNCHANGED <<toServer, claimed>>

\* The transaction resolves: the pool takes the session back.
Succeed ==
  /\ pc' = "ready" /\ i' = 0 /\ got' = "none"
  /\ claimed' = Append(claimed, [txn |-> n, outcome |-> outcome])
  /\ UNCHANGED toServer

\* bestEffortReset() before the transaction throws.
BestEffortReset == Ask("rset", 0, <<Cmd("RSET", 0)>>)

SendMessage ==
  IF setting.transfer = "data" THEN Ask("data", 0, <<Cmd("DATA", 0)>>)
                       ELSE Ask("bdat", 1, <<Cmd("BDAT", 1)>>)

\* runTransaction() once sendEnvelope() has returned the outcomes `out`.
EnvelopeSent(out) ==
  IF \E r \in Recipients : out[r] = "accepted" THEN SendMessage ELSE BestEffortReset

\* Fault: one recipient too many is sent.
NextRecipientTooFar(out) ==
  IF i <= Rcpts THEN Ask("rcpt", i + 1, <<Cmd("RCPT", i + 1)>>)
  ELSE EnvelopeSent(out)

\* sendEnvelopeSequential() after the outcome of recipient i is known.
NextRecipient(out) ==
  IF setting.requireAll /\ out[i] # "accepted" THEN BestEffortReset
  ELSE IF i < Rcpts THEN Ask("rcpt", i + 1, <<Cmd("RCPT", i + 1)>>)
  ELSE EnvelopeSent(out)

\* Faults: a rejection ends the reading of the pipelined replies; the required
\* recipients are not checked.
NextPipelinedStopsEarly(out) ==
  IF i < Rcpts /\ out[i] = "accepted" THEN Ask("rcpt", i + 1, <<>>)
  ELSE IF ~mailOk THEN Fail
  ELSE IF setting.requireAll /\ \E r \in Recipients : out[r] # "accepted" THEN BestEffortReset
  ELSE EnvelopeSent(out)
NextPipelinedIgnoresRequireAll(out) ==
  IF i < Rcpts THEN Ask("rcpt", i + 1, <<>>)
  ELSE IF ~mailOk THEN Fail
  ELSE EnvelopeSent(out)

\* sendEnvelopePipelined() after the reply for recipient i was read.
NextPipelined(out) ==
  IF i < Rcpts THEN Ask("rcpt", i + 1, <<>>)
  ELSE IF ~mailOk THEN Fail
  ELSE IF setting.requireAll /\ \E r \in Recipients : out[r] # "accepted" THEN BestEffortReset
  ELSE EnvelopeSent(out)

\* sendEnvelope(): MAIL FROM alone, or with every RCPT TO in the same write.
SendEnvelope ==
  Ask("mail", 0, IF setting.pipelining
                  THEN <<Cmd("MAIL", 0)>> \o [r \in Recipients |-> Cmd("RCPT", r)]
                  ELSE <<Cmd("MAIL", 0)>>)

\* The caller's next message takes the session: at once when it is new, after
\* the pool's NOOP otherwise.
Begin ==
  /\ pc = "ready" /\ n < MaxTxn
  /\ n' = n + 1 /\ outcome' = NoOutcome /\ mailOk' = FALSE /\ aborted' = FALSE
  /\ pc' = IF n = 0 THEN "start" ELSE "noop"
  /\ i' = 0 /\ got' = "none"
  /\ toServer' = IF n > 0 /\ up THEN Append(toServer, [verb |-> "NOOP", txn |-> n + 1, arg |-> 0])
                 ELSE toServer
  /\ UNCHANGED <<setting, claimed, up, toClient, srv, queued>>

\* runTransaction() begins; an envelope that cannot be encoded throws here.
Start ==
  /\ pc = "start"
  /\ SendEnvelope \/ Fail
  /\ UNCHANGED <<setting, n, outcome, mailOk, aborted, up, toClient, srv, queued>>
-----------------------------------------------------------------------------
(* Replies and failures *)

\* Fault: any completed reply counts as a success.
AnyReplySucceeds(code) == TRUE

\* isSuccess(): the reply has a 2xx code.
IsSuccess(code) == code = "2xx"

\* What the client does with a complete reply, by what it was waiting for.
OnReply(code) ==
  LET ok == IsSuccess(code)
      out == [outcome EXCEPT ![i] = IF ok THEN "accepted" ELSE "rejected"]
  IN
  \/ /\ pc = "noop"
     /\ IF ok THEN pc' = "start" /\ i' = 0 /\ got' = "none" /\ UNCHANGED <<toServer, claimed>>
              ELSE Fail
     /\ UNCHANGED <<outcome, mailOk>>
  \/ /\ pc = "mail"
     /\ mailOk' = ok
     /\ IF setting.pipelining THEN Ask("rcpt", 1, <<>>)
        ELSE IF ok THEN Ask("rcpt", 1, <<Cmd("RCPT", 1)>>)
        ELSE Fail
     /\ UNCHANGED outcome
  \/ /\ pc = "rcpt"
     /\ outcome' = out
     /\ IF setting.pipelining THEN NextPipelined(out) ELSE NextRecipient(out)
     /\ UNCHANGED mailOk
  \/ /\ pc = "rset"
     /\ Fail
     /\ UNCHANGED <<outcome, mailOk>>
  \/ /\ pc = "data"
     /\ \/ code = "3xx" /\ Ask("content", 0, <<Cmd("CONTENT", 0)>>)
        \/ Fail  \* not a 3xx, or the message source throws halfway
     /\ UNCHANGED <<outcome, mailOk>>
  \/ /\ pc = "content"
     /\ IF ok THEN Succeed ELSE Fail
     /\ UNCHANGED <<outcome, mailOk>>
  \/ /\ pc = "bdat"
     /\ \/ ok /\ i = Chunks /\ Succeed
        \/ ok /\ i < Chunks /\ Ask("bdat", i + 1, <<Cmd("BDAT", i + 1)>>)
        \/ ~(ok /\ i = Chunks) /\ Fail  \* rejected, or the source throws
     /\ UNCHANGED <<outcome, mailOk>>

\* What it does when the read, or the write before it, fails: only RCPT TO
\* goes on, with the failure as the recipient's outcome.
OnError ==
  LET out == [outcome EXCEPT ![i] = "error"] IN
  /\ IF pc = "rcpt"
     THEN /\ outcome' = out
          /\ IF setting.pipelining THEN EnvelopeSent(out) ELSE NextRecipient(out)
     ELSE Fail /\ UNCHANGED outcome
  /\ UNCHANGED mailOk

Line == Head(toClient)
LineReadable == pc \in Waiting /\ up /\ ~aborted /\ toClient # <<>>
WellFormed == got \in {"none", Line.code}

\* Fault: the reply is taken to end with its first line.
ReadFirstLine ==
  /\ LineReadable /\ WellFormed
  /\ toClient' = Tail(toClient)
  /\ OnReply(Line.code)
  /\ UNCHANGED <<setting, n, aborted, up, srv, queued>>

ReadLine ==
  /\ LineReadable /\ WellFormed
  /\ toClient' = Tail(toClient)
  /\ IF Line.more
     THEN got' = Line.code /\ UNCHANGED <<pc, i, outcome, mailOk, toServer, claimed>>
     ELSE OnReply(Line.code)
  /\ UNCHANGED <<setting, n, aborted, up, srv, queued>>

\* The reply is given up at its first malformed line: one that is too short, has
\* no code, or has another than the lines before it.  Those after it stay unread.
ReadMalformed ==
  /\ LineReadable /\ (setting.garbled \/ ~WellFormed)
  /\ toClient' = Tail(toClient)
  /\ OnError
  /\ UNCHANGED <<setting, n, aborted, up, srv, queued>>

\* Fault: a read has no timer.
ReadFailsWithoutTimer ==
  /\ pc \in Waiting
  /\ aborted \/ ~up
  /\ OnError
  /\ UNCHANGED <<setting, n, aborted, up, toClient, srv, queued>>

\* The read times out, or is cut short by the signal or a failed connection.
ReadFails ==
  /\ pc \in Waiting
  /\ setting.late \/ aborted \/ ~up
  /\ OnError
  /\ UNCHANGED <<setting, n, aborted, up, toClient, srv, queued>>

Abort ==
  /\ pc \in Waiting \cup {"start"} /\ ~aborted
  /\ aborted' = TRUE
  /\ UNCHANGED <<setting, pc, n, i, outcome, mailOk, got, claimed, up, toServer, toClient, srv, queued>>

\* The connection is reset or closed by the peer.
Drop ==
  /\ up /\ up' = FALSE
  /\ UNCHANGED <<client, toServer, toClient, srv, queued>>
-----------------------------------------------------------------------------
(* The server: one reply to each command, of any number of lines *)

\* The codes the server may answer with, and its transaction after each.
Verdicts(cmd) ==
  CASE cmd.verb = "NOOP" -> {<<"2xx", srv>>}
    [] cmd.verb = "RSET" -> {<<"2xx", Fresh>>}
    [] cmd.verb = "MAIL" -> {<<"2xx", [phase |-> "mail", rcpts |-> {}]>>, <<"5xx", Fresh>>}
    [] cmd.verb = "RCPT" /\ srv.phase = "mail" ->
         {<<"2xx", [srv EXCEPT !.rcpts = @ \cup {cmd.arg}]>>, <<"5xx", srv>>}
    [] cmd.verb = "DATA" /\ srv.rcpts # {} ->
         {<<"3xx", [srv EXCEPT !.phase = "data"]>>, <<"5xx", srv>>}
    [] cmd.verb = "CONTENT" /\ srv.phase = "data" -> {<<"2xx", Fresh>>, <<"5xx", Fresh>>}
    [] cmd.verb = "BDAT" /\ srv.rcpts # {} ->
         {<<"2xx", IF cmd.arg = Chunks THEN Fresh ELSE srv>>, <<"5xx", Fresh>>}
    [] OTHER -> {<<"5xx", srv>>}

Delivers(cmd, code) ==
  code = "2xx" /\ (cmd.verb = "CONTENT" \/ (cmd.verb = "BDAT" /\ cmd.arg = Chunks))

ServerReplies ==
  /\ toServer # <<>>
  /\ toServer' = Tail(toServer)
  /\ LET cmd == Head(toServer) IN
     \E v \in Verdicts(cmd) :
       /\ srv' = v[2]
       /\ toClient' = Append(toClient, [code |-> v[1], more |-> FALSE, to |-> cmd])
       /\ queued' = IF Delivers(cmd, v[1])
                    THEN queued \cup {[txn |-> cmd.txn, rcpts |-> srv.rcpts]} ELSE queued
  /\ UNCHANGED <<client, up>>

\* The reply does not end yet: a line with the same code comes before its last.
\* How long a reply is shows only as it is read, and this may happen any number
\* of times.
ReplyGoesOn ==
  /\ pc \in Waiting /\ toClient # <<>> /\ ~Line.more
  /\ toClient' = <<[Line EXCEPT !.more = TRUE]>> \o toClient
  /\ UNCHANGED <<client, up, toServer, srv, queued>>
-----------------------------------------------------------------------------
Terminated == (pc = "gone" \/ (pc = "ready" /\ n = MaxTxn)) /\ toServer = <<>> /\ UNCHANGED vars

ClientStep == Start \/ ReadLine \/ ReadMalformed \/ ReadFails

Next == Begin \/ ClientStep \/ Abort \/ Drop \/ ServerReplies \/ ReplyGoesOn \/ Terminated

\* Every read of the client ends: a line comes, or its timer fires.  The server
\* is not obliged to answer.
Fairness == WF_vars(ClientStep)

Spec == Init /\ [][Next]_vars
FairSpec == Spec /\ Fairness
-----------------------------------------------------------------------------
\* Every variable has its type.
TypeOK ==
  /\ setting \in Settings
  /\ pc \in Waiting \cup {"ready", "start", "gone"}
  /\ n \in 0..MaxTxn /\ i \in 0..(Rcpts + Chunks)
  /\ outcome \in [Recipients -> Outcomes]
  /\ {mailOk, aborted, up} \subseteq BOOLEAN
  /\ got \in Codes \cup {"none"}
  /\ toServer \in Seq(Commands) /\ toClient \in Seq(Lines)
  /\ srv \in [phase : {"idle", "mail", "data"}, rcpts : SUBSET Recipients]
  /\ queued \subseteq [txn : 0..MaxTxn, rcpts : SUBSET Recipients]
  /\ claimed \in Seq([txn : 0..MaxTxn, outcome : [Recipients -> Outcomes]])

Having(result, o) == {r \in Recipients : result.outcome[r] = o}

\* A message reported sent was taken over by the server, for every recipient
\* reported accepted and for none that was reported rejected.
SuccessIsDelivery ==
  \A k \in DOMAIN claimed :
    \E q \in queued :
      /\ q.txn = claimed[k].txn
      /\ Having(claimed[k], "accepted") \subseteq q.rcpts
      /\ q.rcpts \cap Having(claimed[k], "rejected") = {}

\* A session the pool takes back owes and is owed nothing: no command is on its
\* way and no reply is left for a later transaction to read.
CleanRelease == pc = "ready" => toServer = <<>> /\ toClient = <<>>

\* Nothing can put the reading out of step with the writing: neither a read that
\* times out, nor a malformed line that leaves the rest of its reply unread.
Ordered == ~setting.late /\ ~setting.garbled

\* Where the verdict on a transaction can be relied on: what is left of a reply to
\* RCPT is told from the reply to DATA, not from the reply to a BDAT.
Trusted == setting.transfer = "data" \/ Ordered

\* Under that condition a message reported sent was taken over as reported.
SuccessIsDeliveryIfTrusted == Trusted => SuccessIsDelivery

\* Under the same condition a session taken back owes and is owed nothing.
CleanReleaseIfTrusted == Trusted => CleanRelease

\* As long as that is so, the first line the client can read answers the command
\* it is waiting on.
Awaited ==
  CASE pc = "noop" -> <<"NOOP", n, 0>>
    [] pc = "mail" -> <<"MAIL", n, 0>>
    [] pc = "rcpt" -> <<"RCPT", n, i>>
    [] pc = "rset" -> <<"RSET", n, 0>>
    [] pc = "data" -> <<"DATA", n, 0>>
    [] pc = "content" -> <<"CONTENT", n, 0>>
    [] pc = "bdat" -> <<"BDAT", n, i>>
RepliesInStep ==
  Ordered /\ LineReadable => <<Line.to.verb, Line.to.txn, Line.to.arg>> = Awaited

\* A caller that requires every recipient is told of success only when every
\* recipient was accepted.
RequireAllHonoured ==
  setting.requireAll => \A k \in DOMAIN claimed : Having(claimed[k], "accepted") = Recipients

\* That holds one recipient at a time whatever goes wrong on the way, and of
\* pipelined recipients when every reply arrives in time and well-formed.
RequireAllUnlessLost ==
  ~setting.pipelining \/ ~(setting.late \/ setting.garbled) => RequireAllHonoured

\* After the signal has fired the client writes nothing more for this message
\* and never reports success.
AbortStops ==
  [][aborted /\ aborted' => Len(toServer') <= Len(toServer) /\ claimed' = claimed]_vars

\* Every transaction that was begun ends, because every line is read under a timer
\* of its own (the settings without late replies leave it out, for the server
\* answers in time).  Nothing limits the number of lines, though: a server whose
\* reply never comes to its last line keeps the transaction, and is excepted.
RepliesEnd == <>[][~ReplyGoesOn]_vars
TransactionEnds == RepliesEnd => (pc = "start" /\ setting.late ~> pc \in {"ready", "gone"})
=============================================================================
