------------------------------ MODULE SmtpDial ------------------------------
(***************************************************************************)
(* Opening an SMTP session: SmtpDialer.dial() (internal/smtp/dialer.ts)    *)
(* with the steps of session.ts and connection.ts it is made of - connect, *)
(* greeting, EHLO or HELO, STARTTLS and a fresh EHLO, AUTH.                *)
(*                                                                         *)
(* Each await is a value of `pc`.  Any of them may fail: the timer fires,  *)
(* the caller aborts, the socket reports an error, or the server declines. *)
(* A reply is read line by line from the buffer of the connection, which   *)
(* the server fills as it likes and an upgrade to TLS leaves as it is.     *)
(***************************************************************************)
EXTENDS Naturals, SequencesExt

CONSTANTS Configs,   \* the dialer options considered
          Offers,    \* what the server's EHLO replies may advertise
          MaxUnread  \* bound: lines received and not yet read

Mechanisms == {"PLAIN", "LOGIN", "XOAUTH2"}
Keywords == {"STARTTLS", "AUTH"} \cup Mechanisms

ASSUME DialAssumption ==
  /\ \A c \in Configs :
       /\ {c.implicitTls, c.startTls, c.requireTls, c.auth} \subseteq BOOLEAN
       /\ c.preferred \in Seq(Mechanisms)
  /\ Offers \subseteq SUBSET Keywords
  /\ MaxUnread \in Nat

VARIABLES config,    \* the options in force
          pc,        \* what dial() awaits; "done" or "failed" at the end
          socket,    \* "none", "connecting", "open" or "closed"
          tls,       \* the connection is protected by TLS
          buffer,    \* the lines received and unread, each as the channel it came on
          exts,      \* the session's extension map
          authenticated,
          greeted,   \* for the properties: the greeting was a success
          part,      \* for the properties: channels of the lines read of a reply
          heardOn,   \* for the properties: those of the last EHLO or HELO reply
          carried,   \* for the properties: the upgrade found lines unread
          exposedOn  \* for the properties: channels that carried a credential

vars == <<config, pc, socket, tls, buffer, exts, authenticated,
          greeted, part, heardOn, carried, exposedOn>>

Ended == {"done", "failed"}
\* Where a reply is awaited.
Replying == {"greeting", "ehlo", "helo", "starttls", "plain", "login", "username", "password"}
Channels == {"plain", "tls"}
Channel == IF tls THEN "tls" ELSE "plain"

Init ==
  /\ config \in Configs
  /\ pc = "connect" /\ socket = "connecting"
  /\ tls = FALSE /\ buffer = <<>> /\ exts = {} /\ authenticated = FALSE
  /\ greeted = FALSE /\ part = {} /\ heardOn = {} /\ carried = FALSE /\ exposedOn = {}

Goto(phase) == pc' = phase /\ UNCHANGED <<config, socket>>

\* Fault: the catch block does not close the session.
ThrowWithoutClose ==
  /\ pc' = "failed" /\ authenticated' = FALSE /\ tls' = FALSE /\ buffer' = <<>> /\ part' = {}
  /\ UNCHANGED <<config, socket, exts, greeted, heardOn, carried, exposedOn>>

\* Any error ends the dial; the catch block closes the session, and with it
\* the connection the session has.
Throw == /\ pc' = "failed" /\ socket' = "closed" /\ authenticated' = FALSE
         /\ tls' = FALSE \* no connection: isTls is false
         /\ buffer' = <<>> /\ part' = {}
         /\ UNCHANGED <<config, exts, greeted, heardOn, carried, exposedOn>>
-----------------------------------------------------------------------------
(* Replies *)

\* The server sends a line, asked for or not; what was sent before the handshake
\* is never taken for TLS.
LineArrives ==
  /\ pc \in Replying /\ socket = "open" /\ Len(buffer) < MaxUnread
  /\ buffer' = Append(buffer, Channel)
  /\ UNCHANGED <<config, pc, socket, tls, exts, authenticated, greeted, part, heardOn, carried, exposedOn>>

\* A line is read that is not the last of its reply: the wait begins anew, with
\* another timer, and there is no limit on the lines.
ReplyGoesOn ==
  /\ pc \in Replying /\ buffer # <<>>
  /\ buffer' = Tail(buffer) /\ part' = part \cup {Head(buffer)}
  /\ UNCHANGED <<config, pc, socket, tls, exts, authenticated, greeted, heardOn, carried, exposedOn>>

\* The last line of the reply is read.
ReplyEnds == buffer # <<>> /\ buffer' = Tail(buffer) /\ part' = {}
-----------------------------------------------------------------------------
(* Connecting *)

\* openTcp() and openTls(): the TCP connection is made.
Connected ==
  /\ pc = "connect"
  /\ pc' = IF config.implicitTls THEN "handshake" ELSE "greeting"
  /\ socket' = "open"
  /\ UNCHANGED <<config, tls, buffer, exts, authenticated, greeted, part, heardOn, carried, exposedOn>>

\* The wait for the connection is given up by its timer or by the caller.
\* openTcp() destroys the socket; openTls() has not reached its try block, and
\* the session has no connection yet that close() could close.
ConnectGivenUp ==
  /\ pc = "connect"
  /\ pc' = "failed"
  /\ socket' = IF config.implicitTls THEN "connecting" ELSE "closed"
  /\ UNCHANGED <<config, tls, buffer, exts, authenticated, greeted, part, heardOn, carried, exposedOn>>

\* The connection is refused: the socket has already closed itself.
ConnectRefused == pc = "connect" /\ Throw

\* A socket nobody waits for any more connects after all, or is refused.
OrphanSettles ==
  /\ pc = "failed" /\ socket = "connecting"
  /\ socket' \in {"open", "closed"}
  /\ UNCHANGED <<config, pc, tls, buffer, exts, authenticated, greeted, part, heardOn, carried, exposedOn>>

HandshakeDone ==
  /\ pc = "handshake"
  /\ tls' = TRUE /\ Goto("greeting")
  /\ UNCHANGED <<buffer, exts, authenticated, greeted, part, heardOn, carried, exposedOn>>

Greeting ==
  /\ pc = "greeting" /\ ReplyEnds
  /\ greeted' = TRUE /\ Goto("ehlo")
  /\ UNCHANGED <<tls, exts, authenticated, heardOn, carried, exposedOn>>
-----------------------------------------------------------------------------
(* EHLO, STARTTLS *)

\* selectAuthMechanism(): the first preferred mechanism the server offers.
Candidates == IF config.preferred # <<>> THEN config.preferred ELSE <<"PLAIN", "LOGIN">>
Selected(offer) ==
  LET usable == SelectSeq(Candidates, LAMBDA m : m \in offer)
  IN  IF usable = <<>> THEN "" ELSE Head(usable)

\* Fault: the exchange of a mechanism the session does not know is begun.
BeginAnyAuth(offer) ==
  IF "AUTH" \notin offer \/ Selected(offer) = ""
  THEN pc' = "failed" /\ socket' = "closed" /\ UNCHANGED <<config, exposedOn>>
  ELSE Goto(Selected(offer)) /\ UNCHANGED exposedOn

\* auth() writes its first command, or throws without writing any.
BeginAuth(offer) ==
  IF "AUTH" \notin offer \/ Selected(offer) \notin {"PLAIN", "LOGIN"}
  THEN pc' = "failed" /\ socket' = "closed" /\ UNCHANGED <<config, exposedOn>>
  ELSE IF Selected(offer) = "PLAIN"
  THEN Goto("plain") /\ exposedOn' = exposedOn \cup {Channel}
  ELSE Goto("login") /\ UNCHANGED exposedOn

\* Fault: required TLS is not insisted on.
AfterHelloOpportunistic(offer) ==
  /\ IF config.startTls /\ ~config.implicitTls /\ ~tls /\ "STARTTLS" \in offer
     THEN Goto("starttls") /\ UNCHANGED exposedOn
     ELSE IF config.auth THEN BeginAuth(offer)
     ELSE Goto("done") /\ UNCHANGED exposedOn
  /\ exts' = offer /\ heardOn' = part \cup {Head(buffer)}
  /\ IF pc' = "failed" THEN tls' = FALSE /\ buffer' = <<>> /\ part' = {}
                       ELSE ReplyEnds /\ UNCHANGED tls
  /\ UNCHANGED <<authenticated, greeted, carried>>

\* dial() after a successful hello(): upgrade, give up, authenticate or return.
AfterHello(offer) ==
  /\ LET upgrade == config.startTls /\ ~config.implicitTls /\ ~tls IN
     IF upgrade /\ "STARTTLS" \in offer THEN Goto("starttls") /\ UNCHANGED exposedOn
     ELSE IF upgrade /\ config.requireTls
     THEN pc' = "failed" /\ socket' = "closed" /\ UNCHANGED <<config, exposedOn>>
     ELSE IF config.auth THEN BeginAuth(offer)
     ELSE Goto("done") /\ UNCHANGED exposedOn
  /\ exts' = offer /\ heardOn' = part \cup {Head(buffer)}
  /\ IF pc' = "failed" THEN tls' = FALSE /\ buffer' = <<>> /\ part' = {}
                       ELSE ReplyEnds /\ UNCHANGED tls
  /\ UNCHANGED <<authenticated, greeted, carried>>

EhloAccepted == pc = "ehlo" /\ buffer # <<>> /\ \E offer \in Offers : AfterHello(offer)

EhloRejected ==
  /\ pc = "ehlo" /\ ReplyEnds
  /\ Goto("helo")
  /\ UNCHANGED <<tls, exts, authenticated, greeted, heardOn, carried, exposedOn>>

\* The HELO fallback leaves the session without extensions.
HeloAccepted == pc = "helo" /\ buffer # <<>> /\ AfterHello({})

\* startTls() upgrades once the server agrees, and forgets what it advertised;
\* lines received and unread are kept, and read under TLS.
StartTlsAgreed ==
  /\ pc = "starttls" /\ ReplyEnds
  /\ Goto("upgrade")
  /\ UNCHANGED <<tls, exts, authenticated, greeted, heardOn, carried, exposedOn>>

\* Fault: no EHLO follows the upgrade.
UpgradedSkipsHello ==
  /\ pc = "upgrade"
  /\ tls' = TRUE /\ exts' = {} /\ carried' = (buffer # <<>>) /\ Goto("done")
  /\ UNCHANGED <<buffer, authenticated, greeted, part, heardOn, exposedOn>>

Upgraded ==
  /\ pc = "upgrade"
  /\ tls' = TRUE /\ exts' = {} /\ carried' = (buffer # <<>>) /\ Goto("ehlo")
  /\ UNCHANGED <<buffer, authenticated, greeted, part, heardOn, exposedOn>>
-----------------------------------------------------------------------------
(* AUTH *)

Accepted ==
  /\ pc \in {"plain", "password"} /\ ReplyEnds
  /\ authenticated' = TRUE /\ Goto("done")
  /\ UNCHANGED <<tls, exts, greeted, heardOn, carried, exposedOn>>

\* AUTH LOGIN: the server asks for the user name, then for the password.
LoginChallenge ==
  /\ \/ pc = "login" /\ Goto("username")
     \/ pc = "username" /\ Goto("password")
  /\ ReplyEnds
  /\ exposedOn' = exposedOn \cup {Channel}
  /\ UNCHANGED <<tls, exts, authenticated, greeted, heardOn, carried>>

\* Fault: a refused HELO starts over with EHLO.
FailsOrStartsOver ==
  IF pc = "helo"
  THEN Goto("ehlo") /\ UNCHANGED <<tls, buffer, exts, authenticated, greeted, part, heardOn, carried, exposedOn>>
  ELSE pc \notin Ended \cup {"connect"} /\ Throw

\* A timer, the caller's signal, a socket error or a refusing reply.
Fails == pc \notin Ended \cup {"connect"} /\ Throw
-----------------------------------------------------------------------------
Terminated == pc \in Ended /\ socket # "connecting" /\ UNCHANGED vars

DialStep ==
  \/ Connected \/ ConnectGivenUp \/ ConnectRefused \/ HandshakeDone \/ Greeting
  \/ EhloAccepted \/ EhloRejected \/ HeloAccepted \/ StartTlsAgreed \/ Upgraded
  \/ Accepted \/ LoginChallenge \/ ReplyGoesOn \/ Fails

Next == DialStep \/ LineArrives \/ OrphanSettles \/ Terminated

\* Every await of dial() has a timer: it ends with a line or with an error.
Spec == Init /\ [][Next]_vars
FairSpec == Spec /\ WF_vars(DialStep)
-----------------------------------------------------------------------------
\* Every variable has its type.
TypeOK ==
  /\ config \in Configs
  /\ pc \in {"connect", "handshake", "greeting", "ehlo", "helo", "starttls", "upgrade",
             "plain", "login", "username", "password"} \cup Ended
  /\ socket \in {"connecting", "open", "closed"}
  /\ {tls, authenticated, greeted, carried} \subseteq BOOLEAN
  /\ buffer \in Seq(Channels) /\ part \subseteq Channels
  /\ exts \subseteq Keywords
  /\ heardOn \subseteq Channels /\ exposedOn \subseteq Channels

\* With TLS required, no credential is ever written before TLS is in place,
\* whatever the server advertises, withdraws or refuses on the way.
CredentialsUnderTls ==
  config.requireTls /\ (config.startTls \/ config.implicitTls) => exposedOn \subseteq {"tls"}

\* A session handed to the pool is connected, greeted and introduced, under TLS if
\* required, and authenticated if configured.  The extensions it acts on, and the
\* reply that introduced it, came in every line over the channel it uses now:
\* nothing heard before STARTTLS outlives the upgrade.  That is not so of a server
\* (or another on the way) whose lines were still unread at the upgrade: they are
\* not discarded and answer what is asked under TLS, so `carried` is excepted.
SessionIsReady ==
  /\ pc # "failed" /\ exts # {} /\ ~carried => heardOn = {Channel}
  /\ pc = "done" =>
    /\ socket = "open" /\ greeted
    /\ IF carried THEN tls /\ heardOn # {} ELSE heardOn = {Channel}
    /\ config.requireTls /\ config.startTls => tls
    /\ config.implicitTls => tls
    /\ authenticated = config.auth

\* A dial that fails leaves no socket behind, open or about to be.
FailedDialClosesSocket == pc = "failed" => socket = "closed"

\* The same of a dial that does not begin with TLS, the submission client's.
FailedTcpDialClosesSocket == ~config.implicitTls => FailedDialClosesSocket

\* Every dial ends, in a session or in an error, for each line it waits for has a
\* timer.  A server that sends line after line of a reply it never ends holds the
\* dial, and the slot of the pool with it, for as long as it likes: it is excepted.
RepliesEnd == <>[][~ReplyGoesOn]_vars
DialEnds == RepliesEnd => <>(pc \in Ended)
=============================================================================
