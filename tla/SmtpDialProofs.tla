--------------------------- MODULE SmtpDialProofs ---------------------------
(***************************************************************************)
(* Theorems about SmtpDial, for every set of dialer options and whatever   *)
(* the server advertises: its types, the invariant that carries the        *)
(* others, and what a dial promises of credentials, sessions and sockets.  *)
(***************************************************************************)
EXTENDS SmtpDial, TLAPS

Authenticating == {"plain", "login", "username", "password"}
BeforeHello == {"connect", "handshake", "greeting"}

\* TLS is required and there is a way to get it.
Demanded == config.requireTls /\ (config.startTls \/ config.implicitTls)

\* Where the dial is says how far the session has got.
Progress ==
  /\ pc \in Authenticating \cup {"done"} =>
       greeted /\ heardOn # {} /\ (~carried => heardOn = {Channel})
  /\ pc \in {"ehlo", "helo", "starttls", "upgrade"} => greeted
  /\ pc \in BeforeHello \cup {"ehlo", "helo"} => exts = {}
  /\ exts # {} /\ pc # "failed" /\ ~carried => heardOn = {Channel}
  /\ pc \in Authenticating => config.auth
  /\ pc = "done" => authenticated = config.auth
  /\ pc \notin {"done"} => authenticated = FALSE

\* When TLS must be in place, and when no credential can have been written.
Protection ==
  /\ pc \in {"connect", "handshake"} => ~tls
  /\ pc = "handshake" => config.implicitTls
  /\ config.implicitTls =>
       (pc \in {"greeting", "ehlo", "helo"} \cup Authenticating \cup {"done"} => tls)
  /\ pc \in {"starttls", "upgrade"} => ~config.implicitTls
  /\ pc \in Authenticating \cup {"done"} /\ Demanded => tls
  /\ pc \in BeforeHello \cup {"ehlo", "helo", "starttls", "upgrade"} => exposedOn = {}
  /\ Demanded => exposedOn \subseteq {"tls"}

\* Where the socket is.
Sockets ==
  /\ pc = "connect" => socket = "connecting"
  /\ pc \notin {"connect", "failed"} => socket = "open"
  /\ pc = "failed" /\ socket # "closed" => config.implicitTls

\* What is in the buffer, and has been read of a reply, came over the channel in use.
Pure == buffer \in Seq({Channel}) /\ part \subseteq {Channel}

\* So it is unless the upgrade found lines unread.
Wire ==
  /\ pc \in {"connect", "handshake"} => buffer = <<>>
  /\ pc \in {"connect", "handshake", "upgrade"} => part = {}
  /\ carried /\ pc # "failed" => tls
  /\ ~carried /\ pc # "failed" => Pure

BufferOK == buffer \in Seq(Channels)

\* The types of the other variables.
OthersOK ==
  /\ config \in Configs
  /\ pc \in {"connect", "handshake", "greeting", "ehlo", "helo", "starttls", "upgrade",
             "plain", "login", "username", "password"} \cup Ended
  /\ socket \in {"connecting", "open", "closed"}
  /\ tls \in BOOLEAN /\ authenticated \in BOOLEAN /\ greeted \in BOOLEAN /\ carried \in BOOLEAN
  /\ part \subseteq Channels
  /\ exts \subseteq Keywords
  /\ heardOn \subseteq Channels /\ exposedOn \subseteq Channels

DialInv == OthersOK /\ BufferOK /\ Progress /\ Protection /\ Sockets /\ Wire
-----------------------------------------------------------------------------
(* The buffer *)

\* What the invariant needs to know of the buffer after a step that leaves it alone.
LEMMA BufferLeft ==
  ASSUME BufferOK, buffer' = buffer
  PROVE  BufferOK' /\ (part' = part /\ tls' = tls => Pure' = Pure)
BY DEF BufferOK, Pure, Channel, Channels

\* The same after a step that drops it.
LEMMA BufferDropped ==
  ASSUME buffer' = <<>>, part' = {}
  PROVE  BufferOK' /\ Pure'
BY DEF BufferOK, Pure

\* The first line is of a known channel, and of the one in use in a pure buffer;
\* so is what the rest of the buffer holds.
LEMMA BufferRead ==
  ASSUME BufferOK, buffer # <<>>
  PROVE  /\ Head(buffer) \in Channels /\ Tail(buffer) \in Seq(Channels)
         /\ Pure => Head(buffer) = Channel /\ Tail(buffer) \in Seq({Channel})
<1>1. \A C : buffer \in Seq(C) => Head(buffer) \in C /\ Tail(buffer) \in Seq(C)
  <2> SUFFICES ASSUME NEW C, buffer \in Seq(C) PROVE Head(buffer) \in C /\ Tail(buffer) \in Seq(C)
    OBVIOUS
  <2> QED OBVIOUS
<1> QED BY <1>1 DEF BufferOK, Pure

\* The last line of a reply leaves a buffer as pure as it was.
LEMMA BufferShortened ==
  ASSUME BufferOK, ReplyEnds
  PROVE  /\ BufferOK' /\ buffer # <<>> /\ part' = {}
         /\ tls' = tls /\ Pure => Pure'
<1>1. buffer # <<>> /\ buffer' = Tail(buffer) /\ part' = {}
  BY DEF ReplyEnds
<1>2. BufferOK'
  BY <1>1, BufferRead DEF BufferOK
<1>3. ASSUME tls' = tls, Pure PROVE Pure'
  <2>1. Tail(buffer) \in Seq({Channel}) /\ Channel' = Channel
    BY <1>1, <1>3, BufferRead DEF Channel
  <2> QED BY <1>1, <2>1 DEF Pure
<1> QED BY <1>1, <1>2, <1>3
-----------------------------------------------------------------------------
(* The invariant holds at the start, and every step keeps it *)

\* A dial that has only begun to connect satisfies the invariant.
LEMMA InitDial == Init => DialInv
<1> SUFFICES ASSUME Init PROVE DialInv
  OBVIOUS
<1>1. BufferOK /\ Pure
  BY DEF Init, BufferOK, Pure
<1> QED BY <1>1 DEF Init, Keywords, DialInv, OthersOK, Progress, Protection, Sockets, Wire,
     Authenticating, BeforeHello, Demanded, Channels, Ended

\* Connecting leads to the handshake or to the greeting, giving up to a failed dial.
LEMMA ConnectingKeeps == DialInv /\ (Connected \/ ConnectGivenUp) => DialInv'
<1> USE DEF DialInv, OthersOK, Progress, Protection, Sockets, Wire, Authenticating,
            BeforeHello, Demanded, Channel, Ended
<1>1. ASSUME DialInv, Connected PROVE DialInv'
  BY <1>1, BufferLeft DEF Connected
<1>2. ASSUME DialInv, ConnectGivenUp PROVE DialInv'
  BY <1>2, BufferLeft DEF ConnectGivenUp
<1> QED BY <1>1, <1>2

\* An error closes the socket, whatever the dial was waiting for.
LEMMA ThrowKeeps == DialInv /\ (ConnectRefused \/ Fails) => DialInv'
<1> USE DEF DialInv, OthersOK, Progress, Protection, Sockets, Wire, Authenticating,
            BeforeHello, Demanded, Channel, Ended
<1>1. ASSUME DialInv, Throw PROVE DialInv'
  BY <1>1, BufferDropped DEF Throw
<1> QED BY <1>1 DEF ConnectRefused, Fails

\* A socket nobody waits for settles after a dial that began with TLS only.
LEMMA OrphanKeeps == DialInv /\ OrphanSettles => DialInv'
<1> USE DEF DialInv, OthersOK, Progress, Protection, Sockets, Wire, Authenticating,
            BeforeHello, Demanded, Channel, Ended
<1> SUFFICES ASSUME DialInv, OrphanSettles PROVE DialInv'
  OBVIOUS
<1> QED BY BufferLeft DEF OrphanSettles

\* After the handshake TLS is in place and nothing is in the buffer; no extension
\* is known yet.
LEMMA OpeningKeeps == DialInv /\ (HandshakeDone \/ Greeting) => DialInv'
<1> USE DEF DialInv, OthersOK, Progress, Protection, Sockets, Wire, Authenticating,
            BeforeHello, Demanded, Channel, Ended
<1>1. ASSUME DialInv, HandshakeDone PROVE DialInv'
  <2>1. buffer' = <<>> /\ part' = {}
    BY <1>1 DEF HandshakeDone
  <2> QED BY <1>1, <2>1, BufferDropped DEF HandshakeDone, Goto
<1>2. ASSUME DialInv, Greeting PROVE DialInv'
  BY <1>2, BufferShortened DEF Greeting, Goto
<1> QED BY <1>1, <1>2

\* A line that comes is of the channel in use.
LEMMA ArrivalKeeps == DialInv /\ LineArrives => DialInv'
<1> SUFFICES ASSUME DialInv, LineArrives PROVE DialInv'
  OBVIOUS
<1>1. /\ pc \in Replying /\ buffer' = Append(buffer, Channel) /\ Channel \in Channels
      /\ UNCHANGED <<config, pc, socket, tls, exts, authenticated, greeted, part, heardOn, carried, exposedOn>>
      /\ Channel' = Channel
  BY DEF LineArrives, Channel, Channels
<1>2. BufferOK'
  BY <1>1 DEF DialInv, BufferOK
<1>3. Pure => Pure'
  BY <1>1 DEF Pure
<1>4. OthersOK' /\ Progress' /\ Protection' /\ Sockets'
  BY <1>1 DEF DialInv, OthersOK, Progress, Protection, Sockets, Authenticating, BeforeHello,
     Demanded, Channel, Ended
<1>5. Wire'
  BY <1>1, <1>3 DEF DialInv, Wire, Replying
<1> QED BY <1>2, <1>4, <1>5 DEF DialInv

\* So is a line that is read, unless the upgrade found it unread.
LEMMA GoingOnKeeps == DialInv /\ ReplyGoesOn => DialInv'
<1> SUFFICES ASSUME DialInv, ReplyGoesOn PROVE DialInv'
  OBVIOUS
<1>1. /\ pc \in Replying /\ buffer # <<>> /\ buffer' = Tail(buffer)
      /\ part' = part \cup {Head(buffer)} /\ Channel' = Channel
      /\ UNCHANGED <<config, pc, socket, tls, exts, authenticated, greeted, heardOn, carried, exposedOn>>
  BY DEF ReplyGoesOn, Channel
<1>2. /\ Head(buffer) \in Channels /\ Tail(buffer) \in Seq(Channels)
      /\ Pure => Head(buffer) = Channel /\ Tail(buffer) \in Seq({Channel})
  BY <1>1, BufferRead DEF DialInv
<1>3. BufferOK' /\ part' \subseteq Channels
  BY <1>1, <1>2 DEF DialInv, BufferOK, OthersOK
<1>4. Pure => Pure'
  BY <1>1, <1>2 DEF Pure
<1>5. OthersOK' /\ Progress' /\ Protection' /\ Sockets'
  BY <1>1, <1>3 DEF DialInv, OthersOK, Progress, Protection, Sockets, Authenticating, BeforeHello,
     Demanded, Channel, Ended
<1>6. Wire'
  BY <1>1, <1>4 DEF DialInv, Wire, Replying
<1> QED BY <1>3, <1>5, <1>6 DEF DialInv

\* A fallback to HELO and an upgrade are reached without a credential written.
LEMMA UpgradeKeeps == DialInv /\ (EhloRejected \/ StartTlsAgreed \/ Upgraded) => DialInv'
<1> USE DEF DialInv, OthersOK, Progress, Protection, Sockets, Wire, Authenticating,
            BeforeHello, Demanded, Ended
<1>1. ASSUME DialInv, EhloRejected PROVE DialInv'
  BY <1>1, BufferShortened DEF EhloRejected, Goto
<1>2. ASSUME DialInv, StartTlsAgreed PROVE DialInv'
  BY <1>2, BufferShortened DEF StartTlsAgreed, Goto, Channel
<1>3. ASSUME DialInv, Upgraded PROVE DialInv'
  <2>1. buffer' = buffer /\ part' = {} /\ carried' = (buffer # <<>>)
    BY <1>3 DEF Upgraded
  <2>2. BufferOK'
    BY <1>3, <2>1, BufferLeft
  <2>3. ~carried' => Pure'
    BY <2>1, BufferDropped
  <2> QED BY <1>3, <2>1, <2>2, <2>3 DEF Upgraded, Goto
<1> QED BY <1>1, <1>2, <1>3

\* An exchange that was begun goes on over the channel it was begun on.
LEMMA AuthKeeps == DialInv /\ (Accepted \/ LoginChallenge) => DialInv'
<1> USE DEF DialInv, OthersOK, Progress, Protection, Sockets, Wire, Authenticating,
            BeforeHello, Demanded, Channel, Ended
<1>1. ASSUME DialInv, Accepted PROVE DialInv'
  <2>1. config.auth = TRUE
    BY <1>1, DialAssumption DEF Accepted, DialAssumption
  <2> QED BY <1>1, <2>1, BufferShortened DEF Accepted, Goto
<1>2. ASSUME DialInv, LoginChallenge PROVE DialInv'
  BY <1>2, BufferShortened DEF LoginChallenge, Goto, Channels
<1> QED BY <1>1, <1>2

\* Once EHLO or HELO has succeeded, the dial either upgrades with nothing exposed
\* yet, or fails, or goes on with whatever TLS its options require in place.
LEMMA HelloKeeps ==
  ASSUME DialInv, pc \in {"ehlo", "helo"}, NEW offer \in SUBSET Keywords, AfterHello(offer),
         buffer # <<>>
  PROVE  DialInv'
<1> DEFINE heard == part \cup {Head(buffer)}
<1>1. {config.implicitTls, config.startTls, config.requireTls, config.auth} \subseteq BOOLEAN
  BY DialAssumption DEF DialAssumption, DialInv, OthersOK
<1>2. pc' \in {"starttls", "failed", "plain", "login", "done"}
  BY DEF AfterHello, BeginAuth, Goto
<1>3. heard \subseteq Channels /\ heard # {} /\ (~carried => heard = {Channel})
  <2>1. Head(buffer) \in Channels /\ (Pure => Head(buffer) = Channel /\ part \subseteq {Channel})
    BY BufferRead DEF DialInv, Pure
  <2> QED BY <2>1 DEF DialInv, OthersOK, Wire
<1>4. heardOn' = heard /\ exts' = offer /\ UNCHANGED <<authenticated, greeted, carried>>
  BY DEF AfterHello
<1> HIDE DEF heard
<1>5. /\ BufferOK' /\ part' = {}
      /\ pc' = "failed" => tls' = FALSE
      /\ pc' # "failed" => tls' = tls /\ (~carried => Pure')
  <2>1. CASE pc' = "failed"
    <3>1. buffer' = <<>> /\ part' = {} /\ tls' = FALSE
      BY <2>1 DEF AfterHello
    <3> QED BY <2>1, <3>1, BufferDropped
  <2>2. CASE pc' # "failed"
    <3>1. ReplyEnds /\ tls' = tls
      BY <2>2 DEF AfterHello
    <3>2. ~carried => Pure
      BY DEF DialInv, Wire
    <3> QED BY <2>2, <3>1, <3>2, BufferShortened DEF DialInv
  <2> QED BY <2>1, <2>2
<1>6. OthersOK' /\ Progress' /\ Protection' /\ Sockets'
  <2>1. \/ /\ pc' = "starttls" /\ exposedOn' = exposedOn /\ socket' = socket /\ config' = config
           /\ config.startTls /\ ~config.implicitTls /\ ~tls
        \/ /\ pc' = "failed" /\ exposedOn' = exposedOn /\ socket' = "closed" /\ config' = config
        \/ /\ pc' = "plain" /\ exposedOn' = exposedOn \cup {Channel} /\ socket' = socket
           /\ config' = config /\ config.auth
           /\ ~(config.startTls /\ ~config.implicitTls /\ ~tls /\ config.requireTls)
        \/ /\ pc' = "login" /\ exposedOn' = exposedOn /\ socket' = socket
           /\ config' = config /\ config.auth
           /\ ~(config.startTls /\ ~config.implicitTls /\ ~tls /\ config.requireTls)
        \/ /\ pc' = "done" /\ exposedOn' = exposedOn /\ socket' = socket
           /\ config' = config /\ ~config.auth
           /\ ~(config.startTls /\ ~config.implicitTls /\ ~tls /\ config.requireTls)
    BY <1>1 DEF AfterHello, BeginAuth, Goto
  <2> USE DEF DialInv, OthersOK, Progress, Protection, Sockets, Wire, Authenticating, BeforeHello,
              Demanded, Channel, Channels, Ended
  <2>2. CASE pc' = "starttls"
    BY <1>1, <1>3, <1>4, <1>5, <2>1, <2>2
  <2>3. CASE pc' = "failed"
    BY <1>1, <1>3, <1>4, <1>5, <2>1, <2>3
  <2>4. CASE pc' \in {"plain", "login", "done"}
    <3>1. tls' = tls /\ Channel' = Channel /\ config' = config /\ socket' = socket
      BY <1>5, <2>1, <2>4
    <3>2. OthersOK'
      BY <1>3, <1>4, <1>5, <2>1, <2>4, <3>1
    <3>3. Progress'
      BY <1>1, <1>3, <1>4, <2>1, <2>4, <3>1
    <3>4. Protection'
      BY <1>1, <2>1, <2>4, <3>1
    <3>5. Sockets'
      BY <2>1, <2>4, <3>1
    <3> QED BY <3>2, <3>3, <3>4, <3>5
  <2> QED BY <1>2, <2>2, <2>3, <2>4
<1>7. Wire'
  BY <1>2, <1>4, <1>5 DEF DialInv, Wire
<1> QED BY <1>5, <1>6, <1>7 DEF DialInv

\* Every step of a dial, the lines the server sends, and the late end of a socket
\* it abandoned, keep the invariant.
LEMMA DialStepKeeps == DialInv /\ [Next]_vars => DialInv'
<1> SUFFICES ASSUME DialInv, [Next]_vars PROVE DialInv'
  OBVIOUS
<1>1. CASE EhloAccepted
  BY <1>1, HelloKeeps, DialAssumption DEF EhloAccepted, DialAssumption
<1>2. CASE HeloAccepted
  BY <1>2, HelloKeeps DEF HeloAccepted
<1>3. CASE UNCHANGED vars
  BY <1>3, BufferLeft DEF vars, DialInv, OthersOK, Progress, Protection, Sockets, Wire,
     Authenticating, BeforeHello, Demanded, Channel, Channels, Ended
<1>4. CASE Terminated
  BY <1>3, <1>4 DEF Terminated
<1> QED
  BY <1>1, <1>2, <1>3, <1>4, ConnectingKeeps, ThrowKeeps, OrphanKeeps, OpeningKeeps, ArrivalKeeps,
     GoingOnKeeps, UpgradeKeeps, AuthKeeps DEF Next, DialStep

-----------------------------------------------------------------------------
(* What a dial promises *)

\* In every reachable state the invariant holds: how far the session has got,
\* whether TLS is in place, what was exposed and where the socket is all follow
\* from what dial() awaits (internal/smtp/dialer.ts).
THEOREM DialInvariant == Spec => []DialInv
  BY InitDial, DialStepKeeps, PTL DEF Spec

\* Every variable of a dial has its type.
THEOREM DialTypeCorrect == Spec => []TypeOK
<1>1. DialInv => TypeOK
  BY DEF DialInv, OthersOK, BufferOK, TypeOK
<1> QED BY <1>1, DialInvariant, PTL

\* With TLS required, auth() never writes a credential before TLS is in place,
\* for any options and whatever the server advertises before or after STARTTLS.
THEOREM CredentialsProtected == Spec => []CredentialsUnderTls
<1>1. DialInv => CredentialsUnderTls
  BY DEF DialInv, Protection, Demanded, CredentialsUnderTls
<1> QED BY <1>1, DialInvariant, PTL

\* What a session acts on was advertised on the channel it uses now, unless lines
\* were left unread at the upgrade, and a session dial() returns is connected,
\* greeted, introduced, protected and authenticated as its options ask.
THEOREM SessionsReady == Spec => []SessionIsReady
<1>1. DialInv => SessionIsReady
  BY DialAssumption DEF DialAssumption, DialInv, OthersOK, Progress, Protection, Sockets, Wire,
     Demanded, Authenticating, SessionIsReady
<1> QED BY <1>1, DialInvariant, PTL

\* A dial that does not begin with TLS leaves no socket behind when it fails.
THEOREM TcpSocketsClosed == Spec => []FailedTcpDialClosesSocket
<1>1. DialInv => FailedTcpDialClosesSocket
  BY DEF DialInv, Sockets, FailedTcpDialClosesSocket, FailedDialClosesSocket
<1> QED BY <1>1, DialInvariant, PTL
=============================================================================
