# TLA+ verification of the mxraven mail SDK

This directory holds TLA+ models of the SDK in `src/`, TLC configurations that
check them on small instances, and TLAPS proofs about the
pool, the dialer, transactions, message content, notifications and webhooks. The
modules are written from the source; `PROJECT.json` maps each definition to the
lines it models. Source paths below are relative to `src/src/`.

## 1. Inventory

The SDK is single-threaded TypeScript. All concurrency is between `await`s: any
number of public calls are in progress at once, their continuations interleave,
and timers, `AbortSignal`s and socket events run in between.

| component | state it keeps | operations | interacts with |
|---|---|---|---|
| connection pool, `internal/smtp/pool.ts` | stack of idle sessions, set of owned ones, count of live ones, wait list, `closed` | acquire, release, send, sendRaw, destroy, close | calls the dialer and the session; called by `client.ts` |
| session, `internal/smtp/session.ts` (+ `transaction.ts`, `response.ts`, `extensions.ts`, `auth.ts`) | connection, extensions, authenticated, closed | hello, startTls, auth, noop, reset, quit, close, send, sendRaw | writes and reads lines through the connection |
| line connection, `internal/smtp/connection.ts` | byte buffer, the pending read, the first failure, closed | openTcp, openTls, readLine, write, upgradeToTls, close | socket events call back into it |
| dialer, `internal/smtp/dialer.ts` | options | dial | builds a session step by step |
| public client, `client.ts`, `result.ts` | the pool | send, sendRaw, close | composes a message, hands it to the pool with an envelope, translates errors |
| composition, `message.ts`, `internal/mime.ts`, `headers.ts`, `encoded-word.ts` | a message under construction | builder methods, serialisation | used by the client |
| addresses, `address.ts`, `internal/domain.ts`, `internal/idna.ts` | parser position | parse and format | used everywhere |
| inbound parser, `mime/parse.ts` | none | parse | stand-alone |
| webhook receiver, `webhook/*.ts` | listeners of each type, keys of the verifier | on, handle, process, verify, read body, fetch raw mail | HTTP server; user listeners |
| notification subscriber, `notify/*.ts` | NATS connection, one pull per consume call or iterator, settled flags | connect, consume, events, ack, nak, term, close | JetStream server; user handlers |
| feedback client, `feedback/client.ts` | options | learn, unsubscribe | HTTP requests with timers and signals |

What is hard, and what makes each component correct:

* **Pool.** Every await of `acquire()`, `send()` and `close()` is a point where
  other calls run. Correct: never more than `size` connections; a session in one
  pair of hands; none leaked; no waiter forgotten; a closed pool winds down.
* **Transaction.** Replies are matched to commands by order alone. Reads may
  time out or be aborted with the connection still in use, and some failures are
  kept as data (a recipient's outcome). Correct: a success reported is a message
  taken over by the server; a session returned to the pool owes no reply.
* **Dial.** Any of its awaits may fail. Correct: required TLS comes before
  credentials, stale capabilities are dropped, failures leave no socket.
* **Content.** A message arrives in chunks cut anywhere; the dot-stuffing state
  must carry across them. Correct: the server reconstructs exactly the message.
* **Notifications.** Server redelivery, handler failures, aborts and `close()`
  race. Correct: an event is acknowledged only when handled; nothing starts
  after a stop; a settled delivery is settled once.
* **Webhooks and feedback.** A delivery is repeated until it is acknowledged,
  bodies are cut, altered, aborted or too long, listeners fail, are registered
  meanwhile and make requests of their own. Correct: only what the sender sent
  is handled, an acknowledgement means that every listener is done, a message is
  taught whole, and every request is answered.
* **Text: composition, addresses, inbound MIME.** No concurrency, but two halves
  that must agree: what one formats, folds, quotes, nests or encodes, the other,
  and a server, must read back. Correct: a composed message, an address and an
  encoded value survive the round trip; a body written by someone else is cut
  where a reader of lines would cut it.

`PROJECT.json` lists the hazards line by line with the properties that cover
them, and every component with its status.

## 2. Modules

| module | models | main state |
|---|---|---|
| `SmtpPool` | the pool and the `send()` calls that share it | `idle`, `owned`, `live`, `waiters`, `closed` as in the code; `pc`/`held` are the awaits of the calls, `closing` that of `close()`, `open` the sockets |
| `ConnectionBudget` | what the pool promises, without stack, count or wait list | a phase per call |
| `SmtpPoolProofs` | theorems about `SmtpPool` | |
| `SmtpPoolBudgetProofs` | the pool implements `ConnectionBudget` | |
| `SmtpTransaction` | consecutive transactions on one session, a server answering in order, and the pool's verdict | `pc` is the reply awaited; two FIFO channels; the server's transaction |
| `SmtpTransactionProofs` | theorems about `SmtpTransaction` | |
| `SmtpContent` | bytes of a message over DATA and BDAT | the carried variables of `sendData()` and of `rechunk()` |
| `SmtpContentProofs` | theorems about `SmtpContent` | |
| `SmtpDial` | `SmtpDialer.dial()` and the session steps it calls | the await, the socket, TLS, extensions |
| `SmtpDialProofs` | theorems about `SmtpDial` | |
| `EventStream` | the JetStream consumer as `notify/connection.ts` uses it (external) | what the tier knows of each event, one pull and one buffered event per reader |
| `Notifications` | `consume()` calls, iterators and their deliveries over one connection; extends `EventStream` | `pc` is the await; the flags `startedClosed`, `closed`, `done`; `settled` |
| `NotificationsProofs` | theorems about `Notifications` | |
| `BoundedBody` | a body read chunk by chunk within a limit, with or without a signal | operators on the state of one reader |
| `WebhookVerifier` | options, signature and checks of a request, `decode()`, `partsToRequest()` | operators |
| `Webhook` | deliveries that their sender repeats, the handler that answers them, and listeners that download, teach or unsubscribe; extends the two above | `request` and `task` of each delivery: the awaits of the handler and of the listener it runs; `handlers` |
| `WebhookProofs` | theorems about `Webhook` | |
| `FlattenFacts` | what flattening a sequence of sequences does, for bodies and messages that come in chunks | |
| `Chars` | text as code points, bytes, UTF-8, Base64 | operators |
| `EncodedWords` | RFC 2047: one encoder, the strict and the lenient decoder | operators |
| `Domains` | domain names, literals, IDNA and Punycode | operators |
| `Addresses` | the RFC 5322 parser, position by position, and the formatter | operators |
| `MimeCompose` | `Message.build()`, MIME bodies and attachments, headers and folding | operators |
| `MimeParse` | `parseEmail()` | operators |
| `Envelope` | EHLO extensions, MAIL FROM and RCPT TO with their parameters, the identifiers in a final reply, the client's envelope | operators |
| `MailText` | the builder of a `Message`, and the texts the properties are about; extends the three above | `mail`, the fields of a message; `topic` and `text`, a text grown piece by piece |
| `MC...` | the instances TLC checks; `MCMail` takes `SmtpContent` and `MailText` one after the other | |

The components are composed where they meet. `SmtpPool` treats a dial, a NOOP
and a transaction as one await with a free outcome; `SmtpDial` and
`SmtpTransaction` show what those outcomes are: `SmtpDial` ends in a ready
session or an error, and `SmtpTransaction` repeats begin - transaction - verdict
with the pool's rule (resolve: release, throw: destroy) on one session.
`SmtpTransaction` treats the content as one write, `SmtpContent` its bytes, and
the commands as values, of which `Envelope` shows the parameters. `Webhook` runs
the feedback client inside a listener, inside a dispatch, inside a request: an
error of the innermost await ends as the status of the outermost. `MailText`
joins the writing and the reading halves of the text side.

Definitions whose comment begins with `Fault` are mutated forms of the one that
follows: a run with the fault in place of the definition violates the property
`PROJECT.json` names under "mutants". They are no part of the specifications.

### Correspondence of states and actions

* An action is the code between two awaits. `AcquirePass` is one pass of the
  loop in `acquire()`; it takes the live count and the wait list as parameters
  because `CheckFailed` runs `destroy()` and the next pass without an await in
  between.
* `wake()` empties the wait list at once; the woken calls (`pc = "waiting"`, not
  in `waiters`) each run later, in any order, which is more than JavaScript's
  promise queue allows and therefore safe.
* A signal may fire at any time. It ends a parked call at once; anywhere else
  the operation in progress fails at its own pace, so the model leaves the
  failure to the ordinary failing actions.
* In `SmtpTransaction`, a write refused by the signal or by a failed connection
  shows as a wait that can only fail; a read that fails does not consume the
  line that arrives later. A reply has any number of lines: a server decides only
  as each is read whether another follows (`ReplyGoesOn`), and may never stop. Any
  of them may be malformed; the reply is then given up and its other lines stay
  unread, as `readReply()` leaves them. Lines carry the command they answer for
  the properties only; no action of the client looks at it.
* In `Notifications`, `max_messages: 1` makes a pull hold at most one event for
  its reader. An answer (`ack`, `nak`, `term`) is published and not awaited: it
  may be lost, and `Answer` then changes nothing. `close()` of the client ends
  every pull, since the connection goes with it; opening one later gives a pull
  that is over at once, or throws. A second `next()` during one in progress
  throws without touching anything and has no action. `undecodable` and
  `onError` are chosen initially and never change; `processed`, `discarded`,
  `asked` and `quitters` are history for the properties.
* In `Webhook` a request is read, verified, decoded and dispatched as
  `WebhookHandler` does; the listeners are read from the live array at each turn
  of the loop, as the code does. `Repeat` is the sender, who sends again, in any
  of the ways of `Arrivals`, whatever was not acknowledged. SHA-256 and HMAC are
  the tuples of their inputs. `task.source` and the record fields `expected` (the
  listeners at the dispatch), `added` (those registered while its loop is under
  way), `ran` and `failed` are history for the properties.
* Text is a sequence of code points below U+10000, so that a code point is a
  code unit. The parser class of `address.ts` becomes operators from a position
  to a value and a position, or to the kind of error it throws. Decoders and
  encoders work on bytes. What the platform does is cut down to the characters
  in use and marked external: Unicode normalisation, categories and case,
  `TextDecoder`, Node's `Buffer`; so are boundaries, which are distinct and occur
  nowhere else, and the current date.
* Limits of the text modules (`MaxQuotedLine`, `RecommendedLine`, ...) are
  constants: 75 and 78 in the code, small in the instance, so that short texts
  reach them.
* In `SmtpDial` the options are any combination the type allows; the server may
  advertise any set of extensions at each EHLO. Replies are read line by line, each
  read with a timer of its own, from the buffer of `LineConnection`, which the
  server may fill before it is asked (`LineArrives`). `upgradeToTls()` changes the
  socket and keeps the buffer, so does `Upgraded`. Each line is the channel it
  came on; `part`, `heardOn` and `carried` are history for the properties.

## 3. Runs

| run | question | instance |
|---|---|---|
| `pool` | are connections bounded, in one pair of hands, accounted for and never lost; is no waiter forgotten; does every call end and a closed pool let go; does the pool implement the budget, liveness included | 4 calls, 2 session identities, size 2, health check on |
| `pool_handout` (violation) | does a closed pool refuse every call | 2 calls, size 1 |
| `transaction` | are results true, sessions clean, replies in step, required recipients required; does every transaction end | 2 recipients, 2 messages; DATA and BDAT of 2 chunks, pipelined or not, every recipient required or not, with a server that is prompt or late, and garbles lines or not; dropped or aborted anywhere |
| `transaction_bdat` (violation) | are sessions clean for BDAT with late replies | 2 recipients, 1 message |
| `transaction_require_all` (violation) | are required recipients required with pipelining | 2 recipients |
| `dial` | is a dialed session what the options ask for, and does a dial end | all options, all sets of extensions, up to 2 lines unread |
| `dial_leak` (violation) | does a failed dial close its socket | implicit TLS |
| `notify` | is every event handled or seen again; do readers stop quietly when told to, and with an error when their consumer is gone; do they leave no pull | one consume call, one iterator, one event that both may get, decodable or not, error handler or none |
| `notify_detached` (violation) | does the example of `events()` settle its deliveries | one iterator, one event |
| `webhook` | is only what the sender sent handled; what does 204 mean; is a message taught whole; is every request answered | one delivery, repeated; 9 sets of options, 29 ways to arrive (stamped late, early and at either edge of the tolerance), 8 payloads, 4 listeners registered at any time, 8 downloads, 10 responses |
| `webhook_status` (violation) | is a failure of a listener answered 500 | the same |
| `mail` | do messages get through DATA and BDAT; is a composed message read back; do addresses and encodings survive; are inbound bodies cut right | see below |

Bounds. Two waiters and one session are needed for a wake-up to be lost, three
calls for one of them to hold the session meanwhile; four calls and two sessions
add a second holder. The identity of a closed session is reused, so `Size` of
them is enough. In a transaction, two recipients let one be accepted and the
other fail, and two messages let a reply of the first be read by the second;
`MaxTxn` bounds the transactions per session; the length of a reply is not bounded
and needs no bound, since a reply keeps no count of its lines. In a dial, two
unread lines (`MaxUnread`) let one answer the last plaintext command and the
other be carried over the upgrade. Every call is made once. One event
is enough for `Notifications`: the tier hands it out again after the
acknowledgement timeout, so that a reader may hold it in its buffer while it, or
the other, is still handling it.

One delivery is enough for `Webhook`: requests share only the listeners, which
may be registered between any two steps, each listener once. A payload is two
bytes, split or not, against a limit of two, of one or none: a body may be one short, exact or
one too long, and a genuine one may exceed the limit. A download has a declared size or none (then `MaxRaw`, three
bytes), and a digest or none. An arrival differs from a good one in one respect,
or in few.

`mail` has a state per subject, and checks it when it is finished; the next one
starts afresh. Messages of up to five bytes hold a line end, a
dot and a terminator before and after every cut. A `Message` has up to three
calls of the builder beside `from()` and `to()`: a body of each kind, a template
or an alternative with an attachment, or two attachments beside a body, in both
transfer encodings, with addresses, subjects and fields that are quoted, encoded
or folded. Texts grow from an alphabet per topic: addresses of up to 4 pieces (among them every
special, an escape, a comment, a group, a quoted word, an angle address), values
of 3, octets and labels of 5, multipart bodies and entities of 6 (lines, line
ends, delimiters that are whole, closing, padded or only alike). Three
characters reach the limit of an encoded word, which is three bytes there, and
the letters of two and three bytes may straddle it.

Properties of the text side are stated against a second definition, as simple as
it can be: a body read line by line, the value that was encoded. Where the code
changes a value, the exception is named and excludes no more than that:
`SurvivesFolding` (folding makes one space of several), `IsPlain` (a subject
that looks like an encoded word is read as one), `ReadsAsBody` (inline text
without a name), `LocalIsSafe` (a local part outside ASCII is not quoted),
`NameIsSafe` (a single TAB, or a look-alike of an encoded word, in a name),
`Lookalike` (a line that only begins like a delimiter), `HasNoLineBreak` (a subject
or an identifier that holds a line break). The last is a check the code does not
make: `header()`, `attach()` and the subject of a template are held to
`internal/headers.ts:13` ("It must not contain line breaks"), while `subject()`,
`messageId()`, `inReplyTo()` and `references()` are not (`message.ts:470-481`), and
what follows the line break is sent as a header of its own. The instance has such
subjects and identifiers: without the exception TLC finds them in each of the
fields. A subject outside ASCII is encoded with its line breaks and needs none.

Fairness. A resolved promise runs its continuation, and every await of the SMTP
side ends because it has a timer (`connection.ts`, `readLine`, `write`,
`waitForReady`). So the steps that end an await are weakly fair. For notifications this
includes the user's handler, which the code awaits without a limit: it is
assumed to return, at the latest when the signal it is given is aborted. In
`Webhook`, reads settle unless the other side is silent, a signal is a deadline
that fires, and the timer of the feedback client fires; nothing makes a server
respond. Request bodies and downloads have no timer in the code, so that
`EveryRequestIsAnswered` holds because everything that may be silent in the
instance comes with a signal; the body of a feedback response has neither and is
excepted (`Unbounded`).
Nothing is assumed of the server, of the caller's signal elsewhere, nor that
anybody calls `close()`. In `transaction`, `TransactionEnds` is about the settings
in which reads have their timer; the others leave it out, and their server answers.

One thing the timers do not give. `readReply()` starts a new one for every line
and limits neither the lines of a reply nor the time of a whole one, so that a
server which sends `250-` lines for ever keeps a transaction, or a dial with its
slot of the pool, for ever. The models have these behaviours, and `TransactionEnds`
and `DialEnds` except them by name (`RepliesEnd`: from some time on no reply goes
on for another line); without the exception TLC finds them.

What depends on replies in step. `SuccessIsDeliveryIfTrusted` and
`CleanReleaseIfTrusted` hold over DATA whatever the replies, and over BDAT if no
reply is late and no line malformed (`Trusted`): a malformed line leaves the
others of its reply unread just as a late reply does, and the next command takes
one for its own answer, with or without PIPELINING. `RepliesInStep` is about the
settings with neither (`Ordered`).

What survives STARTTLS. `SessionIsReady` says that the reply which introduced the
session, and with it the extensions acted on, came in every line over the channel
in use. That is not so when lines were unread at the upgrade: they are kept and
answer the EHLO under TLS (`connection.ts:213-231`). The history variable
`carried` tells these dials apart, and without it TLC finds one.

### What the violations show

* `pool_handout`: `acquire()` looks at `closed` again after a dial but not after
  a health check (`pool.ts:79-81`), so a call is handed a session of a pool that
  was closed meanwhile.
* `transaction_bdat`: a reply to RCPT TO that is late becomes the recipient's
  outcome and the transaction goes on. DATA is safe, since a 2xx is not the 3xx
  it needs; BDAT takes the late 2xx for its own answer, the transaction resolves
  and the session goes back with unread replies, the message reported sent.
* `transaction_require_all`: with PIPELINING, an unreadable reply to RCPT TO
  skips the check of `requireAllRecipients`.
* `notify_detached`: `ack`, `nak` and `term` use `this`; the documented loop
  takes them out of the delivery, so that they throw and settle nothing.
* `webhook_status`: `process()` takes the status from the class of the error,
  whoever threw it. `fetchRawEmail()`, called by a listener, throws the
  `PayloadTooLargeError` that the handler uses for the request's own body, and
  the delivery is answered 413 instead of the documented 500.
* `dial_leak`: `openTls()` gives up the TCP connect without destroying the
  socket.

## 4. Proofs

A run shows a property for the instance of section 3, a theorem for every value
of the constants. `PROJECT.json` lists the theorems with the properties they
state. The assumptions are those the modules name (`PoolAssumption`,
`DialAssumption`, `ContentAssumption`, ...): types of the constants, and what the
types of the code and its environment allow.

| module | for every ... | proved |
|---|---|---|
| `SmtpPoolProofs` | set of calls and sessions, size | types, connections bounded, sessions in one hand, count accurate, no waiter forgotten, none parked on a closed pool, no leak |
| `SmtpPoolBudgetProofs` | the same | the safety half of the refinement of `ConnectionBudget` |
| `SmtpDialProofs` | set of options and of offers | types, credentials protected, sessions ready, sockets of failed TCP dials closed |
| `SmtpTransactionProofs` | number of recipients, chunks and transactions, and setting | types, what is reported sent was taken over, sessions go back clean, replies in step, required recipients required, an abort is final |
| `SmtpContentProofs` | message and way to cut it, chunk size | types, transparency to both kinds of server, independence of the cuts, completeness of BDAT |
| `NotificationsProofs` | set of calls, iterators and events | types, at least once, no pull left over, nothing handled after a stop, stop and loss told apart, answers settle where they stay attached |
| `WebhookProofs` | set of deliveries, options, arrivals, listeners, downloads, responses | types, only genuine requests handled, what 204 means, what is taught |

### Pool

`SmtpPoolProofs` proves for every set of calls and sessions and every size:
`TypeCorrect`, `PoolInvariant`, `ConnectionsBounded`, `SessionsInOneHand`,
`LiveAccurate`, `WakeupsNotLost`, `WaitersRefused`, `NothingLeaks`. The only assumption is
`PoolAssumption` (a positive size, a Boolean flag, `NoSession` no session);
neither calls nor sessions need be finite, since what is counted is bounded by `Size`.

The argument. `ConnectionBound` counts sockets and dials, while the code counts
`live`; they agree only through the bookkeeping: a held session is owned and in
no other hands, the pool owns exactly its open sockets except the one whose QUIT
is in progress, and a closed pool has no stack. The inductive invariant `PoolInv`
is therefore the conjunction of the types, `Exclusive`, `Bookkeeping`, the bound
with the count, and the facts about the wait list. `NoLeak` is a second
induction that uses the first: a session leaves one hand only for another or to
be closed, which needs that hands are exclusive; the two together give
`SessionsInOneHand`. Each action has its lemma, with one step per conjunct
it can disturb; the lemmas on `Front`, `Tail` and `Append` say what the stack
operations do to the set of sessions on the stack.

`SmtpPoolBudgetProofs` maps each call to what the budget sees of it (`PhaseAt`).
The step that needs the invariant is the one that connects a call: the budget has
room because the connected calls are those that dial and those that hold a
session, the latter are as many as the sessions in use since hands are
exclusive (`ConnectedCount`), and `live` counts both.

### Dial

`SmtpDialProofs` proves for every set of dialer options and every set of offers:
`DialInvariant`, `DialTypeCorrect`, `CredentialsProtected`, `SessionsReady`,
`TcpSocketsClosed`, from `DialAssumption` (Boolean options, preferences drawn from
the mechanisms, offers drawn from the keywords). None of the properties is inductive: that
no credential is exposed at `done` says nothing of a dial that is about to
authenticate. `DialInv` therefore says for every value of `pc` how far the
session has got (`Progress`), whether TLS must be in place and whether a
credential can have been written (`Protection`), and where the socket is
(`Sockets`). The step that needs care is the one after EHLO or HELO, which
either upgrades with nothing exposed yet, fails, or goes on under the TLS the
options require (`HelloKeeps`, one case for each). `Wire` is about the channels:
unless lines were carried over the upgrade, what is unread, and what was read of
the reply in progress, came over the channel in use (`Pure`). Each way a buffer
grows or shrinks has its lemma (`BufferRead`, `BufferShortened`, `ArrivalKeeps`, ...).

### Transaction

Nothing in the client says which command a reply answers, so the invariant of
`SmtpTransactionProofs` is an account of what is owed. Each command has a place in
its transaction (`PosOf`); those written and not yet answered, and then the
replies not yet read, have consecutive places up to the last command written
(`Owes`). The client awaits the first of them (`InStep`), or it has given up a
recipient whose reply is late and is that many places ahead (`Behind`). To this
are added what the server has decided, as far as the replies in the channel tell
(`ServerInv`), and that a session which is ready owes nothing (`ReadyInv`).

Not everything holds in every setting, as the two violations show, and the
theorems say where: `SentIsDelivered` and `ReleasedClean` under `Trusted` (the
message goes with DATA, or replies are `Ordered`: none late, and no line
malformed), and `RepliesInStep` is about `Ordered` settings. Replies have any
number of lines in all of them: the account of what is owed counts replies, and
the one at the head of the channel until its last line is read.
With DATA the client may be behind, but the reply that it takes for that of DATA is
then one to RCPT, never a 3xx, and the transaction fails: that is the case `Behind` is
there for. `RequiredMeansAll` and `AbortIsFinal` need neither.

The proof found the second half of `Ordered`: `RepliesInStep` spoke of late replies
alone, but a malformed reply ends the reading of pipelined ones and RSET then reads
what is left; and the lines after a malformed one are read by the command that
comes next, pipelined or not.

### Content

Dot-stuffing distributes over the chunks, the line-start state carried between
them (`StuffCat`), so that what is on the wire is told by what was sent, and the
chunks disappear from the argument; `ContentInv` says so for DATA, says what
`sendData()` remembers of the last two bytes, and for BDAT that blocks, the piece
read ahead and what is still to be read make up the message. What is on the
wire is then understood byte after byte of the message (`IsStuffed`): its last
byte is the last one of the message, every dot that starts a line is followed by
another, un-stuffing gives the message back, and no LF has lost its CR. From the
second follows that the data end nowhere before the terminator
(`TerminatedIsReadBack`), from the last that a strict server, which ends lines
at CR LF, and a lenient one see the same lines (`StrictLines`).

### Notifications

`ReaderInv` adds to the properties what each reader awaits while its pull is
stopped, lost or open (`LoopInv`, `IteratorInv`): `NoEventDropped` and
`NoOrphanPull` are kept by steps that find out what happened to a pull before the
reader does, and hold because a stopped pull belongs to a reader that was told to
stop. `NothingAfterStop` and `StopAndLoss` are about steps, and follow from the
same invariant. `AttachedAnswersSettle` assumes `~Detached` and is the
counterpart of the violation `notify_detached`: nothing but the detached method
leaves an answered delivery unsettled.

### Webhook

The signature speaks of all the bytes sent, the code reads chunks up to a limit.
`WebhookInv` says for each delivery what was read of its body (`BodyInv`: what
was read, flattened, then what is still to come, is the body that arrived), what
was decided of its request (`DecisionInv`), where the loop over the listeners is
(`LoopInv`), and what a listener downloaded (`DownloadInv`) and taught
(`TaughtInv`). `LoopInv` follows the live array: what has run is a beginning of
the listeners there were at the dispatch followed by those added since, and the
whole of it when the loop ends (`AcknowledgedIsHandled`); a dispatch over a copy
of the array breaks it. `WebhookAssumption` describes the environment: the chunks of
a body are any sequences of bytes, some of them perhaps empty; a declared size is a
natural number; a digest in a payload is that of the message; an arrival carries up to
three bytes.

The attempt corrected the model once. `OnlyGenuineIsHandled` said that a genuine
request which nobody interrupts is refused only by a listener. That is false when
`maxBody` is below the length of a body sent in good faith, which the instance
did not have: the property now says so, and the instance has such a limit, and an
arrival by a method that has no body (`MethodOf`), which it did not have either.
In time means within the tolerance before or after now, as `Skew` has it.

### How induction over data is done

The library's induction theorems take a predicate as a parameter, which the
installed provers cannot instantiate. `FlattenFacts` states induction for a set
of naturals instead (`Induction`, from the least element of a set). It is used
for `FlattenSeq`, which is a recursive function (what flattening does to `Append`,
concatenation, `Head` and single elements), and for messages byte by byte. These
are lemmas about the library, and `PROJECT.json` does not list them as results.

### Only model-checked

* Liveness, and the fairness half of the refinement of `ConnectionBudget`
  (`EveryCallSettles`, `CloseReleasesConnections`, `ImplementsFairBudget`,
  `TransactionEnds`, `DialEnds`, `ReadersStop`,
  `EveryRequestIsAnswered`): they need fairness and ENABLED.
* `MailIsReadBack`, `InboundIsFaithful`, `AddressesRoundTrip`, `CodecsInvert`: the
  text modules use `RECURSIVE` operators, with which the prover loses its SMT
  backend.
* The behaviour of `SmtpTransaction` outside `Trusted`, where `transaction_bdat` finds
  its violation.

## 5. Not modelled, and the plan

Not modelled: the checks in the constructor of the public client, the assembly of
its results and its translation of errors; enhanced status codes; the `Date` header of inbound mail (the
platform's date parser); the fields of a payload or of a feedback result, which
are only copied; connecting to NATS, option checks and body decoding of the
notification client; the tables of Unicode; IPv6 literals long enough for the rule
on embedded IPv4 addresses (`internal/domain.ts:169` refuses `1:2:3:4:5:6:192.0.2.1`,
and so does `IsValidIPv6`, but no run has one); the scripted server of the tests,
fixtures, examples and build files.

Plan:

1. Notifications: the permanent loss of the transport and its report; an
   abstract specification (at-least-once delivery) that the readers and the
   webhook handler both implement.
2. Client: the composition of pool, transaction and result, with the errors
   the caller sees.
3. Proofs: `FetchRaw` and the feedback client apart from the receiver; the
   abstract specification of item 1 and its refinement; the parts of the text side
   that can be written as recursive functions (the Base64 and quoted-printable
   codecs, `Domains`), by the induction of `FlattenFacts`.
