---------------------------- MODULE WebhookProofs ----------------------------
(***************************************************************************)
(* What the receiver of Webhook keeps for every set of deliveries, options, *)
(* arrivals and listeners.  The signature speaks of all the bytes that were *)
(* sent, so the first thing to show is that a body read to its end is the   *)
(* body that arrived, whatever its chunks, its limit and its signal; what   *)
(* is handled then follows from the checks, and what is acknowledged from   *)
(* the place the loop over the listeners has reached.                       *)
(***************************************************************************)
EXTENDS Webhook, FlattenFacts

(* The invariant                                                            *)

\* A byte of a delivery, and the readers of a body over S.
Octets == Deliveries \X (1..3)
ReadersOf(S) ==
  [left : Seq(Seq(S)), tail : Tails, got : Seq(S), cancelled : BOOLEAN, state : ReaderStates]
Bodies(S) == [chunks : Seq(Seq(S)), tail : Tails]

\* What has been read and what is left make up the body, until a signal cancels
\* the read; the state it ends in says which of the two happened.
Faithful(reader, body, limit, signalled) ==
  LET whole == FlattenSeq(body.chunks) IN
  /\ reader.cancelled => reader.left = <<>> /\ reader.tail = "end" /\ signalled
  /\ ~reader.cancelled => reader.tail = body.tail /\ reader.got \o FlattenSeq(reader.left) = whole
  /\ reader.state = "complete" =>
       ~reader.cancelled /\ reader.got = whole /\ body.tail \in {"end", "null"}
  /\ reader.state = "tooLarge" => Len(whole) > limit
  /\ reader.state = "aborted" => signalled
  /\ reader.state = "broken" => body.tail = "error"

Requests ==
  [stage : {"idle", "reading", "dispatching", "listening", "answered"},
   arrival : Arrivals, reader : ReadersOf(Octets), type : EventTypes \cup {Undefined},
   next : Nat, status : {0, 204, BadRequest, InvalidSignature, TooLarge, Other},
   expected : Seq(Listeners), added : Seq(Listeners), ran : Seq(Listeners), failed : BOOLEAN]
Tasks ==
  [step : {"none", "called", "fetching", "downloading", "requesting", "responding"},
   listener : Listeners, reader : ReadersOf(Nat), source : Bodies(Nat), ok : BOOLEAN,
   bytes : Seq(Nat)]

\* Every variable has its type, fields included, and the options were accepted.
Typed ==
  /\ options \in Options /\ Constructs(options)
  /\ payload \in [Deliveries -> Payloads]
  /\ handlers \in [EventTypes -> Seq(Listeners)]
  /\ request \in [Deliveries -> Requests]
  /\ task \in [Deliveries -> Tasks]

\* The body of a request r that is being read.
BodyInv(d, r) ==
  r.stage = "reading" =>
    IF r.arrival.used THEN r.reader.state = "broken"
    ELSE Faithful(r.reader, Body(d, r.arrival), options.maxBody, r.arrival.signal # "none")

\* What has been decided of a request, by its stage.
Handled(r) ==
  r.stage \in {"dispatching", "listening"} \/ r.ran # <<>> \/ r.status = 204 \/ r.failed
DecisionInv(d, r) ==
  /\ r.stage # "answered" => r.status = 0 /\ ~r.failed
  /\ Handled(r) => Genuine(d, r.arrival) /\ r.type = Decode(payload[d])
  /\ /\ r.stage = "answered" /\ Genuine(d, r.arrival)
     /\ Len(Bytes(d)) <= options.maxBody /\ ~Interrupted(r.arrival)
     => r.status = 204 \/ r.failed

\* How far the loop over the listeners is: what ran is a prefix of what is due,
\* and that is what is registered as long as the loop goes on; the task t is the
\* next one's.
LoopInv(r, t) ==
  LET registered == handlers[r.type] IN
  /\ (t.step = "none") <=> (r.stage # "listening")
  /\ r.stage \in {"idle", "reading"} => r.type = Undefined
  /\ r.type = Undefined => r.ran = <<>> /\ r.status # 204 /\ ~r.failed
  /\ r.type # Undefined => IsPrefix(r.ran, Due(r))
  /\ r.stage \in {"dispatching", "listening"} =>
       r.type # Undefined /\ r.next = Len(r.ran) + 1 /\ registered = Due(r)
  /\ r.stage = "listening" =>
       r.next <= Len(registered) /\ t.listener = registered[r.next]
  /\ r.status = 204 => ~r.failed /\ r.ran = Due(r)
  /\ r.failed => Len(r.ran) < Len(Due(r))

\* The body of a download, and what was taken of it.
DownloadInv(d, t) ==
  t.step = "downloading" =>
    Faithful(t.reader, t.source, DownloadLimit(d), t.listener.signal # "none")
TaughtInv(d, t) ==
  LET raw == payload[d].raw IN
  t.step \in {"requesting", "responding"} /\ t.listener.runs = "teach" =>
    /\ raw.digest # <<>> => t.bytes = Message
    /\ raw.size > 0 => Len(t.bytes) = raw.size
    /\ t.source.tail \in {"end", "null"} /\ t.bytes = FlattenSeq(t.source.chunks)

\* The invariant is stated of any request and task of a delivery, so that a
\* step that replaces them need only show it of the new ones.
Kept(d, r, t) ==
  BodyInv(d, r) /\ DecisionInv(d, r) /\ LoopInv(r, t) /\ DownloadInv(d, t) /\ TaughtInv(d, t)
WebhookInv == Typed /\ \A d \in Deliveries : Kept(d, request[d], task[d])
-----------------------------------------------------------------------------
(* Reading a body                                                           *)

\* A reader that is opened or made outright has its type.
LEMMA ReaderTyped ==
  ASSUME NEW S, NEW body \in Bodies(S), NEW state \in ReaderStates, NEW fired \in BOOLEAN
  PROVE  Reader(body, state) \in ReadersOf(S) /\ Open(body, fired) \in ReadersOf(S)
<1>1. /\ body.chunks \in Seq(Seq(S)) /\ body.tail \in Tails /\ <<>> \in Seq(S)
      /\ {"complete", "aborted", "reading"} \subseteq ReaderStates
  BY DEF Bodies, ReaderStates
<1>2. \A s \in ReaderStates : Reader(body, s) \in ReadersOf(S)
  BY <1>1 DEF Reader, ReadersOf
<1> QED BY <1>1, <1>2 DEF Open

\* Nothing has been read at first; a signal that has fired is noticed at once.
LEMMA OpenFaithful ==
  ASSUME NEW S, NEW body \in Bodies(S), body.tail = "null" => body.chunks = <<>>,
         NEW fired \in BOOLEAN, NEW limit \in Nat, NEW signalled \in BOOLEAN, fired => signalled
  PROVE  Faithful(Open(body, fired), body, limit, signalled)
<1> DEFINE whole == FlattenSeq(body.chunks)
<1>1. <<>> \o whole = whole
  BY FlattenTyped DEF Bodies
<1>2. body.tail = "null" => whole = <<>>
  BY FlattenEmpty
<1> HIDE DEF whole
<1>3. CASE body.tail = "null"
  BY <1>1, <1>2, <1>3 DEF Faithful, Open, Reader, whole
<1>4. CASE body.tail # "null" /\ fired
  BY <1>1, <1>4 DEF Faithful, Open, Reader, whole
<1>5. CASE body.tail # "null" /\ ~fired
  BY <1>1, <1>5 DEF Faithful, Open, Reader, whole
<1> QED BY <1>3, <1>4, <1>5

\* A cancelled read drops what was left, and says so at its end.
LEMMA CancelFaithful ==
  ASSUME NEW S, NEW reader \in ReadersOf(S), NEW body, NEW limit, NEW signalled,
         Faithful(reader, body, limit, signalled), reader.state = "reading", signalled
  PROVE  Cancel(reader) \in ReadersOf(S) /\ Faithful(Cancel(reader), body, limit, signalled)
<1>1. <<>> \in Seq(Seq(S)) /\ "end" \in Tails /\ TRUE \in BOOLEAN
  BY DEF Tails
<1>2. Cancel(reader) \in ReadersOf(S)
  BY <1>1 DEF Cancel, ReadersOf
<1>3. Faithful(Cancel(reader), body, limit, signalled)
  BY DEF Cancel, ReadersOf, Faithful
<1> QED BY <1>2, <1>3

\* The length of what was read and the chunk that comes next is at most the
\* whole's, and the chunk goes from what is left to what was read.
LEMMA OneChunk ==
  ASSUME NEW S, NEW got \in Seq(S), NEW left \in Seq(Seq(S)), left # <<>>
  PROVE  /\ got \o Head(left) \in Seq(S) /\ Len(got \o Head(left)) \in Nat /\ Tail(left) \in Seq(Seq(S))
         /\ (got \o Head(left)) \o FlattenSeq(Tail(left)) = got \o FlattenSeq(left)
         /\ Len(got \o Head(left)) <= Len(got \o FlattenSeq(left))
<1> DEFINE rest == FlattenSeq(Tail(left))
<1> DEFINE head == Head(left)
<1>1. head \in Seq(S) /\ Tail(left) \in Seq(Seq(S))
  OBVIOUS
<1>2. rest \in Seq(S)
  BY <1>1, FlattenTyped
<1>3. FlattenSeq(left) = head \o rest
  BY FlattenHead
<1> HIDE DEF rest, head
<1>4. (got \o head) \o rest = got \o (head \o rest)
  BY ONLY <1>1, <1>2, got \in Seq(S)
<1>5. Len(got \o head) <= Len(got \o (head \o rest))
  BY ONLY <1>1, <1>2, got \in Seq(S)
<1>6. got \o head \in Seq(S) /\ Len(got \o head) \in Nat
  BY ONLY <1>1, got \in Seq(S)
<1> QED BY <1>1, <1>3, <1>4, <1>5, <1>6 DEF rest, head

\* What will have been read with the next chunk.
More(reader) == reader.got \o Head(reader.left)

\* The turn of the loop, where there is a chunk.
LEMMA ReadChunk ==
  ASSUME NEW S, NEW reader, NEW limit \in Nat, More(reader) \in Seq(S), reader.left # <<>>
  PROVE  Read(reader, limit) =
           IF Len(More(reader)) > limit THEN [reader EXCEPT !.state = "tooLarge"]
           ELSE [reader EXCEPT !.got = More(reader), !.left = Tail(@)]
<1> DEFINE Turn(got) ==
      CASE reader.left # <<>> /\ Len(got) > limit -> [reader EXCEPT !.state = "tooLarge"]
        [] reader.left # <<>> /\ Len(got) <= limit -> [reader EXCEPT !.got = got, !.left = Tail(@)]
        [] reader.left = <<>> /\ reader.tail = "error" -> [reader EXCEPT !.state = "broken"]
        [] OTHER -> [reader EXCEPT !.state = IF reader.cancelled THEN "aborted" ELSE "complete"]
<1>1. Read(reader, limit) = Turn(More(reader))
  BY Zenon DEF Read, More
<1>2. (Len(More(reader)) > limit) = ~(Len(More(reader)) <= limit)
  BY ONLY More(reader) \in Seq(S), limit \in Nat
<1> QED BY ONLY <1>1, <1>2, reader.left # <<>>

\* One turn of the loop keeps the body in one piece.
LEMMA ReadFaithful ==
  ASSUME NEW S, NEW reader \in ReadersOf(S), NEW body \in Bodies(S), NEW limit \in Nat,
         NEW signalled \in BOOLEAN, Faithful(reader, body, limit, signalled), CanRead(reader)
  PROVE  Read(reader, limit) \in ReadersOf(S) /\ Faithful(Read(reader, limit), body, limit, signalled)
<1> DEFINE more == More(reader)
<1> DEFINE left == FlattenSeq(reader.left)
<1> DEFINE after == FlattenSeq(Tail(reader.left))
<1> DEFINE whole == FlattenSeq(body.chunks)
<1>1. /\ reader.left \in Seq(Seq(S)) /\ reader.got \in Seq(S) /\ reader.tail \in Tails
      /\ reader.cancelled \in BOOLEAN /\ reader.state = "reading"
      /\ ReaderStates = {"reading", "complete", "tooLarge", "aborted", "broken"}
      /\ body.tail \in Tails /\ body.chunks \in Seq(Seq(S))
  BY DEF ReadersOf, Bodies, CanRead, ReaderStates
<1>2. whole \in Seq(S) /\ left \in Seq(S)
  BY <1>1, FlattenTyped
<1>3. reader.left # <<>> => /\ more \in Seq(S) /\ Len(more) \in Nat /\ Tail(reader.left) \in Seq(Seq(S))
                            /\ more \o after = reader.got \o left
                            /\ Len(more) <= Len(reader.got \o left)
  BY <1>1, OneChunk DEF More
<1>5. reader.left = <<>> => left = <<>> /\ reader.got \o left = reader.got
  BY <1>1, FlattenEmpty
<1>a. reader.left # <<>> =>
        Read(reader, limit) = IF Len(more) > limit THEN [reader EXCEPT !.state = "tooLarge"]
                              ELSE [reader EXCEPT !.got = more, !.left = Tail(@)]
  BY ONLY <1>3, limit \in Nat, ReadChunk
<1> HIDE DEF more, left, after, whole
<1>4. reader.left # <<>> => (Len(more) <= limit) = ~(Len(more) > limit)
  BY ONLY <1>3, limit \in Nat
<1>6. CASE reader.left # <<>> /\ Len(more) > limit
  <2>1. Read(reader, limit) = [reader EXCEPT !.state = "tooLarge"]
    BY ONLY <1>a, <1>6
  <2>2. ~reader.cancelled /\ Len(whole) > limit
    <3>1. ~reader.cancelled /\ reader.got \o left = whole
      BY <1>6 DEF Faithful, left, whole
    <3> QED BY <1>2, <1>3, <1>6, <3>1
  <2> QED BY <1>1, <2>1, <2>2 DEF Faithful, ReadersOf, left, whole
<1>7. CASE reader.left # <<>> /\ Len(more) <= limit
  <2>1. Read(reader, limit) = [reader EXCEPT !.got = more, !.left = Tail(@)]
    BY ONLY <1>a, <1>4, <1>7
  <2>2. ~reader.cancelled /\ reader.got \o left = whole /\ reader.tail = body.tail
    BY <1>7 DEF Faithful, left, whole
  <2>3. more \o after = whole
    BY <1>3, <1>7, <2>2
  <2> QED BY <1>1, <1>3, <1>7, <2>1, <2>2, <2>3 DEF Faithful, ReadersOf, after, whole
<1>8. CASE reader.left = <<>> /\ reader.tail = "error"
  <2>1. Read(reader, limit) = [reader EXCEPT !.state = "broken"]
    BY <1>8 DEF Read
  <2> QED BY <1>1, <1>8, <2>1 DEF Faithful, ReadersOf
<1>9. CASE reader.left = <<>> /\ reader.tail # "error"
  <2>1. Read(reader, limit) = [reader EXCEPT !.state = IF reader.cancelled THEN "aborted" ELSE "complete"]
    BY <1>9 DEF Read
  <2>2. CASE reader.cancelled
    BY <1>1, <1>9, <2>1, <2>2 DEF Faithful, ReadersOf
  <2>3. CASE ~reader.cancelled
    <3>1. reader.got = whole /\ reader.tail = body.tail
      BY <1>5, <1>9, <2>3 DEF Faithful, left, whole
    <3>2. body.tail \in {"end", "null"}
      BY <1>1, <1>9, <3>1 DEF CanRead, Tails
    <3> QED BY <1>1, <1>9, <2>1, <2>3, <3>1, <3>2 DEF Faithful, ReadersOf, whole
  <2> QED BY <2>2, <2>3
<1> QED BY <1>4, <1>6, <1>7, <1>8, <1>9

\* A turn of the loop keeps the type of a reader, whatever it reads.
LEMMA ReadTyped ==
  ASSUME NEW S, NEW reader \in ReadersOf(S), NEW limit \in Nat
  PROVE  Read(reader, limit) \in ReadersOf(S)
<1>1. /\ reader.left \in Seq(Seq(S)) /\ reader.got \in Seq(S)
      /\ {"complete", "tooLarge", "aborted", "broken"} \subseteq ReaderStates
  BY DEF ReadersOf, ReaderStates
<1>2. CASE reader.left # <<>>
  <2>1. More(reader) \in Seq(S) /\ Tail(reader.left) \in Seq(Seq(S))
    BY <1>1, <1>2, OneChunk DEF More
  <2>2. Read(reader, limit) = IF Len(More(reader)) > limit THEN [reader EXCEPT !.state = "tooLarge"]
                              ELSE [reader EXCEPT !.got = More(reader), !.left = Tail(@)]
    BY <1>2, <2>1, ReadChunk
  <2> QED BY <1>1, <2>1, <2>2 DEF ReadersOf
<1>3. CASE reader.left = <<>>
  <2>1. \/ Read(reader, limit) = [reader EXCEPT !.state = "broken"]
        \/ Read(reader, limit) = [reader EXCEPT !.state = "aborted"]
        \/ Read(reader, limit) = [reader EXCEPT !.state = "complete"]
    BY <1>3 DEF Read
  <2> QED BY <1>1, <2>1 DEF ReadersOf
<1> QED BY <1>2, <1>3
-----------------------------------------------------------------------------
(* The body of a request                                                    *)

\* What was sent is two bytes, and the whole of it arrives only as two.
LEMMA CarriedFacts ==
  ASSUME NEW d \in Deliveries, NEW a, IsArrival(a)
  PROVE  /\ Bytes(d) \in Seq(Octets) /\ Len(Bytes(d)) = 2
         /\ Carried(d, a) \in Seq(Octets) /\ Len(Carried(d, a)) = a.length
         /\ (Carried(d, a) = Bytes(d)) <=> (a.length = 2)
<1> DEFINE all == <<<<d, 1>>, <<d, 2>>, <<d, 3>>>>
<1>1. /\ Append(Bytes(d), <<d, 3>>) = all /\ all \in Seq(Octets) /\ Len(all) = 3
      /\ Bytes(d) \in Seq(Octets) /\ Len(Bytes(d)) = 2
      /\ \A k \in 1..2 : all[k] = Bytes(d)[k]
  <2>1. {<<d, 1>>, <<d, 2>>, <<d, 3>>} \subseteq Octets
    BY DEF Octets
  <2>2. all \in Seq(Octets) /\ Bytes(d) \in Seq(Octets)
    BY <2>1 DEF Bytes
  <2>4. Len(all) = 3 /\ Len(Bytes(d)) = 2 /\ all[1] = <<d, 1>> /\ all[2] = <<d, 2>>
        /\ Bytes(d)[1] = <<d, 1>> /\ Bytes(d)[2] = <<d, 2>>
    BY DEF Bytes
  <2>3. Append(Bytes(d), <<d, 3>>) = all
    <3> DEFINE longer == Append(Bytes(d), <<d, 3>>)
    <3>1. /\ longer \in Seq(Octets) /\ Len(longer) = 3
          /\ \A k \in 1..2 : longer[k] = Bytes(d)[k]
          /\ longer[3] = <<d, 3>>
      <4>1. /\ longer \in Seq(Octets) /\ Len(longer) = Len(Bytes(d)) + 1
            /\ \A k \in 1..Len(Bytes(d)) : longer[k] = Bytes(d)[k]
            /\ longer[Len(Bytes(d)) + 1] = <<d, 3>>
        BY <2>1, <2>2, Appended
      <4> HIDE DEF longer
      <4> QED BY ONLY <2>4, <4>1
    <3>2. all[3] = <<d, 3>>
      OBVIOUS
    <3> HIDE DEF longer, all
    <3>3. \A k \in 1..3 : longer[k] = all[k]
      <4>1. \A k \in 1..3 : k = 1 \/ k = 2 \/ k = 3
        OBVIOUS
      <4>2. longer[1] = all[1] /\ longer[2] = all[2] /\ longer[3] = all[3]
        BY <2>4, <3>1, <3>2
      <4> QED BY ONLY <4>1, <4>2
    <3>4. longer = all
      BY <2>2, <2>4, <3>1, <3>3, SeqEqual
    <3> QED BY <3>4 DEF longer
  <2> QED BY <2>2, <2>3, <2>4
<1>2. a.length \in 0..3 /\ Carried(d, a) = SubSeq(all, 1, a.length)
  BY <1>1 DEF IsArrival, Carried
<1> HIDE DEF all
<1>3. /\ Carried(d, a) \in Seq(Octets) /\ Len(Carried(d, a)) = a.length
      /\ \A k \in 1..a.length : Carried(d, a)[k] = all[k]
  BY <1>1, <1>2
<1>4. ASSUME a.length = 2 PROVE Carried(d, a) = Bytes(d)
  BY <1>1, <1>3, <1>4, SeqEqual
<1> QED BY <1>1, <1>3, <1>4

\* The chunks of a body are what arrives of it, when its method has one; they
\* end in an error only where the network does.
LEMMA BodyFacts ==
  ASSUME NEW d \in Deliveries, NEW a, IsArrival(a)
  PROVE  /\ Body(d, a) \in Bodies(Octets)
         /\ Body(d, a).tail = "null" => Body(d, a).chunks = <<>>
         /\ FlattenSeq(Body(d, a).chunks) = IF HasBody(a.method) THEN Carried(d, a) ELSE <<>>
         /\ Body(d, a).tail = "error" => ~a.parts /\ a.tail = "error"
<1> DEFINE c == Carried(d, a)
<1>1. c \in Seq(Octets)
  BY CarriedFacts
<1>2. <<c>> \in Seq(Seq(Octets)) /\ FlattenSeq(<<c>>) = c
  BY <1>1, FlattenOne
<1>3. Singles(c) \in Seq(Seq(Octets)) /\ FlattenSeq(Singles(c)) = c
  BY <1>1, FlattenSingles
<1>4. <<>> \in Seq(Seq(Octets)) /\ FlattenSeq(<<>>) = <<>>
  BY FlattenEmpty
<1>5. a.tail \in {"end", "error", "silent"} /\ a.parts \in BOOLEAN /\ a.split \in BOOLEAN
  BY DEF IsArrival
<1> HIDE DEF c
<1>6. CASE ~HasBody(a.method)
  <2>1. Body(d, a) = Stream(<<>>, "null")
    BY <1>6 DEF Body, NoStream
  <2> QED BY <1>4, <1>6, <2>1 DEF Stream, Bodies, Tails
<1>7. CASE HasBody(a.method) /\ a.parts
  <2>1. Body(d, a) = Stream(<<c>>, "end")
    BY <1>7 DEF Body, c
  <2> QED BY <1>2, <1>7, <2>1 DEF Stream, Bodies, Tails, c
<1>8. CASE HasBody(a.method) /\ ~a.parts
  <2>1. Body(d, a) = Stream(IF a.split THEN Singles(c) ELSE <<c>>, a.tail)
    BY <1>8 DEF Body, Singles, c
  <2>2. CASE a.split
    BY <1>3, <1>5, <1>8, <2>1, <2>2 DEF Stream, Bodies, Tails, c
  <2>3. CASE ~a.split
    BY <1>2, <1>5, <1>8, <2>1, <2>3 DEF Stream, Bodies, Tails, c
  <2> QED BY <1>5, <2>2, <2>3
<1> QED BY <1>5, <1>6, <1>7, <1>8
-----------------------------------------------------------------------------
(* The checks                                                               *)

\* The checks of a body that was read whole, and decoding it, are passed by the
\* genuine requests and no others.
LEMMA ChecksAreExact ==
  ASSUME Typed, NEW d \in Deliveries, NEW a \in Arrivals,
         NEW bytes, bytes = IF HasBody(a.method) THEN Carried(d, a) ELSE <<>>
  PROVE  (Check(options, Signed(d, a), bytes) = None /\ Decoded(d, bytes) # Undefined)
           <=> Genuine(d, a)
<1> DEFINE secret == SecretFor(options, a.kid)
<1> DEFINE signed == Signed(d, a)
<1> DEFINE fresh == a.stamp.age \in (0 - options.tolerance)..options.tolerance
<1>1. /\ IsArrival(a) /\ options.tolerance \in Int
      /\ a.stamp.age \in Int /\ a.stamp.form \in {"missing", "text", "number"}
      /\ a.form \in {"missing", "algorithm", "malformed", "ok"}
      /\ \A kid \in DOMAIN options.keys : options.keys[kid] # Undefined
      /\ options.secret # Undefined \/ DOMAIN options.keys # {}
  BY WebhookAssumption DEF Typed, IsArrival, Constructs
<1>2. (bytes = Bytes(d)) <=> (HasBody(a.method) /\ a.length = 2)
  <2>1. /\ Len(Bytes(d)) = 2
        /\ (Carried(d, a) = Bytes(d)) <=> (a.length = 2)
    BY <1>1, CarriedFacts
  <2>2. Bytes(d) # <<>>
    BY <2>1
  <2> QED BY <2>1, <2>2
<1>3. /\ signed.id = a.id /\ signed.stamp = a.stamp /\ signed.kid = a.kid /\ signed.url = a.url
      /\ signed.method = MethodOf(a) /\ signed.signature.form = a.form
      /\ signed.signature.mac = Mac(a.secret, a.stamp, a.id, "POST", "public", Bytes(d))
  BY DEF Signed
<1>4. (signed.signature.mac = Mac(secret, a.stamp, a.id, MethodOf(a), a.url, bytes))
        <=> (a.secret = secret /\ MethodOf(a) = "POST" /\ a.url = "public" /\ bytes = Bytes(d))
  BY <1>3 DEF Mac
<1>5. (secret # Undefined /\ a.secret = secret)
        <=> IF DOMAIN options.keys = {} THEN a.secret = options.secret
            ELSE a.kid \in DOMAIN options.keys /\ a.secret = options.keys[a.kid]
  BY <1>1 DEF SecretFor
<1>6. MethodOf(a) = "POST" => HasBody(a.method)
  BY DEF MethodOf, HasBody, Method
<1>a. (Skew(a.stamp.age) > options.tolerance) = ~fresh
  BY <1>1 DEF Skew
<1> HIDE DEF secret, signed, fresh
<1>7. (Check(options, signed, bytes) = None)
        <=> /\ a.id # Empty /\ a.form = "ok" /\ a.stamp.form # "missing"
            /\ options.tolerance > 0 => a.stamp.form = "number" /\ fresh
            /\ secret # Undefined /\ a.secret = secret
            /\ MethodOf(a) = "POST" /\ a.url = "public" /\ bytes = Bytes(d)
  BY <1>1, <1>3, <1>4, <1>a DEF Check, None, BadRequest, InvalidSignature, secret
<1>8. bytes = Bytes(d) => Decoded(d, bytes) = Decode(payload[d])
  BY DEF Decoded
<1>9. Genuine(d, a)
        <=> /\ a.id # Empty /\ a.form = "ok" /\ a.stamp.form # "missing"
            /\ options.tolerance > 0 => a.stamp.form = "number" /\ fresh
            /\ secret # Undefined /\ a.secret = secret
            /\ MethodOf(a) = "POST" /\ a.url = "public" /\ a.length = 2
            /\ Decode(payload[d]) # Undefined
  BY <1>1, <1>5, CarriedFacts DEF Genuine, fresh
<1> QED BY <1>2, <1>6, <1>7, <1>8, <1>9 DEF signed
-----------------------------------------------------------------------------
(* Prefixes                                                                 *)

\* A prefix agrees with the sequence as far as it goes.
LEMMA PrefixIs ==
  ASSUME NEW S
  PROVE  \A s, t \in Seq(S) :
           IsPrefix(s, t) <=> Len(s) <= Len(t) /\ \A k \in 1..Len(s) : s[k] = t[k]
<1> SUFFICES ASSUME NEW s \in Seq(S), NEW t \in Seq(S), Len(s) <= Len(t)
             PROVE  (SubSeq(s, 1, Len(s)) = SubSeq(t, 1, Len(s)))
                      <=> \A k \in 1..Len(s) : s[k] = t[k]
  BY DEF IsPrefix
<1> DEFINE n == Len(s)
<1>1. n \in Nat /\ SubSeq(s, 1, n) = s
  OBVIOUS
<1>2. /\ SubSeq(t, 1, n) \in Seq(S) /\ Len(SubSeq(t, 1, n)) = n
      /\ \A k \in 1..n : SubSeq(t, 1, n)[k] = t[k]
  BY <1>1
<1>3. ASSUME \A k \in 1..n : s[k] = t[k] PROVE SubSeq(t, 1, n) = s
  <2> DEFINE u == SubSeq(t, 1, n)
  <2>1. u \in Seq(S) /\ Len(u) = Len(s) /\ \A k \in 1..Len(s) : u[k] = s[k]
    BY <1>2, <1>3
  <2> HIDE DEF u, n
  <2>2. u = s
    BY <2>1, SeqEqual
  <2> QED BY <2>2 DEF u
<1> QED BY <1>1, <1>2, <1>3

\* How prefixes grow, and when they are the whole sequence.
LEMMA PrefixFacts ==
  ASSUME NEW S, NEW s \in Seq(S), NEW t \in Seq(S), NEW e \in S
  PROVE  /\ IsPrefix(<<>>, t) /\ IsPrefix(t, t)
         /\ IsPrefix(s, t) => IsPrefix(s, Append(t, e))
         /\ IsPrefix(s, t) /\ Len(s) < Len(t) => IsPrefix(Append(s, t[Len(s) + 1]), t)
         /\ IsPrefix(s, t) /\ Len(s) >= Len(t) => s = t
<1>1. IsPrefix(<<>>, t) /\ IsPrefix(t, t)
  <2> DEFINE none == <<>>
  <2>1. none \in Seq(S) /\ Len(none) = 0 /\ Len(t) \in Nat
    OBVIOUS
  <2> HIDE DEF none
  <2>2. Len(none) <= Len(t) /\ (\A k \in 1..Len(none) : none[k] = t[k])
    BY ONLY <2>1
  <2>3. IsPrefix(none, t)
    BY ONLY <2>1, <2>2, t \in Seq(S), PrefixIs
  <2>4. IsPrefix(t, t)
    BY <2>1 DEF IsPrefix
  <2> QED BY <2>3, <2>4 DEF none
<1>2. ASSUME IsPrefix(s, t) PROVE IsPrefix(s, Append(t, e))
  <2> DEFINE u == Append(t, e)
  <2>1. u \in Seq(S) /\ Len(u) = Len(t) + 1 /\ \A k \in 1..Len(t) : u[k] = t[k]
    BY Appended
  <2>2. Len(s) <= Len(t) /\ \A k \in 1..Len(s) : s[k] = t[k]
    BY <1>2, PrefixIs
  <2> HIDE DEF u
  <2>3. Len(s) <= Len(u) /\ \A k \in 1..Len(s) : s[k] = u[k]
    BY <2>1, <2>2
  <2>4. IsPrefix(s, u)
    BY <2>1, <2>3, PrefixIs
  <2> QED BY <2>4 DEF u
<1>3. ASSUME IsPrefix(s, t), Len(s) < Len(t) PROVE IsPrefix(Append(s, t[Len(s) + 1]), t)
  <2> DEFINE u == Append(s, t[Len(s) + 1])
  <2>0. t[Len(s) + 1] \in S
    BY <1>3
  <2>1. /\ u \in Seq(S) /\ Len(u) = Len(s) + 1 /\ \A k \in 1..Len(s) : u[k] = s[k]
        /\ u[Len(s) + 1] = t[Len(s) + 1]
    BY <2>0, Appended
  <2>2. \A k \in 1..Len(s) : s[k] = t[k]
    BY <1>3, PrefixIs
  <2> HIDE DEF u
  <2>3. Len(u) <= Len(t) /\ \A k \in 1..Len(u) : u[k] = t[k]
    BY <1>3, <2>1, <2>2
  <2>4. IsPrefix(u, t)
    BY <2>1, <2>3, PrefixIs
  <2> QED BY <2>4 DEF u
<1>4. ASSUME IsPrefix(s, t), Len(s) >= Len(t) PROVE s = t
  <2>1. Len(s) <= Len(t) /\ \A k \in 1..Len(s) : s[k] = t[k]
    BY <1>4, PrefixIs
  <2> QED BY <1>4, <2>1, SeqEqual
<1> QED BY <1>1, <1>2, <1>3, <1>4
-----------------------------------------------------------------------------
(* Steps of one delivery                                                    *)

\* A delivery without a request, and a request without a listener at work.
LEMMA FreshTyped == Idle \in Requests /\ NoTask \in Tasks
<1>1. NoStream \in Bodies(Octets) /\ NoStream \in Bodies(Nat) /\ "complete" \in ReaderStates
  BY DEF NoStream, Stream, Bodies, Tails, ReaderStates
<1>2. Reader(NoStream, "complete") \in ReadersOf(Octets)
  BY <1>1, ReaderTyped, FALSE \in BOOLEAN
<1>3. Reader(NoStream, "complete") \in ReadersOf(Nat)
  BY <1>1, ReaderTyped, FALSE \in BOOLEAN
<1>4. (CHOOSE a \in Arrivals : TRUE) \in Arrivals /\ (CHOOSE l \in Listeners : TRUE) \in Listeners
  BY WebhookAssumption
<1> QED BY <1>1, <1>2, <1>3, <1>4 DEF Idle, NoTask, Requests, Tasks

\* A step that gives one delivery a request and a task that keep the invariant,
\* and touches nothing else, keeps the invariant.
LEMMA Becomes ==
  ASSUME WebhookInv, NEW d \in Deliveries, NEW r \in Requests, NEW t \in Tasks, Kept(d, r, t),
         UNCHANGED <<options, payload, handlers>>,
         request' = [request EXCEPT ![d] = r], task' = [task EXCEPT ![d] = t]
  PROVE  WebhookInv'
<1>1. Typed'
  BY DEF WebhookInv, Typed
<1>2. ASSUME NEW e \in Deliveries PROVE Kept(e, request[e], task[e])'
  <2>1. Kept(e, request'[e], task'[e])
    <3>1. request \in [Deliveries -> Requests] /\ task \in [Deliveries -> Tasks]
      BY DEF WebhookInv, Typed
    <3>2. CASE e = d
      BY <3>1, <3>2
    <3>3. CASE e # d
      <4>1. request'[e] = request[e] /\ task'[e] = task[e]
        BY <3>1, <3>3
      <4> QED BY <4>1 DEF WebhookInv
    <3> QED BY <3>2, <3>3
  <2>2. BodyInv(e, request[e])'
    BY <2>1 DEF Kept, BodyInv
  <2>3. DecisionInv(e, request[e])'
    BY <2>1 DEF Kept, DecisionInv, Genuine
  <2>4. LoopInv(request[e], task[e])'
    BY <2>1 DEF Kept, LoopInv
  <2>5. DownloadInv(e, task[e])'
    BY <2>1 DEF Kept, DownloadInv, DownloadLimit
  <2>6. TaughtInv(e, task[e])'
    BY <2>1 DEF Kept, TaughtInv
  <2> QED BY <2>2, <2>3, <2>4, <2>5, <2>6 DEF Kept
<1> QED BY <1>1, <1>2 DEF WebhookInv
-----------------------------------------------------------------------------
(* Requests                                                                 *)

\* Statuses an error may be reported with.
Errors == {BadRequest, InvalidSignature, TooLarge, Other}

\* The invariant of one delivery, taken apart.
LEMMA Unfolded ==
  ASSUME WebhookInv, NEW d \in Deliveries
  PROVE  /\ request[d] \in Requests /\ task[d] \in Tasks
         /\ BodyInv(d, request[d]) /\ DecisionInv(d, request[d])
         /\ LoopInv(request[d], task[d]) /\ DownloadInv(d, task[d]) /\ TaughtInv(d, task[d])
         /\ options.maxBody \in Nat /\ DownloadLimit(d) \in Nat /\ IsArrival(request[d].arrival)
<1>1. options.maxBody \in Nat
  BY WebhookAssumption DEF WebhookInv, Typed, Constructs
<1>2. DownloadLimit(d) \in Nat
  BY WebhookAssumption DEF WebhookInv, Typed, DownloadLimit
<1>3. request[d] \in Requests /\ task[d] \in Tasks
  BY DEF WebhookInv, Typed
<1>4. IsArrival(request[d].arrival)
  BY <1>3, WebhookAssumption DEF Requests
<1> QED BY <1>1, <1>2, <1>3, <1>4 DEF WebhookInv, Kept

\* A request that has not been dispatched and is answered with an error: this
\* must be one that was not genuine, was interrupted, or was over the limit.
LEMMA RefusedKeeps ==
  ASSUME WebhookInv, NEW d \in Deliveries, NEW r \in Requests, NEW error \in Errors,
         r.ran = <<>>, ~r.failed, LoopInv(r, task[d]), r.stage # "listening", r.type = Undefined,
         Genuine(d, r.arrival) /\ Len(Bytes(d)) <= options.maxBody => Interrupted(r.arrival),
         request' = [request EXCEPT ![d] = Answered(r, error)],
         UNCHANGED <<options, payload, handlers, task>>
  PROVE  WebhookInv'
<1> DEFINE q == Answered(r, error)
<1>1. /\ q.stage = "answered" /\ q.status = error /\ q.ran = <<>> /\ ~q.failed /\ q.type = Undefined
      /\ q.arrival = r.arrival /\ q.status # 204
      /\ q \in Requests
  <2>1. error # 204 /\ error \in {0, 204, BadRequest, InvalidSignature, TooLarge, Other}
    BY DEF Errors, BadRequest, InvalidSignature, TooLarge, Other
  <2> QED BY ONLY <2>1, r \in Requests, r.ran = <<>>, ~r.failed, r.type = Undefined
             DEF Answered, Requests
<1>2. task' = [task EXCEPT ![d] = task[d]] /\ task[d] \in Tasks
  BY DEF WebhookInv, Typed
<1> HIDE DEF q
<1>3. BodyInv(d, q)
  BY <1>1 DEF BodyInv
<1>4. DecisionInv(d, q)
  BY <1>1 DEF DecisionInv, Handled
<1>5. LoopInv(q, task[d])
  BY <1>1 DEF LoopInv
<1>6. Kept(d, q, task[d])
  BY <1>3, <1>4, <1>5, Unfolded DEF Kept
<1>7. request' = [request EXCEPT ![d] = q]
  BY DEF q
<1> QED BY <1>1, <1>2, <1>6, <1>7, Becomes

\* handle() answers, or begins to read the body that arrives.
LEMMA HandleKeeps ==
  ASSUME WebhookInv, NEW d \in Deliveries, Handle(d)
  PROVE  WebhookInv'
<1>1. PICK a \in Arrivals :
        request' = [request EXCEPT ![d] =
          LET fresh == [Idle EXCEPT !.arrival = a] IN
          CASE a.parts /\ Len(Carried(d, a)) > options.maxBody -> Answered(fresh, TooLarge)
            [] /\ a.parts /\ Len(Carried(d, a)) <= options.maxBody /\ ~Converts(a)
               -> Answered(fresh, BadRequest)
            [] OTHER -> [fresh EXCEPT !.stage = "reading",
                                      !.reader = IF a.used THEN Reader(NoStream, "broken")
                                                 ELSE Open(Body(d, a), a.signal = "fired")]]
  BY DEF Handle
<1> DEFINE fresh == [Idle EXCEPT !.arrival = a]
<1> DEFINE begun == [fresh EXCEPT !.stage = "reading",
                                  !.reader = IF a.used THEN Reader(NoStream, "broken")
                                             ELSE Open(Body(d, a), a.signal = "fired")]
<1>2. /\ IsArrival(a) /\ a.parts \in BOOLEAN /\ a.used \in BOOLEAN
      /\ UNCHANGED <<options, payload, handlers, task>>
      /\ options.maxBody \in Nat /\ Len(Carried(d, a)) = a.length /\ a.length \in 0..3
      /\ Len(Bytes(d)) = 2
  BY WebhookAssumption, Unfolded, CarriedFacts DEF Handle, IsArrival
<1>a. (Len(Carried(d, a)) > options.maxBody) = ~(Len(Carried(d, a)) <= options.maxBody)
  BY <1>2
<1>3. /\ fresh \in Requests /\ fresh.ran = <<>> /\ ~fresh.failed /\ fresh.stage = "idle"
      /\ fresh.type = Undefined /\ fresh.arrival = a /\ fresh.status = 0
  BY FreshTyped DEF Requests, Idle
<1>4. LoopInv(fresh, task[d])
  <2>1. task[d].step = "none"
    BY Unfolded DEF Handle, LoopInv
  <2> QED BY <1>3, <2>1 DEF LoopInv
<1>5. CASE a.parts /\ Len(Carried(d, a)) > options.maxBody
  <2>1. request' = [request EXCEPT ![d] = Answered(fresh, TooLarge)]
    BY ONLY <1>1, <1>5, <1>a
  <2>2. ~(Genuine(d, a) /\ Len(Bytes(d)) <= options.maxBody)
    BY <1>2, <1>5 DEF Genuine
  <2> QED BY <1>2, <1>3, <1>4, <2>1, <2>2, RefusedKeeps DEF Errors
<1>6. CASE a.parts /\ Len(Carried(d, a)) <= options.maxBody /\ ~Converts(a)
  <2>1. request' = [request EXCEPT ![d] = Answered(fresh, BadRequest)]
    BY ONLY <1>1, <1>6, <1>a
  <2>2. ~Genuine(d, a)
    BY <1>6 DEF Genuine, Converts
  <2> QED BY <1>2, <1>3, <1>4, <2>1, <2>2, RefusedKeeps DEF Errors
<1>7. CASE ~(a.parts /\ Len(Carried(d, a)) > options.maxBody)
           /\ ~(a.parts /\ Len(Carried(d, a)) <= options.maxBody /\ ~Converts(a))
  <2>1. request' = [request EXCEPT ![d] = begun]
    BY <1>1, <1>7
  <2>2. begun.reader \in ReadersOf(Octets)
    <3>1. NoStream \in Bodies(Octets) /\ "broken" \in ReaderStates
      BY DEF NoStream, Stream, Bodies, Tails, ReaderStates
    <3>2. Reader(NoStream, "broken") \in ReadersOf(Octets)
      BY <3>1, ReaderTyped, FALSE \in BOOLEAN
    <3>3. Body(d, a) \in Bodies(Octets) /\ (a.signal = "fired") \in BOOLEAN
      BY <1>2, BodyFacts
    <3>4. Open(Body(d, a), a.signal = "fired") \in ReadersOf(Octets)
      BY <3>1, <3>3, ReaderTyped
    <3> QED BY <1>3, <3>2, <3>4 DEF Requests
  <2>3. /\ begun.stage = "reading" /\ begun.ran = <<>> /\ ~begun.failed /\ begun.status = 0
        /\ begun.type = Undefined /\ begun.arrival = a
        /\ begun.reader = IF a.used THEN Reader(NoStream, "broken")
                          ELSE Open(Body(d, a), a.signal = "fired")
    BY <1>3 DEF Requests
  <2>4. begun \in Requests
    BY <1>3, <2>2 DEF Requests
  <2> HIDE DEF begun, fresh
  <2>5. BodyInv(d, begun)
    <3>1. a.used => begun.reader.state = "broken"
      BY <2>3 DEF Reader
    <3>2. ~a.used => Faithful(Open(Body(d, a), a.signal = "fired"), Body(d, a), options.maxBody,
                              a.signal # "none")
      BY <1>2, BodyFacts, OpenFaithful
    <3> QED BY <1>2, <2>3, <3>1, <3>2 DEF BodyInv
  <2>6. DecisionInv(d, begun)
    BY <2>3 DEF DecisionInv, Handled
  <2>7. LoopInv(begun, task[d])
    BY <1>3, <1>4, <2>3 DEF LoopInv
  <2>8. Kept(d, begun, task[d]) /\ task[d] \in Tasks /\ task' = [task EXCEPT ![d] = task[d]]
    BY <1>2, <2>5, <2>6, <2>7, Unfolded DEF Kept, WebhookInv, Typed
  <2> QED BY <1>2, <2>1, <2>4, <2>8, Becomes
<1> QED BY <1>5, <1>6, <1>7

\* A step that only replaces the reader of a request by one that is faithful too.
LEMMA ReaderKeeps ==
  ASSUME WebhookInv, NEW d \in Deliveries, request[d].stage = "reading", ~request[d].arrival.used,
         NEW reader \in ReadersOf(Octets),
         Faithful(reader, Body(d, request[d].arrival), options.maxBody,
                  request[d].arrival.signal # "none"),
         request' = [request EXCEPT ![d].reader = reader],
         UNCHANGED <<options, payload, handlers, task>>
  PROVE  WebhookInv'
<1> DEFINE q == [request[d] EXCEPT !.reader = reader]
<1>1. request[d] \in Requests /\ task[d] \in Tasks
  BY Unfolded
<1>2. /\ q \in Requests /\ q.reader = reader /\ q.stage = request[d].stage /\ q.ran = request[d].ran
      /\ q.arrival = request[d].arrival /\ q.type = request[d].type /\ q.next = request[d].next
      /\ q.status = request[d].status /\ q.failed = request[d].failed
      /\ q.expected = request[d].expected
  BY <1>1 DEF Requests
<1>3. request' = [request EXCEPT ![d] = q] /\ task' = [task EXCEPT ![d] = task[d]]
  BY DEF WebhookInv, Typed
<1> HIDE DEF q
<1>4. BodyInv(d, q)
  BY <1>2 DEF BodyInv
<1>5. DecisionInv(d, q)
  BY <1>2, Unfolded DEF DecisionInv, Handled
<1>6. LoopInv(q, task[d])
  BY <1>2, Unfolded DEF LoopInv
<1> QED BY <1>1, <1>2, <1>3, <1>4, <1>5, <1>6, Unfolded, Becomes DEF Kept

\* The body is read on.
LEMMA ReadRequestKeeps ==
  ASSUME WebhookInv, NEW d \in Deliveries, ReadRequest(d)
  PROVE  WebhookInv'
<1> DEFINE a == request[d].arrival
<1> DEFINE reader == request[d].reader
<1>1. /\ request[d] \in Requests /\ IsArrival(a) /\ options.maxBody \in Nat
      /\ request[d].stage = "reading" /\ CanRead(reader) /\ reader.state = "reading"
      /\ BodyInv(d, request[d])
  BY Unfolded DEF ReadRequest, CanRead
<1>2. ~a.used /\ Faithful(reader, Body(d, a), options.maxBody, a.signal # "none")
  BY <1>1 DEF BodyInv
<1>3. reader \in ReadersOf(Octets) /\ Body(d, a) \in Bodies(Octets)
  BY <1>1, BodyFacts DEF Requests
<1>4. /\ Read(reader, options.maxBody) \in ReadersOf(Octets)
      /\ Faithful(Read(reader, options.maxBody), Body(d, a), options.maxBody, a.signal # "none")
  BY <1>1, <1>2, <1>3, ReadFaithful
<1>5. request' = [request EXCEPT ![d].reader = Read(reader, options.maxBody)]
  BY DEF ReadRequest
<1> QED BY <1>1, <1>2, <1>4, <1>5, ReaderKeeps DEF ReadRequest

\* The signal fires while the body is read.
LEMMA AbortRequestKeeps ==
  ASSUME WebhookInv, NEW d \in Deliveries, AbortRequest(d)
  PROVE  WebhookInv'
<1> DEFINE a == request[d].arrival
<1> DEFINE reader == request[d].reader
<1>1. /\ request[d] \in Requests /\ request[d].stage = "reading" /\ reader.state = "reading"
      /\ a.signal # "none" /\ BodyInv(d, request[d])
  BY Unfolded DEF AbortRequest
<1>2. ~a.used /\ Faithful(reader, Body(d, a), options.maxBody, a.signal # "none")
  BY <1>1 DEF BodyInv
<1>3. reader \in ReadersOf(Octets)
  BY <1>1 DEF Requests
<1>4. /\ Cancel(reader) \in ReadersOf(Octets)
      /\ Faithful(Cancel(reader), Body(d, a), options.maxBody, a.signal # "none")
  BY <1>1, <1>2, <1>3, CancelFaithful
<1>5. request' = [request EXCEPT ![d].reader = Cancel(reader)]
  BY DEF AbortRequest
<1> QED BY <1>1, <1>2, <1>4, <1>5, ReaderKeeps DEF AbortRequest

\* An error of the checks has a status of its own.
LEMMA CheckFails ==
  ASSUME NEW o, NEW signed, NEW bytes
  PROVE  Check(o, signed, bytes) # None => StatusOf(Check(o, signed, bytes)) \in Errors
BY DEF Check, StatusOf, Errors, None, BadRequest, InvalidSignature

\* The body is read: the request is refused, or dispatched.
LEMMA VerifyKeeps ==
  ASSUME WebhookInv, NEW d \in Deliveries, Verify(d)
  PROVE  WebhookInv'
<1> DEFINE r == request[d]
<1> DEFINE a == r.arrival
<1> DEFINE whole == IF HasBody(a.method) THEN Carried(d, a) ELSE <<>>
<1> DEFINE error == Check(options, Signed(d, a), r.reader.got)
<1> DEFINE type == Decoded(d, r.reader.got)
<1>1. /\ r \in Requests /\ task[d] \in Tasks /\ r.stage = "reading" /\ r.reader.state # "reading"
      /\ IsArrival(a) /\ a \in Arrivals /\ BodyInv(d, r) /\ LoopInv(r, task[d]) /\ DecisionInv(d, r)
      /\ options.maxBody \in Nat /\ UNCHANGED <<options, payload, handlers, task>>
      /\ request' = [request EXCEPT ![d] = Verified(d, r)]
  BY Unfolded DEF Verify, Requests
<1>2. /\ r.reader.state \in ReaderStates /\ r.type = Undefined /\ r.ran = <<>> /\ ~r.failed
      /\ r.status = 0 /\ r.failed \in BOOLEAN
  BY <1>1 DEF Requests, ReadersOf, LoopInv, DecisionInv
<1>3. ASSUME NEW status \in Errors, Verified(d, r) = Answered(r, status),
             Genuine(d, a) /\ Len(Bytes(d)) <= options.maxBody => Interrupted(a)
      PROVE  WebhookInv'
  BY <1>1, <1>2, <1>3, RefusedKeeps
<1>4. ~a.used => /\ r.reader.state = "complete" => r.reader.got = whole
                 /\ r.reader.state = "tooLarge" => Len(whole) > options.maxBody
                 /\ r.reader.state = "aborted" => a.signal # "none"
                 /\ r.reader.state = "broken" => ~a.parts /\ a.tail = "error"
  BY <1>1, BodyFacts DEF BodyInv, Faithful
<1>5. a.used => r.reader.state = "broken"
  BY <1>1 DEF BodyInv
<1>6. TooLarge \in Errors /\ Other \in Errors /\ BadRequest \in Errors
  BY DEF Errors
<1>7. CASE r.reader.state = "tooLarge"
  <2>1. Verified(d, r) = Answered(r, TooLarge)
    BY <1>7 DEF Verified
  <2>2. Len(Bytes(d)) = 2 /\ Len(Carried(d, a)) = a.length /\ Len(<<>>) = 0
    BY <1>1, CarriedFacts
  <2>3. Len(whole) > options.maxBody
    BY <1>4, <1>5, <1>7
  <2>4. ~(Genuine(d, a) /\ Len(Bytes(d)) <= options.maxBody)
    <3> DEFINE max == options.maxBody
    <3> DEFINE size == Len(whole)
    <3>1. max \in Nat /\ size > max
      BY <1>1, <2>3
    <3>2. ASSUME Genuine(d, a) PROVE size = 2 \/ size = 0
      <4>1. a.length = 2
        BY <2>2, <3>2 DEF Genuine
      <4> QED BY <2>2, <4>1
    <3> HIDE DEF max, size
    <3>3. ASSUME Genuine(d, a), Len(Bytes(d)) <= max PROVE FALSE
      <4>1. 2 <= max
        BY <2>2, <3>3
      <4> QED BY ONLY <3>1, <3>2, <3>3, <4>1
    <3> QED BY <3>3 DEF max
  <2> QED BY <1>3, <1>6, <2>1, <2>4
<1>8. CASE r.reader.state \in {"aborted", "broken"}
  <2>1. Verified(d, r) = Answered(r, Other)
    BY <1>8 DEF Verified
  <2>2. Interrupted(a)
    BY <1>1, <1>4, <1>5, <1>8 DEF Interrupted, IsArrival
  <2> QED BY <1>3, <1>6, <2>1, <2>2
<1>9. CASE r.reader.state = "complete"
  <2>1. ~a.used /\ r.reader.got = whole
    BY <1>4, <1>5, <1>9
  <2>2. (error = None /\ type # Undefined) <=> Genuine(d, a)
    BY <1>1, <2>1, ChecksAreExact DEF WebhookInv
  <2>3. CASE error # None
    <3>1. Verified(d, r) = Answered(r, StatusOf(error))
      BY <1>9, <2>3 DEF Verified
    <3>2. StatusOf(error) \in Errors
      BY <2>3, CheckFails
    <3> QED BY <1>3, <2>2, <2>3, <3>1, <3>2
  <2>4. CASE error = None /\ type = Undefined
    <3>1. Verified(d, r) = Answered(r, BadRequest)
      BY <1>9, <2>4 DEF Verified
    <3> QED BY <1>3, <1>6, <2>2, <2>4, <3>1
  <2>5. CASE error = None /\ type # Undefined
    <3> DEFINE q == [r EXCEPT !.stage = "dispatching", !.type = type, !.next = 1,
                              !.expected = handlers[type], !.added = <<>>]
    <3>1. Verified(d, r) = q
      BY <1>9, <2>5 DEF Verified
    <3>2. type = Decode(payload[d]) /\ type \in EventTypes
      BY <2>5 DEF Decoded, Decode, EventTypes, Undefined
    <3>3. handlers[type] \in Seq(Listeners)
      BY <3>2 DEF WebhookInv, Typed
    <3> HIDE DEF error, type, whole
    <3>4. /\ q \in Requests /\ q.stage = "dispatching" /\ q.type = type /\ q.next = 1
          /\ Due(q) = handlers[type] /\ q.arrival = a /\ q.ran = <<>> /\ ~q.failed
          /\ q.status = 0
      <4>1. r \in Requests /\ r.ran = <<>> /\ ~r.failed /\ r.status = 0
        BY <1>1, <1>2
      <4>2. q \in Requests
        <5>1. \A u \in Requests : \A ty \in EventTypes : \A e, f \in Seq(Listeners) :
                [u EXCEPT !.stage = "dispatching", !.type = ty, !.next = 1, !.expected = e,
                          !.added = f] \in Requests
          BY ONLY DEF Requests
        <5>2. <<>> \in Seq(Listeners)
          OBVIOUS
        <5> HIDE DEF r
        <5> QED BY ONLY <4>1, <3>2, <3>3, <5>1, <5>2
      <4>3. /\ q.stage = "dispatching" /\ q.type = type /\ q.next = 1 /\ q.expected = handlers[type]
            /\ q.added = <<>> /\ q.arrival = a /\ q.ran = <<>>
        BY ONLY <4>1 DEF Requests
      <4>4. ~q.failed /\ q.status = 0
        BY ONLY <4>1 DEF Requests
      <4>5. Due(q) = handlers[type]
        <5>1. \A s \in Seq(Listeners) : s \o <<>> = s
          OBVIOUS
        <5> QED BY ONLY <3>3, <4>3, <5>1 DEF Due
      <4> QED BY <4>2, <4>3, <4>4, <4>5
    <3> HIDE DEF q
    <3>5. BodyInv(d, q)
      BY <3>4 DEF BodyInv
    <3>6. DecisionInv(d, q)
      BY <2>2, <2>5, <3>2, <3>4 DEF DecisionInv, Handled
    <3>7. LoopInv(q, task[d])
      <4>1. task[d].step = "none"
        BY <1>1 DEF LoopInv
      <4>2. IsPrefix(<<>>, handlers[type])
        BY <3>3, PrefixFacts, WebhookAssumption
      <4>3. Len(<<>>) = 0
        OBVIOUS
      <4> QED BY <2>5, <3>4, <4>1, <4>2, <4>3 DEF LoopInv
    <3>8. Kept(d, q, task[d]) /\ task' = [task EXCEPT ![d] = task[d]]
      BY <1>1, <3>5, <3>6, <3>7, Unfolded DEF Kept, WebhookInv, Typed
    <3>9. request' = [request EXCEPT ![d] = q]
      BY <1>1, <3>1
    <3> QED BY <1>1, <3>4, <3>8, <3>9, Becomes
  <2> QED BY <2>3, <2>4, <2>5
<1> QED BY <1>1, <1>2, <1>7, <1>8, <1>9 DEF ReaderStates

\* The next listener is called, or all have run and the request is acknowledged.
LEMMA DispatchKeeps ==
  ASSUME WebhookInv, NEW d \in Deliveries, Dispatch(d)
  PROVE  WebhookInv'
<1> DEFINE r == request[d]
<1> DEFINE registered == handlers[r.type]
<1>1. /\ r \in Requests /\ task[d] \in Tasks /\ r.stage = "dispatching"
      /\ LoopInv(r, task[d]) /\ DecisionInv(d, r)
      /\ UNCHANGED <<options, payload, handlers>>
  BY Unfolded DEF Dispatch
<1>2. /\ r.type \in EventTypes /\ r.next = Len(r.ran) + 1 /\ r.ran \in Seq(Listeners)
      /\ registered \in Seq(Listeners) /\ registered = Due(r) /\ IsPrefix(r.ran, registered)
      /\ Genuine(d, r.arrival) /\ r.type = Decode(payload[d]) /\ r.type # Undefined
      /\ r.status = 0 /\ ~r.failed /\ task[d].step = "none"
  BY <1>1 DEF Requests, LoopInv, DecisionInv, Handled, WebhookInv, Typed
<1>3. CASE r.next <= Len(registered)
  <2> DEFINE q == [r EXCEPT !.stage = "listening"]
  <2> DEFINE t == [NoTask EXCEPT !.step = "called", !.listener = registered[r.next]]
  <2>1. request' = [request EXCEPT ![d] = q] /\ task' = [task EXCEPT ![d] = t]
    BY <1>3 DEF Dispatch
  <2>2. registered[r.next] \in Listeners
    BY <1>2, <1>3
  <2>3. t \in Tasks /\ t.step = "called" /\ t.listener = registered[r.next]
    BY <2>2, FreshTyped DEF Tasks
  <2>4. /\ q \in Requests /\ q.stage = "listening" /\ q.type = r.type /\ q.next = r.next
        /\ q.arrival = r.arrival /\ q.ran = r.ran /\ Due(q) = Due(r)
        /\ ~q.failed /\ q.status = 0
    BY <1>1, <1>2 DEF Requests, Due
  <2> HIDE DEF q, t
  <2>5. BodyInv(d, q) /\ DownloadInv(d, t) /\ TaughtInv(d, t)
    BY <2>3, <2>4 DEF BodyInv, DownloadInv, TaughtInv
  <2>6. DecisionInv(d, q)
    BY <1>2, <2>4 DEF DecisionInv, Handled
  <2>7. LoopInv(q, t)
    BY <1>2, <1>3, <2>3, <2>4 DEF LoopInv
  <2>8. Kept(d, q, t)
    BY <2>5, <2>6, <2>7 DEF Kept
  <2> QED BY <1>1, <2>1, <2>3, <2>4, <2>8, Becomes
<1>4. CASE ~(r.next <= Len(registered))
  <2> DEFINE q == Answered(r, StatusOf(None))
  <2>1. request' = [request EXCEPT ![d] = q] /\ task' = [task EXCEPT ![d] = task[d]]
    BY <1>1, <1>4 DEF Dispatch, WebhookInv, Typed
  <2>2. /\ q \in Requests /\ q.stage = "answered" /\ q.type = r.type /\ q.status = 204
        /\ q.arrival = r.arrival /\ q.ran = r.ran /\ Due(q) = Due(r) /\ ~q.failed
    <3>1. q = [r EXCEPT !.stage = "answered", !.status = 204]
      BY DEF Answered, StatusOf, None
    <3>2. r \in Requests /\ ~r.failed
      BY <1>1, <1>2
    <3> HIDE DEF r, q
    <3> QED BY ONLY <3>1, <3>2 DEF Requests, Due
  <2> HIDE DEF q
  <2>3. BodyInv(d, q)
    BY <2>2 DEF BodyInv
  <2>4. DecisionInv(d, q)
    BY <1>2, <2>2 DEF DecisionInv, Handled
  <2>5. r.ran = registered
    <3>1. Len(r.ran) >= Len(registered)
      BY <1>2, <1>4
    <3> QED BY <1>2, <3>1, PrefixFacts, WebhookAssumption
  <2>6. LoopInv(q, task[d])
    BY <1>2, <2>2, <2>5 DEF LoopInv
  <2>7. Kept(d, q, task[d])
    BY <2>3, <2>4, <2>6, Unfolded DEF Kept
  <2> QED BY <1>1, <2>1, <2>2, <2>7, Becomes
<1> QED BY <1>3, <1>4

\* The sender tries again.
LEMMA RepeatKeeps ==
  ASSUME WebhookInv, NEW d \in Deliveries, Repeat(d)
  PROVE  WebhookInv'
<1>1. task[d] \in Tasks /\ task[d].step = "none" /\ task' = [task EXCEPT ![d] = task[d]]
  BY Unfolded DEF Repeat, LoopInv, WebhookInv, Typed
<1>2. /\ Idle.stage = "idle" /\ Idle.ran = <<>> /\ ~Idle.failed /\ Idle.status = 0
      /\ Idle.type = Undefined
  BY DEF Idle
<1>3. BodyInv(d, Idle) /\ DecisionInv(d, Idle) /\ LoopInv(Idle, task[d])
  BY <1>1, <1>2 DEF BodyInv, DecisionInv, Handled, LoopInv
<1>4. Kept(d, Idle, task[d])
  BY <1>3, Unfolded DEF Kept
<1> QED BY <1>1, <1>4, FreshTyped, Becomes DEF Repeat

\* A listener is added at the end, to what is registered and to what a loop under
\* way is due: what ran is a prefix still.
LEMMA OnKeeps ==
  ASSUME WebhookInv, NEW listener \in Listeners, On(listener)
  PROVE  WebhookInv'
<1> DEFINE type == listener.type
<1> DEFINE noted(d) == /\ request[d].stage \in {"dispatching", "listening"}
                       /\ request[d].type = type
<1>1. /\ type \in EventTypes /\ UNCHANGED <<options, payload, task>>
      /\ handlers' = [handlers EXCEPT ![type] = Append(@, listener)]
      /\ handlers \in [EventTypes -> Seq(Listeners)]
      /\ request' = [d \in Deliveries |-> IF noted(d)
                       THEN [request[d] EXCEPT !.added = Append(@, listener)] ELSE request[d]]
  BY WebhookAssumption DEF On, WebhookInv, Typed
<1>2. ASSUME NEW d \in Deliveries
      PROVE  request'[d] \in Requests /\ Kept(d, request[d], task[d])'
  <2> DEFINE r == request[d]
  <2> DEFINE q == request'[d]
  <2>1. r \in Requests /\ LoopInv(r, task[d]) /\ task'[d] = task[d]
    BY <1>1, Unfolded
  <2>2. /\ q \in Requests /\ q.stage = r.stage /\ q.arrival = r.arrival /\ q.reader = r.reader
        /\ q.type = r.type /\ q.next = r.next /\ q.status = r.status /\ q.ran = r.ran
        /\ q.failed = r.failed /\ q.expected = r.expected
        /\ q.added = IF noted(d) THEN Append(r.added, listener) ELSE r.added
    <3>1. q = IF noted(d) THEN [r EXCEPT !.added = Append(@, listener)] ELSE r
      BY <1>1
    <3>2. Append(r.added, listener) \in Seq(Listeners)
      BY <2>1 DEF Requests
    <3> HIDE DEF q, r, noted
    <3> QED BY ONLY <2>1, <3>1, <3>2 DEF Requests
  <2>3. BodyInv(d, request[d])' /\ DecisionInv(d, request[d])'
    <3>1. BodyInv(d, r) /\ DecisionInv(d, r)
      BY Unfolded
    <3> HIDE DEF r, q, noted
    <3>2. BodyInv(d, q) /\ DecisionInv(d, q)
      BY <2>2, <3>1 DEF BodyInv, DecisionInv, Handled
    <3>3. BodyInv(d, request'[d]) /\ DecisionInv(d, request'[d])
      BY <3>2 DEF q
    <3>4. options' = options /\ payload' = payload
      BY <1>1
    <3> QED BY ONLY <3>3, <3>4 DEF BodyInv, DecisionInv, Genuine
  <2>4. DownloadInv(d, task[d])' /\ TaughtInv(d, task[d])'
    BY <1>1, Unfolded DEF DownloadInv, DownloadLimit, TaughtInv
  <2>5. CASE ~noted(d)
    <3>1. q = r
      BY <1>1, <2>5
    <3>2. r.stage \in {"dispatching", "listening"} => handlers'[r.type] = handlers[r.type]
      <4>1. r.stage \in {"dispatching", "listening"} => r.type \in EventTypes /\ r.type # type
        BY <2>1, <2>5 DEF LoopInv, Requests
      <4> QED BY <1>1, <4>1
    <3>3. LoopInv(request[d], task[d])'
      BY <2>1, <3>1, <3>2 DEF LoopInv
    <3> QED BY <2>2, <2>3, <2>4, <3>3 DEF Kept
  <2>6. CASE noted(d)
    <3> DEFINE old == handlers[type]
    <3> DEFINE new == handlers'[type]
    <3>1. /\ old \in Seq(Listeners) /\ new = Append(old, listener) /\ old = Due(r)
          /\ r.ran \in Seq(Listeners) /\ r.next \in Nat /\ r.next = Len(r.ran) + 1
          /\ IsPrefix(r.ran, old) /\ r.type = type /\ type # Undefined
      BY <1>1, <2>1, <2>6 DEF LoopInv, Requests
    <3>2. /\ Len(old) <= Len(new) /\ Len(new) \in Nat /\ Len(old) \in Nat
          /\ \A k \in 1..Len(old) : new[k] = old[k]
      BY <3>1
    <3>3. Due(q) = new
      <4>1. \A s, t \in Seq(Listeners) : s \o Append(t, listener) = Append(s \o t, listener)
        OBVIOUS
      <4>2. r.expected \in Seq(Listeners) /\ r.added \in Seq(Listeners)
        BY <2>1 DEF Requests
      <4>3. q.expected = r.expected /\ q.added = Append(r.added, listener)
        BY <2>2, <2>6
      <4>4. Due(q) = Append(Due(r), listener)
        BY ONLY <4>1, <4>2, <4>3 DEF Due
      <4> QED BY <3>1, <4>4
    <3>4. IsPrefix(r.ran, new)
      BY <3>1, PrefixFacts
    <3>5. r.failed => Len(r.ran) < Len(new)
      <4>1. r.failed => Len(r.ran) < Len(old)
        BY <2>1, <3>1 DEF LoopInv
      <4>2. Len(r.ran) \in Nat
        BY <3>1
      <4> HIDE DEF old, new
      <4> QED BY <3>2, <4>1, <4>2
    <3>6. r.stage = "listening" => r.next <= Len(new) /\ task[d].listener = new[r.next]
      <4>1. r.stage = "listening" => r.next <= Len(old) /\ task[d].listener = old[r.next]
        BY <2>1, <3>1 DEF LoopInv
      <4>2. Len(r.ran) \in Nat
        BY <3>1
      <4>3. r.next \in 1..Len(old) => new[r.next] = old[r.next]
        BY <3>2
      <4>4. r.next >= 1
        BY <3>1, <4>2
      <4> HIDE DEF old, new
      <4> QED BY <3>1, <3>2, <4>1, <4>3, <4>4
    <3>7. r.status # 204 /\ ((task[d].step = "none") <=> (r.stage # "listening"))
      <4>1. DecisionInv(d, r) /\ r.stage # "answered"
        BY <2>6, Unfolded
      <4> QED BY <2>1, <4>1 DEF DecisionInv, LoopInv
    <3>8. LoopInv(request[d], task[d])'
      <4>1. /\ q.stage = r.stage /\ q.type = type /\ q.next = r.next /\ q.status = r.status
            /\ q.ran = r.ran /\ q.failed = r.failed /\ task'[d] = task[d]
            /\ r.stage \in {"dispatching", "listening"}
        BY <2>1, <2>2, <2>6
      <4> HIDE DEF r, old, noted
      <4> QED BY <3>1, <3>3, <3>4, <3>5, <3>6, <3>7, <4>1 DEF LoopInv
    <3> QED BY <2>2, <2>3, <2>4, <3>8 DEF Kept
  <2> QED BY <2>2, <2>5, <2>6
<1>3. Typed'
  <2>1. request' \in [Deliveries -> Requests]
    <3>1. request' = [d \in Deliveries |-> request'[d]]
      BY <1>1
    <3> QED BY <1>2, <3>1
  <2> QED BY <1>1, <2>1 DEF WebhookInv, Typed
<1> QED BY <1>2, <1>3 DEF WebhookInv
-----------------------------------------------------------------------------
(* Listeners                                                                *)

\* A request whose listener is at work was found genuine, and the loop is at it.
LEMMA AtWork ==
  ASSUME WebhookInv, NEW d \in Deliveries, request[d].stage = "listening"
  PROVE  LET r == request[d]  registered == handlers[r.type] IN
         /\ r \in Requests /\ task[d] \in Tasks /\ task[d].step # "none"
         /\ r.type \in EventTypes /\ r.type # Undefined /\ r.type = Decode(payload[d])
         /\ Genuine(d, r.arrival) /\ r.status = 0 /\ ~r.failed
         /\ registered \in Seq(Listeners) /\ r.ran \in Seq(Listeners)
         /\ registered = Due(r) /\ IsPrefix(r.ran, registered)
         /\ r.next = Len(r.ran) + 1 /\ Len(r.ran) < Len(registered)
         /\ task[d].listener = registered[Len(r.ran) + 1]
<1> DEFINE r == request[d]
<1> DEFINE registered == handlers[r.type]
<1>1. /\ r \in Requests /\ task[d] \in Tasks /\ LoopInv(r, task[d]) /\ DecisionInv(d, r)
  BY Unfolded
<1>2. /\ task[d].step # "none" /\ r.type # Undefined /\ r.type = Decode(payload[d])
      /\ Genuine(d, r.arrival) /\ r.status = 0 /\ ~r.failed
      /\ registered = Due(r) /\ IsPrefix(r.ran, registered)
      /\ r.next = Len(r.ran) + 1 /\ r.next <= Len(registered)
      /\ task[d].listener = registered[r.next]
  BY <1>1 DEF LoopInv, DecisionInv, Handled
<1>3. r.type \in EventTypes /\ r.ran \in Seq(Listeners)
  BY <1>1, <1>2 DEF Requests
<1>4. registered \in Seq(Listeners)
  BY <1>3 DEF WebhookInv, Typed
<1>5. Len(r.ran) < Len(registered)
  BY <1>2, <1>3, <1>4
<1> QED BY <1>1, <1>2, <1>3, <1>4, <1>5

\* The listener resolves: one more has run.
LEMMA ResolveKeeps ==
  ASSUME WebhookInv, NEW d \in Deliveries, request[d].stage = "listening", Resolve(d)
  PROVE  WebhookInv'
<1> DEFINE r == request[d]
<1> DEFINE registered == handlers[r.type]
<1> DEFINE ran == Append(r.ran, task[d].listener)
<1> DEFINE q == [r EXCEPT !.stage = "dispatching", !.next = @ + 1, !.ran = ran]
<1>1. /\ r \in Requests /\ r.type # Undefined /\ r.type = Decode(payload[d])
      /\ Genuine(d, r.arrival) /\ r.status = 0 /\ ~r.failed /\ r.next = Len(r.ran) + 1
      /\ registered = Due(r)
  BY AtWork
<1>2. ran \in Seq(Listeners) /\ Len(ran) = Len(r.ran) + 1 /\ Len(r.ran) \in Nat
  <2>1. r.ran \in Seq(Listeners) /\ task[d].listener \in Listeners
    BY AtWork DEF Tasks
  <2> QED BY <2>1, Appended
<1>3. IsPrefix(ran, registered)
  <2>1. /\ r.ran \in Seq(Listeners) /\ registered \in Seq(Listeners) /\ task[d].listener \in Listeners
        /\ IsPrefix(r.ran, registered) /\ Len(r.ran) < Len(registered)
        /\ task[d].listener = registered[Len(r.ran) + 1]
    BY AtWork DEF Tasks
  <2>2. IsPrefix(Append(r.ran, registered[Len(r.ran) + 1]), registered)
    BY <2>1, PrefixFacts
  <2> QED BY <2>1, <2>2
<1>4. request' = [request EXCEPT ![d] = q] /\ task' = [task EXCEPT ![d] = NoTask]
      /\ UNCHANGED <<options, payload, handlers>>
  BY DEF Resolve
<1> HIDE DEF ran
<1>5. q \in Requests
  <2>1. \A u \in Requests : \A s \in Seq(Listeners) : \A n \in Nat :
          [u EXCEPT !.stage = "dispatching", !.next = n, !.ran = s] \in Requests
    BY ONLY DEF Requests
  <2>2. r.next + 1 \in Nat
    BY <1>1, <1>2
  <2> QED BY <1>1, <1>2, <2>1, <2>2
<1>6. /\ q.stage = "dispatching" /\ q.type = r.type /\ q.next = r.next + 1 /\ q.ran = ran
      /\ q.arrival = r.arrival /\ Due(q) = Due(r) /\ ~q.failed /\ q.status = 0
  BY ONLY <1>1 DEF Requests, Due
<1>7. NoTask \in Tasks /\ NoTask.step = "none"
  BY FreshTyped DEF NoTask
<1> HIDE DEF q
<1>8. BodyInv(d, q) /\ DownloadInv(d, NoTask) /\ TaughtInv(d, NoTask)
  BY <1>6, <1>7 DEF BodyInv, DownloadInv, TaughtInv
<1>9. DecisionInv(d, q)
  BY <1>1, <1>6 DEF DecisionInv, Handled
<1>10. LoopInv(q, NoTask)
  BY <1>1, <1>2, <1>3, <1>6, <1>7 DEF LoopInv
<1> QED BY <1>4, <1>5, <1>7, <1>8, <1>9, <1>10, Becomes DEF Kept

\* The listener fails: the request is answered with its error.
LEMMA ThrowKeeps ==
  ASSUME WebhookInv, NEW d \in Deliveries, request[d].stage = "listening",
         NEW error \in {TooLarge, Other}, Throw(d, error)
  PROVE  WebhookInv'
<1> DEFINE r == request[d]
<1> DEFINE q == [r EXCEPT !.stage = "answered", !.status = error, !.failed = TRUE]
<1>1. /\ r \in Requests /\ r.type # Undefined /\ r.type = Decode(payload[d])
      /\ Genuine(d, r.arrival) /\ Len(r.ran) < Len(handlers[r.type])
      /\ handlers[r.type] = Due(r) /\ IsPrefix(r.ran, handlers[r.type])
  BY AtWork
<1>2. request' = [request EXCEPT ![d] = q] /\ task' = [task EXCEPT ![d] = NoTask]
      /\ UNCHANGED <<options, payload, handlers>>
  <2>1. StatusOf(error) = error
    BY DEF StatusOf, None, TooLarge, Other
  <2> QED BY <2>1 DEF Throw, Answered
<1>3. error # 204
  BY DEF TooLarge, Other
<1>4. /\ q \in Requests /\ q.stage = "answered" /\ q.type = r.type /\ q.status = error
      /\ q.arrival = r.arrival /\ q.ran = r.ran /\ Due(q) = Due(r) /\ q.failed
  BY ONLY <1>1, error \in {TooLarge, Other} DEF Requests, Due
<1>5. NoTask \in Tasks /\ NoTask.step = "none"
  BY FreshTyped DEF NoTask
<1> HIDE DEF q
<1>6. BodyInv(d, q) /\ DownloadInv(d, NoTask) /\ TaughtInv(d, NoTask)
  BY <1>4, <1>5 DEF BodyInv, DownloadInv, TaughtInv
<1>7. DecisionInv(d, q)
  BY <1>1, <1>4 DEF DecisionInv, Handled
<1>8. LoopInv(q, NoTask)
  BY <1>1, <1>3, <1>4, <1>5 DEF LoopInv
<1> QED BY <1>2, <1>4, <1>5, <1>6, <1>7, <1>8, Becomes DEF Kept

\* The listener goes on: its request and its listener stay what they are.
LEMMA StepKeeps ==
  ASSUME WebhookInv, NEW d \in Deliveries, request[d].stage = "listening",
         NEW t \in Tasks, t.step # "none", t.listener = task[d].listener,
         DownloadInv(d, t), TaughtInv(d, t), Step(d, t)
  PROVE  WebhookInv'
<1> DEFINE r == request[d]
<1>1. /\ r \in Requests /\ BodyInv(d, r) /\ DecisionInv(d, r) /\ LoopInv(r, task[d])
      /\ task[d].step # "none"
  BY Unfolded, AtWork
<1>2. LoopInv(r, t)
  BY <1>1 DEF LoopInv
<1>3. Kept(d, r, t)
  BY <1>1, <1>2 DEF Kept
<1>4. /\ request' = [request EXCEPT ![d] = r] /\ task' = [task EXCEPT ![d] = t]
      /\ UNCHANGED <<options, payload, handlers>>
  BY DEF Step, WebhookInv, Typed
<1> QED BY <1>1, <1>3, <1>4, Becomes

\* A listener of the application's own resolves or fails.
LEMMA RunPlainKeeps ==
  ASSUME WebhookInv, NEW d \in Deliveries, RunPlain(d)
  PROVE  WebhookInv'
BY ResolveKeeps, ThrowKeeps DEF RunPlain, Does

\* fetchRawEmail() begins.
LEMMA StartFetchKeeps ==
  ASSUME WebhookInv, NEW d \in Deliveries, StartFetch(d)
  PROVE  WebhookInv'
<1>1. request[d].stage = "listening" /\ task[d] \in Tasks
  BY Unfolded DEF StartFetch, Does
<1>2. CASE Throw(d, Other)
  BY <1>1, <1>2, ThrowKeeps
<1>3. CASE Step(d, [task[d] EXCEPT !.step = "fetching"])
  <2> DEFINE t == [task[d] EXCEPT !.step = "fetching"]
  <2>1. t \in Tasks /\ t.step = "fetching" /\ t.listener = task[d].listener
    BY <1>1 DEF Tasks
  <2> HIDE DEF t
  <2>2. DownloadInv(d, t) /\ TaughtInv(d, t)
    BY <2>1 DEF DownloadInv, TaughtInv
  <2>3. Step(d, t)
    BY <1>3 DEF t
  <2> QED BY <1>1, <2>1, <2>2, <2>3, StepKeeps
<1> QED BY <1>2, <1>3 DEF StartFetch

\* The response to fetchRawEmail() begins, or there is none.
LEMMA FetchRespondsKeeps ==
  ASSUME WebhookInv, NEW d \in Deliveries, FetchResponds(d)
  PROVE  WebhookInv'
<1>1. request[d].stage = "listening" /\ task[d] \in Tasks /\ DownloadLimit(d) \in Nat
  BY Unfolded DEF FetchResponds, Does
<1>2. CASE Throw(d, Other)
  BY <1>1, <1>2, ThrowKeeps
<1>3. ASSUME NEW body \in Downloads,
             Step(d, [task[d] EXCEPT !.step = "downloading", !.source = body,
                                     !.reader = Open(body, FALSE)])
      PROVE  WebhookInv'
  <2> DEFINE t == [task[d] EXCEPT !.step = "downloading", !.source = body,
                                  !.reader = Open(body, FALSE)]
  <2>1. body \in Bodies(Nat) /\ (body.tail = "null" => body.chunks = <<>>)
    <3>1. IsBody(body)
      BY WebhookAssumption
    <3> QED BY <3>1 DEF IsBody, Bodies, Stream, NoStream
  <2>2. Open(body, FALSE) \in ReadersOf(Nat)
    BY <2>1, ReaderTyped, "reading" \in ReaderStates DEF ReaderStates
  <2>3. Faithful(Open(body, FALSE), body, DownloadLimit(d), task[d].listener.signal # "none")
    BY <1>1, <2>1, OpenFaithful
  <2>4. /\ t \in Tasks /\ t.step = "downloading" /\ t.listener = task[d].listener
        /\ t.source = body /\ t.reader = Open(body, FALSE)
    BY <1>1, <2>1, <2>2 DEF Tasks
  <2> HIDE DEF t
  <2>5. DownloadInv(d, t) /\ TaughtInv(d, t)
    BY <2>3, <2>4 DEF DownloadInv, TaughtInv
  <2>6. Step(d, t)
    BY <1>3 DEF t
  <2> QED BY <1>1, <2>4, <2>5, <2>6, StepKeeps
<1> QED BY <1>2, <1>3 DEF FetchResponds

\* A step that only replaces the reader of a download by one that is faithful too.
LEMMA DownloadKeeps ==
  ASSUME WebhookInv, NEW d \in Deliveries, Does(d, "downloading"),
         NEW reader \in ReadersOf(Nat),
         Faithful(reader, task[d].source, DownloadLimit(d), task[d].listener.signal # "none"),
         Step(d, [task[d] EXCEPT !.reader = reader])
  PROVE  WebhookInv'
<1> DEFINE t == [task[d] EXCEPT !.reader = reader]
<1>1. request[d].stage = "listening" /\ task[d] \in Tasks /\ task[d].step = "downloading"
  BY Unfolded DEF Does
<1>2. /\ t \in Tasks /\ t.step = "downloading" /\ t.listener = task[d].listener
      /\ t.source = task[d].source /\ t.reader = reader
  BY <1>1 DEF Tasks
<1>3. Step(d, t)
  OBVIOUS
<1> HIDE DEF t
<1>4. DownloadInv(d, t) /\ TaughtInv(d, t)
  BY <1>2 DEF DownloadInv, TaughtInv
<1> QED BY <1>1, <1>2, <1>3, <1>4, StepKeeps

\* The signal of the download fires.
LEMMA AbortFetchKeeps ==
  ASSUME WebhookInv, NEW d \in Deliveries, AbortFetch(d)
  PROVE  WebhookInv'
<1>1. CASE Does(d, "fetching") /\ Throw(d, Other)
  BY <1>1, ThrowKeeps DEF Does
<1>2. CASE /\ Does(d, "downloading") /\ task[d].reader.state = "reading"
           /\ Step(d, [task[d] EXCEPT !.reader = Cancel(@)])
  <2> DEFINE reader == task[d].reader
  <2>1. /\ reader \in ReadersOf(Nat) /\ task[d].listener.signal # "none"
        /\ Faithful(reader, task[d].source, DownloadLimit(d), task[d].listener.signal # "none")
    BY <1>2, Unfolded DEF Tasks, Does, DownloadInv, AbortFetch
  <2>2. /\ Cancel(reader) \in ReadersOf(Nat)
        /\ Faithful(Cancel(reader), task[d].source, DownloadLimit(d),
                    task[d].listener.signal # "none")
    BY <1>2, <2>1, CancelFaithful
  <2> QED BY <1>2, <2>2, DownloadKeeps
<1> QED BY <1>1, <1>2 DEF AbortFetch


\* The download goes on, or ends; what is taught of it is the message.
LEMMA DownloadStepKeeps ==
  ASSUME WebhookInv, NEW d \in Deliveries, Download(d)
  PROVE  WebhookInv'
<1> DEFINE reader == task[d].reader
<1>1. /\ request[d].stage = "listening" /\ Does(d, "downloading") /\ task[d] \in Tasks
      /\ DownloadLimit(d) \in Nat /\ reader \in ReadersOf(Nat) /\ task[d].source \in Bodies(Nat)
      /\ Faithful(reader, task[d].source, DownloadLimit(d), task[d].listener.signal # "none")
  BY Unfolded DEF Download, Does, DownloadInv, Tasks
<1>2. CASE CanRead(reader) /\ Step(d, [task[d] EXCEPT !.reader = Read(@, DownloadLimit(d))])
  <2>1. /\ Read(reader, DownloadLimit(d)) \in ReadersOf(Nat)
        /\ Faithful(Read(reader, DownloadLimit(d)), task[d].source, DownloadLimit(d),
                    task[d].listener.signal # "none")
    BY <1>1, <1>2, ReadFaithful
  <2> QED BY <1>1, <1>2, <2>1, DownloadKeeps
<1>3. CASE Throw(d, Other) \/ Throw(d, TooLarge)
  BY <1>1, <1>3, ThrowKeeps
<1>4. CASE Resolve(d)
  BY <1>1, <1>4, ResolveKeeps
<1>5. CASE /\ reader.state = "complete" /\ Sound(d, reader.got)
           /\ Step(d, [task[d] EXCEPT !.step = "requesting", !.bytes = reader.got])
  <2> DEFINE t == [task[d] EXCEPT !.step = "requesting", !.bytes = reader.got]
  <2>1. reader.got \in Seq(Nat)
    BY <1>1 DEF ReadersOf
  <2>2. /\ t \in Tasks /\ t.step = "requesting" /\ t.listener = task[d].listener
        /\ t.source = task[d].source /\ t.bytes = reader.got
    BY <1>1, <2>1 DEF Tasks
  <2>3. Step(d, t)
    BY <1>5
  <2>4. /\ reader.got = FlattenSeq(task[d].source.chunks)
        /\ task[d].source.tail \in {"end", "null"}
    BY <1>1, <1>5 DEF Faithful
  <2>5. payload[d].raw.digest \in {<<>>, Message}
    BY WebhookAssumption DEF WebhookInv, Typed
  <2> HIDE DEF t
  <2>6. TaughtInv(d, t)
    BY <1>5, <2>2, <2>4, <2>5 DEF TaughtInv, Sound
  <2>7. DownloadInv(d, t)
    BY <2>2 DEF DownloadInv
  <2> QED BY <1>1, <2>2, <2>3, <2>6, <2>7, StepKeeps
<1> QED BY <1>2, <1>3, <1>4, <1>5 DEF Download, Learn

\* unsubscribe() has nothing to download.
LEMMA StartUnsubscribeKeeps ==
  ASSUME WebhookInv, NEW d \in Deliveries, StartUnsubscribe(d)
  PROVE  WebhookInv'
<1> DEFINE t == [task[d] EXCEPT !.step = "requesting"]
<1>1. request[d].stage = "listening" /\ task[d] \in Tasks /\ task[d].listener.runs = "unsubscribe"
  BY Unfolded DEF StartUnsubscribe, Does
<1>2. t \in Tasks /\ t.step = "requesting" /\ t.listener = task[d].listener
  BY <1>1 DEF Tasks
<1>3. Step(d, t)
  BY DEF StartUnsubscribe
<1> HIDE DEF t
<1>4. DownloadInv(d, t) /\ TaughtInv(d, t)
  BY <1>1, <1>2 DEF DownloadInv, TaughtInv
<1> QED BY <1>1, <1>2, <1>3, <1>4, StepKeeps

\* The feedback service responds, or does not.
LEMMA FeedbackRespondsKeeps ==
  ASSUME WebhookInv, NEW d \in Deliveries, FeedbackResponds(d)
  PROVE  WebhookInv'
<1>1. /\ request[d].stage = "listening" /\ task[d].step = "requesting" /\ task[d] \in Tasks
      /\ TaughtInv(d, task[d])
  BY Unfolded DEF FeedbackResponds, Does
<1>2. CASE Throw(d, Other)
  BY <1>1, <1>2, ThrowKeeps
<1>3. CASE Resolve(d)
  BY <1>1, <1>3, ResolveKeeps
<1>4. ASSUME NEW response \in Responses,
             Step(d, [task[d] EXCEPT !.step = "responding", !.ok = response.ok,
                                     !.reader = Open(response.body, FALSE)])
      PROVE  WebhookInv'
  <2> DEFINE t == [task[d] EXCEPT !.step = "responding", !.ok = response.ok,
                                  !.reader = Open(response.body, FALSE)]
  <2>1. IsBody(response.body) /\ response.ok \in BOOLEAN
    BY WebhookAssumption
  <2>2. response.body \in Bodies(Nat)
    BY <2>1 DEF IsBody, Bodies, Stream
  <2>3. Open(response.body, FALSE) \in ReadersOf(Nat)
    BY <2>2, ReaderTyped, "reading" \in ReaderStates DEF ReaderStates
  <2>4. /\ t \in Tasks /\ t.step = "responding" /\ t.listener = task[d].listener
        /\ t.source = task[d].source /\ t.bytes = task[d].bytes
    BY <1>1, <2>1, <2>3 DEF Tasks
  <2>5. Step(d, t)
    BY <1>4
  <2> HIDE DEF t
  <2>6. DownloadInv(d, t) /\ TaughtInv(d, t)
    BY <1>1, <2>4 DEF DownloadInv, TaughtInv
  <2> QED BY <1>1, <2>4, <2>5, <2>6, StepKeeps
<1> QED BY <1>2, <1>3, <1>4 DEF FeedbackResponds

\* The feedback request is given up.
LEMMA FeedbackAbortsKeeps ==
  ASSUME WebhookInv, NEW d \in Deliveries, FeedbackAborts(d)
  PROVE  WebhookInv'
BY ThrowKeeps DEF FeedbackAborts, Does

\* The result of learn(), or the reason of a refusal, is read.
LEMMA FeedbackBodyKeeps ==
  ASSUME WebhookInv, NEW d \in Deliveries, FeedbackBody(d)
  PROVE  WebhookInv'
<1>1. /\ request[d].stage = "listening" /\ task[d].step = "responding" /\ task[d] \in Tasks
      /\ TaughtInv(d, task[d])
  BY Unfolded DEF FeedbackBody, Does
<1>2. CASE Throw(d, Other)
  BY <1>1, <1>2, ThrowKeeps
<1>3. CASE Resolve(d)
  BY <1>1, <1>3, ResolveKeeps
<1>4. CASE Step(d, [task[d] EXCEPT !.reader = Read(@, MaxResult)])
  <2> DEFINE t == [task[d] EXCEPT !.reader = Read(@, MaxResult)]
  <2>1. task[d].reader \in ReadersOf(Nat) /\ MaxResult \in Nat
    BY <1>1, WebhookAssumption DEF Tasks
  <2>2. Read(task[d].reader, MaxResult) \in ReadersOf(Nat)
    BY <2>1, ReadTyped
  <2>3. /\ t \in Tasks /\ t.step = "responding" /\ t.listener = task[d].listener
        /\ t.source = task[d].source /\ t.bytes = task[d].bytes
    BY <1>1, <2>2 DEF Tasks
  <2>4. Step(d, t)
    BY <1>4
  <2> HIDE DEF t
  <2>5. DownloadInv(d, t) /\ TaughtInv(d, t)
    BY <1>1, <2>3 DEF DownloadInv, TaughtInv
  <2> QED BY <1>1, <2>3, <2>4, <2>5, StepKeeps
<1> QED BY <1>2, <1>3, <1>4 DEF FeedbackBody
-----------------------------------------------------------------------------
(* The invariant, and what it carries                                       *)

\* It holds at first.
LEMMA WebhookInvInit == Init => WebhookInv
<1> SUFFICES ASSUME Init PROVE WebhookInv
  OBVIOUS
<1>1. Typed
  <2>1. handlers \in [EventTypes -> Seq(Listeners)]
    BY DEF Init
  <2> QED BY <2>1, FreshTyped DEF Init, Typed
<1>2. ASSUME NEW d \in Deliveries PROVE Kept(d, request[d], task[d])
  <2>1. request[d] = Idle /\ task[d] = NoTask
    BY DEF Init
  <2>2. /\ Idle.stage = "idle" /\ Idle.ran = <<>> /\ ~Idle.failed /\ Idle.status = 0
        /\ Idle.type = Undefined /\ NoTask.step = "none"
    BY DEF Idle, NoTask
  <2>3. BodyInv(d, Idle) /\ DecisionInv(d, Idle) /\ LoopInv(Idle, NoTask)
    BY <2>2 DEF BodyInv, DecisionInv, Handled, LoopInv
  <2>4. DownloadInv(d, NoTask) /\ TaughtInv(d, NoTask)
    BY <2>2 DEF DownloadInv, TaughtInv
  <2> QED BY <2>1, <2>3, <2>4 DEF Kept
<1> QED BY <1>1, <1>2 DEF WebhookInv

\* Every step keeps it.
LEMMA WebhookInvNext == WebhookInv /\ [Next]_vars => WebhookInv'
<1> SUFFICES ASSUME WebhookInv, [Next]_vars PROVE WebhookInv'
  OBVIOUS
<1>1. CASE UNCHANGED vars
  <2>1. Typed'
    BY <1>1 DEF WebhookInv, Typed, vars
  <2>2. ASSUME NEW d \in Deliveries PROVE Kept(d, request[d], task[d])'
    <3>1. /\ BodyInv(d, request[d])' /\ DecisionInv(d, request[d])'
          /\ LoopInv(request[d], task[d])'
      BY <1>1, Unfolded DEF vars, BodyInv, DecisionInv, Genuine, LoopInv
    <3>2. DownloadInv(d, task[d])' /\ TaughtInv(d, task[d])'
      BY <1>1, Unfolded DEF vars, DownloadInv, DownloadLimit, TaughtInv
    <3> QED BY <3>1, <3>2 DEF Kept
  <2> QED BY <2>1, <2>2 DEF WebhookInv
<1>2. CASE Terminated
  BY <1>1, <1>2 DEF Terminated
<1>3. ASSUME NEW listener \in Listeners, On(listener) PROVE WebhookInv'
  BY <1>3, OnKeeps
<1>4. ASSUME NEW d \in Deliveries,
             Handle(d) \/ ReadRequest(d) \/ Verify(d) \/ AbortRequest(d) \/ Dispatch(d) \/ Repeat(d)
      PROVE  WebhookInv'
  BY <1>4, HandleKeeps, ReadRequestKeeps, VerifyKeeps, AbortRequestKeeps, DispatchKeeps, RepeatKeeps
<1>5. ASSUME NEW d \in Deliveries,
             RunPlain(d) \/ StartFetch(d) \/ FetchResponds(d) \/ AbortFetch(d) \/ Download(d)
      PROVE  WebhookInv'
  BY <1>5, RunPlainKeeps, StartFetchKeeps, FetchRespondsKeeps, AbortFetchKeeps, DownloadStepKeeps
<1>6. ASSUME NEW d \in Deliveries,
             StartUnsubscribe(d) \/ FeedbackResponds(d) \/ FeedbackAborts(d) \/ FeedbackBody(d)
      PROVE  WebhookInv'
  BY <1>6, StartUnsubscribeKeeps, FeedbackRespondsKeeps, FeedbackAbortsKeeps, FeedbackBodyKeeps
<1> QED BY <1>1, <1>2, <1>3, <1>4, <1>5, <1>6 DEF Next

\* The receiver's invariant: types, what was read of every body, what was
\* decided of every request, the place of every loop, what was downloaded.
THEOREM ReceiverInvariant == Spec => []WebhookInv
BY WebhookInvInit, WebhookInvNext, PTL DEF Spec

\* Every variable has its type.
THEOREM TypeCorrect == Spec => []TypeOK
<1>1. WebhookInv => TypeOK
  <2> SUFFICES ASSUME WebhookInv PROVE TypeOK
    OBVIOUS
  <2>1. ASSUME NEW d \in Deliveries
        PROVE  /\ request[d].stage \in {"idle", "reading", "dispatching", "listening", "answered"}
               /\ request[d].arrival \in Arrivals
               /\ {request[d].reader.state, task[d].reader.state} \subseteq ReaderStates
               /\ request[d].type \in EventTypes \cup {Undefined}
               /\ request[d].status \in {0, 204, BadRequest, InvalidSignature, TooLarge, Other}
               /\ task[d].step
                    \in {"none", "called", "fetching", "downloading", "requesting", "responding"}
               /\ task[d].listener \in Listeners
               /\ (task[d].step = "none") <=> (request[d].stage # "listening")
    BY Unfolded DEF Requests, Tasks, ReadersOf, LoopInv
  <2> QED BY <2>1 DEF WebhookInv, Typed, TypeOK
<1> QED BY <1>1, ReceiverInvariant, PTL

\* A listener sees an event only of a genuine request, and a genuine request
\* within the limit that nobody interrupts is refused only by a listener: for
\* any keys, any arrivals in any chunks, and any number of repetitions.
THEOREM OnlyGenuine == Spec => []OnlyGenuineIsHandled
<1>1. WebhookInv => OnlyGenuineIsHandled
  BY Unfolded DEF OnlyGenuineIsHandled, DecisionInv, Handled
<1> QED BY <1>1, ReceiverInvariant, PTL

\* A request is acknowledged only when every listener of its event, those that
\* were registered at its dispatch and those added since, has resolved, in
\* order; one that failed leaves it to be repeated.
THEOREM AcknowledgedIsHandled == Spec => []AcknowledgedMeansHandled
<1>1. WebhookInv => AcknowledgedMeansHandled
  <2> SUFFICES ASSUME WebhookInv, NEW d \in Deliveries
               PROVE  LET r == request[d] IN
                      /\ r.status = 204 => ~r.failed /\ r.ran = Due(r)
                      /\ r.failed => IsPrefix(r.ran, Due(r)) /\ r.ran # Due(r)
    BY DEF AcknowledgedMeansHandled
  <2>1. LoopInv(request[d], task[d]) /\ request[d] \in Requests
    BY Unfolded
  <2>2. request[d].ran \in Seq(Listeners)
    BY <2>1 DEF Requests
  <2>3. request[d].failed => request[d].ran # Due(request[d])
    <3>1. Len(request[d].ran) \in Nat
      BY <2>2
    <3> QED BY <2>1, <3>1 DEF LoopInv
  <2> QED BY <2>1, <2>3 DEF LoopInv
<1> QED BY <1>1, ReceiverInvariant, PTL

\* What a listener teaches is one whole response, and the message itself where
\* the payload says its digest.
THEOREM TaughtWhole == Spec => []TaughtIsTheMessage
<1>1. WebhookInv => TaughtIsTheMessage
  BY Unfolded DEF TaughtIsTheMessage, TaughtInv
<1> QED BY <1>1, ReceiverInvariant, PTL
=============================================================================
