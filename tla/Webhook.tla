------------------------------- MODULE Webhook -------------------------------
(***************************************************************************)
(* The webhook receiver at work: a WebhookHandler (webhook/handler.ts)     *)
(* that answers deliveries, each of which its sender repeats until it is   *)
(* acknowledged, and listeners that use the library in turn: they download *)
(* the raw message (fetchRawEmail(), webhook/raw.ts), teach it to the      *)
(* feedback service or unsubscribe (feedback/client.ts).  Requests run     *)
(* concurrently and share the listeners registered with on().              *)
(***************************************************************************)
EXTENDS WebhookVerifier, BoundedBody, SequencesExt

CONSTANTS Deliveries,     \* what the sender has to deliver
          Options,        \* options given to the constructor
          Payloads,       \* the payloads delivered
          Arrivals,       \* how a request may arrive
          Listeners,      \* what may be registered, with its type and program
          Downloads,      \* how a response to fetchRawEmail() may arrive
          Responses,      \* how a response of the feedback service may arrive
          Message,        \* the bytes of the raw message
          MaxRaw,         \* MAX_RAW_EMAIL_BYTES
          MaxResult       \* MAX_RESULT_BODY and MAX_ERROR_BODY

\* The constructor of the feedback client a listener uses returns.
ClientConstructs(client) ==
  /\ client.baseUrl # Empty
  /\ (client.username = Empty) <=> (client.secret = Empty)
  /\ client.timeout > 0

\* A body of a response: numbers for bytes, and none for one without a stream.
IsBody(body) ==
  /\ body.chunks \in Seq(Seq(Nat)) /\ body.tail \in Tails
  /\ body = Stream(body.chunks, body.tail) /\ (body.tail = "null" => body = NoStream)

\* What may arrive: a signal is not for separate fields, and only a body that
\* there is can have been used.
IsArrival(a) ==
  /\ a.length \in 0..3 /\ a.tail \in {"end", "error", "silent"}
  /\ {a.parts, a.used, a.split} \subseteq BOOLEAN
  /\ a.signal \in {"none", "live", "fired"} /\ (a.parts => a.signal = "none")
  /\ a.used => ~a.parts /\ HasBody(a.method)
  /\ a.stamp.form \in {"missing", "text", "number"} /\ a.stamp.age \in Int
  /\ a.form \in {"missing", "algorithm", "malformed", "ok"}

ASSUME WebhookAssumption ==
  /\ Message \in Seq(Nat) /\ {MaxRaw, MaxResult} \subseteq Nat /\ MaxRaw >= Len(Message)
  /\ \A o \in Options :
       /\ {o.tolerance, o.maxBody} \subseteq Int
       /\ \A kid \in DOMAIN o.keys : o.keys[kid] # Undefined
  /\ \A p \in Payloads : p.raw.size \in Nat /\ p.raw.digest \in {<<>>, Message}
  /\ Arrivals # {} /\ \A a \in Arrivals : IsArrival(a)
  /\ \A body \in Downloads : IsBody(body)
  /\ \A response \in Responses : response.ok \in BOOLEAN /\ IsBody(response.body)
  /\ Listeners # {}
  /\ \A listener \in Listeners :
       /\ listener.type \in EventTypes
       /\ listener.runs \in {"plain", "fetch", "teach", "unsubscribe"}
       /\ listener.signal \in {"none", "live", "fired"}
       /\ ClientConstructs(listener.client)

VARIABLES options,    \* the options the handler was constructed with
          payload,    \* what each delivery carries
          handlers,   \* handlers: the listeners of each type, in order
          request,    \* the request of each delivery that is being answered
          task        \* what its current listener is doing

vars == <<options, payload, handlers, request, task>>

\* The bytes of a payload, told apart from those of any other delivery.
Bytes(d) == <<<<d, 1>>, <<d, 2>>>>

\* The arrival of a request and the listener of a task mean nothing before there
\* is one.
Idle == [stage |-> "idle", arrival |-> CHOOSE a \in Arrivals : TRUE, reader |-> Reader(NoStream, "complete"),
         type |-> Undefined, next |-> 0, status |-> 0, expected |-> <<>>, added |-> <<>>,
         ran |-> <<>>, failed |-> FALSE]
NoTask == [step |-> "none", listener |-> CHOOSE l \in Listeners : TRUE, reader |-> Reader(NoStream, "complete"),
           source |-> NoStream, ok |-> FALSE, bytes |-> <<>>]

Init ==
  /\ options \in {o \in Options : Constructs(o)}
  /\ payload \in [Deliveries -> Payloads]
  /\ handlers = [type \in EventTypes |-> <<>>]
  /\ request = [d \in Deliveries |-> Idle]
  /\ task = [d \in Deliveries |-> NoTask]

\* on(): at any time, from a listener too.  For the properties, a request whose
\* loop over the listeners is under way notes it.
On(listener) ==
  /\ ~Contains(handlers[listener.type], listener)
  /\ handlers' = [handlers EXCEPT ![listener.type] = Append(@, listener)]
  /\ request' = [d \in Deliveries |->
       IF request[d].stage \in {"dispatching", "listening"} /\ request[d].type = listener.type
       THEN [request[d] EXCEPT !.added = Append(@, listener)] ELSE request[d]]
  /\ UNCHANGED <<options, payload, task>>
-----------------------------------------------------------------------------
(* Requests                                                                 *)

Answered(r, status) == [r EXCEPT !.stage = "answered", !.status = status]

\* The method of the request that is verified.
MethodOf(a) == IF a.parts THEN Method(a.method) ELSE a.method

\* What the sender signs, and what of it arrives.
Signed(d, a) ==
  [id |-> a.id, stamp |-> a.stamp, kid |-> a.kid, url |-> a.url, method |-> MethodOf(a),
   signature |-> [form |-> a.form,
                  mac |-> Mac(a.secret, a.stamp, a.id, "POST", "public", Bytes(d))]]

\* What arrives of the body: fewer bytes than were sent, or more.
Carried(d, a) == SubSeq(Append(Bytes(d), <<d, 3>>), 1, a.length)

\* The body in one chunk, or byte by byte; as fields, all there already.
Body(d, a) ==
  LET bytes == Carried(d, a) IN
  CASE ~HasBody(a.method) -> NoStream
    [] HasBody(a.method) /\ a.parts -> Stream(<<bytes>>, "end")
    [] OTHER -> Stream(IF a.split THEN [k \in DOMAIN bytes |-> <<bytes[k]>>] ELSE <<bytes>>,
                       a.tail)

\* handle(): a delivery arrives, for the first time or again.  A request whose
\* body somebody has used cannot be cloned.
Handle(d) ==
  /\ request[d].stage = "idle"
  /\ \E a \in Arrivals :
       LET fresh == [Idle EXCEPT !.arrival = a] IN
       request' = [request EXCEPT ![d] =
         CASE a.parts /\ Len(Carried(d, a)) > options.maxBody -> Answered(fresh, TooLarge)
           [] /\ a.parts /\ Len(Carried(d, a)) <= options.maxBody /\ ~Converts(a)
              -> Answered(fresh, BadRequest)
           [] OTHER -> [fresh EXCEPT !.stage = "reading",
                                     !.reader = IF a.used THEN Reader(NoStream, "broken")
                                                ELSE Open(Body(d, a), a.signal = "fired")]]
  /\ UNCHANGED <<options, payload, handlers, task>>

\* What the bytes that were read decode to.
Decoded(d, bytes) == IF bytes = Bytes(d) THEN Decode(payload[d]) ELSE Undefined

\* verifyAndDecode() and dispatch(), once the body is read.
Verified(d, r) ==
  LET bytes == r.reader.got
      error == Check(options, Signed(d, r.arrival), bytes)
      type == Decoded(d, bytes) IN
  CASE r.reader.state = "tooLarge" -> Answered(r, TooLarge)
    [] r.reader.state \in {"aborted", "broken"} -> Answered(r, Other)
    [] r.reader.state = "complete" /\ error # None -> Answered(r, StatusOf(error))
    [] r.reader.state = "complete" /\ error = None /\ type = Undefined -> Answered(r, BadRequest)
    [] OTHER -> [r EXCEPT !.stage = "dispatching", !.type = type, !.next = 1,
                          !.expected = handlers[type], !.added = <<>>]

ReadRequest(d) ==
  /\ request[d].stage = "reading" /\ CanRead(request[d].reader)
  /\ request' = [request EXCEPT ![d].reader = Read(@, options.maxBody)]
  /\ UNCHANGED <<options, payload, handlers, task>>

Verify(d) ==
  /\ request[d].stage = "reading" /\ request[d].reader.state # "reading"
  /\ request' = [request EXCEPT ![d] = Verified(d, @)]
  /\ UNCHANGED <<options, payload, handlers, task>>

\* The caller's signal fires; it bounds the read of the body and nothing after.
AbortRequest(d) ==
  /\ request[d].stage = "reading" /\ request[d].arrival.signal = "live"
  /\ request[d].reader.state = "reading" /\ ~request[d].reader.cancelled
  /\ request' = [request EXCEPT ![d].reader = Cancel(@)]
  /\ UNCHANGED <<options, payload, handlers, task>>

\* Fault: the loop is over a copy of the listeners, taken when it began.
DispatchSnapshot(d) ==
  LET r == request[d] IN
  /\ r.stage = "dispatching"
  /\ IF r.next <= Len(r.expected)
     THEN /\ task' = [task EXCEPT ![d] =
                        [NoTask EXCEPT !.step = "called", !.listener = r.expected[r.next]]]
          /\ request' = [request EXCEPT ![d].stage = "listening"]
     ELSE /\ request' = [request EXCEPT ![d] = Answered(@, StatusOf(None))]
          /\ UNCHANGED task
  /\ UNCHANGED <<options, payload, handlers>>

\* One turn of the loop in dispatch(), over the listeners as they are now.
Dispatch(d) ==
  LET r == request[d] IN
  /\ r.stage = "dispatching"
  /\ IF r.next <= Len(handlers[r.type])
     THEN /\ task' = [task EXCEPT ![d] =
                        [NoTask EXCEPT !.step = "called", !.listener = handlers[r.type][r.next]]]
          /\ request' = [request EXCEPT ![d].stage = "listening"]
     ELSE /\ request' = [request EXCEPT ![d] = Answered(@, StatusOf(None))]
          /\ UNCHANGED task
  /\ UNCHANGED <<options, payload, handlers>>

\* The sender gives a delivery up once it is acknowledged, and repeats it otherwise.
Repeat(d) ==
  /\ request[d].stage = "answered" /\ request[d].status # 204
  /\ request' = [request EXCEPT ![d] = Idle]
  /\ UNCHANGED <<options, payload, handlers, task>>
-----------------------------------------------------------------------------
(* Listeners                                                                *)

Does(d, step) == request[d].stage = "listening" /\ task[d].step = step

\* The promise of the listener settles: the next one is called, or process()
\* answers with the status of the error.
Resolve(d) ==
  /\ request' = [request EXCEPT ![d].stage = "dispatching", ![d].next = @ + 1,
                                ![d].ran = Append(@, task[d].listener)]
  /\ task' = [task EXCEPT ![d] = NoTask]
  /\ UNCHANGED <<options, payload, handlers>>

\* Fault: the work of a listener that failed is kept.
ThrowKeepsTask(d, error) ==
  /\ request' = [request EXCEPT ![d] = [Answered(@, StatusOf(error)) EXCEPT !.failed = TRUE]]
  /\ UNCHANGED <<options, payload, handlers, task>>

Throw(d, error) ==
  /\ request' = [request EXCEPT ![d] = [Answered(@, StatusOf(error)) EXCEPT !.failed = TRUE]]
  /\ task' = [task EXCEPT ![d] = NoTask]
  /\ UNCHANGED <<options, payload, handlers>>

Step(d, t) == task' = [task EXCEPT ![d] = t] /\ UNCHANGED <<options, payload, handlers, request>>

\* A listener of the application's own.
RunPlain(d) ==
  Does(d, "called") /\ task[d].listener.runs = "plain" /\ (Resolve(d) \/ Throw(d, Other))

\* fetchRawEmail(): a blank URL or token, or a signal that has fired.
StartFetch(d) ==
  /\ Does(d, "called") /\ task[d].listener.runs \in {"fetch", "teach"}
  /\ IF payload[d].raw.usable /\ task[d].listener.signal # "fired"
     THEN Step(d, [task[d] EXCEPT !.step = "fetching"])
     ELSE Throw(d, Other)

\* The response, or none.
FetchResponds(d) ==
  /\ Does(d, "fetching")
  /\ \/ \E body \in Downloads : Step(d, [task[d] EXCEPT !.step = "downloading", !.source = body,
                                                      !.reader = Open(body, FALSE)])
     \/ Throw(d, Other)

AbortFetch(d) ==
  /\ task[d].listener.signal = "live"
  /\ \/ Does(d, "fetching") /\ Throw(d, Other)
     \/ /\ Does(d, "downloading") /\ task[d].reader.state = "reading"
        /\ ~task[d].reader.cancelled
        /\ Step(d, [task[d] EXCEPT !.reader = Cancel(@)])

\* A declared size bounds the download, one byte above it.
DownloadLimit(d) == IF payload[d].raw.size > 0 THEN payload[d].raw.size + 1 ELSE MaxRaw

\* The checks of fetchRawEmail() on a complete body.
Sound(d, bytes) ==
  LET raw == payload[d].raw IN
  /\ raw.size > 0 => Len(bytes) = raw.size
  /\ raw.digest # <<>> => bytes = raw.digest

\* learn(): credentials, then the request.
Learn(d) ==
  IF task[d].listener.client.username # Empty
  THEN Step(d, [task[d] EXCEPT !.step = "requesting", !.bytes = task[d].reader.got])
  ELSE Throw(d, Other)

\* The download goes on, or ends: the listener is done, or teaches the message.
Download(d) ==
  LET t == task[d] IN
  /\ Does(d, "downloading")
  /\ \/ CanRead(t.reader) /\ Step(d, [t EXCEPT !.reader = Read(@, DownloadLimit(d))])
     \/ /\ t.reader.state = "complete" /\ Sound(d, t.reader.got)
        /\ IF t.listener.runs = "fetch" THEN Resolve(d) ELSE Learn(d)
     \/ t.reader.state = "complete" /\ ~Sound(d, t.reader.got) /\ Throw(d, Other)
     \/ t.reader.state = "tooLarge" /\ Throw(d, TooLarge)
     \/ t.reader.state \in {"aborted", "broken"} /\ Throw(d, Other)

\* unsubscribe() has nothing to download.
StartUnsubscribe(d) ==
  /\ Does(d, "called") /\ task[d].listener.runs = "unsubscribe"
  /\ Step(d, [task[d] EXCEPT !.step = "requesting"])

\* perform(): the response ends the timer and the listening to the signal.
FeedbackResponds(d) ==
  /\ Does(d, "requesting")
  /\ \/ \E response \in Responses :
          IF response.ok /\ task[d].listener.runs = "unsubscribe" THEN Resolve(d)
          ELSE Step(d, [task[d] EXCEPT !.step = "responding", !.ok = response.ok,
                                       !.reader = Open(response.body, FALSE)])
     \/ Throw(d, Other)

\* Fault: only a signal ends the request.
FeedbackAbortsBySignal(d) ==
  Does(d, "requesting") /\ task[d].listener.signal = "live" /\ Throw(d, Other)

\* The timer fires, or a signal that had not fired when perform() began.
FeedbackAborts(d) == Does(d, "requesting") /\ Throw(d, Other)

\* learn() reads its result, toError() what it can of the reason.
FeedbackBody(d) ==
  LET t == task[d] IN
  /\ Does(d, "responding")
  /\ \/ CanRead(t.reader) /\ Step(d, [t EXCEPT !.reader = Read(@, MaxResult)])
     \/ t.reader.state = "complete" /\ t.ok /\ (Resolve(d) \/ Throw(d, Other))
     \/ t.reader.state # "reading" /\ ~(t.reader.state = "complete" /\ t.ok) /\ Throw(d, Other)
-----------------------------------------------------------------------------
\* A feedback response whose body stays silent: the timer is cleared by then.
Unbounded(d) ==
  Does(d, "responding") /\ task[d].reader.state = "reading" /\ ~CanRead(task[d].reader)

\* Nothing is left to do.
Terminated ==
  /\ \A d \in Deliveries : request[d].status = 204 \/ Unbounded(d)
  /\ UNCHANGED vars

Next ==
  \/ Terminated
  \/ \E listener \in Listeners : On(listener)
  \/ \E d \in Deliveries :
       \/ Handle(d) \/ ReadRequest(d) \/ Verify(d) \/ AbortRequest(d) \/ Dispatch(d) \/ Repeat(d)
       \/ RunPlain(d) \/ StartFetch(d) \/ FetchResponds(d) \/ AbortFetch(d) \/ Download(d)
       \/ StartUnsubscribe(d) \/ FeedbackResponds(d) \/ FeedbackAborts(d) \/ FeedbackBody(d)

Spec == Init /\ [][Next]_vars

\* The event loop runs what is ready, reads settle, signals are deadlines that
\* fire, and timers fire.  Neither a download nor a feedback service need respond.
FairSpec ==
  /\ Spec
  /\ \A d \in Deliveries :
       /\ WF_vars(ReadRequest(d)) /\ WF_vars(Verify(d)) /\ WF_vars(AbortRequest(d))
       /\ WF_vars(Dispatch(d)) /\ WF_vars(RunPlain(d)) /\ WF_vars(StartFetch(d))
       /\ WF_vars(AbortFetch(d)) /\ WF_vars(Download(d)) /\ WF_vars(StartUnsubscribe(d))
       /\ WF_vars(FeedbackAborts(d)) /\ WF_vars(FeedbackBody(d))
-----------------------------------------------------------------------------
\* Every variable has its type.
TypeOK ==
  /\ options \in Options /\ payload \in [Deliveries -> Payloads]
  /\ handlers \in [EventTypes -> Seq(Listeners)]
  /\ \A d \in Deliveries :
       /\ request[d].stage \in {"idle", "reading", "dispatching", "listening", "answered"}
       /\ request[d].arrival \in Arrivals
       /\ {request[d].reader.state, task[d].reader.state} \subseteq ReaderStates
       /\ request[d].type \in EventTypes \cup {Undefined}
       /\ request[d].status \in {0, 204, BadRequest, InvalidSignature, TooLarge, Other}
       /\ task[d].step \in {"none", "called", "fetching", "downloading", "requesting", "responding"}
       /\ task[d].listener \in Listeners
       /\ (task[d].step = "none") <=> (request[d].stage # "listening")

\* What a request must be for its event to be handled: the sender's, whole, in
\* time, under a configured secret, and of a kind the library knows.
Genuine(d, a) ==
  /\ a.id # Empty /\ a.form = "ok" /\ a.stamp.form # "missing" /\ a.url = "public"
  /\ options.tolerance > 0 => /\ a.stamp.form = "number"
                             /\ a.stamp.age \in (0 - options.tolerance)..options.tolerance
  /\ IF DOMAIN options.keys = {} THEN a.secret = options.secret
     ELSE a.kid \in DOMAIN options.keys /\ a.secret = options.keys[a.kid]
  /\ a.length = Len(Bytes(d)) /\ MethodOf(a) = "POST"
  /\ Decode(payload[d]) # Undefined

\* A request that its own side cuts short.
Interrupted(a) == a.used \/ (~a.parts /\ (a.signal # "none" \/ a.tail = "error"))

\* A listener sees an event only of a genuine request (whatever is cut, altered,
\* stale or signed with another key on the way there), and a genuine request
\* that is within the limit and that nobody interrupts is refused only by a
\* listener.
OnlyGenuineIsHandled ==
  \A d \in Deliveries :
    LET r == request[d] IN
    /\ r.stage = "listening" \/ r.ran # <<>> \/ r.status = 204 \/ r.failed
       => Genuine(d, r.arrival) /\ r.type = Decode(payload[d])
    /\ /\ r.stage = "answered" /\ Genuine(d, r.arrival)
       /\ Len(Bytes(d)) <= options.maxBody /\ ~Interrupted(r.arrival)
       => r.status = 204 \/ r.failed

\* The listeners a request is due: those registered when its loop began, and those
\* registered before the loop found no more.
Due(r) == r.expected \o r.added

\* 204 tells the sender to stop: by then every listener that was registered when
\* the event was dispatched, and any registered while they ran, has resolved in
\* this attempt, in the order of registration; one that failed keeps those after
\* it from running, and leaves the delivery to be repeated.
AcknowledgedMeansHandled ==
  \A d \in Deliveries :
    LET r == request[d] IN
    /\ r.status = 204 => ~r.failed /\ r.ran = Due(r)
    /\ r.failed => IsPrefix(r.ran, Due(r)) /\ r.ran # Due(r)

\* What a listener teaches is the message: all of one response, never what a
\* signal left of it, and the message itself when the payload says its digest,
\* or its size and no byte was altered.
TaughtIsTheMessage ==
  \A d \in Deliveries :
    LET t == task[d]  raw == payload[d].raw IN
    t.step \in {"requesting", "responding"} /\ t.listener.runs = "teach" =>
      /\ raw.digest # <<>> => t.bytes = Message
      /\ raw.size > 0 => Len(t.bytes) = raw.size
      /\ t.source.tail \in {"end", "null"} /\ t.bytes = FlattenSeq(t.source.chunks)

\* Every request is answered, whatever the body, the download or the feedback
\* service does, a silent feedback body excepted: limits, signals and the
\* timer bound every wait, and the loop over the listeners ends.  Bodies and
\* downloads have no timer of their own, so whatever may stay silent must come
\* with a signal: it does in the instance.
EveryRequestIsAnswered ==
  \A d \in Deliveries :
    request[d].stage \in {"reading", "dispatching", "listening"}
      ~> request[d].stage = "answered" \/ Unbounded(d)

\* The doc of handle(): 500 when a listener throws.
ListenerFailureIs500 == \A d \in Deliveries : request[d].failed => request[d].status = 500
=============================================================================
