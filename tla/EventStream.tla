----------------------------- MODULE EventStream -----------------------------
(***************************************************************************)
(* The notification tier as the SDK uses it (notify/connection.ts): one    *)
(* durable JetStream consumer, whose events several pulls share.  An event *)
(* handed to a pull and not answered in time is handed out again, an       *)
(* answer may be lost on its way.  JetStream and its client library are    *)
(* external to the repository.                                             *)
(***************************************************************************)
CONSTANTS Events, Readers, NoEvent

ASSUME StreamAssumption == NoEvent \notin Events

VARIABLES stream,  \* what the tier knows of each event
          pull,    \* each reader's pull: "none", "on", "stopped" or "lost"
          buffer,  \* the event a pull holds for its reader, or NoEvent
          lost     \* the durable consumer was deleted

streamVars == <<stream, pull, buffer, lost>>

Unanswered == {"ready", "pending"}

StreamInit ==
  /\ stream = [e \in Events |-> "ready"]
  /\ pull = [r \in Readers |-> "none"]
  /\ buffer = [r \in Readers |-> NoEvent]
  /\ lost = FALSE

\* A pull asks for one event at a time.
Deliver(r, e) ==
  /\ pull[r] = "on" /\ buffer[r] = NoEvent /\ stream[e] = "ready"
  /\ stream' = [stream EXCEPT ![e] = "pending"]
  /\ buffer' = [buffer EXCEPT ![r] = e]
  /\ UNCHANGED <<pull, lost>>

\* The acknowledgement timeout: the event is handed out again.
Expire(e) ==
  /\ stream[e] = "pending"
  /\ stream' = [stream EXCEPT ![e] = "ready"]
  /\ UNCHANGED <<pull, buffer, lost>>

\* ack, nak and term publish an answer and do not wait for it to arrive; on a
\* closed connection they throw instead.
Answer(e, how) ==
  \/ stream[e] \in Unanswered /\ stream' = [stream EXCEPT ![e] = how]
  \/ UNCHANGED stream

\* ConsumerMessages.stop(): ends the iteration, once what is buffered was read.
Stopped(p) == IF p = "on" THEN "stopped" ELSE p
Stop(r) == pull' = [pull EXCEPT ![r] = Stopped(@)]
StopAll == pull' = [r \in Readers |-> Stopped(pull[r])]

\* The iterations of a deleted consumer end, with the reason.
Lose ==
  /\ ~lost /\ lost' = TRUE
  /\ pull' = [r \in Readers |-> IF pull[r] = "on" THEN "lost" ELSE pull[r]]
  /\ UNCHANGED <<stream, buffer>>

StreamTypeOK ==
  /\ stream \in [Events -> Unanswered \cup {"acked", "termed"}]
  /\ pull \in [Readers -> {"none", "on", "stopped", "lost"}]
  /\ buffer \in [Readers -> Events \cup {NoEvent}]
  /\ lost \in BOOLEAN
=============================================================================
