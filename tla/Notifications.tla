---------------------------- MODULE Notifications ----------------------------
(***************************************************************************)
(* The readers of one notification client: consume() calls, which answer   *)
(* for their handler (notify/client.ts), and iterators, whose caller       *)
(* answers each delivery (notify/iterator.ts), over one connection         *)
(* (notify/connection.ts).  Each await is a value of `pc`; the caller's    *)
(* signals, close() and the loss of the consumer come at any time.         *)
(***************************************************************************)
EXTENDS EventStream

CONSTANTS Loops,        \* the consume() calls
          Iterators,    \* the iterators events() returns
          Detached      \* callers take `ack`, `nak`, `term` out of the delivery

ASSUME NotificationsAssumption ==
  /\ Loops \cup Iterators = Readers /\ Loops \cap Iterators = {}
  /\ Detached \in BOOLEAN

VARIABLES undecodable, \* events whose body cannot be decoded
          onError,    \* an error handler is configured
          closed,     \* the client was closed
          aborted,    \* readers whose caller's signal has fired
          pc,         \* what each reader awaits
          outcome,    \* how consume() ended; what next() last returned
          event,      \* the event being handled; the event of the last delivery
          flags,      \* of an iterator: some of "startedClosed", "closed", "done"
          settled,    \* iterators whose last delivery is settled
          asked,      \* iterators whose caller has answered its last delivery
          quitters,   \* loops whose handler returned stopConsuming
          processed,  \* events a handler, or an iterator's caller, is done with
          discarded   \* events an iterator's caller has terminated

setup == <<undecodable, onError>>
readerVars == <<pc, outcome, event, flags, settled, asked, quitters, processed, discarded>>
vars == <<streamVars, setup, closed, aborted, readerVars>>

Stopping(r) == r \in aborted \/ closed

Init ==
  /\ StreamInit
  /\ undecodable \in SUBSET Events /\ onError \in BOOLEAN
  /\ closed = FALSE /\ aborted = {}
  /\ pc = [r \in Readers |-> "new"]
  /\ outcome = [r \in Readers |-> "none"]
  /\ event = [r \in Readers |-> NoEvent]
  /\ flags = [i \in Iterators |-> {}]
  /\ settled = {} /\ asked = {} /\ quitters = {}
  /\ processed = {} /\ discarded = {}

Goto(r, phase) == pc' = [pc EXCEPT ![r] = phase]
Return(r, phase, how) == Goto(r, phase) /\ outcome' = [outcome EXCEPT ![r] = how]

\* Where messages() leaves a pull that was to be stopped meanwhile, or not.
Opened(r) ==
  pull' = [pull EXCEPT ![r] = IF Stopping(r) THEN "stopped"
                              ELSE IF lost THEN "lost" ELSE "on"]

Taken(r) == buffer' = [buffer EXCEPT ![r] = NoEvent]
-----------------------------------------------------------------------------
(* consume() *)

\* The finally block stops the pull whichever way the call ends; what it still
\* holds is never read.
Finish(r, how) == Return(r, "finished", how) /\ Stop(r) /\ Taken(r)

\* The catch block: an error after a stop is the stop.
FinishError(r) == Finish(r, IF Stopping(r) THEN "resolved" ELSE "rejected")

Consume(r) ==
  /\ r \in Loops /\ pc[r] = "new"
  /\ IF closed THEN Return(r, "finished", "rejected")
     ELSE IF r \in aborted THEN Return(r, "finished", "resolved")
     ELSE Goto(r, "opening") /\ UNCHANGED outcome
  /\ UNCHANGED <<streamVars, setup, closed, aborted, event, flags, settled, asked,
                 quitters, processed, discarded>>

ConsumeOpened(r) ==
  /\ r \in Loops /\ pc[r] = "opening"
  /\ \/ Opened(r) /\ Goto(r, "pulling") /\ UNCHANGED <<outcome, buffer>>
     \/ FinishError(r)
  /\ UNCHANGED <<stream, lost, setup, closed, aborted, event, flags, settled, asked,
                 quitters, processed, discarded>>

\* Fault: an event that was buffered before the stop is handled after it.
ConsumeNextUnchecked(r) ==
  LET e == buffer[r] IN
  /\ r \in Loops /\ pc[r] = "pulling" /\ e # NoEvent
  /\ Taken(r)
  /\ Goto(r, "handling") /\ event' = [event EXCEPT ![r] = e]
  /\ UNCHANGED <<stream, pull, lost, setup, closed, aborted, outcome, flags, settled, asked,
                 quitters, processed, discarded>>

\* An event arrives: stop, terminate what cannot be decoded, or handle it.
ConsumeNext(r) ==
  LET e == buffer[r] IN
  /\ r \in Loops /\ pc[r] = "pulling" /\ e # NoEvent
  /\ Taken(r)
  /\ \/ /\ Stopping(r)
        /\ Finish(r, "resolved")
        /\ UNCHANGED <<stream, event>>
     \/ /\ ~Stopping(r) /\ e \in undecodable
        /\ Answer(e, "termed")
        /\ IF onError THEN UNCHANGED <<pc, outcome, pull>> ELSE FinishError(r)
        /\ UNCHANGED event
     \/ /\ ~Stopping(r) /\ e \notin undecodable
        /\ Goto(r, "handling") /\ event' = [event EXCEPT ![r] = e]
        /\ UNCHANGED <<stream, pull, outcome>>
  /\ UNCHANGED <<lost, setup, closed, aborted, flags, settled, asked, quitters, processed, discarded>>

\* The handler returns, perhaps with stopConsuming: acknowledge the event.
HandlerReturned(r) ==
  /\ r \in Loops /\ pc[r] = "handling"
  /\ processed' = processed \cup {event[r]}
  /\ Answer(event[r], "acked")
  /\ \/ Goto(r, "pulling") /\ UNCHANGED <<outcome, pull, buffer, quitters>>
     \/ Finish(r, "resolved") /\ quitters' = quitters \cup {r}
  /\ event' = [event EXCEPT ![r] = NoEvent]
  /\ UNCHANGED <<lost, setup, closed, aborted, flags, settled, asked, discarded>>

\* Faults: the event is acknowledged whatever the handler did; it is given a
\* state the tier does not know.
HandlerThrewGets(r, how) ==
  /\ r \in Loops /\ pc[r] = "handling"
  /\ Answer(event[r], how)
  /\ Goto(r, "pulling") /\ event' = [event EXCEPT ![r] = NoEvent]
  /\ UNCHANGED <<pull, buffer, lost, setup, closed, aborted, outcome, flags, settled,
                 asked, quitters, processed, discarded>>
HandlerThrewAcks(r) == HandlerThrewGets(r, "acked")
HandlerThrewDelays(r) == HandlerThrewGets(r, "delayed")

\* The handler throws: have the event redelivered.
HandlerThrew(r) ==
  /\ r \in Loops /\ pc[r] = "handling"
  /\ Answer(event[r], "ready")
  /\ Goto(r, "pulling") /\ event' = [event EXCEPT ![r] = NoEvent]
  /\ UNCHANGED <<pull, buffer, lost, setup, closed, aborted, outcome, flags, settled,
                 asked, quitters, processed, discarded>>

\* The iteration is over; await its closing result, an error if it was lost.
ConsumeExhausted(r) ==
  /\ r \in Loops /\ pc[r] = "pulling" /\ buffer[r] = NoEvent /\ pull[r] \in {"stopped", "lost"}
  /\ Goto(r, "ending")
  /\ UNCHANGED <<streamVars, setup, closed, aborted, outcome, event, flags, settled, asked,
                 quitters, processed, discarded>>

\* Fault: the closing result is not looked at.
ConsumeEndedQuietly(r) ==
  /\ r \in Loops /\ pc[r] = "ending" /\ Finish(r, "resolved")
  /\ UNCHANGED <<stream, lost, setup, closed, aborted, event, flags, settled, asked,
                 quitters, processed, discarded>>

ConsumeEnded(r) ==
  /\ r \in Loops /\ pc[r] = "ending"
  /\ IF pull[r] = "lost" THEN FinishError(r) ELSE Finish(r, "resolved")
  /\ UNCHANGED <<stream, lost, setup, closed, aborted, event, flags, settled, asked,
                 quitters, processed, discarded>>
-----------------------------------------------------------------------------
(* Iterators *)

Flag(i, f) == flags' = [flags EXCEPT ![i] = @ \cup {f}]
IsOver(i) == Stopping(i) \/ "closed" \in flags[i]

\* The catch block of next().
Catch(i) == Return(i, "idle", IF IsOver(i) THEN "stopped" ELSE "threw")

\* events(): remembers whether the client was closed already.
CreateIterator(i) ==
  /\ i \in Iterators /\ pc[i] = "new"
  /\ Goto(i, "idle")
  /\ IF closed THEN Flag(i, "startedClosed") ELSE UNCHANGED flags
  /\ UNCHANGED <<streamVars, setup, closed, aborted, outcome, event, settled, asked,
                 quitters, processed, discarded>>

\* next() up to its first await.
NextCalled(i) ==
  /\ i \in Iterators /\ pc[i] = "idle"
  /\ IF "startedClosed" \in flags[i] THEN Return(i, "idle", "threw") /\ UNCHANGED <<flags, pull>>
     ELSE IF flags[i] # {} \/ closed THEN Return(i, "idle", "stopped") /\ UNCHANGED <<flags, pull>>
     ELSE IF i \in aborted THEN Return(i, "idle", "stopped") /\ Flag(i, "closed") /\ Stop(i)
     ELSE /\ Goto(i, IF pull[i] = "none" THEN "opening" ELSE "pulling")
          /\ UNCHANGED <<outcome, flags, pull>>
  /\ UNCHANGED <<stream, buffer, lost, setup, closed, aborted, event, settled, asked,
                 quitters, processed, discarded>>

\* Fault: the pull is kept although the iterator was closed.
NextOpenedUnchecked(i) ==
  /\ i \in Iterators /\ pc[i] = "opening"
  /\ Opened(i) /\ Goto(i, "pulling")
  /\ UNCHANGED <<stream, buffer, lost, setup, closed, aborted, outcome, event, flags, settled,
                 asked, quitters, processed, discarded>>

\* open(): a pull that starts after close() is stopped here, for close() could
\* not reach it.
NextOpened(i) ==
  /\ i \in Iterators /\ pc[i] = "opening"
  /\ \/ /\ "closed" \in flags[i]
        /\ pull' = [pull EXCEPT ![i] = "stopped"]
        /\ Catch(i)
     \/ /\ "closed" \notin flags[i]
        /\ Opened(i) /\ Goto(i, "pulling") /\ UNCHANGED outcome
     \/ Catch(i) /\ UNCHANGED pull  \* messages() throws
  /\ UNCHANGED <<stream, buffer, lost, setup, closed, aborted, event, flags, settled, asked,
                 quitters, processed, discarded>>

\* An event arrives and becomes a delivery, or is terminated.
NextReceived(i) ==
  LET e == buffer[i] IN
  /\ i \in Iterators /\ pc[i] = "pulling" /\ e # NoEvent
  /\ Taken(i)
  /\ \/ /\ e \in undecodable
        /\ Answer(e, "termed")
        /\ IF onError THEN UNCHANGED <<pc, outcome, pull, flags>>
                      ELSE Flag(i, "done") /\ Stop(i) /\ Catch(i)
        /\ UNCHANGED <<event, settled, asked>>
     \/ /\ e \notin undecodable
        /\ event' = [event EXCEPT ![i] = e]
        /\ settled' = settled \ {i} /\ asked' = asked \ {i}
        /\ Return(i, "idle", "delivery")
        /\ UNCHANGED <<stream, pull, flags>>
  /\ UNCHANGED <<lost, setup, closed, aborted, quitters, processed, discarded>>

\* The iteration is over: stopped, or its closing result is awaited.
NextExhausted(i) ==
  /\ i \in Iterators /\ pc[i] = "pulling" /\ buffer[i] = NoEvent /\ pull[i] \in {"stopped", "lost"}
  /\ Flag(i, "done")
  /\ IF IsOver(i) THEN Return(i, "idle", "stopped") ELSE Goto(i, "ending") /\ UNCHANGED outcome
  /\ UNCHANGED <<streamVars, setup, closed, aborted, event, settled, asked,
                 quitters, processed, discarded>>

NextEnded(i) ==
  /\ i \in Iterators /\ pc[i] = "ending"
  /\ IF pull[i] = "lost" THEN Catch(i) ELSE Return(i, "idle", "stopped")
  /\ UNCHANGED <<streamVars, setup, closed, aborted, event, flags, settled, asked,
                 quitters, processed, discarded>>

\* close() and return().
CloseIterator(i) ==
  /\ i \in Iterators /\ pc[i] # "new" /\ "closed" \notin flags[i]
  /\ Flag(i, "closed") /\ Stop(i)
  /\ UNCHANGED <<stream, buffer, lost, setup, closed, aborted, pc, outcome, event, settled,
                 asked, quitters, processed, discarded>>

\* The caller answers the delivery.  The second answer throws, and so does any
\* answer by a method taken out of its object, before it does anything.
Settle(i, how) ==
  /\ i \in Iterators /\ event[i] # NoEvent
  /\ asked' = asked \cup {i}
  /\ IF Detached \/ i \in settled
     THEN UNCHANGED <<stream, settled, processed, discarded>>
     ELSE /\ settled' = settled \cup {i}
          /\ Answer(event[i], how)
          /\ processed' = IF how = "acked" THEN processed \cup {event[i]} ELSE processed
          /\ discarded' = IF how = "termed" THEN discarded \cup {event[i]} ELSE discarded
  /\ UNCHANGED <<pull, buffer, lost, setup, closed, aborted, pc, outcome, event, flags, quitters>>
-----------------------------------------------------------------------------
(* What comes from outside *)

\* Fault: the signal does not reach the pull.
AbortUnheard(r) ==
  /\ r \notin aborted /\ pc[r] # "finished"
  /\ aborted' = aborted \cup {r}
  /\ UNCHANGED <<streamVars, setup, closed, readerVars>>

\* The caller's signal: stops the pull when there is one.  A consume() that has
\* ended listens no more.
Abort(r) ==
  /\ r \notin aborted /\ pc[r] # "finished"
  /\ aborted' = aborted \cup {r} /\ Stop(r)
  /\ UNCHANGED <<stream, buffer, lost, setup, closed, readerVars>>

\* close() of the client: loops are told, and the connection ends every pull.
CloseClient ==
  /\ ~closed /\ closed' = TRUE
  /\ StopAll
  /\ UNCHANGED <<stream, buffer, lost, setup, aborted, readerVars>>

Tier ==
  /\ Lose \/ \E e \in Events : Expire(e) \/ \E r \in Readers : Deliver(r, e)
  /\ UNCHANGED <<setup, closed, aborted, readerVars>>

LoopStep(r) ==
  \/ ConsumeOpened(r) \/ ConsumeNext(r) \/ HandlerReturned(r) \/ HandlerThrew(r)
  \/ ConsumeExhausted(r) \/ ConsumeEnded(r)

NextStep(i) ==
  NextOpened(i) \/ NextReceived(i) \/ NextExhausted(i) \/ NextEnded(i)

Next ==
  \/ \E r \in Readers :
       \/ Consume(r) \/ LoopStep(r) \/ CreateIterator(r) \/ NextCalled(r) \/ NextStep(r)
       \/ CloseIterator(r) \/ Abort(r)
       \/ \E how \in {"acked", "ready", "termed"} : Settle(r, how)
  \/ CloseClient
  \/ Tier

\* Promises that are resolved run their continuations, opening a pull has a
\* timeout, and handlers return, at the latest when their signal is aborted.
Spec == Init /\ [][Next]_vars
FairSpec == Spec /\ \A r \in Readers : WF_vars(LoopStep(r)) /\ WF_vars(NextStep(r))
-----------------------------------------------------------------------------
\* Every variable has its type.
TypeOK ==
  /\ StreamTypeOK
  /\ undecodable \subseteq Events /\ {onError, closed} \subseteq BOOLEAN
  /\ {aborted, settled, asked, quitters} \subseteq SUBSET Readers
  /\ pc \in [Readers -> {"new", "opening", "pulling", "handling", "ending", "idle", "finished"}]
  /\ outcome \in [Readers -> {"none", "resolved", "rejected", "delivery", "stopped", "threw"}]
  /\ event \in [Readers -> Events \cup {NoEvent}]
  /\ flags \in [Iterators -> SUBSET {"startedClosed", "closed", "done"}]
  /\ processed \subseteq Events /\ discarded \subseteq Events

\* At least once: the tier forgets an event only when a handler, or a caller,
\* was done with it, gave it up, or nobody could decode it.
NoEventDropped ==
  \A e \in Events :
    /\ stream[e] = "acked" => e \in processed
    /\ stream[e] = "termed" => e \in discarded \cup undecodable

\* No pull outlives its reader: not a consume() that ended, nor an iterator
\* that was closed, aborted or is done and has no next() opening one.
NoOrphanPull ==
  \A r \in Readers :
    /\ pc[r] = "finished" => pull[r] # "on"
    /\ Stopping(r) => pull[r] # "on"
    /\ r \in Iterators /\ pc[r] # "opening" /\ flags[r] # {} => pull[r] # "on"

\* Once its signal has fired, or the client is closed, a loop begins to handle
\* no further event, whatever was buffered.
NothingHandledAfterStop ==
  [][\A r \in Loops : pc[r] # "handling" /\ pc'[r] = "handling" => ~Stopping(r)]_vars

\* Being stopped is no error, whatever fails because of it; and the loss of the
\* consumer is not mistaken for a stop: a reader ends quietly only if somebody
\* asked it to, or after it has reported an error.
StopIsNotLoss ==
  [][\A r \in Readers :
       /\ pc[r] # "new" /\ outcome'[r] = "rejected" /\ outcome[r] # "rejected" => ~Stopping(r)
       /\ pc[r] # "idle" /\ outcome'[r] = "threw" /\ outcome[r] # "threw" => ~IsOver(r)
       /\ outcome'[r] = "resolved" /\ outcome[r] # "resolved" => Stopping(r) \/ r \in quitters'
       /\ outcome'[r] = "stopped" /\ outcome[r] \in {"none", "delivery"} => IsOver(r)]_vars

\* What the example of events() relies on: an answer the caller gives settles
\* the delivery.
AnswersSettle == asked \subseteq settled

\* A reader that is stopped, or has lost its consumer, ends what it is doing.
ReadersStop ==
  \A r \in Readers :
    (Stopping(r) \/ lost) /\ pc[r] # "new" ~> pc[r] \in {"finished", "idle"}
=============================================================================
