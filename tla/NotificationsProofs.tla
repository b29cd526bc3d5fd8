------------------------- MODULE NotificationsProofs ------------------------
(***************************************************************************)
(* Theorems about Notifications, for every set of consume() calls,         *)
(* iterators and events: no event is dropped, no pull outlives its reader, *)
(* nothing is handled after a stop, and a stop and the loss of the         *)
(* consumer are not mistaken for each other.                               *)
(***************************************************************************)
EXTENDS Notifications, TLAPS

\* A consume() call awaits one thing at a time.  One that was not over yet when
\* its pull was stopped has itself been told to stop, and the iteration it sees
\* the end of was stopped or lost.
LoopInv ==
  \A r \in Loops :
    /\ pc[r] \in {"new", "opening", "pulling", "handling", "ending", "finished"}
    /\ pc[r] = "handling" => event[r] # NoEvent
    /\ pull[r] = "stopped" /\ pc[r] # "finished" => Stopping(r)
    /\ pc[r] = "ending" => pull[r] \in {"stopped", "lost"}

\* An iterator only opens or reads a pull while nothing but close() has marked
\* it; until it is done its pull is stopped on demand only; it awaits the closing
\* result of a lost pull only; and once it is done, next() has reported how.
IteratorInv ==
  \A i \in Iterators :
    /\ pc[i] \in {"new", "idle", "opening", "pulling", "ending"}
    /\ pc[i] = "new" => flags[i] = {}
    /\ pc[i] \in {"opening", "pulling"} => flags[i] \subseteq {"closed"}
    /\ pull[i] = "stopped" /\ "done" \notin flags[i] => IsOver(i)
    /\ pc[i] = "ending" => pull[i] = "lost"
    /\ pc[i] = "idle" /\ "done" \in flags[i] => outcome[i] \in {"threw", "stopped"}

\* Nobody has a pull before it is opened.
Unopened == \A r \in Readers : pc[r] \in {"new", "opening"} => pull[r] = "none"

ReaderInv ==
  TypeOK /\ NoEventDropped /\ NoOrphanPull /\ Unopened /\ LoopInv /\ IteratorInv
-----------------------------------------------------------------------------
(* The invariant holds at the start, and every step keeps it *)

\* Nobody has begun anything.
LEMMA InitReaders == Init => ReaderInv
<1> SUFFICES ASSUME Init PROVE ReaderInv
  OBVIOUS
<1> USE NotificationsAssumption DEF Init, StreamInit
<1>1. TypeOK
  BY DEF TypeOK, StreamTypeOK, Unanswered
<1>2. NoEventDropped /\ NoOrphanPull
  BY DEF NoEventDropped, NoOrphanPull
<1>3. Unopened /\ LoopInv /\ IteratorInv
  BY DEF Unopened, LoopInv, IteratorInv
<1> QED BY <1>1, <1>2, <1>3 DEF ReaderInv

\* A consume() call begins, and opens its pull.
LEMMA ConsumeBegins ==
  ASSUME ReaderInv, NEW r \in Readers, Consume(r) \/ ConsumeOpened(r)
  PROVE  ReaderInv'
<1> USE NotificationsAssumption, StreamAssumption
    DEF ReaderInv, TypeOK, StreamTypeOK, NoEventDropped, NoOrphanPull, LoopInv, IteratorInv,
        Unopened, Unanswered, Stopping, IsOver, Goto, Return, Stop, Stopped, Answer, Taken,
        Finish, setup, streamVars, readerVars
<1>1. CASE Consume(r)
  <2>1. TypeOK'
    BY <1>1 DEF Consume
  <2>2. NoEventDropped' /\ NoOrphanPull'
    BY <1>1 DEF Consume
  <2>3. Unopened' /\ LoopInv' /\ IteratorInv'
    BY <1>1 DEF Consume
  <2> QED BY <2>1, <2>2, <2>3
<1>2. CASE ConsumeOpened(r)
  <2>1. TypeOK'
    BY <1>2 DEF ConsumeOpened, Opened, FinishError
  <2>2. NoEventDropped' /\ NoOrphanPull'
    BY <1>2 DEF ConsumeOpened, Opened, FinishError
  <2>3. Unopened' /\ LoopInv' /\ IteratorInv'
    BY <1>2 DEF ConsumeOpened, Opened, FinishError
  <2> QED BY <2>1, <2>2, <2>3
<1> QED BY <1>1, <1>2

\* A consume() call takes an event, and its handler returns or throws.
LEMMA ConsumeHandles ==
  ASSUME ReaderInv, NEW r \in Readers, ConsumeNext(r) \/ HandlerReturned(r) \/ HandlerThrew(r)
  PROVE  ReaderInv'
<1> USE NotificationsAssumption, StreamAssumption
    DEF ReaderInv, TypeOK, StreamTypeOK, NoEventDropped, NoOrphanPull, LoopInv, IteratorInv,
        Unopened, Unanswered, Stopping, IsOver, Goto, Return, Stop, Stopped, Answer, Taken,
        Finish, setup, streamVars, readerVars
<1>1. CASE ConsumeNext(r)
  <2>1. TypeOK'
    BY <1>1 DEF ConsumeNext, FinishError
  <2>2. NoEventDropped' /\ NoOrphanPull'
    BY <1>1 DEF ConsumeNext, FinishError
  <2>3. Unopened' /\ LoopInv' /\ IteratorInv'
    BY <1>1 DEF ConsumeNext, FinishError
  <2> QED BY <2>1, <2>2, <2>3
<1>2. CASE HandlerReturned(r)
  <2>1. TypeOK'
    BY <1>2 DEF HandlerReturned
  <2>2. NoEventDropped' /\ NoOrphanPull'
    BY <1>2 DEF HandlerReturned
  <2>3. Unopened' /\ LoopInv' /\ IteratorInv'
    BY <1>2 DEF HandlerReturned
  <2> QED BY <2>1, <2>2, <2>3
<1>3. CASE HandlerThrew(r)
  <2>1. TypeOK'
    BY <1>3 DEF HandlerThrew
  <2>2. NoEventDropped' /\ NoOrphanPull'
    BY <1>3 DEF HandlerThrew
  <2>3. Unopened' /\ LoopInv' /\ IteratorInv'
    BY <1>3 DEF HandlerThrew
  <2> QED BY <2>1, <2>2, <2>3
<1> QED BY <1>1, <1>2, <1>3

\* The iteration of a consume() call ends, and then the call.
LEMMA ConsumeEnds ==
  ASSUME ReaderInv, NEW r \in Readers, ConsumeExhausted(r) \/ ConsumeEnded(r)
  PROVE  ReaderInv'
<1> USE NotificationsAssumption, StreamAssumption
    DEF ReaderInv, TypeOK, StreamTypeOK, NoEventDropped, NoOrphanPull, LoopInv, IteratorInv,
        Unopened, Unanswered, Stopping, IsOver, Goto, Return, Stop, Stopped, Answer, Taken,
        Finish, setup, streamVars, readerVars
<1>1. CASE ConsumeExhausted(r)
  <2>1. TypeOK'
    BY <1>1 DEF ConsumeExhausted
  <2>2. NoEventDropped' /\ NoOrphanPull'
    BY <1>1 DEF ConsumeExhausted
  <2>3. Unopened' /\ LoopInv' /\ IteratorInv'
    BY <1>1 DEF ConsumeExhausted
  <2> QED BY <2>1, <2>2, <2>3
<1>2. CASE ConsumeEnded(r)
  <2>1. TypeOK'
    BY <1>2 DEF ConsumeEnded, FinishError
  <2>2. NoEventDropped' /\ NoOrphanPull'
    BY <1>2 DEF ConsumeEnded, FinishError
  <2>3. Unopened' /\ LoopInv' /\ IteratorInv'
    BY <1>2 DEF ConsumeEnded, FinishError
  <2> QED BY <2>1, <2>2, <2>3
<1> QED BY <1>1, <1>2

\* events() returns, and next() goes up to its first await.
LEMMA IteratorBegins ==
  ASSUME ReaderInv, NEW r \in Readers, CreateIterator(r) \/ NextCalled(r)
  PROVE  ReaderInv'
<1> USE NotificationsAssumption, StreamAssumption
    DEF ReaderInv, TypeOK, StreamTypeOK, NoEventDropped, NoOrphanPull, LoopInv, IteratorInv,
        Unopened, Unanswered, Stopping, IsOver, Goto, Return, Stop, Stopped, Answer, Taken,
        Finish, setup, streamVars, readerVars
<1>1. CASE CreateIterator(r)
  <2>1. TypeOK'
    BY <1>1 DEF CreateIterator, Flag
  <2>2. NoEventDropped' /\ NoOrphanPull'
    BY <1>1 DEF CreateIterator, Flag
  <2>3. Unopened' /\ LoopInv' /\ IteratorInv'
    BY <1>1 DEF CreateIterator, Flag
  <2> QED BY <2>1, <2>2, <2>3
<1>2. CASE NextCalled(r)
  <2>1. TypeOK'
    BY <1>2 DEF NextCalled, Flag
  <2>2. NoEventDropped' /\ NoOrphanPull'
    BY <1>2 DEF NextCalled, Flag
  <2>3. Unopened' /\ LoopInv' /\ IteratorInv'
    BY <1>2 DEF NextCalled, Flag
  <2> QED BY <2>1, <2>2, <2>3
<1> QED BY <1>1, <1>2

\* next() goes on when its pull was opened, and when an event arrives.
LEMMA IteratorReceives ==
  ASSUME ReaderInv, NEW r \in Readers, NextOpened(r) \/ NextReceived(r)
  PROVE  ReaderInv'
<1> USE NotificationsAssumption, StreamAssumption
    DEF ReaderInv, TypeOK, StreamTypeOK, NoEventDropped, NoOrphanPull, LoopInv, IteratorInv,
        Unopened, Unanswered, Stopping, IsOver, Goto, Return, Stop, Stopped, Answer, Taken,
        Finish, setup, streamVars, readerVars
<1>1. CASE NextOpened(r)
  <2>1. TypeOK'
    BY <1>1 DEF NextOpened, Catch, Opened
  <2>2. NoEventDropped' /\ NoOrphanPull'
    BY <1>1 DEF NextOpened, Catch, Opened
  <2>3. Unopened' /\ LoopInv' /\ IteratorInv'
    BY <1>1 DEF NextOpened, Catch, Opened
  <2> QED BY <2>1, <2>2, <2>3
<1>2. CASE NextReceived(r)
  <2>1. TypeOK'
    BY <1>2 DEF NextReceived, Flag, Catch
  <2>2. NoEventDropped' /\ NoOrphanPull'
    BY <1>2 DEF NextReceived, Flag, Catch
  <2>3. Unopened' /\ LoopInv' /\ IteratorInv'
    BY <1>2 DEF NextReceived, Flag, Catch
  <2> QED BY <2>1, <2>2, <2>3
<1> QED BY <1>1, <1>2

\* The iteration under an iterator ends, or its caller closes it.
LEMMA IteratorEnds ==
  ASSUME ReaderInv, NEW r \in Readers, NextExhausted(r) \/ NextEnded(r) \/ CloseIterator(r)
  PROVE  ReaderInv'
<1> USE NotificationsAssumption, StreamAssumption
    DEF ReaderInv, TypeOK, StreamTypeOK, NoEventDropped, NoOrphanPull, LoopInv, IteratorInv,
        Unopened, Unanswered, Stopping, IsOver, Goto, Return, Stop, Stopped, Answer, Taken,
        Finish, setup, streamVars, readerVars
<1>1. CASE NextExhausted(r)
  <2>1. TypeOK'
    BY <1>1 DEF NextExhausted, Flag
  <2>2. NoEventDropped' /\ NoOrphanPull'
    BY <1>1 DEF NextExhausted, Flag
  <2>3. Unopened' /\ LoopInv' /\ IteratorInv'
    BY <1>1 DEF NextExhausted, Flag
  <2> QED BY <2>1, <2>2, <2>3
<1>2. CASE NextEnded(r)
  <2>1. TypeOK'
    BY <1>2 DEF NextEnded, Catch
  <2>2. NoEventDropped' /\ NoOrphanPull'
    BY <1>2 DEF NextEnded, Catch
  <2>3. Unopened' /\ LoopInv' /\ IteratorInv'
    BY <1>2 DEF NextEnded, Catch
  <2> QED BY <2>1, <2>2, <2>3
<1>3. CASE CloseIterator(r)
  <2>1. TypeOK'
    BY <1>3 DEF CloseIterator, Flag
  <2>2. NoEventDropped' /\ NoOrphanPull'
    BY <1>3 DEF CloseIterator, Flag
  <2>3. Unopened' /\ LoopInv' /\ IteratorInv'
    BY <1>3 DEF CloseIterator, Flag
  <2> QED BY <2>1, <2>2, <2>3
<1> QED BY <1>1, <1>2, <1>3

\* The caller of an iterator answers its last delivery.
LEMMA SettleKeeps ==
  ASSUME ReaderInv, NEW r \in Readers, NEW how \in {"acked", "ready", "termed"}, Settle(r, how)
  PROVE  ReaderInv'
<1> USE NotificationsAssumption, StreamAssumption
    DEF ReaderInv, TypeOK, StreamTypeOK, NoEventDropped, NoOrphanPull, LoopInv, IteratorInv,
        Unopened, Unanswered, Stopping, IsOver, Goto, Return, Stop, Stopped, Answer, Taken,
        Finish, setup, streamVars, readerVars
<1>1. TypeOK'
  BY DEF Settle
<1>2. NoEventDropped' /\ NoOrphanPull'
  BY DEF Settle
<1>3. Unopened' /\ LoopInv' /\ IteratorInv'
  BY DEF Settle
<1> QED BY <1>1, <1>2, <1>3

\* A signal fires.
LEMMA AbortKeeps ==
  ASSUME ReaderInv, NEW r \in Readers, Abort(r)
  PROVE  ReaderInv'
<1> USE NotificationsAssumption, StreamAssumption
    DEF ReaderInv, TypeOK, StreamTypeOK, NoEventDropped, NoOrphanPull, LoopInv, IteratorInv,
        Unopened, Unanswered, Stopping, IsOver, Goto, Return, Stop, Stopped, Answer, Taken,
        Finish, setup, streamVars, readerVars
<1>1. TypeOK'
  BY DEF Abort
<1>2. NoEventDropped' /\ NoOrphanPull'
  BY DEF Abort
<1>3. Unopened' /\ LoopInv' /\ IteratorInv'
  BY DEF Abort
<1> QED BY <1>1, <1>2, <1>3

\* The client is closed.
LEMMA CloseKeeps ==
  ASSUME ReaderInv, CloseClient
  PROVE  ReaderInv'
<1> USE NotificationsAssumption, StreamAssumption
    DEF ReaderInv, TypeOK, StreamTypeOK, NoEventDropped, NoOrphanPull, LoopInv, IteratorInv,
        Unopened, Unanswered, Stopping, IsOver, Goto, Return, Stop, Stopped, Answer, Taken,
        Finish, setup, streamVars, readerVars
<1>1. TypeOK'
  BY DEF CloseClient, StopAll
<1>2. NoEventDropped' /\ NoOrphanPull'
  BY DEF CloseClient, StopAll
<1>3. Unopened' /\ LoopInv' /\ IteratorInv'
  BY DEF CloseClient, StopAll
<1> QED BY <1>1, <1>2, <1>3

\* The tier hands an event out, times an answer out, or loses the consumer.
LEMMA TierKeeps == ASSUME ReaderInv, Tier PROVE ReaderInv'
<1> USE NotificationsAssumption, StreamAssumption
    DEF ReaderInv, TypeOK, StreamTypeOK, NoEventDropped, NoOrphanPull, LoopInv, IteratorInv,
        Unopened, Unanswered, Stopping, IsOver, Goto, Return, Stop, Stopped, Answer, Taken,
        Finish, setup, streamVars, readerVars
<1> USE DEF Tier
<1>1. CASE Lose
  BY <1>1 DEF Lose
<1>2. CASE \E e \in Events : Expire(e)
  BY <1>2 DEF Expire
<1>3. CASE \E e \in Events : \E r \in Readers : Deliver(r, e)
  BY <1>3 DEF Deliver
<1> QED BY <1>1, <1>2, <1>3

\* A stuttering step keeps it.
LEMMA StutterKeeps == ASSUME ReaderInv, UNCHANGED vars PROVE ReaderInv'
<1> USE NotificationsAssumption, StreamAssumption
    DEF ReaderInv, TypeOK, StreamTypeOK, NoEventDropped, NoOrphanPull, LoopInv, IteratorInv,
        Unopened, Unanswered, Stopping, IsOver, Goto, Return, Stop, Stopped, Answer, Taken,
        Finish, setup, streamVars, readerVars
<1> QED BY DEF vars

\* The state of the readers, as the proofs need it: what they await, what their
\* pulls were stopped for, and what the tier was told of the events.
THEOREM ReaderInvariant == Spec => []ReaderInv
<1>1. ReaderInv /\ [Next]_vars => ReaderInv'
  <2> SUFFICES ASSUME ReaderInv, [Next]_vars PROVE ReaderInv'
    OBVIOUS
  <2>1. ASSUME NEW r \in Readers,
               Consume(r) \/ LoopStep(r) \/ CreateIterator(r) \/ NextCalled(r) \/ NextStep(r)
                 \/ CloseIterator(r) \/ Abort(r)
        PROVE  ReaderInv'
    BY <2>1, ConsumeBegins, ConsumeHandles, ConsumeEnds, IteratorBegins, IteratorReceives,
       IteratorEnds, AbortKeeps DEF LoopStep, NextStep
  <2>2. ASSUME NEW r \in Readers, NEW how \in {"acked", "ready", "termed"}, Settle(r, how)
        PROVE  ReaderInv'
    BY <2>2, SettleKeeps
  <2>3. CASE CloseClient
    BY <2>3, CloseKeeps
  <2>4. CASE Tier
    BY <2>4, TierKeeps
  <2>5. CASE UNCHANGED vars
    BY <2>5, StutterKeeps
  <2> QED BY <2>1, <2>2, <2>3, <2>4, <2>5 DEF Next
<1> QED BY <1>1, InitReaders, PTL DEF Spec
-----------------------------------------------------------------------------
(* What it carries *)

\* Every variable has its type.
THEOREM TypeCorrect == Spec => []TypeOK
BY ReaderInvariant, PTL DEF ReaderInv

\* At least once: the tier forgets an event only when a handler or a caller was
\* done with it or gave it up, or nobody could decode it.
THEOREM AtLeastOnce == Spec => []NoEventDropped
BY ReaderInvariant, PTL DEF ReaderInv

\* No pull outlives the consume() call or the iterator it was opened for.
THEOREM NoPullOutlives == Spec => []NoOrphanPull
BY ReaderInvariant, PTL DEF ReaderInv

\* A loop that was told to stop begins to handle no further event, whatever its
\* pull had buffered.
THEOREM NothingAfterStop == Spec => NothingHandledAfterStop
<1> DEFINE Obeys == \A r \in Loops : pc[r] # "handling" /\ pc'[r] = "handling" => ~Stopping(r)
<1>1. ReaderInv /\ [Next]_vars => [Obeys]_vars
  <2> SUFFICES ASSUME ReaderInv, Next, NEW l \in Loops, pc[l] # "handling", pc'[l] = "handling"
               PROVE  ~Stopping(l)
    BY DEF Stopping
  <2> USE NotificationsAssumption DEF ReaderInv, TypeOK, Goto, Return, Finish, FinishError
  <2>1. CASE \E r \in Readers : ConsumeNext(r)
    BY <2>1 DEF ConsumeNext
  <2>2. CASE \E r \in Readers : Consume(r) \/ ConsumeOpened(r) \/ HandlerReturned(r) \/ HandlerThrew(r)
                                \/ ConsumeExhausted(r) \/ ConsumeEnded(r)
    BY <2>2 DEF Consume, ConsumeOpened, HandlerReturned, HandlerThrew, ConsumeExhausted, ConsumeEnded
  <2>3. CASE \E r \in Readers : CreateIterator(r) \/ NextCalled(r) \/ NextStep(r)
    BY <2>3 DEF CreateIterator, NextCalled, NextStep, NextOpened, NextReceived, NextExhausted,
                NextEnded, Catch
  <2>4. CASE pc' = pc
    BY <2>4
  <2> QED BY <2>1, <2>2, <2>3, <2>4
          DEF Next, LoopStep, CloseIterator, Abort, Settle, CloseClient, Tier, readerVars
<1> QED BY <1>1, ReaderInvariant, PTL DEF Spec, NothingHandledAfterStop

\* Being stopped is reported as no error, and the loss of the consumer as no stop.
THEOREM StopAndLoss == Spec => StopIsNotLoss
<1> DEFINE Tells(r) ==
       /\ pc[r] # "new" /\ outcome'[r] = "rejected" /\ outcome[r] # "rejected" => ~Stopping(r)
       /\ pc[r] # "idle" /\ outcome'[r] = "threw" /\ outcome[r] # "threw" => ~IsOver(r)
       /\ outcome'[r] = "resolved" /\ outcome[r] # "resolved" => Stopping(r) \/ r \in quitters'
       /\ outcome'[r] = "stopped" /\ outcome[r] \in {"none", "delivery"} => IsOver(r)
<1>1. ReaderInv /\ [Next]_vars => [\A r \in Readers : Tells(r)]_vars
  <2> SUFFICES ASSUME ReaderInv, Next, NEW o \in Readers PROVE Tells(o)
    OBVIOUS
  <2> USE NotificationsAssumption
      DEF ReaderInv, TypeOK, StreamTypeOK, Goto, Return, Finish, FinishError, Catch, IsOver,
          Stopping, Flag
  <2>1. CASE \E r \in Readers : Consume(r) \/ ConsumeOpened(r) \/ ConsumeNext(r)
    BY <2>1 DEF Consume, ConsumeOpened, ConsumeNext
  <2>2. CASE \E r \in Readers : HandlerReturned(r) \/ HandlerThrew(r) \/ ConsumeExhausted(r)
    BY <2>2 DEF HandlerReturned, HandlerThrew, ConsumeExhausted
  <2>3. CASE \E r \in Readers : ConsumeEnded(r)
    BY <2>3 DEF ConsumeEnded, LoopInv
  <2>4. CASE \E r \in Readers : CreateIterator(r) \/ NextCalled(r)
    BY <2>4 DEF CreateIterator, NextCalled, IteratorInv
  <2>5. CASE \E r \in Readers : NextOpened(r) \/ NextReceived(r) \/ NextExhausted(r)
    BY <2>5 DEF NextOpened, NextReceived, NextExhausted
  <2>6. CASE \E r \in Readers : NextEnded(r)
    BY <2>6 DEF NextEnded, IteratorInv
  <2>7. CASE outcome' = outcome
    BY <2>7
  <2> QED BY <2>1, <2>2, <2>3, <2>4, <2>5, <2>6, <2>7
          DEF Next, LoopStep, NextStep, CloseIterator, Abort, Settle, CloseClient, Tier, readerVars
<1> QED BY <1>1, ReaderInvariant, PTL DEF Spec, StopIsNotLoss

\* Where callers leave the answers in the delivery they came with, each answer
\* settles it: what goes wrong otherwise is the detached method's doing alone.
THEOREM AttachedAnswersSettle ==
  ASSUME ~Detached PROVE Spec => []AnswersSettle
<1>1. Init => AnswersSettle
  BY DEF Init, AnswersSettle
<1>2. AnswersSettle /\ [Next]_vars => AnswersSettle'
  <2> SUFFICES ASSUME AnswersSettle, [Next]_vars PROVE AnswersSettle'
    OBVIOUS
  <2> USE DEF AnswersSettle
  <2>1. CASE \E r \in Readers : \E how \in {"acked", "ready", "termed"} : Settle(r, how)
    BY <2>1 DEF Settle
  <2>2. CASE \E r \in Readers : NextReceived(r)
    BY <2>2 DEF NextReceived
  <2>3. CASE UNCHANGED <<asked, settled>>
    BY <2>3
  <2> QED BY <2>1, <2>2, <2>3
          DEF Next, LoopStep, NextStep, Consume, ConsumeOpened, ConsumeNext, HandlerReturned,
              HandlerThrew, ConsumeExhausted, ConsumeEnded, CreateIterator, NextCalled,
              NextOpened, NextExhausted, NextEnded, CloseIterator, Abort, CloseClient, Tier,
              readerVars, vars
<1> QED BY <1>1, <1>2, PTL DEF Spec
=============================================================================
