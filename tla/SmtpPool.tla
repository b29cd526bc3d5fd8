------------------------------ MODULE SmtpPool ------------------------------
(***************************************************************************)
(* The connection pool of the submission client (internal/smtp/pool.ts):   *)
(* concurrent `send` calls share at most Size SMTP sessions.               *)
(*                                                                         *)
(* The program is single-threaded: an action is what runs between two      *)
(* awaits.  Every await of the pool is a state of `pc`: a dial, a NOOP, a  *)
(* mail transaction, a wait for capacity; the QUITs of close() are the     *)
(* sequence `closing`.  The sessions' I/O may succeed or fail at any time. *)
(***************************************************************************)
EXTENDS Integers, FiniteSets, SequencesExt

CONSTANTS Calls,        \* the send() calls, each made once
          Sessions,     \* identities for SMTP sessions, reused once closed
          NoSession,    \* what a call holds when it holds no session
          Size,         \* the pool's `size`
          HealthCheck   \* the pool's `healthCheck`

ASSUME PoolAssumption ==
  /\ Size \in Nat \ {0}
  /\ HealthCheck \in BOOLEAN
  /\ NoSession \notin Sessions

VARIABLES idle,     \* stack of released sessions, the last one on top
          owned,    \* the sessions the pool has admitted and not given up
          live,     \* the pool's count of live connections
          waiters,  \* calls parked until there may be capacity
          closed,   \* close() has been called
          closing,  \* sessions close() still has to QUIT, the first in progress
          pc,       \* where each call is
          held,     \* the session a call has checked out
          aborted,  \* calls whose AbortSignal has fired
          open      \* sessions whose socket is open, dials in progress aside

vars == <<idle, owned, live, waiters, closed, closing, pc, held, aborted, open>>

Settled == {"sent", "failed", "aborted", "refused"}
Holding == {"checking", "sending"}
\* "waiting" and not in `waiters`: woken, its continuation not yet run.
Phases == {"new", "waiting", "dialing"} \cup Holding \cup Settled

At(phases) == {c \in Calls : pc[c] \in phases}

Init ==
  /\ idle = <<>> /\ owned = {} /\ live = 0 /\ waiters = {}
  /\ closed = FALSE /\ closing = <<>>
  /\ pc = [c \in Calls |-> "new"]
  /\ held = [c \in Calls |-> NoSession]
  /\ aborted = {} /\ open = {}
-----------------------------------------------------------------------------
(* Moves of one call *)

\* Fault: the reason goes where the session was.
SettleMixedUp(c, how) == /\ pc' = [pc EXCEPT ![c] = how]
                         /\ held' = [held EXCEPT ![c] = how]

Settle(c, how) == /\ pc' = [pc EXCEPT ![c] = how]
                  /\ held' = [held EXCEPT ![c] = NoSession]

CheckOut(c, s, phase) == /\ pc' = [pc EXCEPT ![c] = phase]
                         /\ held' = [held EXCEPT ![c] = s]

\* One pass of acquire()'s loop, from its top to its next await.  `n` is the
\* live count and `ws` the waiters when the pass begins.
AcquirePass(c, n, ws) ==
  \/ /\ c \in aborted
     /\ Settle(c, "aborted")
     /\ live' = n /\ waiters' = ws /\ UNCHANGED idle
  \/ /\ c \notin aborted /\ idle # <<>>
     /\ CheckOut(c, Last(idle), IF HealthCheck THEN "checking" ELSE "sending")
     /\ idle' = Front(idle)
     /\ live' = n /\ waiters' = ws
  \/ /\ c \notin aborted /\ idle = <<>> /\ closed
     /\ Settle(c, "refused")
     /\ live' = n /\ waiters' = ws /\ UNCHANGED idle
  \/ /\ c \notin aborted /\ idle = <<>> /\ ~closed /\ n < Size
     /\ CheckOut(c, NoSession, "dialing")
     /\ live' = n + 1 /\ waiters' = ws /\ UNCHANGED idle
  \/ /\ c \notin aborted /\ idle = <<>> /\ ~closed /\ n >= Size
     /\ CheckOut(c, NoSession, "waiting")
     /\ waiters' = ws \cup {c} /\ live' = n /\ UNCHANGED idle

\* Fault: nobody is woken.
WakeNobody == UNCHANGED waiters

\* wake() resolves every waiter; each runs another pass later.
Wake == waiters' = {}

\* destroy(): give the session up, close its socket, wake the waiters.
Destroy(s) ==
  /\ open' = open \ {s}
  /\ IF s \in owned
     THEN owned' = owned \ {s} /\ live' = live - 1 /\ Wake
     ELSE UNCHANGED <<owned, live, waiters>>

\* Faults: a released session is counted as gone; one that comes back after
\* close() is forgotten, or goes back on the stack.
ReleaseCountsDown(s) ==
  IF s \in owned /\ ~closed
  THEN /\ idle' = Append(idle, s) /\ live' = live - 1 /\ Wake
       /\ UNCHANGED <<owned, open>>
  ELSE Destroy(s) /\ UNCHANGED idle
ReleaseForgets(s) ==
  IF s \in owned /\ ~closed
  THEN /\ idle' = Append(idle, s) /\ Wake
       /\ UNCHANGED <<owned, live, open>>
  ELSE UNCHANGED <<idle, owned, live, waiters, open>>
ReleaseIgnoresClose(s) ==
  IF s \in owned
  THEN /\ idle' = Append(idle, s) /\ Wake
       /\ UNCHANGED <<owned, live, open>>
  ELSE Destroy(s) /\ UNCHANGED idle

\* release(): back on the stack, unless foreign or the pool is closed.
Release(s) ==
  IF s \in owned /\ ~closed
  THEN /\ idle' = Append(idle, s) /\ Wake
       /\ UNCHANGED <<owned, live, open>>
  ELSE Destroy(s) /\ UNCHANGED idle
-----------------------------------------------------------------------------
(* The calls *)

\* send() is called: acquire() runs up to its first await.
Start(c) ==
  /\ pc[c] = "new"
  /\ AcquirePass(c, live, waiters)
  /\ UNCHANGED <<owned, closed, closing, aborted, open>>

\* A woken waiter goes round acquire()'s loop again.
Resume(c) ==
  /\ pc[c] = "waiting" /\ c \notin waiters
  /\ AcquirePass(c, live, waiters)
  /\ UNCHANGED <<owned, closed, closing, aborted, open>>

\* The dial ends with a session while the pool is still open.
DialAdmitted(c) ==
  /\ pc[c] = "dialing" /\ ~closed
  /\ \E s \in Sessions \ open :
       /\ owned' = owned \cup {s}
       /\ open' = open \cup {s}
       /\ CheckOut(c, s, "sending")
  /\ UNCHANGED <<idle, live, waiters, closed, closing, aborted>>

\* The dial ends with a session after close(): it is closed again.  The error
\* is thrown inside the try block, so the catch block counts down once more.
DialTooLate(c) ==
  /\ pc[c] = "dialing" /\ closed
  /\ live' = live - 2 /\ Wake
  /\ Settle(c, "refused")
  /\ UNCHANGED <<idle, owned, closed, closing, aborted, open>>

\* Fault: the slot of a failed dial is not given back.
DialFailedKeepsSlot(c) ==
  /\ pc[c] = "dialing"
  /\ Wake
  /\ Settle(c, "failed")
  /\ UNCHANGED <<idle, owned, live, closed, closing, aborted, open>>

DialFailed(c) ==
  /\ pc[c] = "dialing"
  /\ live' = live - 1 /\ Wake
  /\ Settle(c, "failed")
  /\ UNCHANGED <<idle, owned, closed, closing, aborted, open>>

\* The NOOP of the health check succeeds: the session is handed out.
CheckPassed(c) ==
  /\ pc[c] = "checking"
  /\ CheckOut(c, held[c], "sending")
  /\ UNCHANGED <<idle, owned, live, waiters, closed, closing, aborted, open>>

\* The NOOP fails: destroy() the session and go round the loop, in one step.
CheckFailed(c) ==
  LET s == held[c] IN
  /\ pc[c] = "checking"
  /\ open' = open \ {s}
  /\ owned' = owned \ {s}
  /\ IF s \in owned THEN AcquirePass(c, live - 1, {})
                    ELSE AcquirePass(c, live, waiters)
  /\ UNCHANGED <<closed, closing, aborted>>

SendSucceeded(c) ==
  /\ pc[c] = "sending"
  /\ Release(held[c])
  /\ Settle(c, "sent")
  /\ UNCHANGED <<closed, closing, aborted>>

SendFailed(c) ==
  /\ pc[c] = "sending"
  /\ Destroy(held[c])
  /\ Settle(c, "failed")
  /\ UNCHANGED <<idle, closed, closing, aborted>>

\* The caller's AbortSignal fires.  A parked waiter is rejected at once; any
\* other await only notices when its own I/O does, or at the next pass.
Abort(c) ==
  /\ pc[c] \notin Settled /\ c \notin aborted
  /\ aborted' = aborted \cup {c}
  /\ waiters' = waiters \ {c}
  /\ pc' = IF c \in waiters THEN [pc EXCEPT ![c] = "aborted"] ELSE pc
  /\ UNCHANGED <<idle, owned, live, closed, closing, held, open>>
-----------------------------------------------------------------------------
(* close() *)

\* Fault: the waiters are left parked.
CloseNextLeavesWaiters(todo) ==
  /\ closing' = todo
  /\ IF todo # <<>>
     THEN owned' = owned \ {Head(todo)} /\ live' = live - 1
     ELSE UNCHANGED <<owned, live>>
  /\ UNCHANGED <<waiters, pc>>

\* What close() does between two QUITs: give up the next session and start its
\* QUIT or, when none is left, refuse the waiters.
CloseNext(todo) ==
  /\ closing' = todo
  /\ IF todo # <<>>
     THEN /\ owned' = owned \ {Head(todo)} /\ live' = live - 1
          /\ UNCHANGED <<waiters, pc>>
     ELSE /\ waiters' = {}
          /\ pc' = [c \in Calls |-> IF c \in waiters THEN "refused" ELSE pc[c]]
          /\ UNCHANGED <<owned, live>>

\* A second close() returns at the guard.
Close ==
  /\ ~closed
  /\ closed' = TRUE /\ idle' = <<>>
  /\ CloseNext(idle)
  /\ UNCHANGED <<held, aborted, open>>

\* The QUIT in progress ends; the socket is closed whatever the reply was.
QuitDone ==
  /\ closing # <<>>
  /\ open' = open \ {Head(closing)}
  /\ CloseNext(Tail(closing))
  /\ UNCHANGED <<idle, closed, held, aborted>>
-----------------------------------------------------------------------------
DialDone(c) == DialAdmitted(c) \/ DialTooLate(c) \/ DialFailed(c)
CheckDone(c) == CheckPassed(c) \/ CheckFailed(c)
SendDone(c) == SendSucceeded(c) \/ SendFailed(c)

\* Every call has ended and no QUIT is under way: nothing is left to happen.
Terminated ==
  /\ At(Settled) = Calls /\ closed /\ closing = <<>>
  /\ UNCHANGED vars

Next ==
  \/ \E c \in Calls : \/ Start(c) \/ Resume(c) \/ Abort(c)
                      \/ DialDone(c) \/ CheckDone(c) \/ SendDone(c)
  \/ Close
  \/ QuitDone
  \/ Terminated

\* A resolved promise runs its continuation, and every dial, NOOP, transaction
\* and QUIT ends because each of its reads and writes has a timeout.  Nothing
\* obliges a program to call send(), to abort, or to close().
Fairness ==
  /\ \A c \in Calls : /\ WF_vars(Resume(c)) /\ WF_vars(DialDone(c))
                      /\ WF_vars(CheckDone(c)) /\ WF_vars(SendDone(c))
  /\ WF_vars(QuitDone)

Spec == Init /\ [][Next]_vars
FairSpec == Spec /\ Fairness
-----------------------------------------------------------------------------
InUse == {held[c] : c \in At(Holding)}

\* Every variable has its type.
TypeOK ==
  /\ idle \in Seq(Sessions) /\ closing \in Seq(Sessions)
  /\ owned \in SUBSET Sessions /\ open \in SUBSET Sessions
  /\ live \in Int /\ closed \in BOOLEAN
  /\ waiters \in SUBSET Calls /\ aborted \in SUBSET Calls
  /\ pc \in [Calls -> Phases]
  /\ held \in [Calls -> Sessions \cup {NoSession}]

\* The pool never has more than Size connections, counting the dials under way
\* and, after close(), the session whose QUIT is still in progress.
ConnectionBound == Cardinality(open) + Cardinality(At({"dialing"})) <= Size

\* A session serves one call at a time: no two calls hold the same one, and one
\* that is held is neither on the idle stack nor being QUIT.
Exclusive ==
  /\ \A c, d \in At(Holding) : held[c] = held[d] => c = d
  /\ IsInjective(idle) /\ IsInjective(closing)
  /\ InUse \cap Range(idle) = {} /\ InUse \cap Range(closing) = {}

\* No connection is forgotten: an open socket belongs to a call, to the idle
\* stack or to close(), and only those do.
NoLeak == open = InUse \cup Range(idle) \cup Range(closing)

\* Every open socket is in exactly one hand.
SessionInOneHand == Exclusive /\ NoLeak

\* While the pool is open `live` is exactly the connections it has and dials.
LiveIsAccurate == ~closed => live = Cardinality(owned) + Cardinality(At({"dialing"}))

\* No lost wake-up: a call is parked only while no session is idle and the
\* pool is at capacity, whatever destroyed, released or failed in between.
NoLostWakeup == waiters # {} => idle = <<>> /\ live = Size

\* Once close() has run up to its first await nobody is parked: a slow QUIT
\* never delays the refusal of a waiter.
CloseRefusesWaiters == closed => waiters = {}

\* The bookkeeping that makes the properties above inductive: a held session
\* is owned and in no other hands, the pool owns its open sockets but the one
\* whose QUIT is in progress, and only an open pool has a stack or waiters.
Bookkeeping ==
  /\ \A c \in At(Holding) : held[c] \in owned \ (Range(idle) \cup Range(closing))
  /\ Range(idle) \cup Range(closing) \subseteq open
  /\ owned = IF closing = <<>> THEN open ELSE open \ {Head(closing)}
  /\ IF closed THEN idle = <<>> ELSE closing = <<>>
  /\ waiters \subseteq At({"waiting"})

\* What acquire()'s contract says of a closed pool: a call is not handed a
\* session once the pool is closed.
NoHandoutAfterClose ==
  [][\A c \in Calls : pc[c] # "sending" /\ pc'[c] = "sending" => ~closed]_vars

\* A call counts against the budget while it dials, checks or sends.
Budget == INSTANCE ConnectionBudget WITH
  phase <- [c \in Calls |->
              CASE pc[c] = "new" -> "new"
                [] pc[c] = "waiting" -> "pending"
                [] pc[c] \in Settled -> "done"
                [] OTHER -> "connected"],
  cancelled <- aborted,
  shut <- closed

\* The pool implements the connection budget, fairness included.
ImplementsFairBudget == Budget!FairSpec

\* Every send() ends, whoever is served first.
EveryCallSettles == \A c \in Calls : pc[c] # "new" ~> pc[c] \in Settled

\* Once the pool is closed, its last connection is closed in the end.
CloseReleasesConnections == closed ~> (open = {} /\ At({"dialing"}) = {})
=============================================================================
