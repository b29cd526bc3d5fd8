------------------------ MODULE SmtpPoolBudgetProofs ------------------------
(***************************************************************************)
(* The pool implements the connection budget: every behaviour of SmtpPool  *)
(* is, its stack, counters and wait list forgotten, one that               *)
(* ConnectionBudget allows, for every set of calls and every pool size.    *)
(***************************************************************************)
EXTENDS SmtpPoolProofs

\* Where the budget sees a call that is at `where`.
PhaseAt(where) ==
  CASE where = "new" -> "new"
    [] where = "waiting" -> "pending"
    [] where \in Settled -> "done"
    [] OTHER -> "connected"
Phase == [c \in Calls |-> PhaseAt(pc[c])]

\* The phase of a call follows from where it is.
LEMMA PhaseOf ==
  ASSUME NEW where \in Phases
  PROVE  /\ PhaseAt(where) = "new" <=> where = "new"
         /\ PhaseAt(where) = "pending" <=> where = "waiting"
         /\ PhaseAt(where) = "done" <=> where \in Settled
         /\ PhaseAt(where) = "connected" <=> where \in {"dialing"} \cup Holding
BY DEF PhaseAt, Phases, Settled, Holding
-----------------------------------------------------------------------------
(* What the budget counts *)

\* The connected calls are those that dial and those that hold a session, and
\* there are as many of the latter as sessions in use.
LEMMA ConnectedCount ==
  ASSUME PoolInv
  PROVE  /\ Budget!Connected = Dialing \cup At(Holding)
         /\ IsFiniteSet(InUse) /\ InUse \subseteq open
         /\ Cardinality(Budget!Connected) = Cardinality(Dialing) + Cardinality(InUse)
         /\ Cardinality(Dialing) \in Nat /\ Cardinality(InUse) \in Nat
<1> DEFINE H == At(Holding)
           f == [c \in H |-> held[c]]
<1>1. Budget!Connected = Dialing \cup H
  <2>1. Budget!Connected = {c \in Calls : Phase[c] = "connected"}
    BY DEF Budget!Connected, Phase, PhaseAt
  <2>2. \A c \in Calls : pc[c] \in Phases /\ Phase[c] = PhaseAt(pc[c])
    BY DEF Phase, PoolInv, TypeOK
  <2> QED BY <2>1, <2>2, PhaseOf DEF At, Dialing
<1>2. InUse \subseteq open
  <2>1. owned \subseteq open
    BY DEF PoolInv, Bookkeeping
  <2> QED BY <2>1 DEF PoolInv, Bookkeeping, InUse
<1>3. IsFiniteSet(InUse) /\ Cardinality(InUse) \in Nat /\ Cardinality(Dialing) \in Nat
  BY <1>2, FS_Subset, FS_CardinalityType DEF PoolInv, Counts
<1>4. f \in Injection(H, InUse) /\ f \in Surjection(H, InUse)
  <2>1. f \in [H -> InUse] /\ \A s \in InUse : \E c \in H : f[c] = s
    BY DEF InUse
  <2>2. \A c, d \in H : f[c] = f[d] => c = d
    BY DEF PoolInv, Exclusive
  <2> QED BY <2>1, <2>2 DEF Injection, Surjection, IsInjective
<1>5. IsFiniteSet(H) /\ Cardinality(H) = Cardinality(InUse)
  BY <1>3, <1>4, FS_Injection
<1>6. Dialing \cap H = {}
  BY DEF Dialing, At, Holding
<1>7. Cardinality(Dialing \cup H) = Cardinality(Dialing) + Cardinality(H)
  <2>1. IsFiniteSet(Dialing) /\ Cardinality(Dialing \cap H) = 0
    BY <1>6, FS_EmptySet DEF PoolInv, Counts
  <2>2. Cardinality(Dialing \cup H)
          = Cardinality(Dialing) + Cardinality(H) - Cardinality(Dialing \cap H)
    BY <2>1, <1>5, FS_Union
  <2> QED BY <2>1, <2>2, <1>3, <1>5
<1> QED BY <1>1, <1>2, <1>3, <1>5, <1>7

\* A session on the stack is a place in the budget that nobody takes, and so is
\* one that the live count leaves free; when neither is there, it is spent.
LEMMA BudgetRoom ==
  ASSUME PoolInv, NoLeak, ~closed
  PROVE  /\ idle # <<>> \/ live < Size => Cardinality(Budget!Connected) < Size
         /\ idle = <<>> /\ live >= Size => Cardinality(Budget!Connected) = Size
<1> DEFINE n == Cardinality(Dialing)
<1>1. /\ Size \in Nat /\ n \in Nat /\ Cardinality(open) \in Nat /\ IsFiniteSet(open)
      /\ Cardinality(open) + n <= Size /\ live = Cardinality(open) + n
  BY FS_CardinalityType, PoolAssumption DEF PoolInv, Counts
<1>2. /\ Cardinality(Budget!Connected) = n + Cardinality(InUse)
      /\ InUse \subseteq open /\ Cardinality(InUse) \in Nat
  BY ConnectedCount
<1>3. Cardinality(InUse) <= Cardinality(open)
  BY <1>1, <1>2, FS_Subset
<1>4. open = InUse \cup Range(idle)
  BY DEF NoLeak, PoolInv, Bookkeeping, Range
<1>5. CASE idle # <<>>
  <2>1. Last(idle) \in Range(idle)
    BY <1>5, PopFacts DEF PoolInv, TypeOK, Exclusive
  <2>2. InUse # open
    BY <2>1, <1>4 DEF PoolInv, Exclusive
  <2>3. Cardinality(InUse) < Cardinality(open)
    BY <2>2, <1>1, <1>2, <1>3, FS_Subset
  <2> QED BY <2>3, <1>1, <1>2, <1>5
<1>6. CASE idle = <<>>
  <2>1. InUse = open
    BY <1>4, <1>6 DEF Range
  <2> QED BY <2>1, <1>1, <1>2, <1>6
<1> QED BY <1>5, <1>6
-----------------------------------------------------------------------------
(* Every step of the pool is a step of the budget, or none *)

\* A step that leaves every phase where it was is none.
LEMMA Stutters ==
  ASSUME \A c \in Calls : PhaseAt(pc'[c]) = PhaseAt(pc[c]), UNCHANGED <<aborted, closed>>
  PROVE  UNCHANGED Budget!bvars
<1>1. Phase' = Phase
  BY DEF Phase
<1> QED BY <1>1 DEF Budget!bvars, Phase, PhaseAt

\* A step that takes one call to another phase is a move of the budget.
LEMMA Moves ==
  ASSUME NEW c \in Calls, NEW to, PhaseAt(pc'[c]) = to, UNCHANGED <<aborted, closed>>,
         \A d \in Calls \ {c} : PhaseAt(pc'[d]) = PhaseAt(pc[d])
  PROVE  Budget!Move(c, to)
<1>1. Phase = [d \in Calls |-> PhaseAt(pc[d])] /\ Phase' = [d \in Calls |-> PhaseAt(pc'[d])]
  BY DEF Phase
<1>2. Phase' = [Phase EXCEPT ![c] = to]
  BY <1>1
<1> QED BY <1>2, Zenon DEF Budget!Move, Phase, PhaseAt

\* The guards of the budget's actions, in terms of the pool.
LEMMA Guards ==
  ASSUME NEW c \in Calls
  PROVE  /\ /\ PhaseAt(pc[c]) \in {"new", "pending"} /\ c \notin aborted /\ ~closed
            /\ Cardinality(Budget!Connected) < Size /\ Budget!Move(c, "connected")
            => Budget!Grant(c)
         /\ /\ PhaseAt(pc[c]) = "new" /\ c \notin aborted /\ ~closed
            /\ Cardinality(Budget!Connected) = Size /\ Budget!Move(c, "pending")
            => Budget!Park(c)
         /\ /\ PhaseAt(pc[c]) \in {"new", "pending"} /\ (c \in aborted \/ closed)
            /\ Budget!Move(c, "done")
            => Budget!TurnAway(c)
         /\ PhaseAt(pc[c]) = "connected" /\ Budget!Move(c, "done") => Budget!Finish(c)
<1>0. Budget!Cardinality(Budget!Connected) = Cardinality(Budget!Connected)
  BY DEF Budget!Cardinality, Budget!IsFiniteSet, Cardinality, IsFiniteSet
<1>1. Phase[c] = PhaseAt(pc[c])
  BY DEF Phase
<1>2. Budget!Grant(c) <=> /\ Phase[c] \in {"new", "pending"} /\ c \notin aborted /\ ~closed
                          /\ Cardinality(Budget!Connected) < Size /\ Budget!Move(c, "connected")
  BY <1>0 DEF Budget!Grant, Phase, PhaseAt
<1>3. Budget!Park(c) <=> /\ Phase[c] = "new" /\ c \notin aborted /\ ~closed
                         /\ Cardinality(Budget!Connected) = Size /\ Budget!Move(c, "pending")
  BY <1>0 DEF Budget!Park, Phase, PhaseAt
<1>4. Budget!TurnAway(c) <=> /\ Phase[c] \in {"new", "pending"} /\ (c \in aborted \/ closed)
                             /\ Budget!Move(c, "done")
  BY DEF Budget!TurnAway, Phase, PhaseAt
<1>5. Budget!Finish(c) <=> Phase[c] = "connected" /\ Budget!Move(c, "done")
  BY DEF Budget!Finish, Phase, PhaseAt
<1> QED BY <1>1, <1>2, <1>3, <1>4, <1>5

\* send() is called, or a woken call goes round the loop of acquire().
LEMMA EnterRefines ==
  ASSUME PoolInv, NoLeak, TypeOK', NEW c \in Calls, Start(c) \/ Resume(c)
  PROVE  [Budget!Next]_Budget!bvars
<1>1. /\ AcquirePass(c, live, waiters) /\ UNCHANGED <<aborted, closed>>
      /\ pc[c] \in {"new", "waiting"}
      /\ \A d \in Calls \ {c} : pc'[d] = pc[d]
      /\ pc[c] \in Phases /\ pc'[c] \in Phases /\ live \in Int /\ Size \in Nat
  BY PoolAssumption
     DEF Start, Resume, AcquirePass, Settle, CheckOut, PoolInv, TypeOK
<1>2. PhaseAt(pc[c]) \in {"new", "pending"}
  BY <1>1, PhaseOf
<1>3. /\ pc'[c] \in {"dialing"} \cup Holding => Budget!Move(c, "connected")
      /\ pc'[c] \in Settled => Budget!Move(c, "done")
      /\ pc'[c] = "waiting" => Budget!Move(c, "pending")
  BY <1>1, PhaseOf, Moves
<1>4. CASE c \in aborted
  BY <1>1, <1>2, <1>3, <1>4, Guards DEF AcquirePass, Settle, Settled, PoolInv, TypeOK, Budget!Next
<1>5. CASE c \notin aborted /\ idle # <<>>
  <2>1. ~closed /\ pc'[c] \in Holding
    BY <1>1, <1>5 DEF AcquirePass, CheckOut, Holding, PoolInv, Bookkeeping, TypeOK
  <2> QED BY <2>1, <1>2, <1>3, <1>5, BudgetRoom, Guards DEF Budget!Next
<1>6. CASE c \notin aborted /\ idle = <<>> /\ closed
  BY <1>1, <1>2, <1>3, <1>6, Guards DEF AcquirePass, Settle, Settled, PoolInv, TypeOK, Budget!Next
<1>7. CASE c \notin aborted /\ idle = <<>> /\ ~closed /\ live < Size
  <2>1. pc'[c] = "dialing"
    BY <1>1, <1>7 DEF AcquirePass, CheckOut, PoolInv, TypeOK
  <2> QED BY <2>1, <1>2, <1>3, <1>7, BudgetRoom, Guards DEF Budget!Next
<1>8. CASE c \notin aborted /\ idle = <<>> /\ ~closed /\ live >= Size
  <2>1. pc'[c] = "waiting"
    BY <1>1, <1>8 DEF AcquirePass, CheckOut, PoolInv, TypeOK
  <2>2. CASE pc[c] = "new"
    <3>1. PhaseAt(pc[c]) = "new"
      BY <2>2, <1>1, PhaseOf
    <3> QED BY <2>1, <3>1, <1>3, <1>8, BudgetRoom, Guards DEF Budget!Next
  <2>3. CASE pc[c] = "waiting"
    BY <2>1, <2>3, <1>1, Stutters
  <2> QED BY <2>2, <2>3, <1>1
<1> QED BY <1>1, <1>4, <1>5, <1>6, <1>7, <1>8

\* A dial or a mail transaction ends: the call leaves the budget, or goes on
\* with the session it dialed.
LEMMA EndsRefine ==
  ASSUME PoolInv, TypeOK', NEW c \in Calls, DialDone(c) \/ CheckPassed(c) \/ SendDone(c)
  PROVE  [Budget!Next]_Budget!bvars
<1>1. /\ UNCHANGED <<aborted, closed>>
      /\ pc[c] \in {"dialing"} \cup Holding
      /\ pc'[c] \in Holding \/ pc'[c] \in Settled
      /\ \A d \in Calls \ {c} : pc'[d] = pc[d]
      /\ pc[c] \in Phases /\ pc'[c] \in Phases
  BY DEF DialDone, DialAdmitted, DialTooLate, DialFailed, CheckPassed, SendDone, SendSucceeded,
         SendFailed, Settle, CheckOut, Holding, Settled, PoolInv, TypeOK
<1>2. PhaseAt(pc[c]) = "connected"
  BY <1>1, PhaseOf
<1>3. CASE pc'[c] \in Holding
  BY <1>1, <1>2, <1>3, PhaseOf, Stutters
<1>4. CASE pc'[c] \in Settled
  BY <1>1, <1>2, <1>4, PhaseOf, Moves, Guards DEF Budget!Next
<1> QED BY <1>1, <1>3, <1>4

\* A failed health check: the call stays in the budget, with another session or
\* a dial in place of the one it gives up, or leaves it.  It is never parked,
\* for what it gives up leaves room.
LEMMA CheckFailedRefines ==
  ASSUME PoolInv, TypeOK', NEW c \in Calls, CheckFailed(c)
  PROVE  [Budget!Next]_Budget!bvars
<1>1. /\ UNCHANGED <<aborted, closed>> /\ pc[c] = "checking"
      /\ AcquirePass(c, live - 1, {}) /\ live \in Int /\ Size \in Nat
      /\ pc[c] \in Phases /\ pc'[c] \in Phases
  <2>1. held[c] \in owned
    BY DEF CheckFailed, PoolInv, Bookkeeping, At, Holding
  <2> QED BY <2>1, PoolAssumption DEF CheckFailed, PoolInv, TypeOK
<1>2. \A d \in Calls \ {c} : pc'[d] = pc[d]
  BY <1>1 DEF AcquirePass, Settle, CheckOut, PoolInv, TypeOK
<1>3. ~closed => live <= Size
  BY <1>1, FS_CardinalityType DEF PoolInv, Counts
<1>4. pc'[c] \in {"dialing"} \cup Holding \/ pc'[c] \in Settled
  BY <1>1, <1>3 DEF AcquirePass, Settle, CheckOut, Holding, Settled, PoolInv, TypeOK
<1>5. PhaseAt(pc[c]) = "connected"
  BY <1>1, PhaseOf DEF Holding
<1>6. CASE pc'[c] \in {"dialing"} \cup Holding
  BY <1>1, <1>2, <1>5, <1>6, PhaseOf, Stutters
<1>7. CASE pc'[c] \in Settled
  BY <1>1, <1>2, <1>5, <1>7, PhaseOf, Moves, Guards DEF Budget!Next
<1> QED BY <1>4, <1>6, <1>7

\* An abort cancels the call, and turns it away if it is parked.
LEMMA AbortRefines ==
  ASSUME PoolInv, NEW c \in Calls, Abort(c)
  PROVE  Budget!Next
<1>1. /\ pc[c] \in Phases \ Settled /\ c \notin aborted
      /\ aborted' = aborted \cup {c} /\ closed' = closed
      /\ c \in waiters => pc[c] = "waiting"
      /\ pc' = IF c \in waiters THEN [pc EXCEPT ![c] = "aborted"] ELSE pc
  BY DEF Abort, PoolInv, TypeOK, Bookkeeping, At
<1>2. Phase[c] # "done"
  BY <1>1, PhaseOf DEF Phase
<1>3. \/ Phase' = Phase
      \/ Phase[c] = "pending" /\ Phase' = [Phase EXCEPT ![c] = "done"]
  <2>1. CASE c \in waiters
    <3>1. Phase[c] = "pending" /\ PhaseAt("aborted") = "done"
      BY <2>1, <1>1 DEF Phase, PhaseAt, Settled
    <3>2. pc'[c] = "aborted" /\ \A d \in Calls \ {c} : pc'[d] = pc[d]
      BY <2>1, <1>1 DEF PoolInv, TypeOK
    <3> QED BY <3>1, <3>2 DEF Phase
  <2>2. CASE c \notin waiters
    BY <2>2, <1>1 DEF Phase
  <2> QED BY <2>1, <2>2
<1>4. Budget!Cancel(c)
  BY <1>1, <1>2, <1>3, Zenon DEF Budget!Cancel, Phase, PhaseAt
<1> QED BY <1>4 DEF Budget!Next

\* close() shuts the budget, and turns away whoever is parked unless it has a
\* session to QUIT first, and then nobody is parked.  The end of a QUIT is no
\* step of the budget.
LEMMA CloseRefines ==
  ASSUME PoolInv, Close \/ QuitDone
  PROVE  [Budget!Next]_Budget!bvars
<1>1. CASE Close
  <2>1. /\ ~closed /\ closed' = TRUE /\ aborted' = aborted /\ CloseNext(idle)
        /\ waiters \subseteq At({"waiting"})
    BY <1>1 DEF Close, PoolInv, Bookkeeping
  <2> DEFINE W == IF idle = <<>> THEN waiters ELSE {}
  <2>2. pc' = [c \in Calls |-> IF c \in W THEN "refused" ELSE pc[c]]
    BY <2>1 DEF CloseNext, PoolInv, TypeOK
  <2>3. Phase' = [c \in Calls |-> IF c \in W THEN "done" ELSE Phase[c]]
    <3>1. PhaseAt("refused") = "done"
      BY DEF PhaseAt, Settled
    <3> QED BY <2>2, <3>1 DEF Phase
  <2>4. W \in SUBSET {c \in Calls : Phase[c] = "pending"}
    BY <2>1 DEF At, Phase, PhaseAt, Settled
  <2>5. Budget!Shut
    BY <2>1, <2>3, <2>4, Zenon DEF Budget!Shut, Phase, PhaseAt
  <2> QED BY <2>5 DEF Budget!Next
<1>2. CASE QuitDone
  <2>1. waiters = {} /\ UNCHANGED <<aborted, closed>>
    BY <1>2 DEF QuitDone, PoolInv, CloseRefusesWaiters, Bookkeeping
  <2>2. pc' = pc
    BY <1>2, <2>1 DEF QuitDone, CloseNext, PoolInv, TypeOK
  <2> QED BY <2>1, <2>2, Stutters
<1> QED BY <1>1, <1>2

\* The pool implements the budget: stack, counters, wait list and the overlap of
\* close() with calls in progress stay invisible to the calls, which are
\* connected Size at a time, wait only while the budget is spent, and are turned
\* away only if they gave up or the pool was closed.
THEOREM PoolImplementsBudget == Spec => Budget!Spec
<1>1. Init => Budget!Init
  <2> SUFFICES ASSUME Init PROVE Budget!Init
    OBVIOUS
  <2>1. Phase = [c \in Calls |-> "new"]
    BY DEF Init, Phase, PhaseAt, Settled
  <2>2. aborted = {} /\ closed = FALSE
    BY DEF Init
  <2> QED BY <2>1, <2>2, Zenon DEF Budget!Init, Phase, PhaseAt
<1>2. PoolInv /\ NoLeak /\ TypeOK' /\ [Next]_vars => [Budget!Next]_Budget!bvars
  <2> SUFFICES ASSUME PoolInv, NoLeak, TypeOK', [Next]_vars
               PROVE  [Budget!Next]_Budget!bvars
    OBVIOUS
  <2>1. ASSUME NEW c \in Calls, Start(c) \/ Resume(c) PROVE [Budget!Next]_Budget!bvars
    BY <2>1, EnterRefines
  <2>2. ASSUME NEW c \in Calls, DialDone(c) \/ CheckPassed(c) \/ SendDone(c)
        PROVE  [Budget!Next]_Budget!bvars
    BY <2>2, EndsRefine
  <2>3. ASSUME NEW c \in Calls, CheckFailed(c) PROVE [Budget!Next]_Budget!bvars
    BY <2>3, CheckFailedRefines
  <2>4. ASSUME NEW c \in Calls, Abort(c) PROVE [Budget!Next]_Budget!bvars
    BY <2>4, AbortRefines
  <2>5. CASE Close \/ QuitDone
    BY <2>5, CloseRefines
  <2>6. CASE UNCHANGED vars
    BY <2>6, Stutters DEF vars
  <2> QED BY <2>1, <2>2, <2>3, <2>4, <2>5, <2>6 DEF Next, CheckDone, Terminated
<1> QED BY <1>1, <1>2, PoolInvariant, NothingLeaks, TypeCorrect, PTL DEF Spec, Budget!Spec
=============================================================================
