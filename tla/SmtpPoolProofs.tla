--------------------------- MODULE SmtpPoolProofs ---------------------------
(***************************************************************************)
(* Theorems about SmtpPool for every number of calls, every pool size and  *)
(* every set of session identities.                                        *)
(***************************************************************************)
EXTENDS SmtpPool, FiniteSetTheorems, TLAPS

-----------------------------------------------------------------------------
(* Sequences without repetition *)

\* Popping the top of a stack that repeats nothing removes exactly that element.
LEMMA PopFacts ==
  ASSUME NEW S, NEW q \in Seq(S), q # <<>>, IsInjective(q)
  PROVE  /\ Last(q) \in Range(q) /\ Last(q) \in S
         /\ Front(q) \in Seq(S) /\ IsInjective(Front(q))
         /\ Range(Front(q)) = Range(q) \ {Last(q)}
<1> DEFINE n == Len(q)
<1>1. n \in Nat /\ n > 0 /\ DOMAIN q = 1..n
  OBVIOUS
<1>2. Front(q) \in Seq(S) /\ DOMAIN Front(q) = 1..(n - 1)
      /\ \A i \in 1..(n - 1) : Front(q)[i] = q[i]
  BY <1>1 DEF Front
<1>3. Last(q) = q[n] /\ Last(q) \in Range(q) /\ Last(q) \in S
  BY <1>1 DEF Last, Range
<1>4. Range(Front(q)) = Range(q) \ {Last(q)}
  <2>1. ASSUME NEW x \in Range(Front(q)) PROVE x \in Range(q) \ {Last(q)}
    BY <2>1, <1>1, <1>2, <1>3 DEF Range, IsInjective
  <2>2. ASSUME NEW x \in Range(q) \ {Last(q)} PROVE x \in Range(Front(q))
    <3>1. PICK i \in 1..n : q[i] = x
      BY <1>1 DEF Range
    <3>2. i \in 1..(n - 1)
      BY <3>1, <1>1, <1>3
    <3> QED BY <3>1, <3>2, <1>2 DEF Range
  <2> QED BY <2>1, <2>2
<1> QED BY <1>1, <1>2, <1>3, <1>4 DEF IsInjective

\* Pushing an element that is not on the stack keeps it free of repetition.
LEMMA PushFacts ==
  ASSUME NEW S, NEW q \in Seq(S), NEW x \in S, x \notin Range(q), IsInjective(q)
  PROVE  /\ Append(q, x) \in Seq(S) /\ IsInjective(Append(q, x))
         /\ Range(Append(q, x)) = Range(q) \cup {x}
<1> DEFINE n == Len(q)
           r == Append(q, x)
<1>1. /\ n \in Nat /\ DOMAIN q = 1..n /\ DOMAIN r = 1..(n + 1) /\ r \in Seq(S)
      /\ \A i \in 1..n : r[i] = q[i]
      /\ r[n + 1] = x
  OBVIOUS
<1>2. Range(r) = Range(q) \cup {x}
  <2>1. ASSUME NEW y \in Range(r) PROVE y \in Range(q) \cup {x}
    BY <1>1 DEF Range
  <2>2. ASSUME NEW y \in Range(q) \cup {x} PROVE y \in Range(r)
    <3>1. CASE y = x
      BY <3>1, <1>1 DEF Range
    <3>2. CASE y \in Range(q)
      BY <3>2, <1>1 DEF Range
    <3> QED BY <3>1, <3>2
  <2> QED BY <2>1, <2>2
<1>3. IsInjective(r)
  BY <1>1 DEF IsInjective, Range
<1> QED BY <1>1, <1>2, <1>3

\* Dropping the head of a queue that repeats nothing removes exactly it.
LEMMA TailFacts ==
  ASSUME NEW S, NEW q \in Seq(S), q # <<>>, IsInjective(q)
  PROVE  /\ Head(q) \in Range(q) /\ Head(q) \in S
         /\ Tail(q) \in Seq(S) /\ IsInjective(Tail(q))
         /\ Range(Tail(q)) = Range(q) \ {Head(q)}
<1> DEFINE n == Len(q)
           t == Tail(q)
<1>1. /\ n \in Nat /\ n > 0 /\ DOMAIN q = 1..n /\ DOMAIN t = 1..(n - 1)
      /\ t \in Seq(S) /\ Head(q) = q[1] /\ q[1] \in S
      /\ \A i \in 1..(n - 1) : t[i] = q[i + 1]
  OBVIOUS
<1>2. Range(t) = Range(q) \ {Head(q)}
  <2>1. ASSUME NEW x \in Range(t) PROVE x \in Range(q) \ {Head(q)}
    BY <1>1 DEF Range, IsInjective
  <2>2. ASSUME NEW x \in Range(q) \ {Head(q)} PROVE x \in Range(t)
    <3>1. PICK i \in 1..n : q[i] = x
      BY <1>1 DEF Range
    <3>2. i - 1 \in 1..(n - 1) /\ t[i - 1] = x
      BY <3>1, <1>1
    <3> QED BY <3>2, <1>1 DEF Range
  <2> QED BY <2>1, <2>2
<1>3. IsInjective(t)
  BY <1>1 DEF IsInjective
<1>4. Head(q) \in Range(q)
  BY <1>1 DEF Range
<1> QED BY <1>1, <1>2, <1>3, <1>4
-----------------------------------------------------------------------------
(* Types *)

\* One pass of acquire() leaves the variables it assigns well typed.
LEMMA AcquirePassTypes ==
  ASSUME TypeOK, NEW c \in Calls, NEW n \in Int, NEW ws \in SUBSET Calls,
         AcquirePass(c, n, ws)
  PROVE  /\ idle' \in Seq(Sessions) /\ live' \in Int /\ waiters' \in SUBSET Calls
         /\ pc' \in [Calls -> Phases]
         /\ held' \in [Calls -> Sessions \cup {NoSession}]
<1> USE DEF TypeOK, Settle, CheckOut, Phases, Holding, Settled
<1>1. CASE idle # <<>> /\ CheckOut(c, Last(idle), IF HealthCheck THEN "checking" ELSE "sending")
           /\ idle' = Front(idle) /\ live' = n /\ waiters' = ws
  <2>1. Front(idle) \in Seq(Sessions) /\ Last(idle) \in Sessions
    BY <1>1 DEF Front, Last
  <2> QED BY <1>1, <2>1
<1>2. CASE idle' = idle
  BY <1>2 DEF AcquirePass, Front
<1> QED BY <1>1, <1>2 DEF AcquirePass

\* The initial state is well typed.
LEMMA InitTypes ==
  ASSUME Init
  PROVE  TypeOK
<1>1. idle \in Seq(Sessions) /\ closing \in Seq(Sessions)
  BY DEF Init
<1>2. owned \in SUBSET Sessions /\ open \in SUBSET Sessions /\ live \in Int
  BY DEF Init
<1>3. closed \in BOOLEAN /\ waiters \in SUBSET Calls /\ aborted \in SUBSET Calls
  BY DEF Init
<1>4. pc \in [Calls -> Phases]
  BY DEF Init, Phases
<1>5. held \in [Calls -> Sessions \cup {NoSession}]
  BY DEF Init
<1> QED BY <1>1, <1>2, <1>3, <1>4, <1>5 DEF TypeOK

\* The variables of the pool always have their types.
THEOREM TypeCorrect == Spec => []TypeOK
<1>1. Init => TypeOK
  BY InitTypes
<1>2. TypeOK /\ [Next]_vars => TypeOK'
  <2> SUFFICES ASSUME TypeOK, [Next]_vars PROVE TypeOK'
    OBVIOUS
  <2>1. ASSUME NEW c \in Calls, Start(c) \/ Resume(c) PROVE TypeOK'
    BY <2>1, AcquirePassTypes DEF TypeOK, Start, Resume
  <2>2. ASSUME NEW c \in Calls, Abort(c) PROVE TypeOK'
    BY <2>2 DEF TypeOK, Abort, Phases, Settled
  <2>3. ASSUME NEW c \in Calls, DialDone(c) PROVE TypeOK'
    BY <2>3 DEF TypeOK, DialDone, DialAdmitted, DialTooLate, DialFailed, Settle, CheckOut,
                Wake, Phases, Settled, Holding
  <2>4. ASSUME NEW c \in Calls, CheckPassed(c) PROVE TypeOK'
    BY <2>4 DEF TypeOK, CheckPassed, CheckOut, Phases, Holding
  <2>5. ASSUME NEW c \in Calls, CheckFailed(c) PROVE TypeOK'
    <3>1. live - 1 \in Int /\ live \in Int /\ {} \in SUBSET Calls /\ waiters \in SUBSET Calls
      BY DEF TypeOK
    <3>2. AcquirePass(c, live - 1, {}) \/ AcquirePass(c, live, waiters)
      BY <2>5 DEF CheckFailed
    <3>3. /\ idle' \in Seq(Sessions) /\ live' \in Int /\ waiters' \in SUBSET Calls
          /\ pc' \in [Calls -> Phases]
          /\ held' \in [Calls -> Sessions \cup {NoSession}]
      BY <3>1, <3>2, AcquirePassTypes
    <3> QED BY <2>5, <3>3 DEF TypeOK, CheckFailed
  <2>6. ASSUME NEW c \in Calls, SendSucceeded(c) PROVE TypeOK'
    <3>1. IF held[c] \in owned /\ ~closed THEN idle' \in Seq(Sessions) ELSE idle' = idle
      BY <2>6 DEF TypeOK, SendSucceeded, Release
    <3> QED BY <2>6, <3>1 DEF TypeOK, SendSucceeded, Release, Destroy, Settle, Wake, Phases, Settled
  <2>7. ASSUME NEW c \in Calls, SendFailed(c) PROVE TypeOK'
    BY <2>7 DEF TypeOK, SendFailed, Destroy, Settle, Wake, Phases, Settled
  <2>8. CASE Close
    BY <2>8 DEF TypeOK, Close, CloseNext, Phases, Settled
  <2>9. CASE QuitDone
    BY <2>9 DEF TypeOK, QuitDone, CloseNext, Phases, Settled
  <2>10. CASE UNCHANGED vars
    BY <2>10 DEF TypeOK, vars
  <2> QED BY <2>1, <2>2, <2>3, <2>4, <2>5, <2>6, <2>7, <2>8, <2>9, <2>10
          DEF Next, CheckDone, SendDone, Terminated
<1> QED BY <1>1, <1>2, PTL DEF Spec
-----------------------------------------------------------------------------
(* The inductive invariant *)

Dialing == At({"dialing"})

\* The connections are finitely many, within the bound, and counted.
Counts ==
  /\ IsFiniteSet(open) /\ IsFiniteSet(Dialing)
  /\ Cardinality(open) + Cardinality(Dialing) <= Size
  /\ ~closed => live = Cardinality(open) + Cardinality(Dialing)

PoolInv ==
  /\ TypeOK
  /\ Exclusive
  /\ Bookkeeping
  /\ Counts
  /\ NoLostWakeup
  /\ CloseRefusesWaiters

\* A pass of acquire() restores the invariant from any point at which the rest
\* of the pool is in order: the calls other than c, the stack, and the count n
\* and waiters ws the pass starts from.
LEMMA AcquirePassInv ==
  ASSUME NEW c \in Calls, NEW n \in Int, NEW ws \in SUBSET Calls,
         TypeOK, TypeOK', AcquirePass(c, n, ws), UNCHANGED <<closed, closing>>,
         pc[c] # "dialing",
         \A d \in At(Holding) \ {c} :
            held[d] \in owned' \ (Range(idle) \cup Range(closing)),
         \A d, e \in At(Holding) \ {c} : held[d] = held[e] => d = e,
         IsInjective(idle), IsInjective(closing),
         Range(idle) \cup Range(closing) \subseteq open',
         owned' = IF closing = <<>> THEN open' ELSE open' \ {Head(closing)},
         IF closed THEN idle = <<>> ELSE closing = <<>>,
         IsFiniteSet(open'), IsFiniteSet(Dialing),
         Cardinality(open') + Cardinality(Dialing) <= Size,
         ~closed => n = Cardinality(open') + Cardinality(Dialing),
         ws \subseteq At({"waiting"}) \ {c},
         ws # {} => idle = <<>> /\ n = Size,
         closed => ws = {}
  PROVE  PoolInv'
<1> Size \in Nat \ {0} /\ NoSession \notin Sessions
  BY PoolAssumption
<1>d. \A d \in Calls \ {c} : pc'[d] = pc[d] /\ held'[d] = held[d]
  BY DEF AcquirePass, Settle, CheckOut, TypeOK
<1>f. /\ Cardinality(open') \in Nat /\ Cardinality(Dialing) \in Nat
      /\ IsFiniteSet(Dialing \cup {c}) /\ Cardinality(Dialing \cup {c}) = Cardinality(Dialing) + 1
  BY FS_CardinalityType, FS_AddElement DEF Dialing, At
<1>1. CASE \* no session and no dial: settled or parked
           /\ idle' = idle /\ live' = n
           /\ \/ pc'[c] \in Settled /\ waiters' = ws
              \/ pc'[c] = "waiting" /\ waiters' = ws \cup {c} /\ ~closed /\ idle = <<>> /\ n >= Size
  <2>1. Dialing' = Dialing /\ At(Holding)' = At(Holding) \ {c}
    BY <1>1, <1>d DEF Dialing, At, Holding, Settled, TypeOK
  <2>2. waiters' \subseteq At({"waiting"})'
    BY <1>1, <1>d DEF At, Settled, TypeOK
  <2>3. Exclusive'
    BY <1>1, <1>d, <2>1 DEF Exclusive, InUse, At
  <2>4. Bookkeeping'
    BY <1>1, <1>d, <2>1, <2>2 DEF Bookkeeping, At
  <2>5. Counts'
    BY <1>1, <2>1 DEF Counts
  <2>6. NoLostWakeup' /\ CloseRefusesWaiters'
    BY <1>1, <1>f DEF NoLostWakeup, CloseRefusesWaiters
  <2> QED BY <2>3, <2>4, <2>5, <2>6 DEF PoolInv
<1>2. CASE \* the top of the stack is checked out
           /\ idle # <<>> /\ idle' = Front(idle) /\ live' = n /\ waiters' = ws
           /\ held'[c] = Last(idle) /\ pc'[c] \in Holding
  <2>0. /\ Last(idle) \in Range(idle) /\ Last(idle) \in Sessions
        /\ Front(idle) \in Seq(Sessions) /\ IsInjective(Front(idle))
        /\ Range(Front(idle)) = Range(idle) \ {Last(idle)}
    BY <1>2, PopFacts DEF TypeOK
  <2>1. Dialing' = Dialing /\ At(Holding)' = (At(Holding) \ {c}) \cup {c}
    BY <1>2, <1>d DEF Dialing, At, Holding, TypeOK
  <2>2. ws = {} /\ ~closed /\ closing = <<>> /\ owned' = open' /\ Range(closing) = {}
    BY <1>2 DEF Range
  <2>3. Exclusive'
    <3>1. \A d, e \in At(Holding)' : held'[d] = held'[e] => d = e
      BY <1>2, <1>d, <2>0, <2>1 DEF At
    <3>2. InUse' \cap Range(idle') = {} /\ InUse' \cap Range(closing') = {}
      BY <1>2, <1>d, <2>0, <2>1, <2>2 DEF InUse, At
    <3> QED BY <3>1, <3>2, <1>2, <2>0 DEF Exclusive
  <2>4. Bookkeeping'
    BY <1>2, <1>d, <2>0, <2>1, <2>2 DEF Bookkeeping, At
  <2>5. Counts'
    BY <1>2, <2>1 DEF Counts
  <2>6. NoLostWakeup' /\ CloseRefusesWaiters'
    BY <1>2, <2>2 DEF NoLostWakeup, CloseRefusesWaiters
  <2> QED BY <2>3, <2>4, <2>5, <2>6 DEF PoolInv
<1>3. CASE \* a dial begins
           /\ idle = <<>> /\ ~closed /\ n < Size /\ pc'[c] = "dialing"
           /\ live' = n + 1 /\ waiters' = ws /\ idle' = idle
  <2>1. Dialing' = Dialing \cup {c} /\ At(Holding)' = At(Holding) \ {c}
    BY <1>3, <1>d DEF Dialing, At, Holding, TypeOK
  <2>2. ws = {}
    BY <1>3
  <2>3. Exclusive'
    BY <1>3, <1>d, <2>1 DEF Exclusive, InUse, At
  <2>4. Bookkeeping'
    BY <1>3, <1>d, <2>1, <2>2 DEF Bookkeeping, At
  <2>5. Counts'
    BY <1>3, <1>f, <2>1 DEF Counts
  <2>6. NoLostWakeup' /\ CloseRefusesWaiters'
    BY <1>3, <2>2 DEF NoLostWakeup, CloseRefusesWaiters
  <2> QED BY <2>3, <2>4, <2>5, <2>6 DEF PoolInv
<1>4. /\ AcquirePass(c, n, ws)
      /\ pc \in [Calls -> Phases] /\ held \in [Calls -> Sessions \cup {NoSession}]
  BY DEF TypeOK
<1> QED BY <1>1, <1>2, <1>3, <1>4 DEF AcquirePass, Settle, CheckOut, Settled, Holding

\* Giving up the session a call holds, as that call moves on, keeps it too.
LEMMA DestroyInv ==
  ASSUME PoolInv, TypeOK', NEW c \in Calls, NEW how \in Settled, pc[c] = "sending",
         Destroy(held[c]), Settle(c, how), UNCHANGED <<idle, closed, closing>>
  PROVE  PoolInv'
<1> Size \in Nat \ {0} /\ NoSession \notin Sessions
  BY PoolAssumption
<1> DEFINE s == held[c]
<1>1. /\ c \in At(Holding) /\ s \in owned /\ s \in open
      /\ s \notin Range(idle) /\ s \notin Range(closing)
  BY DEF PoolInv, Bookkeeping, At, Holding
<1>2. /\ owned' = owned \ {s} /\ live' = live - 1 /\ waiters' = {} /\ open' = open \ {s}
  BY <1>1 DEF Destroy, Wake
<1>3. \A d \in Calls \ {c} : pc'[d] = pc[d] /\ held'[d] = held[d]
  BY DEF Settle, PoolInv, TypeOK
<1>4. pc'[c] = how /\ Dialing' = Dialing /\ At(Holding)' = At(Holding) \ {c}
  BY <1>3 DEF Settle, Dialing, At, Holding, Settled, PoolInv, TypeOK
<1>5. Exclusive'
  BY <1>3, <1>4 DEF Exclusive, InUse, At, PoolInv
<1>6. Bookkeeping'
  <2>1. \A d \in At(Holding)' : held'[d] \in owned' \ (Range(idle') \cup Range(closing'))
    BY <1>1, <1>2, <1>3, <1>4 DEF Bookkeeping, Exclusive, At, PoolInv
  <2>2. closing # <<>> => Head(closing) \in Range(closing)
    BY TailFacts DEF PoolInv, TypeOK, Exclusive
  <2> QED BY <2>1, <2>2, <1>1, <1>2 DEF Bookkeeping, PoolInv
<1>7. Counts'
  <2>1. /\ IsFiniteSet(open \ {s}) /\ Cardinality(open \ {s}) = Cardinality(open) - 1
        /\ Cardinality(open) \in Nat /\ Cardinality(Dialing) \in Nat
    BY <1>1, FS_RemoveElement, FS_CardinalityType DEF PoolInv, Counts
  <2>2. /\ live \in Int /\ Cardinality(open) + Cardinality(Dialing) <= Size
        /\ ~closed => live = Cardinality(open) + Cardinality(Dialing)
        /\ IsFiniteSet(Dialing) /\ IsFiniteSet(open) /\ closed' = closed
    BY DEF PoolInv, TypeOK, Counts
  <2> QED BY <2>1, <2>2, <1>2, <1>4 DEF Counts
<1>8. NoLostWakeup' /\ CloseRefusesWaiters'
  BY <1>2 DEF NoLostWakeup, CloseRefusesWaiters
<1> QED BY <1>5, <1>6, <1>7, <1>8 DEF PoolInv

\* A dial that ends without an admitted session gives its place back.
LEMMA DialLostInv ==
  ASSUME PoolInv, TypeOK', NEW c \in Calls, DialTooLate(c) \/ DialFailed(c)
  PROVE  PoolInv'
<1> Size \in Nat \ {0}
  BY PoolAssumption
<1>1. /\ pc[c] = "dialing" /\ pc'[c] \in Settled /\ waiters' = {}
      /\ UNCHANGED <<idle, owned, closed, closing, open>>
      /\ ~closed => live' = live - 1
      /\ \A d \in Calls \ {c} : pc'[d] = pc[d] /\ held'[d] = held[d]
  BY DEF DialTooLate, DialFailed, Settle, Wake, PoolInv, TypeOK, Settled
<1>2. Dialing' = Dialing \ {c} /\ c \in Dialing /\ At(Holding)' = At(Holding)
  BY <1>1 DEF Dialing, At, Holding, Settled, PoolInv, TypeOK
<1>3. \A d \in At(Holding) : held'[d] = held[d]
  BY <1>1 DEF At, Holding
<1>4. Exclusive' /\ Bookkeeping'
  BY <1>1, <1>2, <1>3 DEF Exclusive, Bookkeeping, InUse, At, PoolInv
<1>5. Counts'
  <2>1. /\ IsFiniteSet(Dialing \ {c}) /\ Cardinality(Dialing \ {c}) = Cardinality(Dialing) - 1
        /\ Cardinality(open) \in Nat /\ Cardinality(Dialing) \in Nat
    BY <1>2, FS_RemoveElement, FS_CardinalityType DEF PoolInv, Counts
  <2>2. /\ live \in Int /\ Cardinality(open) + Cardinality(Dialing) <= Size
        /\ ~closed => live = Cardinality(open) + Cardinality(Dialing)
        /\ IsFiniteSet(Dialing) /\ IsFiniteSet(open) /\ closed' = closed
    BY DEF PoolInv, TypeOK, Counts, DialTooLate, DialFailed
  <2> QED BY <2>1, <2>2, <1>1, <1>2 DEF Counts
<1>6. NoLostWakeup' /\ CloseRefusesWaiters'
  BY <1>1 DEF NoLostWakeup, CloseRefusesWaiters
<1> QED BY <1>4, <1>5, <1>6 DEF PoolInv

\* A dial that succeeds turns the place it took into an open session.
LEMMA DialAdmittedInv ==
  ASSUME PoolInv, TypeOK', NEW c \in Calls, DialAdmitted(c)
  PROVE  PoolInv'
<1> Size \in Nat \ {0} /\ NoSession \notin Sessions
  BY PoolAssumption
<1>1. PICK s \in Sessions \ open : /\ owned' = owned \cup {s} /\ open' = open \cup {s}
                                   /\ CheckOut(c, s, "sending")
  BY DEF DialAdmitted
<1>2. /\ pc[c] = "dialing" /\ ~closed /\ pc'[c] = "sending" /\ held'[c] = s
      /\ UNCHANGED <<idle, live, waiters, closed, closing>>
      /\ \A d \in Calls \ {c} : pc'[d] = pc[d] /\ held'[d] = held[d]
  BY <1>1 DEF DialAdmitted, CheckOut, PoolInv, TypeOK
<1>3. /\ Dialing' = Dialing \ {c} /\ c \in Dialing /\ c \notin At(Holding)
      /\ At(Holding)' = At(Holding) \cup {c}
  BY <1>2 DEF Dialing, At, Holding, PoolInv, TypeOK
<1>4. closing = <<>> /\ Range(closing) = {} /\ owned = open /\ owned' = open'
  BY <1>1, <1>2 DEF PoolInv, Bookkeeping, Range
<1>5. \A d \in At(Holding) : held'[d] = held[d] /\ held[d] \in open \ Range(idle)
  BY <1>2, <1>3, <1>4 DEF At, PoolInv, Bookkeeping
<1>6. Range(idle) \subseteq open
  BY DEF PoolInv, Bookkeeping
<1>7. Exclusive'
  <2>1. \A d, e \in At(Holding)' : held'[d] = held'[e] => d = e
    BY <1>1, <1>2, <1>3, <1>5 DEF PoolInv, Exclusive
  <2>2. InUse' \cap Range(idle') = {} /\ InUse' \cap Range(closing') = {}
    BY <1>1, <1>2, <1>3, <1>4, <1>5, <1>6 DEF InUse
  <2> QED BY <2>1, <2>2, <1>2 DEF Exclusive, PoolInv
<1>8. Bookkeeping'
  <2>1. waiters' \subseteq At({"waiting"})'
    BY <1>2 DEF PoolInv, Bookkeeping, At
  <2>2. \A d \in At(Holding)' : held'[d] \in owned' \ (Range(idle') \cup Range(closing'))
    BY <1>1, <1>2, <1>3, <1>4, <1>5, <1>6
  <2> QED BY <2>1, <2>2, <1>1, <1>2, <1>4, <1>6 DEF Bookkeeping
<1>9. Counts'
  <2>1. /\ IsFiniteSet(Dialing \ {c}) /\ Cardinality(Dialing \ {c}) = Cardinality(Dialing) - 1
        /\ IsFiniteSet(open \cup {s}) /\ Cardinality(open \cup {s}) = Cardinality(open) + 1
        /\ Cardinality(open) \in Nat /\ Cardinality(Dialing) \in Nat
    BY <1>3, FS_RemoveElement, FS_AddElement, FS_CardinalityType DEF PoolInv, Counts
  <2> QED BY <2>1, <1>1, <1>2, <1>3 DEF Counts, PoolInv, TypeOK
<1>10. NoLostWakeup' /\ CloseRefusesWaiters'
  BY <1>2 DEF NoLostWakeup, CloseRefusesWaiters, PoolInv
<1> QED BY <1>7, <1>8, <1>9, <1>10 DEF PoolInv

\* Starting a call, or resuming a woken one, keeps the invariant.
LEMMA EnterInv ==
  ASSUME PoolInv, TypeOK', NEW c \in Calls, Start(c) \/ Resume(c)
  PROVE  PoolInv'
<1>1. /\ AcquirePass(c, live, waiters) /\ pc[c] \in {"new", "waiting"}
      /\ UNCHANGED <<owned, closed, closing, open>> /\ c \notin waiters
  BY DEF Start, Resume, PoolInv, Bookkeeping, At
<1>2. c \notin At(Holding) /\ live \in Int /\ waiters \in SUBSET Calls
  BY <1>1 DEF At, Holding, PoolInv, TypeOK
<1>3. waiters # {} => idle = <<>> /\ live = Size
  BY DEF PoolInv, NoLostWakeup
<1>4. waiters \subseteq At({"waiting"}) \ {c}
  BY <1>1 DEF PoolInv, Bookkeeping
<1> QED BY <1>1, <1>2, <1>3, <1>4, AcquirePassInv
        DEF PoolInv, Bookkeeping, Exclusive, Counts, CloseRefusesWaiters

\* A failed health check gives the session up and starts another pass.
LEMMA CheckFailedInv ==
  ASSUME PoolInv, TypeOK', NEW c \in Calls, CheckFailed(c)
  PROVE  PoolInv'
<1> DEFINE s == held[c]
<1>1. /\ pc[c] = "checking" /\ open' = open \ {s} /\ owned' = owned \ {s}
      /\ UNCHANGED <<closed, closing>>
  BY DEF CheckFailed
<1>2. /\ c \in At(Holding) /\ s \in owned /\ s \in open
      /\ s \notin Range(idle) /\ s \notin Range(closing)
  BY <1>1 DEF PoolInv, Bookkeeping, At, Holding
<1>3. AcquirePass(c, live - 1, {})
  BY <1>2 DEF CheckFailed
<1>4. live - 1 \in Int /\ {} \in SUBSET Calls /\ live \in Int
  BY DEF PoolInv, TypeOK
<1>5. \A d \in At(Holding) \ {c} :
        /\ held[d] \in owned' \ (Range(idle) \cup Range(closing))
        /\ \A e \in At(Holding) \ {c} : held[d] = held[e] => d = e
  BY <1>1, <1>2 DEF PoolInv, Bookkeeping, Exclusive
<1>6. Range(idle) \cup Range(closing) \subseteq open'
  BY <1>1, <1>2 DEF PoolInv, Bookkeeping
<1>7. owned' = IF closing = <<>> THEN open' ELSE open' \ {Head(closing)}
  BY <1>1, <1>2 DEF PoolInv, Bookkeeping
<1>8. /\ IsFiniteSet(open') /\ IsFiniteSet(Dialing)
      /\ Cardinality(open') + Cardinality(Dialing) <= Size
      /\ ~closed => live - 1 = Cardinality(open') + Cardinality(Dialing)
  <2>1. /\ IsFiniteSet(open \ {s}) /\ Cardinality(open \ {s}) = Cardinality(open) - 1
        /\ Cardinality(open) \in Nat /\ Cardinality(Dialing) \in Nat
    BY <1>2, FS_RemoveElement, FS_CardinalityType DEF PoolInv, Counts
  <2>2. /\ Cardinality(open) + Cardinality(Dialing) <= Size /\ IsFiniteSet(Dialing)
        /\ ~closed => live = Cardinality(open) + Cardinality(Dialing)
    BY DEF PoolInv, Counts
  <2> QED BY <2>1, <2>2, <1>1, <1>4, PoolAssumption
<1>9. TypeOK /\ IsInjective(idle) /\ IsInjective(closing)
      /\ IF closed THEN idle = <<>> ELSE closing = <<>>
  BY DEF PoolInv, Exclusive, Bookkeeping
<1> QED BY <1>1, <1>3, <1>4, <1>5, <1>6, <1>7, <1>8, <1>9, AcquirePassInv

\* A session that passed its check is still held by the same call.
LEMMA CheckPassedInv ==
  ASSUME PoolInv, TypeOK', NEW c \in Calls, CheckPassed(c)
  PROVE  PoolInv'
<1>1. /\ held' = held /\ pc' = [pc EXCEPT ![c] = "sending"] /\ pc[c] = "checking"
      /\ UNCHANGED <<idle, owned, live, waiters, closed, closing, aborted, open>>
  BY DEF CheckPassed, CheckOut, PoolInv, TypeOK
<1>2. At(Holding)' = At(Holding) /\ Dialing' = Dialing /\ At({"waiting"})' = At({"waiting"})
  BY <1>1 DEF At, Holding, Dialing, PoolInv, TypeOK
<1> QED BY <1>1, <1>2 DEF PoolInv, Exclusive, InUse, Bookkeeping, Counts, NoLostWakeup,
                          CloseRefusesWaiters

\* A completed transaction returns its session to the stack of an open pool.
LEMMA SendSucceededInv ==
  ASSUME PoolInv, TypeOK', NEW c \in Calls, SendSucceeded(c)
  PROVE  PoolInv'
<1> DEFINE s == held[c]
<1>1. /\ c \in At(Holding) /\ s \in owned /\ s \in open /\ s \in Sessions
      /\ s \notin Range(idle) /\ s \notin Range(closing)
  BY DEF SendSucceeded, PoolInv, Bookkeeping, At, Holding, TypeOK
<1>2. CASE closed
  BY <1>2, DestroyInv DEF SendSucceeded, Release, Settled
<1>3. CASE ~closed
  <2>1. /\ idle' = Append(idle, s) /\ waiters' = {} /\ Settle(c, "sent") /\ pc[c] = "sending"
        /\ UNCHANGED <<owned, live, open, closed, closing>>
    BY <1>1, <1>3 DEF SendSucceeded, Release, Wake
  <2>2. IsInjective(idle') /\ Range(idle') = Range(idle) \cup {s}
    BY <1>1, <2>1, PushFacts DEF PoolInv, TypeOK, Exclusive
  <2>3. \A d \in Calls \ {c} : pc'[d] = pc[d] /\ held'[d] = held[d]
    BY <2>1 DEF Settle, PoolInv, TypeOK
  <2>4. Dialing' = Dialing /\ At(Holding)' = At(Holding) \ {c}
    BY <2>1, <2>3 DEF Settle, Dialing, At, Holding, PoolInv, TypeOK
  <2>5. \A d \in At(Holding) \ {c} : held'[d] = held[d] /\ held[d] # s
    BY <1>1, <2>3 DEF At, PoolInv, Exclusive
  <2>6. Exclusive'
    BY <1>1, <2>1, <2>2, <2>4, <2>5 DEF Exclusive, InUse, PoolInv
  <2>7. Bookkeeping'
    BY <1>1, <1>3, <2>1, <2>2, <2>4, <2>5 DEF Bookkeeping, PoolInv
  <2>8. Counts' /\ NoLostWakeup' /\ CloseRefusesWaiters'
    BY <2>1, <2>4 DEF Counts, NoLostWakeup, CloseRefusesWaiters, PoolInv
  <2> QED BY <2>6, <2>7, <2>8 DEF PoolInv
<1> QED BY <1>2, <1>3

\* An abort takes a parked call out of the waiters and settles it.
LEMMA AbortInv ==
  ASSUME PoolInv, TypeOK', NEW c \in Calls, Abort(c)
  PROVE  PoolInv'
<1>1. /\ waiters' = waiters \ {c} /\ UNCHANGED <<idle, owned, live, closed, closing, held, open>>
      /\ \A d \in Calls \ {c} : pc'[d] = pc[d]
      /\ pc'[c] = pc[c] \/ (pc[c] = "waiting" /\ pc'[c] = "aborted")
  <2>1. pc \in [Calls -> Phases] /\ waiters \subseteq At({"waiting"})
    BY DEF PoolInv, TypeOK, Bookkeeping
  <2>2. CASE c \in waiters
    <3>1. pc' = [pc EXCEPT ![c] = "aborted"] /\ pc[c] = "waiting"
      BY <2>1, <2>2 DEF Abort, At
    <3> QED BY <3>1, <2>1 DEF Abort
  <2>3. CASE c \notin waiters
    BY <2>3 DEF Abort
  <2> QED BY <2>2, <2>3
<1>2. At(Holding)' = At(Holding) /\ Dialing' = Dialing
      /\ At({"waiting"}) \ {c} \subseteq At({"waiting"})'
  BY <1>1 DEF At, Holding, Dialing
<1>3. Exclusive'
  BY <1>1, <1>2 DEF PoolInv, Exclusive, InUse
<1>4. Bookkeeping'
  BY <1>1, <1>2 DEF PoolInv, Bookkeeping
<1>5. Counts'
  BY <1>1, <1>2 DEF PoolInv, Counts
<1>6. NoLostWakeup' /\ CloseRefusesWaiters'
  BY <1>1 DEF PoolInv, NoLostWakeup, CloseRefusesWaiters
<1> QED BY <1>3, <1>4, <1>5, <1>6 DEF PoolInv

\* Between two QUITs close() gives up one more session or refuses the waiters.
LEMMA CloseNextInv ==
  ASSUME TypeOK, TypeOK', NEW todo \in Seq(Sessions), CloseNext(todo),
         closed', idle' = <<>>, held' = held,
         owned = open', Range(todo) \subseteq open', IsInjective(todo),
         \A c \in At(Holding) : held[c] \in owned \ Range(todo),
         \A c, d \in At(Holding) : held[c] = held[d] => c = d,
         todo # <<>> => waiters = {}, waiters \subseteq At({"waiting"}),
         IsFiniteSet(open'), IsFiniteSet(Dialing),
         Cardinality(open') + Cardinality(Dialing) <= Size
  PROVE  PoolInv'
<1>1. closing' = todo /\ waiters' = {}
  BY DEF CloseNext
<1>2. owned' = IF todo = <<>> THEN open' ELSE open' \ {Head(todo)}
  BY DEF CloseNext
<1>3. At(Holding)' = At(Holding) /\ Dialing' = Dialing
  <2>1. \A c \in Calls : pc'[c] = pc[c] \/ (pc[c] = "waiting" /\ pc'[c] = "refused")
    <3>1. CASE todo # <<>>
      BY <3>1 DEF CloseNext
    <3>2. CASE todo = <<>>
      <4>1. pc' = [c \in Calls |-> IF c \in waiters THEN "refused" ELSE pc[c]]
        BY <3>2 DEF CloseNext
      <4> QED BY <4>1 DEF At
    <3> QED BY <3>1, <3>2
  <2> QED BY <2>1 DEF At, Holding, Dialing
<1>4. Range(idle') = {} /\ IsInjective(idle')
  BY DEF Range, IsInjective
<1>5. Exclusive'
  BY <1>1, <1>3, <1>4 DEF Exclusive, InUse
<1>6. Bookkeeping'
  <2>1. todo # <<>> => Head(todo) \in Range(todo)
    BY TailFacts
  <2>2. \A c \in At(Holding)' : held'[c] \in owned' \ (Range(idle') \cup Range(closing'))
    BY <2>1, <1>1, <1>2, <1>3, <1>4
  <2> QED BY <2>2, <1>1, <1>2, <1>4 DEF Bookkeeping
<1>7. Counts' /\ NoLostWakeup' /\ CloseRefusesWaiters'
  BY <1>1, <1>3 DEF Counts, NoLostWakeup, CloseRefusesWaiters
<1> QED BY <1>5, <1>6, <1>7 DEF PoolInv

\* Calling close() keeps the invariant: with a session idle nobody is parked,
\* and with nobody idle the waiters are refused at once.
LEMMA CloseInv ==
  ASSUME PoolInv, TypeOK', Close
  PROVE  PoolInv'
<1>1. CloseNext(idle) /\ closed' /\ idle' = <<>> /\ held' = held /\ open' = open /\ ~closed
  BY DEF Close
<1>2. owned = open /\ Range(idle) \subseteq open
  BY <1>1 DEF PoolInv, Bookkeeping
<1>3. idle # <<>> => waiters = {}
  BY DEF PoolInv, NoLostWakeup
<1> QED BY <1>1, <1>2, <1>3, CloseNextInv DEF PoolInv, TypeOK, Bookkeeping, Exclusive, Counts

\* The end of a QUIT closes the socket of the session that was given up.
LEMMA QuitDoneInv ==
  ASSUME PoolInv, TypeOK', QuitDone
  PROVE  PoolInv'
<1>1. /\ closing # <<>> /\ open' = open \ {Head(closing)} /\ CloseNext(Tail(closing))
      /\ UNCHANGED <<idle, closed, held>>
  BY DEF QuitDone
<1>2. closed /\ idle = <<>> /\ owned = open' /\ waiters = {} /\ waiters \subseteq At({"waiting"})
  BY <1>1 DEF PoolInv, Bookkeeping, CloseRefusesWaiters
<1>3. /\ Tail(closing) \in Seq(Sessions) /\ IsInjective(Tail(closing))
      /\ Range(Tail(closing)) = Range(closing) \ {Head(closing)} /\ Head(closing) \in Range(closing)
  BY <1>1, TailFacts DEF PoolInv, TypeOK, Exclusive
<1>4. Range(Tail(closing)) \subseteq open'
  BY <1>1, <1>3 DEF PoolInv, Bookkeeping
<1>5. /\ \A c \in At(Holding) : held[c] \in owned \ Range(Tail(closing))
      /\ \A c, d \in At(Holding) : held[c] = held[d] => c = d
  BY <1>3 DEF PoolInv, Bookkeeping, Exclusive
<1>6. /\ IsFiniteSet(open') /\ IsFiniteSet(Dialing)
      /\ Cardinality(open') + Cardinality(Dialing) <= Size
  <2>1. /\ IsFiniteSet(open \ {Head(closing)})
        /\ Cardinality(open \ {Head(closing)}) <= Cardinality(open)
        /\ Cardinality(open) \in Nat /\ Cardinality(Dialing) \in Nat
        /\ Cardinality(open \ {Head(closing)}) \in Nat
    BY FS_Subset, FS_CardinalityType DEF PoolInv, Counts
  <2> QED BY <2>1, <1>1, PoolAssumption DEF PoolInv, Counts
<1>7. TypeOK /\ TypeOK'
  BY DEF PoolInv
<1> QED BY <1>1, <1>2, <1>3, <1>4, <1>5, <1>6, <1>7, CloseNextInv

\* The invariant holds of every reachable state.
THEOREM PoolInvariant == Spec => []PoolInv
<1>1. Init => PoolInv
  <2> SUFFICES ASSUME Init PROVE PoolInv
    OBVIOUS
  <2>1. TypeOK
    BY InitTypes
  <2>2. Range(idle) = {} /\ Range(closing) = {} /\ IsInjective(idle) /\ IsInjective(closing)
    BY DEF Init, Range, IsInjective
  <2>3. At(Holding) = {} /\ Dialing = {} /\ waiters = {} /\ open = {} /\ owned = {}
    BY DEF Init, At, Holding, Dialing
  <2>4. Counts
    BY <2>3, FS_EmptySet, PoolAssumption DEF Counts, Init
  <2> QED BY <2>1, <2>2, <2>3, <2>4
          DEF PoolInv, Exclusive, InUse, Bookkeeping, NoLostWakeup, CloseRefusesWaiters, Init
<1>2. PoolInv /\ TypeOK' /\ [Next]_vars => PoolInv'
  <2> SUFFICES ASSUME PoolInv, TypeOK', [Next]_vars PROVE PoolInv'
    OBVIOUS
  <2>1. ASSUME NEW c \in Calls, Start(c) \/ Resume(c) PROVE PoolInv'
    BY <2>1, EnterInv
  <2>2. ASSUME NEW c \in Calls, Abort(c) PROVE PoolInv'
    BY <2>2, AbortInv
  <2>3. ASSUME NEW c \in Calls, DialDone(c) PROVE PoolInv'
    BY <2>3, DialAdmittedInv, DialLostInv DEF DialDone
  <2>4. ASSUME NEW c \in Calls, CheckDone(c) PROVE PoolInv'
    BY <2>4, CheckPassedInv, CheckFailedInv DEF CheckDone
  <2>5. ASSUME NEW c \in Calls, SendSucceeded(c) PROVE PoolInv'
    BY <2>5, SendSucceededInv
  <2>6. ASSUME NEW c \in Calls, SendFailed(c) PROVE PoolInv'
    BY <2>6, DestroyInv DEF SendFailed, Settled
  <2>7. CASE Close
    BY <2>7, CloseInv
  <2>8. CASE QuitDone
    BY <2>8, QuitDoneInv
  <2>9. CASE UNCHANGED vars
    <3>1. At(Holding)' = At(Holding) /\ Dialing' = Dialing /\ At({"waiting"})' = At({"waiting"})
      BY <2>9 DEF vars, At, Dialing
    <3> QED BY <2>9, <3>1 DEF vars, PoolInv, Exclusive, InUse, Bookkeeping, Counts,
                              NoLostWakeup, CloseRefusesWaiters
  <2> QED BY <2>1, <2>2, <2>3, <2>4, <2>5, <2>6, <2>7, <2>8, <2>9 DEF Next, SendDone, Terminated
<1> QED BY <1>1, <1>2, TypeCorrect, PTL DEF Spec

\* At most Size connections exist at any time, dials under way included.
THEOREM ConnectionsBounded == Spec => []ConnectionBound
<1>1. PoolInv => ConnectionBound
  BY DEF PoolInv, Counts, ConnectionBound, Dialing
<1> QED BY <1>1, PoolInvariant, PTL

\* While the pool is open its count of live connections is right.
THEOREM LiveAccurate == Spec => []LiveIsAccurate
<1>1. PoolInv => LiveIsAccurate
  BY DEF PoolInv, Counts, Bookkeeping, LiveIsAccurate, Dialing
<1> QED BY <1>1, PoolInvariant, PTL

\* A call is parked only while the pool is busy to capacity.
THEOREM WakeupsNotLost == Spec => []NoLostWakeup
<1>1. PoolInv => NoLostWakeup
  BY DEF PoolInv
<1> QED BY <1>1, PoolInvariant, PTL

\* Once close() has been called nobody is parked.
THEOREM WaitersRefused == Spec => []CloseRefusesWaiters
<1>1. PoolInv => CloseRefusesWaiters
  BY DEF PoolInv
<1> QED BY <1>1, PoolInvariant, PTL
-----------------------------------------------------------------------------
(* No connection is forgotten *)

\* The sessions in the hands of the calls other than c.
InOtherUse(c) == {held[d] : d \in At(Holding) \ {c}}

\* A call that leaves its session behind takes nothing else out of use.
LEMMA OthersKeep ==
  ASSUME NEW c \in Calls, \A d \in Calls \ {c} : pc'[d] = pc[d] /\ held'[d] = held[d]
  PROVE  /\ pc'[c] \notin Holding => InUse' = InOtherUse(c)
         /\ pc'[c] \in Holding => InUse' = InOtherUse(c) \cup {held'[c]}
         /\ pc[c] \notin Holding => InUse = InOtherUse(c)
         /\ pc[c] \in Holding => InUse = InOtherUse(c) \cup {held[c]}
<1> DEFINE O == At(Holding) \ {c}
<1>1. \A d \in O : d \in Calls /\ pc'[d] \in Holding /\ held'[d] = held[d]
  BY DEF At
<1>2. /\ At(Holding) = IF pc[c] \in Holding THEN O \cup {c} ELSE O
      /\ At(Holding)' = IF pc'[c] \in Holding THEN O \cup {c} ELSE O
  BY DEF At
<1> QED BY <1>1, <1>2 DEF InUse, InOtherUse

\* A pass of acquire() moves at most the top of the stack, into the call's hand.
LEMMA AcquirePassNoLeak ==
  ASSUME TypeOK, NEW c \in Calls, NEW n \in Int, NEW ws \in SUBSET Calls,
         AcquirePass(c, n, ws), closing' = closing, IsInjective(idle),
         open' = InOtherUse(c) \cup Range(idle) \cup Range(closing)
  PROVE  NoLeak'
<1>1. \A d \in Calls \ {c} : pc'[d] = pc[d] /\ held'[d] = held[d]
  BY DEF AcquirePass, Settle, CheckOut, TypeOK
<1>2. CASE pc'[c] \notin Holding /\ idle' = idle
  BY <1>1, <1>2, OthersKeep DEF NoLeak
<1>3. CASE pc'[c] \in Holding /\ idle # <<>> /\ held'[c] = Last(idle) /\ idle' = Front(idle)
  <2>1. Range(idle) = Range(idle') \cup {held'[c]}
    BY <1>3, PopFacts DEF TypeOK
  <2> QED BY <1>1, <1>3, <2>1, OthersKeep DEF NoLeak
<1> QED BY <1>2, <1>3 DEF AcquirePass, Settle, CheckOut, Settled, Holding, TypeOK

\* A call that gives up its session closes that socket and no other.
LEMMA GiveUpNoLeak ==
  ASSUME PoolInv, NoLeak, NEW c \in Calls, pc[c] \in Holding
  PROVE  open \ {held[c]} = InOtherUse(c) \cup Range(idle) \cup Range(closing)
<1>1. c \in At(Holding) /\ held[c] \notin Range(idle) /\ held[c] \notin Range(closing)
  BY DEF At, PoolInv, Bookkeeping
<1>2. held[c] \notin InOtherUse(c)
  BY <1>1 DEF InOtherUse, PoolInv, Exclusive
<1>3. InUse = InOtherUse(c) \cup {held[c]}
  BY <1>1 DEF InUse, InOtherUse
<1> QED BY <1>1, <1>2, <1>3 DEF NoLeak

\* Steps of close() hand the stack over and close one socket at a time.
LEMMA CloseNoLeak ==
  ASSUME PoolInv, NoLeak, Close \/ QuitDone
  PROVE  NoLeak'
<1>1. waiters \subseteq At({"waiting"})
  BY DEF PoolInv, Bookkeeping
<1>2. InUse' = InUse
  <2>1. held' = held
    BY DEF Close, QuitDone
  <2>2. \A c \in Calls : pc'[c] = pc[c] \/ (pc[c] = "waiting" /\ pc'[c] = "refused")
    BY <1>1 DEF Close, QuitDone, CloseNext, At
  <2>3. At(Holding)' = At(Holding)
    BY <2>2 DEF At, Holding
  <2> QED BY <2>1, <2>3 DEF InUse
<1>3. CASE Close
  <2>1. closing = <<>> /\ closing' = idle /\ idle' = <<>> /\ open' = open
    BY <1>3 DEF Close, CloseNext, PoolInv, Bookkeeping
  <2> QED BY <1>2, <2>1 DEF NoLeak
<1>4. CASE QuitDone
  <2>1. /\ closing # <<>> /\ closing' = Tail(closing) /\ idle' = idle
        /\ open' = open \ {Head(closing)}
    BY <1>4 DEF QuitDone, CloseNext
  <2>2. Range(Tail(closing)) = Range(closing) \ {Head(closing)} /\ Head(closing) \in Range(closing)
    BY <2>1, TailFacts DEF PoolInv, TypeOK, Exclusive
  <2>3. Head(closing) \notin InUse /\ Range(idle) = {}
    BY <2>1, <2>2 DEF PoolInv, Exclusive, Bookkeeping, Range
  <2> QED BY <1>2, <2>1, <2>2, <2>3 DEF NoLeak
<1> QED BY <1>3, <1>4

\* An open socket is always in a hand that will use or close it.
THEOREM NothingLeaks == Spec => []NoLeak
<1>1. Init => NoLeak
  BY DEF Init, NoLeak, InUse, At, Holding, Range
<1>2. PoolInv /\ NoLeak /\ [Next]_vars => NoLeak'
  <2> SUFFICES ASSUME PoolInv, NoLeak, [Next]_vars PROVE NoLeak'
    OBVIOUS
  <2>0. TypeOK /\ IsInjective(idle) /\ live \in Int /\ live - 1 \in Int /\ waiters \in SUBSET Calls
    BY DEF PoolInv, Exclusive, TypeOK
  <2>1. ASSUME NEW c \in Calls, Start(c) \/ Resume(c) PROVE NoLeak'
    <3>1. /\ AcquirePass(c, live, waiters) /\ closing' = closing /\ open' = open
          /\ pc[c] \notin Holding
      BY <2>1 DEF Start, Resume, Holding
    <3>2. InUse = InOtherUse(c)
      BY <3>1 DEF InUse, InOtherUse, At
    <3> QED BY <2>0, <3>1, <3>2, AcquirePassNoLeak DEF NoLeak
  <2>2. ASSUME NEW c \in Calls, Abort(c) PROVE NoLeak'
    <3>1. /\ UNCHANGED <<idle, closing, held, open>>
          /\ \A d \in Calls : pc'[d] = pc[d] \/ (pc[d] = "waiting" /\ pc'[d] = "aborted")
      BY <2>2 DEF Abort, PoolInv, TypeOK, Bookkeeping, At
    <3>2. At(Holding)' = At(Holding)
      BY <3>1 DEF At, Holding
    <3> QED BY <3>1, <3>2 DEF NoLeak, InUse
  <2>3. ASSUME NEW c \in Calls, DialAdmitted(c) PROVE NoLeak'
    <3>1. PICK s \in Sessions \ open : open' = open \cup {s} /\ CheckOut(c, s, "sending")
      BY <2>3 DEF DialAdmitted
    <3>2. /\ \A d \in Calls \ {c} : pc'[d] = pc[d] /\ held'[d] = held[d]
          /\ pc[c] \notin Holding /\ pc'[c] \in Holding /\ held'[c] = s
          /\ idle' = idle /\ closing' = closing
      BY <2>3, <3>1 DEF DialAdmitted, CheckOut, Holding, PoolInv, TypeOK
    <3> QED BY <3>1, <3>2, OthersKeep DEF NoLeak
  <2>4. ASSUME NEW c \in Calls, DialTooLate(c) \/ DialFailed(c) PROVE NoLeak'
    <3>1. /\ \A d \in Calls \ {c} : pc'[d] = pc[d] /\ held'[d] = held[d]
          /\ pc[c] \notin Holding /\ pc'[c] \notin Holding
          /\ UNCHANGED <<idle, closing, open>>
      BY <2>4 DEF DialTooLate, DialFailed, Settle, Holding, PoolInv, TypeOK
    <3> QED BY <3>1, OthersKeep DEF NoLeak
  <2>5. ASSUME NEW c \in Calls, CheckPassed(c) PROVE NoLeak'
    <3>1. /\ \A d \in Calls \ {c} : pc'[d] = pc[d] /\ held'[d] = held[d]
          /\ pc[c] \in Holding /\ pc'[c] \in Holding /\ held'[c] = held[c]
          /\ UNCHANGED <<idle, closing, open>>
      BY <2>5 DEF CheckPassed, CheckOut, Holding, PoolInv, TypeOK
    <3> QED BY <3>1, OthersKeep DEF NoLeak
  <2>6. ASSUME NEW c \in Calls, CheckFailed(c) PROVE NoLeak'
    <3>1. /\ open' = open \ {held[c]} /\ closing' = closing /\ pc[c] \in Holding
          /\ AcquirePass(c, live - 1, {}) \/ AcquirePass(c, live, waiters)
      BY <2>6 DEF CheckFailed, Holding
    <3>2. open' = InOtherUse(c) \cup Range(idle) \cup Range(closing)
      BY <3>1, GiveUpNoLeak
    <3> QED BY <2>0, <3>1, <3>2, AcquirePassNoLeak
  <2>7. ASSUME NEW c \in Calls, SendSucceeded(c) \/ SendFailed(c) PROVE NoLeak'
    <3>1. /\ \A d \in Calls \ {c} : pc'[d] = pc[d] /\ held'[d] = held[d]
          /\ pc[c] \in Holding /\ pc'[c] \notin Holding /\ closing' = closing
      BY <2>7 DEF SendSucceeded, SendFailed, Settle, Holding, PoolInv, TypeOK
    <3>2. InUse' = InOtherUse(c) /\ InUse = InOtherUse(c) \cup {held[c]}
      BY <3>1, OthersKeep
    <3>3. CASE idle' = idle /\ open' = open \ {held[c]}
      BY <3>1, <3>2, <3>3, GiveUpNoLeak DEF NoLeak
    <3>4. CASE idle' = Append(idle, held[c]) /\ open' = open
      <4>1. held[c] \in Sessions /\ held[c] \notin Range(idle) /\ idle \in Seq(Sessions)
        BY <3>1 DEF PoolInv, Bookkeeping, TypeOK, At
      <4>2. Range(idle') = Range(idle) \cup {held[c]}
        BY <2>0, <3>4, <4>1, PushFacts
      <4> QED BY <3>1, <3>2, <3>4, <4>2 DEF NoLeak
    <3> QED BY <2>7, <3>3, <3>4 DEF SendSucceeded, SendFailed, Release, Destroy
  <2>8. CASE Close \/ QuitDone
    BY <2>8, CloseNoLeak
  <2>9. CASE UNCHANGED vars
    BY <2>9 DEF vars, NoLeak, InUse, At
  <2> QED BY <2>1, <2>2, <2>3, <2>4, <2>5, <2>6, <2>7, <2>8, <2>9
          DEF Next, DialDone, CheckDone, SendDone, Terminated
<1> QED BY <1>1, <1>2, PoolInvariant, PTL DEF Spec

\* No session is ever in two hands, and none is in nobody's.
THEOREM SessionsInOneHand == Spec => []SessionInOneHand
<1>1. PoolInv /\ NoLeak => SessionInOneHand
  BY DEF PoolInv, SessionInOneHand
<1> QED BY <1>1, PoolInvariant, NothingLeaks, PTL
=============================================================================
