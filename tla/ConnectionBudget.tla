-------------------------- MODULE ConnectionBudget --------------------------
(***************************************************************************)
(* What the connection pool promises the calls that share it, without its  *)
(* stack, counters or wait list: at most Size calls are connected at once, *)
(* a call waits only while the budget is spent, and one that is turned     *)
(* away without a connection either gave up itself or met a closed pool.   *)
(***************************************************************************)
EXTENDS Naturals, FiniteSets

CONSTANTS Calls, Size

VARIABLES phase,      \* "new", "pending", "connected" or "done"
          cancelled,  \* calls whose caller gave up
          shut        \* the pool was closed

bvars == <<phase, cancelled, shut>>

Connected == {c \in Calls : phase[c] = "connected"}

Init == /\ phase = [c \in Calls |-> "new"]
        /\ cancelled = {}
        /\ shut = FALSE

Move(c, to) == /\ phase' = [phase EXCEPT ![c] = to]
               /\ UNCHANGED <<cancelled, shut>>

Grant(c) == /\ phase[c] \in {"new", "pending"}
            /\ c \notin cancelled /\ ~shut
            /\ Cardinality(Connected) < Size
            /\ Move(c, "connected")

Park(c) == /\ phase[c] = "new"
           /\ c \notin cancelled /\ ~shut
           /\ Cardinality(Connected) = Size
           /\ Move(c, "pending")

TurnAway(c) == /\ phase[c] \in {"new", "pending"}
               /\ c \in cancelled \/ shut
               /\ Move(c, "done")

Finish(c) == /\ phase[c] = "connected"
             /\ Move(c, "done")

\* A parked call learns of its cancellation at once, or a little later.
Cancel(c) == /\ phase[c] # "done" /\ c \notin cancelled
             /\ cancelled' = cancelled \cup {c}
             /\ \/ UNCHANGED phase
                \/ phase[c] = "pending" /\ phase' = [phase EXCEPT ![c] = "done"]
             /\ UNCHANGED shut

\* Shutting turns away some of the pending calls; the others notice later.
Shut == /\ ~shut /\ shut' = TRUE
        /\ \E W \in SUBSET {c \in Calls : phase[c] = "pending"} :
             phase' = [c \in Calls |-> IF c \in W THEN "done" ELSE phase[c]]
        /\ UNCHANGED cancelled

Next == \/ \E c \in Calls : Grant(c) \/ Park(c) \/ TurnAway(c) \/ Finish(c) \/ Cancel(c)
        \/ Shut

Spec == Init /\ [][Next]_bvars

\* Connected calls finish; a pending call that could be connected again and
\* again is connected in the end.
FairSpec ==
  /\ Spec
  /\ \A c \in Calls : /\ WF_bvars(Finish(c))
                      /\ WF_bvars(TurnAway(c) /\ phase[c] = "pending")
                      /\ SF_bvars(Grant(c) /\ phase[c] = "pending")
=============================================================================
