------------------------------ MODULE ForkJoin ------------------------------
(***************************************************************************)
(* What the application relies on when it uses the task dispatcher: tasks  *)
(* are submitted while the pool is open, each is executed at most once and *)
(* in any order, a join ends only when every submitted task is executed,   *)
(* and the pool is closed only with nothing left to run.  No threads, no   *)
(* queue, no mutex.                                                        *)
(***************************************************************************)
EXTENDS Naturals

CONSTANT Tasks

VARIABLES submitted,  \* the tasks handed in so far
          runs,       \* how often each task was executed
          phase       \* "open", "joining", "closing", "closed"

fjvars == <<submitted, runs, phase>>

AllExecuted == \A t \in submitted : runs[t] = 1

Init ==
    /\ submitted = {}
    /\ runs = [t \in Tasks |-> 0]
    /\ phase = "open"

Submit(t) ==
    /\ phase = "open" /\ t \notin submitted
    /\ submitted' = submitted \cup {t}
    /\ UNCHANGED <<runs, phase>>

Execute(t) ==
    /\ phase \in {"open", "joining"}
    /\ t \in submitted /\ runs[t] = 0
    /\ runs' = [runs EXCEPT ![t] = 1]
    /\ UNCHANGED <<submitted, phase>>

Join ==
    /\ phase = "open"
    /\ phase' = "joining"
    /\ UNCHANGED <<submitted, runs>>

Joined ==
    /\ phase = "joining" /\ AllExecuted
    /\ phase' = "open"
    /\ UNCHANGED <<submitted, runs>>

Close ==
    /\ phase = "open" /\ AllExecuted
    /\ phase' = "closing"
    /\ UNCHANGED <<submitted, runs>>

Closed ==
    /\ phase = "closing"
    /\ phase' = "closed"
    /\ UNCHANGED <<submitted, runs>>

Next ==
    \/ \E t \in Tasks : Submit(t) \/ Execute(t)
    \/ Join \/ Joined \/ Close \/ Closed

Spec == Init /\ [][Next]_fjvars
=============================================================================
