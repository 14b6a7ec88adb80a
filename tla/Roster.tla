-------------------------------- MODULE Roster --------------------------------
(***************************************************************************)
(* What the office relies on when it plans shifts, whatever requests,      *)
(* locks and agents do: the roster changes one assignment at a time, each  *)
(* change is checked against the roster and the staff of that very moment, *)
(* and what was dropped stays dropped.  Schedule implements it, and so     *)
(* does the schedule with agents at work.                                  *)
(*                                                                         *)
(* There is no clock: that a shift starts in the future is checked before  *)
(* the change and may be out of date at the change.                        *)
(***************************************************************************)
EXTENDS Integers

CONSTANTS Job, Worker, Building, Content

VARIABLES
    duty,      \* the assignments that stand: from jobs to a worker, a building and a period
    dropped,   \* jobs that were cancelled
    staff      \* who can be given a job, and where there can be one

rvars == <<duty, dropped, staff>>

jobs == DOMAIN duty

RosterInit == duty = [j \in {} |-> {}] /\ dropped = {} /\ staff = Worker \cup Building

\* Nothing the worker of a plan has to do, but for job j, is at the same time.
HasTime(plan, j) ==
    \A k \in jobs \ {j} :
      duty[k].worker = plan.worker =>
        duty[k].span.to <= plan.span.from \/ plan.span.to <= duty[k].span.from

Put(j, plan) ==
    /\ {plan.worker, plan.building} \subseteq staff /\ HasTime(plan, j)
    /\ duty' = [k \in jobs \cup {j} |-> IF k = j THEN plan ELSE duty[k]]
    /\ UNCHANGED <<dropped, staff>>

Assign(j, plan) == j \notin jobs \cup dropped /\ Put(j, plan)
Move(j, plan) == j \in jobs /\ Put(j, plan)

Drop(j) ==
    /\ j \in jobs
    /\ duty' = [k \in jobs \ {j} |-> duty[k]] /\ dropped' = dropped \cup {j}
    /\ UNCHANGED staff

\* A worker or a building goes, with whatever was planned, or comes back.
Leave(x) == staff' = staff \ {x} /\ UNCHANGED <<duty, dropped>>
Return(x) == staff' = staff \cup {x} /\ UNCHANGED <<duty, dropped>>

RosterNext ==
    \/ \E j \in Job :
         \/ Drop(j)
         \/ \E plan \in Content : Assign(j, plan) \/ Move(j, plan)
    \/ \E x \in Worker \cup Building : Leave(x) \/ Return(x)

RosterSpec == RosterInit /\ [][RosterNext]_rvars

=============================================================================
