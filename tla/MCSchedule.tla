----------------------------- MODULE MCSchedule -----------------------------
(* Small instances of Schedule: three periods, of which the middle one meets *)
(* both others and those two do not meet.                                    *)
EXTENDS Schedule

Spans == {[from |-> 0, to |-> 2], [from |-> 1, to |-> 3], [from |-> 2, to |-> 3]}

=============================================================================
