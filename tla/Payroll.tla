------------------------------- MODULE Payroll -------------------------------
(***************************************************************************)
(* What payroll relies on, whatever the handlers do: a worker is on at     *)
(* most one shift, a shift that ended is either settled (it is paid) or in *)
(* doubt (its worker is asked first), and only moves forward, from open to *)
(* an end and from doubt to settled, unless an administrator is editing    *)
(* that very shift.  ShiftLedger implements it.                            *)
(***************************************************************************)
CONSTANTS Shift, Worker

VARIABLES
    on,         \* <<w, s>>: worker w is on shift s
    doubtful,   \* shifts that ended, whose end nobody has confirmed
    settled,    \* shifts that ended and are paid
    accepted,   \* shifts whose end a person has accepted once
    editing     \* shifts an administrator's edit is about to write

pvars == <<on, doubtful, settled, accepted, editing>>

PayrollTypeOK ==
    /\ on \subseteq Worker \X Shift
    /\ doubtful \subseteq Shift /\ settled \subseteq Shift
    /\ accepted \subseteq Shift /\ editing \subseteq Shift

OnShift(s) == \E w \in Worker : <<w, s>> \in on
Known(s) == OnShift(s) \/ s \in doubtful \cup settled

\* No worker is on two shifts.
Single(pairs) == \A p, q \in pairs : p[1] = q[1] => p = q

PayrollInit == on = {} /\ doubtful = {} /\ settled = {} /\ accepted = {} /\ editing = {}

Start(w, s) ==
    /\ ~Known(s) /\ ~ \E p \in on : p[1] = w
    /\ on' = on \cup {<<w, s>>}
    /\ UNCHANGED <<doubtful, settled, accepted, editing>>

\* A finished shift is entered by hand.
Enter(s) ==
    /\ ~Known(s)
    /\ settled' = settled \cup {s}
    /\ UNCHANGED <<on, doubtful, accepted, editing>>

\* The worker ends the shift they are on; a switch leaves its end in doubt.
Finish(w, s) ==
    /\ <<w, s>> \in on
    /\ on' = on \ {<<w, s>>}
    /\ \/ doubtful' = doubtful \cup {s} /\ settled' = settled
       \/ settled' = settled \cup {s} /\ doubtful' = doubtful
    /\ accepted \subseteq accepted' /\ accepted' \subseteq accepted \cup {s}
    /\ UNCHANGED editing

\* Nobody ended these shifts: their end is a guess.
TimeOut(pairs) ==
    /\ pairs # {} /\ pairs \subseteq on
    /\ on' = on \ pairs
    /\ LET late == {p[2] : p \in pairs} IN
         /\ doubtful' = doubtful \cup (late \ accepted)
         /\ settled' = settled \cup (late \cap accepted)
    /\ UNCHANGED <<accepted, editing>>

\* The worker says when the shift really ended.
Confirm(s) ==
    /\ s \in doubtful
    /\ doubtful' = doubtful \ {s} /\ settled' = settled \cup {s}
    /\ accepted' = accepted \cup {s}
    /\ UNCHANGED <<on, editing>>

\* An administrator's edit may move the shift to another worker, reopen it, end
\* it or put its end in doubt; it touches no other shift.
Amend(s) ==
    /\ s \in editing /\ editing' \subseteq editing
    /\ \E w \in Worker :
         LET others == {p \in on : p[2] # s} IN on' \in {others, others \cup {<<w, s>>}}
    /\ Single(on')
    /\ doubtful \ {s} = doubtful' \ {s} /\ settled \ {s} = settled' \ {s}
    /\ accepted \ {s} = accepted' \ {s}

\* Edits begin, and are given up.
Edit == UNCHANGED <<on, doubtful, settled, accepted>>

PayrollNext ==
    \/ \E s \in Shift :
         \/ Enter(s) \/ Confirm(s) \/ Amend(s)
         \/ \E w \in Worker : Start(w, s) \/ Finish(w, s)
    \/ \E pairs \in SUBSET on : TimeOut(pairs)
    \/ Edit

PayrollSpec == PayrollInit /\ [][PayrollNext]_pvars

=============================================================================
