------------------------------- MODULE Schedule -------------------------------
(***************************************************************************)
(* Planned shifts (routes/schedule.js): create, update and cancel, each    *)
(* one transaction that takes the company's advisory lock, reads and       *)
(* checks, writes and commits.  The reads under the lock are one action    *)
(* and the write with the COMMIT another: in between, other administrators *)
(* ask for the lock, workers and buildings are deactivated and the clock   *)
(* runs.                                                                   *)
(*                                                                         *)
(* A client edits what its calendar showed it, perhaps long ago.           *)
(***************************************************************************)
EXTENDS Integers

CONSTANTS
    Plan,        \* ids, generated by the clients
    Worker,
    Building,
    Client,      \* sessions that edit the schedule, one request each at a time
    Span,        \* the [from, to) periods that are asked for
    MaxTime,     \* bound on the clock
    MaxVersion,  \* bound on edits of one plan
    None

Time == 0 .. MaxTime

ASSUME ScheduleAssumption ==
    /\ MaxTime \in Nat /\ MaxVersion \in Nat \ {0}
    /\ Span \subseteq [from : Int, to : Int]
    /\ None \notin Client
    /\ Worker \cap Building = {}

\* What readPlan keeps, but for the note.
Content == [worker : Worker, building : Building, span : Span]
Target == Worker \cup Building
Row == [plan : Content, version : Nat \ {0}, cancelled : BOOLEAN]

VARIABLES
    now,
    plans,    \* planned_shifts: from the ids stored to rows
    active,   \* the workers and the buildings whose `active` is true
    lock,     \* who holds the company's advisory lock
    tx,       \* Client -> what its open transaction is about to write
    seen      \* Client -> the row its calendar or last answer showed it

vars == <<now, plans, active, lock, tx, seen>>

stored == DOMAIN plans
Idle == [op |-> "none"]

\* `base` is the row the edit was made from (history).
CreateTx == [op : {"create"}, id : Plan, plan : Content]
EditTx == [op : {"update", "cancel"}, id : Plan, plan : Content, base : Row]
Nothing == [id |-> None]
Shown == [id : Plan, row : Row]

TypeOK ==
    /\ now \in Time
    /\ stored \subseteq Plan /\ plans \in [stored -> Row]
    /\ active \subseteq Target
    /\ lock \in Client \cup {None}
    /\ tx \in [Client -> {Idle} \cup CreateTx \cup EditTx]
    /\ seen \in [Client -> {Nothing} \cup Shown]

Init ==
    /\ now = 0
    /\ plans = [p \in {} |-> None]
    /\ active = Target
    /\ lock = None
    /\ tx = [c \in Client |-> Idle]
    /\ seen = [c \in Client |-> Nothing]

-----------------------------------------------------------------------------
(* Checks                                                                  *)

Meet(s, t) == s.from < t.to /\ s.to > t.from

Overlap(id, plan) ==
    \E p \in stored \ {id} :
      /\ ~plans[p].cancelled /\ plans[p].plan.worker = plan.worker
      /\ Meet(plans[p].plan.span, plan.span)

Needs(plan) == {plan.worker, plan.building}

ValidAssignment(id, plan) ==
    /\ plan.span.from >= now
    /\ Needs(plan) \subseteq active
    /\ ~Overlap(id, plan)

\* FOR SHARE: the rows of the worker and the building that are put together are locked
\* until the commit.
Shared(x) == \E c \in Client : tx[c].op \in {"create", "update"} /\ x \in Needs(tx[c].plan)

-----------------------------------------------------------------------------
(* Transactions                                                            *)

\* Mutant: no pg_advisory_xact_lock.
NoLock(c) == tx[c] = Idle /\ lock' = c

Acquire(c) == tx[c] = Idle /\ lock = None /\ lock' = c

Editable(id, row) ==
    id \in stored /\ plans[id].version = row.version /\ ~plans[id].cancelled

\* The reads and checks of create, update and cancel.  What they answer without a
\* write (a create or a cancel that has been done already) is in Repeats.
Accepts(t) ==
    \/ t.op = "create" /\ t.id \notin stored /\ ValidAssignment(t.id, t.plan)
    \/ /\ t.op = "update" /\ Editable(t.id, t.base) /\ plans[t.id].plan.span.from >= now
       /\ ValidAssignment(t.id, t.plan)
    \/ t.op = "cancel" /\ Editable(t.id, t.base)

Repeats(t) ==
    /\ t.id \in stored
    /\ \/ t.op = "create" /\ plans[t.id].plan = t.plan /\ ~plans[t.id].cancelled
       \/ t.op = "cancel" /\ plans[t.id].cancelled

\* Mutant: the UPDATE forgets version = version + 1.
WrittenSameVersion(t) ==
    [plan |-> t.plan, cancelled |-> t.op = "cancel",
     version |-> IF t.op = "create" THEN 1 ELSE plans[t.id].version]

Begin(c, t) ==
    /\ Accepts(t) /\ Acquire(c)
    /\ tx' = [tx EXCEPT ![c] = t]
    /\ UNCHANGED <<now, plans, active, seen>>

Written(t) ==
    [plan |-> IF t.op = "cancel" THEN plans[t.id].plan ELSE t.plan,
     version |-> IF t.op = "create" THEN 1 ELSE plans[t.id].version + 1,
     cancelled |-> t.op = "cancel"]

\* The write and the COMMIT, which releases the locks.  The answer carries the new
\* row; `heard` says whether it arrives.
Commit(c, heard) ==
    LET t == tx[c] IN
    /\ t # Idle
    /\ plans' = [p \in stored \cup {t.id} |-> IF p = t.id THEN Written(t) ELSE plans[p]]
    /\ seen' = IF heard THEN [seen EXCEPT ![c] = [id |-> t.id, row |-> Written(t)]] ELSE seen
    /\ tx' = [tx EXCEPT ![c] = Idle] /\ lock' = None
    /\ UNCHANGED <<now, active>>

\* The connection or the process is lost: ROLLBACK.
Abort(c) ==
    /\ tx[c] # Idle
    /\ tx' = [tx EXCEPT ![c] = Idle] /\ lock' = None
    /\ UNCHANGED <<now, plans, active, seen>>

-----------------------------------------------------------------------------
(* What happens around them                                                *)

\* GET /admin/schedule
Calendar(c, p) ==
    /\ p \in stored
    /\ seen' = [seen EXCEPT ![c] = [id |-> p, row |-> plans[p]]]
    /\ UNCHANGED <<now, plans, active, lock, tx>>

\* Mutant: no FOR SHARE.
DeactivateUnlocked(x) ==
    /\ x \in active /\ active' = active \ {x}
    /\ UNCHANGED <<now, plans, lock, tx, seen>>

\* POST and DELETE of /admin/workers and /admin/locations wait for the row lock.
Deactivate(x) ==
    /\ x \in active /\ ~Shared(x)
    /\ active' = active \ {x}
    /\ UNCHANGED <<now, plans, lock, tx, seen>>

Reactivate(x) ==
    /\ x \notin active /\ active' = active \cup {x}
    /\ UNCHANGED <<now, plans, lock, tx, seen>>

Tick == now < MaxTime /\ now' = now + 1 /\ UNCHANGED <<plans, active, lock, tx, seen>>

\* The requests a client may send: a new plan, or an edit of the row it was shown.
Wish(c) ==
    CreateTx \cup
    {t \in [op : {"update", "cancel"}, id : {seen[c].id} \ {None}, plan : Content,
            base : IF seen[c] = Nothing THEN {} ELSE {seen[c].row}] :
       t.base.version < MaxVersion /\ (t.op = "cancel" => t.plan = t.base.plan)}

Around ==
    \/ \E c \in Client, p \in Plan : Calendar(c, p)
    \/ \E x \in Target : Deactivate(x) \/ Reactivate(x)
    \/ Tick

Next ==
    \/ \E c \in Client :
         \/ \E t \in Wish(c) : Begin(c, t)
         \/ \E heard \in BOOLEAN : Commit(c, heard)
         \/ Abort(c)
    \/ Around

Spec == Init /\ [][Next]_vars

-----------------------------------------------------------------------------
(* Properties                                                              *)

\* No worker is planned in two places at once: the overlap check of one request and
\* the write of another never interleave (schedule_overlap, lockCompany).
NoDoubleBooking ==
    \A p, q \in stored :
      /\ p # q /\ ~plans[p].cancelled /\ ~plans[q].cancelled
      /\ plans[p].plan.worker = plans[q].plan.worker
      => ~Meet(plans[p].plan.span, plans[q].plan.span)

\* What a request has checked stays true until it writes: nobody else writes.
ChecksHold ==
    \A c \in Client :
      /\ tx[c] # Idle => lock = c
      /\ tx[c].op \in {"create", "update"} =>
           /\ ~Overlap(tx[c].id, tx[c].plan)
           /\ Needs(tx[c].plan) \subseteq active
      /\ tx[c].op = "create" <=> tx[c] # Idle /\ tx[c].id \notin stored

\* No lost update: whoever changes a plan had that very row in front of them, not
\* only its number; and a cancelled plan never changes again (schedule_changed).
EditsSeeWhatTheyReplace ==
    [][\A p \in stored :
         plans'[p] # plans[p] =>
           /\ ~plans[p].cancelled
           /\ \E c \in Client : tx[c].op \in {"update", "cancel"} /\ tx[c].id = p
                                /\ tx[c].base = plans[p]]_vars

-----------------------------------------------------------------------------
(* The plans as the office sees them: the refinement mapping.              *)

Standing == {p \in stored : ~plans[p].cancelled}

Office == INSTANCE Roster WITH
            Job <- Plan, duty <- [p \in Standing |-> plans[p].plan],
            dropped <- stored \ Standing, staff <- active

\* Check and write are one: although the checks, the write and the COMMIT are apart, and
\* workers and buildings go in between, each transaction is one change of the roster, made from the
\* plans and the staff of that moment (lockCompany, FOR SHARE, schedule_target_unavailable).
ImplementsRoster == Office!RosterSpec

=============================================================================
