---------------------------- MODULE ScheduleProofs ----------------------------
(***************************************************************************)
(* Proofs about Schedule and AgentCalls, for any number of workers, plans, *)
(* panel sessions, handlers and request ids: the schedule's promises, that *)
(* a call takes effect once, and that the schedule keeps its promises with *)
(* agents at work beside the panel.                                        *)
(***************************************************************************)
EXTENDS AgentCalls, TLAPS

\* A row somebody was shown is the plan as it is, or an older version of it; the row
\* an open transaction edits is the plan as it is.
IsOld(id, row) ==
    /\ id \in stored
    /\ row.version <= plans[id].version
    /\ row.version = plans[id].version => row = plans[id]

SeenIsOld(c) == seen[c] # Nothing => IsOld(seen[c].id, seen[c].row)

EditIsCurrent(c) ==
    tx[c].op \in {"update", "cancel"} =>
      /\ tx[c].id \in stored /\ ~plans[tx[c].id].cancelled
      /\ tx[c].base = plans[tx[c].id]

ScheduleInv ==
    /\ TypeOK /\ ChecksHold
    /\ \A c \in Client : SeenIsOld(c) /\ EditIsCurrent(c)
    /\ NoDoubleBooking

TxOp == {Idle} \cup CreateTx \cup EditTx

\* A transaction's record tells what it is.
LEMMA TxByOp ==
    ASSUME NEW t \in TxOp
    PROVE  /\ t = Idle <=> t.op = "none"
           /\ t.op = "create" <=> t \in CreateTx
           /\ t.op \in {"update", "cancel"} <=> t \in EditTx
           /\ t # Idle => t.id \in Plan /\ t.plan \in Content
BY DEF TxOp, Idle, CreateTx, EditTx

LEMMA InitHolds == Init => ScheduleInv
BY ScheduleAssumption
   DEF Init, ScheduleInv, TypeOK, ChecksHold, SeenIsOld, IsOld, EditIsCurrent, NoDoubleBooking,
       stored, Idle, Nothing, Time, Overlap

\* What a client asks for is typed, and an edit starts from the row it saw.
LEMMA WishTyped ==
    ASSUME TypeOK, NEW c \in Client, NEW t \in Wish(c)
    PROVE  /\ t \in CreateTx \cup EditTx
           /\ t \in EditTx => seen[c] \in Shown /\ t.id = seen[c].id /\ t.base = seen[c].row
<1>1. CASE t \in CreateTx
  BY <1>1 DEF CreateTx, EditTx
<1>2. CASE t \notin CreateTx
  <2>1. /\ seen[c] # Nothing /\ t.id = seen[c].id /\ t.base = seen[c].row
        /\ t \in [op : {"update", "cancel"}, id : {seen[c].id}, plan : Content,
                  base : {seen[c].row}]
    BY <1>2 DEF Wish
  <2>2. seen[c] \in Shown
    BY <2>1 DEF TypeOK
  <2>. QED BY <2>1, <2>2 DEF EditTx, Shown
<1>. QED BY <1>1, <1>2

\* Whoever asks, with a row that is old enough: also an agent, whose call kept it.
LEMMA BeginKeeps ==
    ASSUME ScheduleInv, NEW c \in Client, NEW t \in CreateTx \cup EditTx, Begin(c, t),
           t \in EditTx => IsOld(t.id, t.base)
    PROVE  ScheduleInv'
<1>1. t \in CreateTx \cup EditTx /\ tx' = [tx EXCEPT ![c] = t] /\ lock = None /\ lock' = c
  BY DEF Begin, Acquire
<1>2. \A d \in Client : tx[d] = Idle
  BY <1>1, ScheduleAssumption DEF ScheduleInv, ChecksHold
<1>3. UNCHANGED <<now, plans, active, seen>> /\ stored' = stored
  BY DEF Begin, stored
<1>4. TypeOK'
  BY <1>1, <1>3 DEF ScheduleInv, TypeOK
<1>5. \A d \in Client : tx'[d] = IF d = c THEN t ELSE Idle
  BY <1>1, <1>2 DEF ScheduleInv, TypeOK
<1>6. t \in EditTx => t.id \in stored /\ ~plans[t.id].cancelled /\ t.base = plans[t.id]
  BY DEF Begin, Accepts, Editable, IsOld, EditTx
<1>7. t.op \in {"update", "cancel"} <=> t \in EditTx
  BY <1>1, TxByOp DEF TxOp
<1>8. \A d \in Client : SeenIsOld(d)' /\ EditIsCurrent(d)'
  BY <1>3, <1>5, <1>6, <1>7 DEF SeenIsOld, IsOld, EditIsCurrent, ScheduleInv, Idle
<1>9. ChecksHold'
  <2>1. Accepts(t)
    BY DEF Begin
  <2>2. t.op \in {"create", "update"} => ~Overlap(t.id, t.plan) /\ Needs(t.plan) \subseteq active
    BY <2>1 DEF Accepts, ValidAssignment
  <2>3. t.op = "create" <=> t # Idle /\ t.id \notin stored
    BY <1>1, <1>6, <1>7, <2>1, TxByOp DEF Accepts, TxOp
  <2>4. t.op # "none" /\ Idle.op = "none"
    BY <1>1 DEF Idle, CreateTx, EditTx
  <2>. QED BY <1>1, <1>3, <1>5, <2>2, <2>3, <2>4 DEF ChecksHold, Overlap, Idle
<1>10. NoDoubleBooking'
  BY <1>3 DEF ScheduleInv, NoDoubleBooking
<1>. QED BY <1>4, <1>8, <1>9, <1>10 DEF ScheduleInv

LEMMA CommitKeeps ==
    ASSUME ScheduleInv, NEW c \in Client, NEW heard \in BOOLEAN, Commit(c, heard)
    PROVE  ScheduleInv' /\ \A id \in Plan, old \in Row : IsOld(id, old) => IsOld(id, old)'
<1>. DEFINE t == tx[c]
            row == Written(t)
<1>1. t \in TxOp /\ t # Idle /\ t.id \in Plan /\ t.plan \in Content /\ lock = c
  BY TxByOp DEF Commit, ScheduleInv, TypeOK, ChecksHold, TxOp
<1>2. /\ stored' = stored \cup {t.id} /\ plans'[t.id] = row
      /\ \A p \in stored \ {t.id} : plans'[p] = plans[p]
      /\ UNCHANGED <<now, active>>
      /\ tx' = [tx EXCEPT ![c] = Idle] /\ lock' = None
  BY DEF Commit, stored
<1>3. \A d \in Client : tx'[d] = Idle
  BY <1>1, <1>2 DEF ScheduleInv, TypeOK, ChecksHold
<1>4. /\ row \in Row
      /\ t.id \in stored => row.version > plans[t.id].version
      /\ row.cancelled <=> t.op = "cancel"
      /\ t.op # "cancel" => row.plan = t.plan
  <2>1. CASE t.op = "create"
    <3>1. t.id \notin stored
      BY <1>1, <2>1 DEF ScheduleInv, ChecksHold
    <3>2. row = [plan |-> t.plan, version |-> 1, cancelled |-> FALSE]
      BY <2>1 DEF Written
    <3>. HIDE DEF row
    <3>. QED BY <1>1, <2>1, <3>1, <3>2 DEF Row
  <2>2. CASE t.op \in {"update", "cancel"}
    <3>1. t.id \in stored /\ plans[t.id] \in Row
      BY <2>2 DEF ScheduleInv, EditIsCurrent, TypeOK
    <3>2. row = [plan |-> IF t.op = "cancel" THEN plans[t.id].plan ELSE t.plan,
                 version |-> plans[t.id].version + 1, cancelled |-> t.op = "cancel"]
      BY <2>2 DEF Written
    <3>3. /\ plans[t.id].plan \in Content /\ plans[t.id].version \in Nat
      BY <3>1 DEF Row
    <3>. HIDE DEF row
    <3>4. row \in Row
      BY <1>1, <3>2, <3>3 DEF Row
    <3>5. /\ row.version = plans[t.id].version + 1 /\ (row.cancelled <=> t.op = "cancel")
          /\ t.op # "cancel" => row.plan = t.plan
      BY <3>2
    <3>6. row.version > plans[t.id].version
      BY <3>3, <3>5
    <3>. QED BY <3>4, <3>5, <3>6
  <2>. QED BY <1>1, <2>1, <2>2 DEF TxOp, CreateTx, EditTx
<1>. HIDE DEF row
<1>5. TypeOK'
  <2>1. plans' \in [stored' -> Row]
    <3>1. plans' = [p \in stored \cup {t.id} |-> IF p = t.id THEN row ELSE plans[p]]
      BY DEF Commit, row
    <3>. QED BY <1>2, <1>4, <3>1 DEF ScheduleInv, TypeOK
  <2>2. seen' \in [Client -> {Nothing} \cup Shown]
    <3>1. seen' = IF heard THEN [seen EXCEPT ![c] = [id |-> t.id, row |-> row]] ELSE seen
      BY DEF Commit, row
    <3>2. [id |-> t.id, row |-> row] \in Shown
      BY <1>1, <1>4 DEF Shown
    <3>. QED BY <3>1, <3>2 DEF ScheduleInv, TypeOK
  <2>3. tx' \in [Client -> {Idle} \cup CreateTx \cup EditTx]
    BY <1>2 DEF ScheduleInv, TypeOK
  <2>. QED BY <1>1, <1>2, <2>1, <2>2, <2>3 DEF ScheduleInv, TypeOK
<1>6. ASSUME NEW id \in Plan, NEW old \in Row, IsOld(id, old) PROVE IsOld(id, old)'
  <2>1. old.version \in Nat /\ row.version \in Nat /\ plans[id].version \in Nat
    BY <1>4, <1>6 DEF Row, IsOld, ScheduleInv, TypeOK
  <2>2. CASE id = t.id
    BY <1>2, <1>4, <1>6, <2>1, <2>2 DEF IsOld
  <2>3. CASE id # t.id
    BY <1>2, <1>6, <2>3 DEF IsOld
  <2>. QED BY <2>2, <2>3
<1>9. ASSUME NEW d \in Client PROVE SeenIsOld(d)'
  <2>1. row.version \in Nat
    BY <1>4 DEF Row
  <2>2. CASE seen'[d] = [id |-> t.id, row |-> row]
    BY <1>2, <2>1, <2>2 DEF SeenIsOld, IsOld
  <2>3. CASE seen'[d] = seen[d]
    BY <1>6, <2>3 DEF SeenIsOld, ScheduleInv, TypeOK, Shown
  <2>4. seen'[d] \in {seen[d], [id |-> t.id, row |-> row]}
    BY DEF Commit, ScheduleInv, TypeOK, row
  <2>. QED BY <2>2, <2>3, <2>4
<1>7. ChecksHold' /\ \A d \in Client : EditIsCurrent(d)'
  BY <1>3 DEF ChecksHold, EditIsCurrent, Idle
<1>8. NoDoubleBooking'
  <2>1. CASE t.op \in {"create", "update"}
    <3>1. ~Overlap(t.id, t.plan) /\ row.plan = t.plan
      BY <1>4, <2>1 DEF ScheduleInv, ChecksHold
    <3>2. \A p \in stored \ {t.id} :
            ~plans[p].cancelled /\ plans[p].plan.worker = row.plan.worker
              => ~Meet(plans[p].plan.span, row.plan.span)
      BY <3>1 DEF Overlap
    <3>3. \A s, u : Meet(s, u) <=> u.from < s.to /\ u.to > s.from
      BY DEF Meet
    <3>4. ASSUME NEW a \in Row, NEW b \in Row
          PROVE  Meet(a.plan.span, b.plan.span) <=> Meet(b.plan.span, a.plan.span)
      BY ScheduleAssumption DEF Meet, Row, Content
    <3>5. \A p \in stored \ {t.id} : plans[p] \in Row
      BY DEF ScheduleInv, TypeOK
    <3>. QED BY <1>2, <1>4, <3>2, <3>4, <3>5 DEF ScheduleInv, NoDoubleBooking
  <2>2. CASE t.op = "cancel"
    BY <1>2, <1>4, <2>2 DEF ScheduleInv, NoDoubleBooking
  <2>. QED BY <1>1, <2>1, <2>2 DEF TxOp, CreateTx, EditTx
<1>. QED BY <1>5, <1>6, <1>7, <1>8, <1>9 DEF ScheduleInv

LEMMA AbortKeeps ==
    ASSUME ScheduleInv, NEW c \in Client, Abort(c)
    PROVE  ScheduleInv'
<1>1. \A d \in Client : tx'[d] = Idle
  BY DEF Abort, ScheduleInv, TypeOK, ChecksHold
<1>2. TypeOK'
  BY DEF Abort, ScheduleInv, TypeOK, stored
<1>3. ChecksHold' /\ \A d \in Client : EditIsCurrent(d)'
  BY <1>1 DEF ChecksHold, EditIsCurrent, Idle
<1>4. NoDoubleBooking' /\ \A d \in Client : SeenIsOld(d)'
  BY DEF Abort, ScheduleInv, NoDoubleBooking, SeenIsOld, IsOld, stored
<1>. QED BY <1>2, <1>3, <1>4 DEF ScheduleInv

LEMMA AroundKeeps == ASSUME ScheduleInv, Around PROVE ScheduleInv'
<1>1. ASSUME NEW c \in Client, NEW p \in Plan, Calendar(c, p) PROVE ScheduleInv'
  <2>1. TypeOK'
    BY <1>1 DEF Calendar, ScheduleInv, TypeOK, Shown, stored
  <2>2. ChecksHold' /\ NoDoubleBooking' /\ \A d \in Client : EditIsCurrent(d)'
    BY <1>1 DEF Calendar, ScheduleInv, ChecksHold, NoDoubleBooking, EditIsCurrent, stored, Overlap
  <2>3. ASSUME NEW d \in Client PROVE SeenIsOld(d)'
    <3>1. plans[p].version \in Nat
      BY <1>1 DEF Calendar, ScheduleInv, TypeOK, Row
    <3>. QED BY <1>1, <3>1 DEF Calendar, ScheduleInv, SeenIsOld, IsOld, TypeOK, stored
  <2>. QED BY <2>1, <2>2, <2>3 DEF ScheduleInv
<1>2. ASSUME NEW x \in Target, Deactivate(x) \/ Reactivate(x) PROVE ScheduleInv'
  <2>1. TypeOK'
    BY <1>2 DEF Deactivate, Reactivate, ScheduleInv, TypeOK, stored
  <2>2. \A c \in Client : tx[c].op \in {"create", "update"} => Needs(tx[c].plan) \subseteq active'
    BY <1>2 DEF Deactivate, Reactivate, Shared, ScheduleInv, ChecksHold
  <2>3. UNCHANGED <<now, plans, lock, tx, seen>> /\ stored' = stored
    BY <1>2 DEF Deactivate, Reactivate, stored
  <2>4. ChecksHold'
    BY <2>2, <2>3 DEF ScheduleInv, ChecksHold, Overlap
  <2>. QED BY <2>1, <2>3, <2>4 DEF ScheduleInv, NoDoubleBooking, SeenIsOld, IsOld, EditIsCurrent
<1>3. CASE Tick
  BY <1>3, ScheduleAssumption
     DEF Tick, ScheduleInv, TypeOK, Time, ChecksHold, Overlap, NoDoubleBooking, SeenIsOld,
         IsOld, EditIsCurrent, stored
<1>. QED BY <1>1, <1>2, <1>3 DEF Around

LEMMA StutterKeeps == ASSUME ScheduleInv, UNCHANGED vars PROVE ScheduleInv'
BY DEF vars, ScheduleInv, TypeOK, ChecksHold, Overlap, NoDoubleBooking, SeenIsOld, IsOld,
       EditIsCurrent, stored

LEMMA InvStep == ScheduleInv /\ [Next]_vars => ScheduleInv'
<1> SUFFICES ASSUME ScheduleInv, [Next]_vars PROVE ScheduleInv'
  OBVIOUS
<1>1. ASSUME NEW c \in Client, NEW t \in Wish(c), Begin(c, t) PROVE ScheduleInv'
  <2>1. /\ t \in CreateTx \cup EditTx
        /\ t \in EditTx => seen[c] \in Shown /\ t.id = seen[c].id /\ t.base = seen[c].row
    BY WishTyped DEF ScheduleInv
  <2>2. t \in EditTx => IsOld(t.id, t.base)
    BY <2>1 DEF ScheduleInv, SeenIsOld, Shown, Nothing
  <2>. QED BY <1>1, <2>1, <2>2, BeginKeeps
<1>2. ASSUME NEW c \in Client, NEW heard \in BOOLEAN, Commit(c, heard) PROVE ScheduleInv'
  BY <1>2, CommitKeeps
<1>3. ASSUME NEW c \in Client, Abort(c) PROVE ScheduleInv'
  BY <1>3, AbortKeeps
<1>. QED BY <1>1, <1>2, <1>3, AroundKeeps, StutterKeeps DEF Next

LEMMA InvHolds == Spec => []ScheduleInv
BY InitHolds, InvStep, PTL DEF Spec

-----------------------------------------------------------------------------
\* Every variable stays within its type.
THEOREM ScheduleTypes == Spec => []TypeOK
BY InvHolds, PTL DEF ScheduleInv

\* No worker is ever planned in two places at once.
THEOREM NobodyDoubleBooked == Spec => []NoDoubleBooking
BY InvHolds, PTL DEF ScheduleInv

\* What a request checked under the company's lock still holds when it writes.
THEOREM ChecksStayTrue == Spec => []ChecksHold
BY InvHolds, PTL DEF ScheduleInv

-----------------------------------------------------------------------------
(* What one step may do to the plans and the staff, whoever takes it: also  *)
(* the steps of a system this one is a part of.                             *)

\* The schedule's part of a step: it leaves plans and staff alone, commits a request, or
\* somebody leaves or returns.
Harmless ==
    \/ UNCHANGED <<plans, active>>
    \/ \E c \in Client, heard \in BOOLEAN : Commit(c, heard)
    \/ \E x \in Target : Deactivate(x) \/ Reactivate(x)

LEMMA NextIsHarmless == [Next]_vars => Harmless
BY DEF Next, Around, Begin, Abort, Calendar, Deactivate, Reactivate, Tick, Harmless, vars

LEMMA EditStep ==
    ASSUME ScheduleInv, Harmless, NEW p \in stored, plans'[p] # plans[p]
    PROVE  /\ ~plans[p].cancelled
           /\ \E c \in Client : tx[c].op \in {"update", "cancel"} /\ tx[c].id = p
                                /\ tx[c].base = plans[p]
<1>1. PICK c \in Client, heard \in BOOLEAN : Commit(c, heard)
  BY DEF Harmless, Deactivate, Reactivate
<1>2. tx[c].id = p /\ tx[c] # Idle
  BY <1>1 DEF Commit
<1>3. tx[c].op \in {"update", "cancel"}
  BY <1>2, TxByOp DEF ScheduleInv, ChecksHold, TypeOK, TxOp, CreateTx, EditTx
<1>. QED BY <1>2, <1>3 DEF ScheduleInv, EditIsCurrent

\* A COMMIT is one change of the roster: what was checked under the lock holds now.
LEMMA CommitIsChange ==
    ASSUME ScheduleInv, NEW c \in Client, NEW heard \in BOOLEAN, Commit(c, heard)
    PROVE  Office!RosterNext
<1>. DEFINE t == tx[c]
            after == [p \in Standing' |-> plans'[p].plan]
<1>1. t \in TxOp /\ t # Idle /\ t.id \in Plan /\ t.plan \in Content
  BY TxByOp DEF Commit, ScheduleInv, TypeOK, TxOp
<1>2. /\ stored' = stored \cup {t.id} /\ plans'[t.id] = Written(t)
      /\ \A p \in stored \ {t.id} : plans'[p] = plans[p]
      /\ active' = active
  BY DEF Commit, stored
<1>3. t.op \in {"create", "update"} =>
        Needs(t.plan) \subseteq active /\ ~Overlap(t.id, t.plan)
  BY DEF ScheduleInv, ChecksHold
<1>4. ASSUME t.op \in {"create", "update"}, NEW p \in Standing \ {t.id},
             plans[p].plan.worker = t.plan.worker
      PROVE  plans[p].plan.span.to <= t.plan.span.from \/ t.plan.span.to <= plans[p].plan.span.from
  <2>1. /\ plans[p].plan.span.from \in Int /\ plans[p].plan.span.to \in Int
        /\ t.plan.span.from \in Int /\ t.plan.span.to \in Int
    <3>1. plans[p] \in Row
      BY <1>4 DEF Standing, ScheduleInv, TypeOK
    <3>. QED BY <1>1, <3>1, ScheduleAssumption DEF Row, Content
  <2>2. ~Meet(plans[p].plan.span, t.plan.span)
    BY <1>3, <1>4 DEF Overlap, Standing
  <2>. QED BY <2>1, <2>2 DEF Meet
<1>5. PICK j \in Plan, plan \in Content : j = t.id /\ plan = t.plan
  BY <1>1
<1>6. CASE t.op = "create"
  <2>1. t.id \notin stored /\ Written(t) = [plan |-> t.plan, version |-> 1, cancelled |-> FALSE]
    BY <1>1, <1>6 DEF ScheduleInv, ChecksHold, Written
  <2>2. /\ Standing' = Standing \cup {t.id} /\ t.id \notin Standing
        /\ stored' \ Standing' = stored \ Standing
    BY <1>2, <2>1 DEF Standing
  <2>3. after = [p \in Standing \cup {t.id} |-> IF p = t.id THEN t.plan ELSE plans[p].plan]
    BY <1>2, <2>1, <2>2 DEF Standing
  <2>4. Office!Assign(j, plan)
    BY <1>2, <1>3, <1>4, <1>5, <1>6, <2>1, <2>2, <2>3
       DEF Office!Assign, Office!Put, Office!HasTime, Office!jobs, Needs, Standing
  <2>. QED BY <2>4 DEF Office!RosterNext
<1>7. CASE t.op = "update"
  <2>1. t.id \in Standing
    BY <1>7 DEF ScheduleInv, EditIsCurrent, Standing
  <2>2. Written(t).plan = t.plan /\ ~Written(t).cancelled
    BY <1>7 DEF Written
  <2>3. Standing' = Standing /\ stored' = stored
    BY <1>2, <2>1, <2>2 DEF Standing
  <2>4. after = [p \in Standing \cup {t.id} |-> IF p = t.id THEN t.plan ELSE plans[p].plan]
    BY <1>2, <2>1, <2>2, <2>3 DEF Standing
  <2>5. Office!Move(j, plan)
    BY <1>2, <1>3, <1>4, <1>5, <1>7, <2>1, <2>3, <2>4
       DEF Office!Move, Office!Put, Office!HasTime, Office!jobs, Needs
  <2>. QED BY <2>5 DEF Office!RosterNext
<1>8. CASE t.op = "cancel"
  <2>1. t.id \in Standing
    BY <1>8 DEF ScheduleInv, EditIsCurrent, Standing
  <2>2. Written(t).cancelled
    BY <1>8 DEF Written
  <2>3. /\ Standing' = Standing \ {t.id}
        /\ stored' \ Standing' = (stored \ Standing) \cup {t.id}
    BY <1>2, <2>1, <2>2 DEF Standing
  <2>4. after = [p \in Standing \ {t.id} |-> plans[p].plan]
    BY <1>2, <2>3 DEF Standing
  <2>5. Office!Drop(j)
    BY <1>2, <1>5, <2>1, <2>3, <2>4 DEF Office!Drop, Office!jobs
  <2>. QED BY <2>5 DEF Office!RosterNext
<1>. QED BY <1>1, <1>6, <1>7, <1>8 DEF TxOp, CreateTx, EditTx

LEMMA HarmlessIsChange ==
    ASSUME ScheduleInv, Harmless
    PROVE  Office!RosterNext \/ UNCHANGED Office!rvars
<1>1. CASE UNCHANGED <<plans, active>>
  BY <1>1 DEF Office!rvars, Standing, stored
<1>2. CASE \E c \in Client, heard \in BOOLEAN : Commit(c, heard)
  BY <1>2, CommitIsChange
<1>3. ASSUME NEW x \in Target, Deactivate(x) \/ Reactivate(x) PROVE Office!RosterNext
  <2>1. UNCHANGED plans /\ active' \in {active \ {x}, active \cup {x}}
    BY <1>3 DEF Deactivate, Reactivate
  <2>2. Office!Leave(x) \/ Office!Return(x)
    BY <2>1 DEF Office!Leave, Office!Return, Standing, stored
  <2>. QED BY <2>2 DEF Office!RosterNext, Target
<1>. QED BY <1>1, <1>2, <1>3 DEF Harmless

LEMMA RosterBegins == Init => Office!RosterInit
BY DEF Init, Target, Office!RosterInit, Standing, stored

\* No edit replaces a row its author did not see, and a cancelled plan is final.
THEOREM NoLostUpdate == Spec => EditsSeeWhatTheyReplace
<1>1. ScheduleInv /\ [Next]_vars =>
        [\A p \in stored :
           plans'[p] # plans[p] =>
             /\ ~plans[p].cancelled
             /\ \E c \in Client : tx[c].op \in {"update", "cancel"} /\ tx[c].id = p
                                  /\ tx[c].base = plans[p]]_vars
  BY NextIsHarmless, EditStep
<1>. QED BY <1>1, InvHolds, PTL DEF Spec, EditsSeeWhatTheyReplace

\* The schedule implements the roster: check and write are one, although they are apart.
THEOREM ScheduleImplementsRoster == Spec => ImplementsRoster
<1>1. ScheduleInv /\ [Next]_vars => [Office!RosterNext]_(Office!rvars)
  BY NextIsHarmless, HarmlessIsChange
<1>. QED BY <1>1, InvHolds, RosterBegins, PTL DEF Spec, ImplementsRoster, Office!RosterSpec

-----------------------------------------------------------------------------
(* AgentCalls                                                              *)

Past == {"invoke", "commit", "refused"}     \* past the reservation
ArgsAreOld(t) == t \in EditTx => IsOld(t.id, t.base)

\* The arguments handlers and records remember: an edit among them was made from a
\* row that was current once.
Remembered ==
    {hnd[h].args : h \in {g \in Agent : hnd[g] # Free}} \cup
    {calls[r].args : r \in DOMAIN calls}
AllOld == \A t \in Remembered : ArgsAreOld(t)

LookFinds == \A h \in Agent : hnd[h].pc = "look" => hnd[h].id \in DOMAIN calls

AgentInv ==
    /\ ScheduleInv /\ AgentTypeOK
    /\ RecordIsTrue /\ AnswersAgree /\ OneAtWork
    /\ LookFinds /\ AllOld

LEMMA AgentInitHolds == AgentInit => AgentInv
<1> SUFFICES ASSUME AgentInit PROVE AgentInv
  OBVIOUS
<1>1. ScheduleInv
  BY InitHolds DEF AgentInit
<1>2. AgentTypeOK
  BY <1>1 DEF ScheduleInv, AgentInit, AgentTypeOK
<1>3. RecordIsTrue /\ AnswersAgree
  BY DEF AgentInit, RecordIsTrue, AnswersAgree
<1>4. OneAtWork /\ LookFinds
  BY DEF AgentInit, OneAtWork, LookFinds, Free
<1>5. AllOld
  BY DEF AgentInit, AllOld, Remembered
<1>. QED BY <1>1, <1>2, <1>3, <1>4, <1>5 DEF AgentInv

\* Rows only grow older: a step that remembers nothing but `fresh` besides what was
\* remembered keeps it all old.
LEMMA OldStaysOld ==
    ASSUME AgentInv, Harmless, NEW fresh, fresh \subseteq CreateTx \cup EditTx,
           \A t \in fresh : ArgsAreOld(t), Remembered' \subseteq Remembered \cup fresh
    PROVE  AllOld'
<1>1. Remembered \subseteq CreateTx \cup EditTx
  BY DEF AgentInv, AgentTypeOK, Remembered, Working, Call
<1>2. ASSUME NEW t \in CreateTx \cup EditTx, ArgsAreOld(t) PROVE ArgsAreOld(t)'
  <2>1. CASE UNCHANGED plans
    BY <1>2, <2>1 DEF ArgsAreOld, IsOld, stored
  <2>2. CASE \E c \in Client, heard \in BOOLEAN : Commit(c, heard)
    <3>1. t \in EditTx => t.id \in Plan /\ t.base \in Row
      BY DEF EditTx
    <3>. QED BY <1>2, <2>2, <3>1, CommitKeeps DEF ArgsAreOld, AgentInv
  <2>. QED BY <2>1, <2>2 DEF Harmless, Deactivate, Reactivate
<1>. QED BY <1>1, <1>2 DEF AllOld, AgentInv

LEMMA NothingNew ==
    ASSUME AgentInv, Harmless, Remembered' \subseteq Remembered
    PROVE  AllOld'
<1>. DEFINE none == {}
<1>1. /\ none \subseteq CreateTx \cup EditTx /\ \A t \in none : ArgsAreOld(t)
      /\ Remembered' \subseteq Remembered \cup none
  OBVIOUS
<1>. HIDE DEF none
<1>. QED BY <1>1, OldStaysOld

\* A step of the panel or around it leaves the agent's tables alone.
LEMMA AgentStays ==
    ASSUME AgentInv, ScheduleInv', UNCHANGED agentVars, Harmless
    PROVE  AgentInv'
<1>1. AgentTypeOK'
  BY DEF AgentInv, AgentTypeOK, agentVars, ScheduleInv
<1>2. RecordIsTrue' /\ AnswersAgree' /\ OneAtWork' /\ LookFinds'
  BY DEF AgentInv, RecordIsTrue, AnswersAgree, OneAtWork, LookFinds, agentVars
<1>3. Remembered' = Remembered
  BY DEF Remembered, agentVars
<1>4. AllOld'
  BY <1>3, NothingNew
<1>. QED BY <1>1, <1>2, <1>4 DEF AgentInv

\* A handler moves on, or is free again, and no record changes.
LEMMA HandlerMoves ==
    ASSUME AgentInv, ScheduleInv', Harmless, NEW h \in Agent, hnd[h] # Free,
           NEW pc \in Past, hnd' \in {[hnd EXCEPT ![h] = Free], [hnd EXCEPT ![h].pc = pc]},
           hnd' = [hnd EXCEPT ![h] = Free] \/ hnd[h].pc \in Past,
           UNCHANGED <<calls, ran>>, told' = told
    PROVE  AgentInv'
<1>1. hnd[h] \in Working /\ [hnd[h] EXCEPT !.pc = pc] \in Working
  BY DEF AgentInv, AgentTypeOK, Working, Past
<1>2. AgentTypeOK'
  BY <1>1 DEF AgentInv, AgentTypeOK, ScheduleInv
<1>3. RecordIsTrue' /\ AnswersAgree'
  BY DEF AgentInv, RecordIsTrue, AnswersAgree
<1>4. \A g \in Agent :
        /\ g # h => hnd'[g] = hnd[g]
        /\ hnd'[h] = Free \/ (hnd[h].pc \in Past /\ hnd'[h] = [hnd[h] EXCEPT !.pc = pc])
  BY DEF AgentInv, AgentTypeOK
<1>5. hnd'[h] # Free => hnd'[h].id = hnd[h].id /\ hnd'[h].args = hnd[h].args /\ hnd'[h].pc = pc
  BY <1>1, <1>4 DEF Working
<1>6. OneAtWork' /\ LookFinds'
  <2>1. Free.pc \notin Past \cup {"look"} /\ pc # "look"
    BY DEF Free, Past
  <2>. QED BY <1>4, <1>5, <2>1 DEF AgentInv, OneAtWork, LookFinds, Past
<1>7. Remembered' \subseteq Remembered
  BY <1>4, <1>5 DEF Remembered
<1>8. AllOld'
  BY <1>7, NothingNew
<1>. QED BY <1>2, <1>3, <1>6, <1>8 DEF AgentInv

LEMMA ReserveKeeps ==
    ASSUME AgentInv, NEW h \in Agent, NEW r \in RequestId, NEW args \in CreateTx \cup EditTx,
           ArgsAreOld(args), Reserve(h, r, args)
    PROVE  AgentInv'
<1>. DEFINE taken == r \in DOMAIN calls
            pc == IF taken THEN "look" ELSE "invoke"
            record == [args |-> args, state |-> "pending"]
<1>1. ScheduleInv' /\ Harmless
  BY StutterKeeps DEF AgentInv, Reserve, Harmless, vars
<1>2. /\ hnd[h] = Free /\ UNCHANGED <<ran, told>>
      /\ hnd' = [hnd EXCEPT ![h] = [pc |-> pc, id |-> r, args |-> args]]
      /\ DOMAIN calls' = DOMAIN calls \cup {r}
      /\ \A x \in DOMAIN calls : calls'[x] = calls[x]
      /\ ~taken => calls'[r] = record
      /\ calls' = IF taken THEN calls
                 ELSE [x \in DOMAIN calls \cup {r} |-> IF x = r THEN record ELSE calls[x]]
  BY DEF Reserve
<1>3. \A g \in Agent : hnd'[g] = IF g = h THEN [pc |-> pc, id |-> r, args |-> args] ELSE hnd[g]
  BY <1>2 DEF AgentInv, AgentTypeOK
<1>4. AgentTypeOK'
  <2>1. record \in Call /\ [pc |-> pc, id |-> r, args |-> args] \in Working
    BY DEF Call, Working
  <2>2. calls' \in [DOMAIN calls' -> Call] /\ DOMAIN calls' \subseteq RequestId
    BY <1>2, <2>1 DEF AgentInv, AgentTypeOK
  <2>. QED BY <1>1, <1>2, <2>1, <2>2 DEF AgentInv, AgentTypeOK, ScheduleInv
<1>5. RecordIsTrue' /\ AnswersAgree' /\ LookFinds'
  <2>1. RecordIsTrue'
    BY <1>2 DEF AgentInv, RecordIsTrue
  <2>2. AnswersAgree'
    BY <1>2 DEF AgentInv, AnswersAgree
  <2>3. LookFinds'
    BY <1>2, <1>3 DEF AgentInv, LookFinds
  <2>. QED BY <2>1, <2>2, <2>3
<1>6. OneAtWork'
  <2>. DEFINE new == [pc |-> pc, id |-> r, args |-> args]
  <2>1. /\ new.pc = pc /\ new.id = r /\ new.args = args
        /\ \A g \in Agent : hnd'[g] = IF g = h THEN new ELSE hnd[g]
    BY <1>3
  <2>. HIDE DEF new
  <2>2. \A g \in Agent : hnd[g].pc \in Past =>
          hnd[g].id \in DOMAIN calls /\ calls[hnd[g].id] = [args |-> hnd[g].args, state |-> "pending"]
    BY DEF AgentInv, OneAtWork, Past
  <2>3. CASE taken
    <3>1. pc = "look" /\ pc \notin Past
      BY <2>3 DEF Past
    <3>. QED BY <1>2, <2>1, <2>3, <3>1 DEF AgentInv, OneAtWork, Past
  <2>4. CASE ~taken
    <3>1. ASSUME NEW f \in Agent, NEW g \in Agent
          PROVE  /\ hnd'[f].pc \in Past => hnd'[f].id \in DOMAIN calls'
                      /\ calls'[hnd'[f].id] = [args |-> hnd'[f].args, state |-> "pending"]
                 /\ f # g /\ {hnd'[f].pc, hnd'[g].pc} \subseteq Past => hnd'[f].id # hnd'[g].id
      <4>1. CASE f = h
        <5>1. hnd'[f].id = r /\ hnd'[f].args = args /\ calls'[r] = record /\ r \in DOMAIN calls'
          BY <1>2, <2>1, <2>4, <4>1
        <5>2. f # g /\ hnd'[g].pc \in Past => hnd'[g].id # r
          BY <2>1, <2>2, <2>4, <4>1
        <5>. QED BY <5>1, <5>2
      <4>2. CASE f # h
        BY <1>2, <2>1, <2>2, <2>4, <4>2 DEF AgentInv, OneAtWork, Past
      <4>. QED BY <4>1, <4>2
    <3>. QED BY <3>1 DEF OneAtWork, Past
  <2>. QED BY <2>3, <2>4
<1>7. AllOld'
  <2>. DEFINE fresh == {args}
  <2>1. Remembered' \subseteq Remembered \cup fresh
    <3>1. ASSUME NEW x \in DOMAIN calls'
          PROVE  calls'[x].args = args \/ (x \in DOMAIN calls /\ calls'[x] = calls[x])
      <4>1. (x \in DOMAIN calls /\ calls'[x] = calls[x]) \/ calls'[x] = record
        BY <1>2
      <4>2. record.args = args
        OBVIOUS
      <4>. QED BY <4>1, <4>2
    <3>2. \A g \in Agent : hnd'[g].args = args \/ hnd'[g] = hnd[g]
      BY <1>3
    <3>. QED BY <3>1, <3>2 DEF Remembered
  <2>2. fresh \subseteq CreateTx \cup EditTx /\ \A t \in fresh : ArgsAreOld(t)
    OBVIOUS
  <2>. HIDE DEF fresh
  <2>. QED BY <1>1, <2>1, <2>2, OldStaysOld
<1>. QED BY <1>1, <1>4, <1>5, <1>6, <1>7 DEF AgentInv

\* The call ends, and with it the record of its id: completed, or failed.
LEMMA OutcomeKeeps ==
    ASSUME AgentInv, ScheduleInv', Harmless, NEW h \in Agent, hnd[h].pc \in Past,
           NEW state \in Outcome, Record(hnd[h].id, state), Answer(h, state),
           ran' = IF state = "completed" THEN [ran EXCEPT ![hnd[h].id] = @ + 1] ELSE ran
    PROVE  AgentInv'
<1>. DEFINE r == hnd[h].id
            a == hnd[h].args
<1>1. /\ hnd[h] \in Working /\ r \in RequestId /\ r \in DOMAIN calls
      /\ calls[r] = [args |-> a, state |-> "pending"]
      /\ ran[r] \in Nat
  BY DEF AgentInv, AgentTypeOK, OneAtWork, Past, Free, Working
<1>2. /\ DOMAIN calls' = DOMAIN calls /\ calls'[r] = [args |-> a, state |-> state]
      /\ \A x \in DOMAIN calls \ {r} : calls'[x] = calls[x]
      /\ hnd' = [hnd EXCEPT ![h] = Free]
      /\ told' = told \cup {<<r, a, state>>}
  BY <1>1 DEF Record, Answer, AgentInv, AgentTypeOK, Call
<1>3. \A g \in Agent : hnd'[g] = IF g = h THEN Free ELSE hnd[g]
  BY <1>2 DEF AgentInv, AgentTypeOK
<1>4. AgentTypeOK'
  <2>1. [args |-> a, state |-> state] \in Call /\ <<r, a, state>> \in
          RequestId \X (CreateTx \cup EditTx) \X Outcome
    BY <1>1 DEF Call, Working
  <2>2. calls' \in [DOMAIN calls' -> Call]
    BY <1>1, <1>2, <2>1 DEF AgentInv, AgentTypeOK, Record
  <2>3. ran' \in [RequestId -> Nat]
    BY <1>1 DEF AgentInv, AgentTypeOK
  <2>. QED BY <1>2, <2>1, <2>2, <2>3 DEF AgentInv, AgentTypeOK, ScheduleInv
<1>5. RecordIsTrue'
  <2>1. ran[r] # 1 /\ ran[r] <= 1
    BY <1>1 DEF AgentInv, RecordIsTrue
  <2>2. \A x \in RequestId : ran'[x] = IF x = r /\ state = "completed" THEN 1 ELSE ran[x]
    BY <1>1, <2>1 DEF AgentInv, AgentTypeOK
  <2>. QED BY <1>1, <1>2, <2>1, <2>2 DEF AgentInv, RecordIsTrue, Outcome
<1>6. AnswersAgree'
  <2>1. ASSUME NEW b \in told, b[1] = r PROVE FALSE
    <3>1. b[3] \in Outcome /\ calls[r] = [args |-> b[2], state |-> b[3]]
      BY <2>1 DEF AgentInv, AnswersAgree, AgentTypeOK
    <3>2. calls[r].state = b[3] /\ calls[r].state = "pending"
      BY <1>1, <3>1
    <3>. QED BY <3>1, <3>2 DEF Outcome
  <2>2. ASSUME NEW b \in told'
        PROVE  b[1] \in DOMAIN calls' /\ calls'[b[1]] = [args |-> b[2], state |-> b[3]]
    <3>1. CASE b \in told
      BY <1>2, <2>1, <3>1 DEF AgentInv, AnswersAgree
    <3>2. CASE b = <<r, a, state>>
      <4>1. b[1] = r /\ b[2] = a /\ b[3] = state
        BY <3>2
      <4>. QED BY <1>1, <1>2, <4>1
    <3>. QED BY <1>2, <3>1, <3>2
  <2>. QED BY <2>2 DEF AnswersAgree
<1>7. OneAtWork' /\ LookFinds'
  <2>1. \A g \in Agent \ {h} : hnd[g].pc \in Past => hnd[g].id # r
    BY DEF AgentInv, OneAtWork, Past
  <2>. QED BY <1>2, <1>3, <2>1 DEF AgentInv, OneAtWork, LookFinds, Past, Free
<1>8. AllOld'
  <2>1. Remembered' \subseteq Remembered
    BY <1>1, <1>2, <1>3 DEF Remembered
  <2>. QED BY <2>1, NothingNew
<1>. QED BY <1>4, <1>5, <1>6, <1>7, <1>8 DEF AgentInv

LEMMA LookKeeps ==
    ASSUME AgentInv, ScheduleInv', UNCHANGED vars, NEW h \in Agent, Look(h)
    PROVE  AgentInv'
<1>. DEFINE r == hnd[h].id
            a == hnd[h].args
<1>1. /\ Harmless /\ hnd[h] # Free /\ hnd' = [hnd EXCEPT ![h] = Free] /\ UNCHANGED <<calls, ran>>
      /\ r \in RequestId /\ r \in DOMAIN calls /\ a \in CreateTx \cup EditTx
      /\ "invoke" \in Past
  BY DEF Look, Answer, Harmless, vars, AgentInv, AgentTypeOK, LookFinds, Free, Working, Past
<1>2. CASE told' = told
  BY <1>1, <1>2, HandlerMoves
<1>3. CASE told' # told
  <2>. DEFINE b == <<r, a, calls[r].state>>
  <2>1. told' = told \cup {b} /\ calls[r].args = a /\ calls[r].state \in Outcome
    BY <1>3 DEF Look, Answer, Outcome
  <2>2. calls[r] = [args |-> a, state |-> calls[r].state]
    BY <1>1, <2>1 DEF AgentInv, AgentTypeOK, Call
  <2>3. \A g \in Agent : hnd'[g] = IF g = h THEN Free ELSE hnd[g]
    BY <1>1 DEF AgentInv, AgentTypeOK
  <2>4. AgentTypeOK'
    BY <1>1, <2>1 DEF AgentInv, AgentTypeOK, ScheduleInv
  <2>5. AnswersAgree'
    <3>1. b[1] = r /\ b[2] = a /\ b[3] = calls[r].state
      OBVIOUS
    <3>. HIDE DEF b
    <3>. QED BY <1>1, <2>1, <2>2, <3>1 DEF AgentInv, AnswersAgree
  <2>6. RecordIsTrue' /\ OneAtWork' /\ LookFinds'
    BY <1>1, <2>3 DEF AgentInv, RecordIsTrue, OneAtWork, LookFinds, Free
  <2>7. Remembered' \subseteq Remembered
    BY <1>1, <2>3 DEF Remembered
  <2>8. AllOld'
    BY <1>1, <2>7, NothingNew
  <2>. QED BY <2>4, <2>5, <2>6, <2>8 DEF AgentInv
<1>. QED BY <1>2, <1>3

\* Every step of an agent's handler keeps the invariant.
LEMMA AgentStepKeeps ==
    ASSUME AgentInv, NEW h \in Agent, AgentStep(h) \/ Die(h)
    PROVE  AgentInv'
<1>. USE AgentAssumption
<1>0. "invoke" \in Past /\ "commit" \in Past /\ "refused" \in Past /\ "completed" \in Outcome
      /\ "failed" \in Outcome /\ "idle" \notin Past /\ h \in Client
  BY DEF Past, Outcome
<1>1. CASE Look(h)
  <2>1. UNCHANGED vars
    BY <1>1 DEF Look
  <2>. QED BY <1>1, <2>1, StutterKeeps, LookKeeps DEF AgentInv
<1>2. CASE Invoke(h)
  <2>1. hnd[h] \in Working /\ hnd[h] # Free /\ Begin(h, hnd[h].args)
    BY <1>2 DEF Invoke, AgentInv, AgentTypeOK, Free
  <2>2. hnd[h].args \in CreateTx \cup EditTx
        /\ (hnd[h].args \in EditTx => IsOld(hnd[h].args.id, hnd[h].args.base))
    BY <2>1 DEF Working, AgentInv, AllOld, Remembered, ArgsAreOld
  <2>3. ScheduleInv'
    BY <1>0, <2>1, <2>2, BeginKeeps DEF AgentInv
  <2>4. Harmless
    BY <2>1 DEF Begin, Harmless
  <2>. QED BY <1>0, <1>2, <2>1, <2>3, <2>4, HandlerMoves DEF Invoke, Moves
<1>3. CASE Refuse(h)
  <2>1. UNCHANGED vars /\ Harmless /\ hnd[h] # Free
    BY <1>3 DEF Refuse, Harmless, vars, Free
  <2>2. ScheduleInv'
    BY <2>1, StutterKeeps DEF AgentInv
  <2>. QED BY <1>0, <1>3, <2>1, <2>2, HandlerMoves DEF Refuse, Moves
<1>4. CASE CompleteRepeat(h)
  <2>1. UNCHANGED vars /\ Harmless
    BY <1>4 DEF CompleteRepeat, Harmless, vars
  <2>2. ScheduleInv'
    BY <2>1, StutterKeeps DEF AgentInv
  <2>. QED BY <1>0, <1>4, <2>1, <2>2, OutcomeKeeps DEF CompleteRepeat
<1>5. CASE MarkFailed(h)
  <2>1. UNCHANGED vars /\ Harmless
    BY <1>5 DEF MarkFailed, Harmless, vars
  <2>2. ScheduleInv'
    BY <2>1, StutterKeeps DEF AgentInv
  <2>3. calls[hnd[h].id].state = "pending"
    <3>1. calls[hnd[h].id] = [args |-> hnd[h].args, state |-> "pending"]
      BY <1>5 DEF MarkFailed, AgentInv, OneAtWork
    <3>. QED BY <3>1
  <2>. QED BY <1>0, <1>5, <2>1, <2>2, <2>3, OutcomeKeeps DEF MarkFailed
<1>6. ASSUME NEW heard \in BOOLEAN, Complete(h, heard) PROVE AgentInv'
  <2>1. ScheduleInv' /\ Harmless
    BY <1>0, <1>6, CommitKeeps DEF Complete, AgentInv, Harmless
  <2>. QED BY <1>0, <1>6, <2>1, OutcomeKeeps DEF Complete
<1>7. CASE Die(h)
  <2>1. ScheduleInv' /\ Harmless
    <3>1. CASE Abort(h)
      BY <1>0, <3>1, AbortKeeps DEF Abort, AgentInv, Harmless
    <3>2. CASE UNCHANGED vars
      BY <3>2, StutterKeeps DEF AgentInv, Harmless, vars
    <3>. QED BY <1>7, <3>1, <3>2 DEF Die
  <2>. QED BY <1>0, <1>7, <2>1, HandlerMoves DEF Die
<1>. QED BY <1>1, <1>2, <1>3, <1>4, <1>5, <1>6, <1>7 DEF AgentStep

LEMMA AgentInvStep == AgentInv /\ [AgentNext]_allVars => AgentInv'
<1> SUFFICES ASSUME AgentInv, [AgentNext]_allVars PROVE AgentInv'
  OBVIOUS
<1>. USE AgentAssumption
<1>1. ASSUME NEW h \in Agent, NEW r \in RequestId, NEW args \in Wish(h) \cup Tried(r),
             Reserve(h, r, args)
      PROVE  AgentInv'
  <2>1. CASE args \in Wish(h)
    <3>1. /\ args \in CreateTx \cup EditTx
          /\ args \in EditTx => seen[h] \in Shown /\ args.id = seen[h].id
                               /\ args.base = seen[h].row
      BY <2>1, WishTyped DEF AgentInv, ScheduleInv
    <3>2. ArgsAreOld(args)
      BY <3>1 DEF ArgsAreOld, AgentInv, ScheduleInv, SeenIsOld, Shown, Nothing
    <3>. QED BY <1>1, <3>1, <3>2, ReserveKeeps
  <2>2. CASE args \in Tried(r)
    <3>1. r \in DOMAIN calls /\ args = calls[r].args
      BY <2>2 DEF Tried
    <3>2. args \in CreateTx \cup EditTx /\ ArgsAreOld(args)
      BY <3>1 DEF AgentInv, AgentTypeOK, Call, AllOld, Remembered
    <3>. QED BY <1>1, <3>2, ReserveKeeps
  <2>. QED BY <1>1, <2>1, <2>2
<1>2. ASSUME NEW h \in Agent, AgentStep(h) \/ Die(h) PROVE AgentInv'
  BY <1>2, AgentStepKeeps
<1>3. CASE PanelStep
  <2>1. ASSUME NEW c \in Client, NEW t \in Wish(c), Begin(c, t) PROVE ScheduleInv' /\ Harmless
    <3>1. /\ t \in CreateTx \cup EditTx
          /\ t \in EditTx => seen[c] \in Shown /\ t.id = seen[c].id /\ t.base = seen[c].row
      BY WishTyped DEF AgentInv, ScheduleInv
    <3>2. t \in EditTx => IsOld(t.id, t.base)
      BY <3>1 DEF AgentInv, ScheduleInv, SeenIsOld, Shown, Nothing
    <3>. QED BY <2>1, <3>1, <3>2, BeginKeeps DEF AgentInv, Begin, Harmless
  <2>2. ASSUME NEW c \in Client, NEW heard \in BOOLEAN, Commit(c, heard)
        PROVE  ScheduleInv' /\ Harmless
    BY <2>2, CommitKeeps DEF AgentInv, Harmless
  <2>3. ASSUME NEW c \in Client, Abort(c) PROVE ScheduleInv' /\ Harmless
    BY <2>3, AbortKeeps DEF AgentInv, Abort, Harmless
  <2>4. ScheduleInv' /\ Harmless /\ UNCHANGED agentVars
    BY <1>3, <2>1, <2>2, <2>3 DEF PanelStep
  <2>. QED BY <2>4, AgentStays
<1>4. CASE Around /\ UNCHANGED agentVars
  <2>1. ScheduleInv' /\ Harmless
    BY <1>4, AroundKeeps
       DEF AgentInv, Around, Calendar, Deactivate, Reactivate, Tick, Harmless
  <2>. QED BY <1>4, <2>1, AgentStays
<1>5. CASE UNCHANGED allVars
  <2>1. UNCHANGED vars /\ UNCHANGED agentVars
    BY <1>5 DEF allVars
  <2>2. ScheduleInv' /\ Harmless
    BY <2>1, StutterKeeps DEF AgentInv, Harmless, vars
  <2>. QED BY <2>1, <2>2, AgentStays
<1>. QED BY <1>1, <1>2, <1>3, <1>4, <1>5 DEF AgentNext

LEMMA AgentInvHolds == AgentSpec => []AgentInv
BY AgentInitHolds, AgentInvStep, PTL DEF AgentSpec

-----------------------------------------------------------------------------
\* Every variable of the agent's side and of the schedule stays within its type.
THEOREM AgentTypes == AgentSpec => []AgentTypeOK
BY AgentInvHolds, PTL DEF AgentInv

\* A request id takes effect at most once, and exactly when its record says so,
\* whichever handlers die and however often the agent retries.
THEOREM CallsTakeEffectOnce == AgentSpec => []RecordIsTrue
BY AgentInvHolds, PTL DEF AgentInv

\* An agent is never told two different outcomes of one call.
THEOREM AgentsHearOneOutcome == AgentSpec => []AnswersAgree
BY AgentInvHolds, PTL DEF AgentInv

\* No two handlers work on one request id.
THEOREM OneHandlerPerCall == AgentSpec => []OneAtWork
BY AgentInvHolds, PTL DEF AgentInv

\* Agents at work beside the panel double-book nobody.
THEOREM AgentsKeepTheSchedule == AgentSpec => []NoDoubleBooking
BY AgentInvHolds, PTL DEF AgentInv, ScheduleInv

-----------------------------------------------------------------------------
\* Whoever takes a step of the composed system, the plans see at most a COMMIT.
LEMMA AgentStepIsHarmless == [AgentNext]_allVars => Harmless
<1> SUFFICES ASSUME [AgentNext]_allVars PROVE Harmless
  OBVIOUS
<1>. USE AgentAssumption DEF Harmless
<1>1. CASE \E h \in Agent, r \in RequestId : \E args \in Wish(h) \cup Tried(r) : Reserve(h, r, args)
  BY <1>1 DEF Reserve, vars
<1>2. ASSUME NEW h \in Agent, AgentStep(h) PROVE Harmless
  BY <1>2 DEF AgentStep, Look, Invoke, Begin, Refuse, CompleteRepeat, MarkFailed, Complete, vars
<1>3. ASSUME NEW h \in Agent, Die(h) PROVE Harmless
  BY <1>3 DEF Die, Abort, vars
<1>4. CASE PanelStep
  BY <1>4 DEF PanelStep, Begin, Abort
<1>5. CASE Around
  BY <1>5 DEF Around, Calendar, Deactivate, Reactivate, Tick
<1>6. CASE UNCHANGED allVars
  BY <1>6 DEF allVars, vars
<1>. QED BY <1>1, <1>2, <1>3, <1>4, <1>5, <1>6 DEF AgentNext

\* With agents beside the panel, an edit still replaces the very row its author saw,
\* also when the author is a call that was retried long after, and a cancelled plan
\* never changes.
THEOREM AgentsLoseNoUpdate == AgentSpec => EditsSeeWhatTheyReplace
<1>1. AgentInv /\ [AgentNext]_allVars =>
        [\A p \in stored :
           plans'[p] # plans[p] =>
             /\ ~plans[p].cancelled
             /\ \E c \in Client : tx[c].op \in {"update", "cancel"} /\ tx[c].id = p
                                  /\ tx[c].base = plans[p]]_vars
  BY AgentStepIsHarmless, EditStep DEF AgentInv
<1>. QED BY <1>1, AgentInvHolds, PTL DEF AgentSpec, EditsSeeWhatTheyReplace

\* Agents and panel together implement the roster: of all the deliveries, retries and
\* deaths of a call, the office sees one change or none, made from the plans of its moment.
THEOREM AgentsImplementRoster == AgentSpec => ImplementsRoster
<1>1. AgentInv /\ [AgentNext]_allVars => [Office!RosterNext]_(Office!rvars)
  BY AgentStepIsHarmless, HarmlessIsChange DEF AgentInv
<1>2. AgentInit => Office!RosterInit
  BY RosterBegins DEF AgentInit
<1>. QED BY <1>1, <1>2, AgentInvHolds, PTL DEF AgentSpec, ImplementsRoster, Office!RosterSpec

=============================================================================
