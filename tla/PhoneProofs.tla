----------------------------- MODULE PhoneProofs -----------------------------
(***************************************************************************)
(* Proofs about PhoneSync: a phone with any number of queued shifts,       *)
(* coroutines and accounts over the ledger, whatever is lost, repeated or  *)
(* overtaken, whenever the process dies and however wrong the clock is.    *)
(***************************************************************************)
EXTENDS PhoneSync, ShiftLedgerProofs

USE DEF taps

-----------------------------------------------------------------------------
(* The queue: what each operator of ShiftStore does to it.                 *)

IsQueue(rs) == DOMAIN rs \subseteq Key /\ rs \in [DOMAIN rs -> LocalRow]

\* No row is dropped, and a row keeps its start, its building, its author, an end once
\* it has one, and the mark that its open was delivered.
Keeps(rs, qs) ==
    /\ DOMAIN rs \subseteq DOMAIN qs
    /\ \A j \in DOMAIN rs :
         /\ qs[j].start = rs[j].start /\ qs[j].building = rs[j].building
         /\ qs[j].worker = rs[j].worker /\ (rs[j].opened => qs[j].opened)
         /\ (rs[j].end # NoTime => qs[j].end # NoTime)

\* What a tap that starts a shift of w's does: qs is rs with a row k that waits.
Adds(rs, qs, k, w) ==
    /\ IsQueue(qs) /\ Keeps(rs, qs) /\ DOMAIN qs = DOMAIN rs \cup {k}
    /\ \A j \in DOMAIN rs : qs[j] = rs[j]
    /\ qs[k].worker = w /\ qs[k].end = NoTime
    /\ qs[k].opened = FALSE /\ qs[k].closed = FALSE

LEMMA StartedQueue ==
    ASSUME NEW rs, IsQueue(rs), NEW k \in Key \ DOMAIN rs,
           NEW w \in Worker, NEW b \in Building, NEW t \in Time
    PROVE  Adds(rs, Started(rs, k, w, b, t), k, w)
BY DEF IsQueue, Keeps, Started, LocalRow, Adds

\* What a tap that ends a shift does: qs is rs with the end e in the row of k.
Closes(rs, qs, k, e, auto) ==
    /\ IsQueue(qs) /\ Keeps(rs, qs) /\ DOMAIN qs = DOMAIN rs
    /\ \A j \in DOMAIN rs \ {k} : qs[j] = rs[j]
    /\ qs[k].worker = rs[k].worker /\ qs[k].end = e /\ qs[k].closed = FALSE
    /\ qs[k].opened = rs[k].opened /\ qs[k].auto = (rs[k].auto \/ auto)

LEMMA ClosedQueue ==
    ASSUME NEW rs, IsQueue(rs), NEW k \in DOMAIN rs, NEW e \in Time, NEW auto \in BOOLEAN
    PROVE  Closes(rs, Closed(rs, k, e, auto), k, e, auto)
<1>. DEFINE row == [rs[k] EXCEPT !.end = e, !.auto = @ \/ auto, !.closed = FALSE]
<1>1. row \in LocalRow
  BY DEF IsQueue, LocalRow
<1>2. Closed(rs, k, e, auto) = [rs EXCEPT ![k] = row]
  BY DEF Closed, IsQueue, LocalRow
<1>3. /\ row.start = rs[k].start /\ row.building = rs[k].building
      /\ row.worker = rs[k].worker /\ row.opened = rs[k].opened
      /\ row.end = e /\ row.closed = FALSE /\ e # NoTime
      /\ row.auto = (rs[k].auto \/ auto)
  BY LedgerAssumption DEF IsQueue, LocalRow, Time, NoTime
<1>. HIDE DEF row
<1>4. QED BY <1>1, <1>2, <1>3 DEF IsQueue, Keeps, Closes

LEMMA AppliedQueue ==
    ASSUME NEW rs, IsQueue(rs), NEW k, NEW row \in Row
    PROVE  /\ IsQueue(Applied(rs, k, row)) /\ Keeps(rs, Applied(rs, k, row))
           /\ DOMAIN Applied(rs, k, row) = DOMAIN rs
           /\ \A j \in DOMAIN rs \ {k} : Applied(rs, k, row)[j] = rs[j]
           /\ k \in DOMAIN rs =>
                /\ Applied(rs, k, row)[k].opened = rs[k].opened
                /\ Applied(rs, k, row)[k].closed = rs[k].closed
                /\ Applied(rs, k, row)[k].worker = rs[k].worker
                /\ Applied(rs, k, row)[k].auto = row.auto
                /\ Applied(rs, k, row)[k].end = IF row.end = NoTime THEN rs[k].end ELSE row.end
<1>1. CASE k \notin DOMAIN rs
  BY <1>1 DEF Applied, Keeps
<1>2. CASE k \in DOMAIN rs
  <2>. DEFINE new == [rs[k] EXCEPT !.auto = row.auto, !.corrected = row.corrected,
                                   !.proof = ProofOf(k),
                                   !.end = IF row.end = NoTime THEN @ ELSE row.end]
  <2>1. rs[k] \in LocalRow
    BY <1>2 DEF IsQueue
  <2>2. ProofOf(k) \in {"unknown", "required", "not_required"}
    BY DEF ProofOf
  <2>3. new \in LocalRow
    BY <2>1, <2>2 DEF LocalRow, Row
  <2>4. Applied(rs, k, row) = [rs EXCEPT ![k] = new]
    BY <1>2, <2>1 DEF Applied, LocalRow
  <2>5. /\ new.start = rs[k].start /\ new.building = rs[k].building
        /\ new.worker = rs[k].worker /\ new.opened = rs[k].opened /\ new.closed = rs[k].closed
        /\ new.auto = row.auto
        /\ new.end = IF row.end = NoTime THEN rs[k].end ELSE row.end
    BY <2>1 DEF LocalRow
  <2>. HIDE DEF new
  <2>. QED BY <1>2, <2>3, <2>4, <2>5 DEF IsQueue, Keeps
<1>. QED BY <1>1, <1>2

\* What the phone does with a shift of the server's that it may not have: qs is rs with it.
Adopts(rs, qs, k, row) ==
    /\ IsQueue(qs) /\ Keeps(rs, qs) /\ DOMAIN qs = DOMAIN rs \cup {k}
    /\ \A j \in DOMAIN rs : qs[j] = rs[j]
    /\ k \notin DOMAIN rs =>
         /\ qs[k].opened = TRUE /\ qs[k].closed = FALSE
         /\ qs[k].start = row.start /\ qs[k].building = row.building
         /\ qs[k].end = row.end

LEMMA AdoptedQueue ==
    ASSUME NEW rs, IsQueue(rs), NEW k \in Key, NEW row \in Row
    PROVE  Adopts(rs, Adopted(rs, k, row), k, row)
<1>1. CASE k \in DOMAIN rs
  BY <1>1 DEF Adopted, Keeps, Adopts
<1>2. CASE k \notin DOMAIN rs
  <2>. DEFINE new == [worker |-> row.worker, building |-> row.building,
                      start |-> row.start, end |-> row.end, auto |-> row.auto,
                      corrected |-> row.corrected, opened |-> TRUE,
                      closed |-> FALSE, blocked |-> None, proof |-> ProofOf(k)]
  <2>1. new \in LocalRow
    BY DEF LocalRow, Row, ProofOf
  <2>2. Adopted(rs, k, row) = [j \in DOMAIN rs \cup {k} |-> IF j = k THEN new ELSE rs[j]]
    BY <1>2 DEF Adopted
  <2>3. /\ new.opened = TRUE /\ new.closed = FALSE
        /\ new.start = row.start /\ new.building = row.building /\ new.end = row.end
    OBVIOUS
  <2>. HIDE DEF new
  <2>. QED BY <1>2, <2>1, <2>2, <2>3 DEF IsQueue, Keeps, Adopts
<1>. QED BY <1>1, <1>2

\* qs is rs but for a mark on the row of k.
MarksRow(rs, qs, k) ==
    /\ IsQueue(qs) /\ Keeps(rs, qs) /\ DOMAIN qs = DOMAIN rs
    /\ \A j \in DOMAIN rs \ {k} : qs[j] = rs[j]
    /\ qs[k].end = rs[k].end /\ qs[k].worker = rs[k].worker /\ qs[k].auto = rs[k].auto

LEMMA MarkedQueue ==
    ASSUME NEW rs, IsQueue(rs), NEW k \in DOMAIN rs
    PROVE  /\ MarksRow(rs, OpenSynced(rs, k), k) /\ MarksRow(rs, CloseSynced(rs, k), k)
           /\ OpenSynced(rs, k)[k].opened = TRUE
           /\ OpenSynced(rs, k)[k].closed = rs[k].closed
           /\ CloseSynced(rs, k)[k].opened = rs[k].opened
<1>1. rs[k] \in LocalRow
  BY DEF IsQueue
<1>. DEFINE op == [rs[k] EXCEPT !.opened = TRUE, !.blocked = None]
            cl == [rs[k] EXCEPT !.closed = TRUE, !.blocked = None]
<1>2. op \in LocalRow /\ cl \in LocalRow
  BY <1>1 DEF LocalRow
<1>3. OpenSynced(rs, k) = [rs EXCEPT ![k] = op] /\ CloseSynced(rs, k) = [rs EXCEPT ![k] = cl]
  BY <1>1 DEF OpenSynced, CloseSynced, LocalRow
<1>4. /\ op.opened /\ op.closed = rs[k].closed /\ op.end = rs[k].end
      /\ op.auto = rs[k].auto /\ cl.auto = rs[k].auto
      /\ op.worker = rs[k].worker /\ op.start = rs[k].start /\ op.building = rs[k].building
      /\ cl.opened = rs[k].opened /\ cl.end = rs[k].end
      /\ cl.worker = rs[k].worker /\ cl.start = rs[k].start /\ cl.building = rs[k].building
  BY <1>1 DEF LocalRow
<1>. HIDE DEF op, cl
<1>. QED BY <1>2, <1>3, <1>4 DEF IsQueue, Keeps, MarksRow

\* What a failure does to a row is to block it or not.
Alike(rs, qs) ==
    \A j \in DOMAIN rs :
      /\ qs[j].opened = rs[j].opened /\ qs[j].closed = rs[j].closed
      /\ qs[j].end = rs[j].end /\ qs[j].worker = rs[j].worker /\ qs[j].auto = rs[j].auto

LEMMA FailedQueue ==
    ASSUME NEW rs, IsQueue(rs), NEW k, NEW code \in Code
    PROVE  /\ IsQueue(Failed(rs, k, code)) /\ Keeps(rs, Failed(rs, k, code))
           /\ DOMAIN Failed(rs, k, code) = DOMAIN rs
           /\ Alike(rs, Failed(rs, k, code))
<1>1. CASE k \notin DOMAIN rs
  BY <1>1 DEF Failed, Keeps, Alike
<1>2. CASE k \in DOMAIN rs
  <2>. DEFINE why == IF Retryable(code) THEN None ELSE code
  <2>1. why \in Code \cup {"wrong_account", None}
    OBVIOUS
  <2>2. Failed(rs, k, code) = [rs EXCEPT ![k] = [rs[k] EXCEPT !.blocked = why]]
    BY <1>2 DEF Failed, IsQueue, LocalRow
  <2>. HIDE DEF why
  <2>. QED BY <1>2, <2>1, <2>2 DEF Keeps, Alike, IsQueue, LocalRow
<1>. QED BY <1>1, <1>2

LEMMA KeepsComposes ==
    ASSUME NEW rs, NEW qs, NEW us, Keeps(rs, qs), Keeps(qs, us)
    PROVE  Keeps(rs, us)
BY DEF Keeps

\* What an answered half marks of its row: the open, the close, or neither.
MarksHalf(rs, qs, st) ==
    /\ MarksRow(rs, qs, st.key)
    /\ st.key \in DOMAIN rs =>
         /\ qs[st.key].opened => rs[st.key].opened \/ st.half = "open"
         /\ qs[st.key].closed => rs[st.key].closed \/ st.half = "close"

LEMMA AnsweredHalfMarked ==
    ASSUME NEW rs, IsQueue(rs), NEW st \in Step, NEW final \in BOOLEAN
    PROVE  MarksHalf(rs, Marked(rs, st, final), st)
<1>1. CASE st.key \notin DOMAIN rs \/ st.half = "resolve" \/ (final /\ st.half = "open")
  <2>1. Marked(rs, st, final) = rs /\ Keeps(rs, rs)
    BY <1>1 DEF Marked, Keeps
  <2>. QED BY <2>1 DEF MarksHalf, MarksRow
<1>2. CASE st.key \in DOMAIN rs /\ st.half = "open" /\ ~final
  <2>1. Marked(rs, st, final) = OpenSynced(rs, st.key)
    BY <1>2 DEF Marked
  <2>2. /\ MarksRow(rs, OpenSynced(rs, st.key), st.key)
        /\ OpenSynced(rs, st.key)[st.key].closed = rs[st.key].closed
    BY <1>2, MarkedQueue
  <2>. QED BY <1>2, <2>1, <2>2, Zenon DEF MarksHalf
<1>3. CASE st.key \in DOMAIN rs /\ st.half = "close"
  <2>1. Marked(rs, st, final) = CloseSynced(rs, st.key)
    BY <1>3 DEF Marked
  <2>2. /\ MarksRow(rs, CloseSynced(rs, st.key), st.key)
        /\ CloseSynced(rs, st.key)[st.key].opened = rs[st.key].opened
    BY <1>3, MarkedQueue
  <2>. QED BY <1>3, <2>1, <2>2, Zenon DEF MarksHalf
<1>. QED BY <1>1, <1>2, <1>3 DEF Step

\* What a refresh does with the open shift the server told it of: qs is rs with the
\* server's row k.
Takes(rs, qs, k, row) ==
    /\ IsQueue(qs) /\ Keeps(rs, qs) /\ DOMAIN qs = DOMAIN rs \cup {k}
    /\ \A j \in DOMAIN rs \ {k} : qs[j] = rs[j]
    /\ k \in DOMAIN rs =>
         /\ qs[k].opened = rs[k].opened /\ qs[k].closed = rs[k].closed
         /\ qs[k].worker = rs[k].worker /\ qs[k].auto = row.auto
         /\ qs[k].end = IF row.end = NoTime THEN rs[k].end ELSE row.end
    /\ k \notin DOMAIN rs =>
         /\ qs[k].opened = TRUE /\ qs[k].closed = FALSE
         /\ qs[k].start = row.start /\ qs[k].building = row.building
         /\ qs[k].end = row.end

LEMMA TakesServerRow ==
    ASSUME NEW rs, IsQueue(rs), NEW k \in Key, NEW row \in Row
    PROVE  Takes(rs, Applied(Adopted(rs, k, row), k, row), k, row)
<1>. DEFINE as == Adopted(rs, k, row)
            qs == Applied(as, k, row)
<1>0. Adopts(rs, as, k, row)
  BY AdoptedQueue
<1>. HIDE DEF as
<1>1. /\ IsQueue(as) /\ Keeps(rs, as) /\ DOMAIN as = DOMAIN rs \cup {k}
      /\ \A j \in DOMAIN rs : as[j] = rs[j]
      /\ k \notin DOMAIN rs =>
           /\ as[k].opened = TRUE /\ as[k].closed = FALSE /\ as[k].start = row.start
           /\ as[k].building = row.building /\ as[k].end = row.end
  BY <1>0 DEF Adopts
<1>2. k \in DOMAIN as /\ IsQueue(as)
  BY <1>1
<1>3. /\ IsQueue(qs) /\ Keeps(as, qs) /\ DOMAIN qs = DOMAIN as
      /\ \A j \in DOMAIN as \ {k} : qs[j] = as[j]
      /\ qs[k].opened = as[k].opened /\ qs[k].closed = as[k].closed
      /\ qs[k].worker = as[k].worker /\ qs[k].auto = row.auto
      /\ qs[k].end = IF row.end = NoTime THEN as[k].end ELSE row.end
  <2>1. ASSUME NEW us, IsQueue(us), k \in DOMAIN us
        PROVE  /\ IsQueue(Applied(us, k, row)) /\ Keeps(us, Applied(us, k, row))
               /\ DOMAIN Applied(us, k, row) = DOMAIN us
               /\ \A j \in DOMAIN us \ {k} : Applied(us, k, row)[j] = us[j]
               /\ Applied(us, k, row)[k].opened = us[k].opened
               /\ Applied(us, k, row)[k].closed = us[k].closed
               /\ Applied(us, k, row)[k].worker = us[k].worker
               /\ Applied(us, k, row)[k].auto = row.auto
               /\ Applied(us, k, row)[k].end =
                    IF row.end = NoTime THEN us[k].end ELSE row.end
    BY <2>1, AppliedQueue
  <2>. QED BY <1>2, <2>1
<1>. HIDE DEF qs
<1>4. Keeps(rs, qs)
  BY <1>1, <1>3, KeepsComposes
<1>5. k \notin DOMAIN rs =>
        /\ qs[k].opened = TRUE /\ qs[k].closed = FALSE
        /\ qs[k].end = row.end
  BY <1>1, <1>2, <1>3 DEF IsQueue, LocalRow
<1>6. k \notin DOMAIN rs => qs[k].start = row.start /\ qs[k].building = row.building
  BY <1>1, <1>2, <1>3 DEF Keeps
<1>7. k \in DOMAIN rs =>
        /\ qs[k].opened = rs[k].opened /\ qs[k].closed = rs[k].closed
        /\ qs[k].worker = rs[k].worker /\ qs[k].auto = row.auto
        /\ qs[k].end = IF row.end = NoTime THEN rs[k].end ELSE row.end
  BY <1>1, <1>3
<1>8. \A j \in DOMAIN rs \ {k} : qs[j] = rs[j]
  BY <1>1, <1>3
<1>. QED BY <1>1, <1>3, <1>4, <1>5, <1>6, <1>7, <1>8 DEF Takes, qs, as

-----------------------------------------------------------------------------
(* The inductive invariant.                                                *)

\* No administrator is at work, and the phone's clock stays within the bound.
Typed == /\ TypeOK /\ PhoneTypeOK /\ phoneNow \in Time /\ stored \subseteq Key
         /\ \A p \in Thread : req[p].pc \notin {"insert", "update"}

\* The end of a payable row is one somebody said.
SaidRow(k) == Payable(k) => endBy[k] = "resolve" \/ VouchedFor(k, shift[k].end)

\* What the table says of a row, and what the phone says of the same shift.
TableSound ==
    \A k \in stored :
      /\ SaneRow(shift[k]) /\ UnopenedRow(k) /\ ConfirmedRow(k) /\ SaidRow(k)
      /\ Ended(k) /\ endBy[k] \in {"tap", "switch"} => shift[k].end \in tapped[k]
      /\ OnPhone(k) => /\ shift[k].start = rows[k].start
                       /\ shift[k].building = rows[k].building

\* A local row's marks are true, and its end is a tap's unless the server has one; where
\* it is not flagged as a guess, the worker said it.
LocalSound(k) ==
    /\ rows[k].opened => k \in stored
    /\ rows[k].closed => Ended(k) /\ rows[k].end # NoTime
    /\ rows[k].opened \/ rows[k].worker = Owner[k]
    /\ rows[k].end # NoTime => rows[k].end \in tapped[k] \/ Ended(k)
    /\ rows[k].end # NoTime /\ ~rows[k].auto => VouchedFor(k, rows[k].end) \/ Ended(k)

QueueSound == \A k \in DOMAIN rows : LocalSound(k)

\* A step, however old, carries what the row had when it was planned.
Right(st) ==
    /\ st.half = "open" /\ st.key \in stored => st.at = shift[st.key].start
    /\ st.half = "open" /\ st.key \notin stored /\ OnPhone(st.key) =>
         st.at = rows[st.key].start /\ st.building = rows[st.key].building
    /\ st.half = "close" => st.at \in tapped[st.key] \/ Ended(st.key)
    /\ st.half = "close" /\ st.how # "switch" => VouchedFor(st.key, st.at) \/ Ended(st.key)

PlanSound(p) ==
    \A st \in thread[p].steps :
      /\ OnPhone(st.key) /\ Right(st) /\ st.half \in {"open", "close"}
      /\ st.half = "open" => Owner[st.key] = thread[p].worker

Starts(p) == thread[p].goal # None /\ thread[p].goal.how = "start"

GoalSound(p) ==
    thread[p].goal # None =>
      LET g == thread[p].goal IN
      /\ g.how \in {"tap", "stop"} => OnPhone(g.key)
      /\ g.how = "resolve" => g.key \in stored
      /\ Starts(p) => /\ g.key \notin stored => ~OnPhone(g.key)
                      /\ ~thread[p].final => g.key \notin stored

InFlight(p) == thread[p].pc \in {"sent", "looking", "answered", "applied"}

\* What is in flight is the next step of the plan, or what the worker wanted.
FlightSound(p) ==
    /\ thread[p].pc = "confirm" => thread[p].goal # None
    /\ thread[p].final => InFlight(p)
    /\ InFlight(p) => thread[p].step # None
    /\ InFlight(p) /\ ~thread[p].final => thread[p].step \in thread[p].steps
    /\ InFlight(p) /\ thread[p].final =>
         /\ thread[p].goal # None /\ thread[p].step.key = thread[p].goal.key
         /\ thread[p].step.half = "open" <=> thread[p].goal.how = "start"
         /\ thread[p].step.half = "resolve" <=> thread[p].goal.how = "resolve"
         /\ Right(thread[p].step)

\* A row an answer brought is that shift's, perhaps from before it ended.
Heard(k, row) ==
    /\ row \in Row /\ k \in stored
    /\ row.start = shift[k].start /\ row.building = shift[k].building
    /\ row.end # NoTime => Ended(k)

AnswerSound(p) ==
    /\ thread[p].pc = "looking" =>
         /\ req[p].pc \in {"find_key", "find_open", "conflict"}
         /\ req[p].key = thread[p].step.key /\ thread[p].step.half = "open"
    /\ thread[p].pc = "asked" =>
         /\ thread[p].step # None /\ thread[p].answer # None
         /\ Heard(thread[p].step.key, thread[p].answer.row)
    /\ thread[p].pc = "answered" => thread[p].answer # None
    /\ thread[p].pc = "answered" /\ thread[p].answer.code = "ok" =>
         /\ Heard(thread[p].step.key, thread[p].answer.row)
         /\ thread[p].step.half # "open" => thread[p].answer.row.end # NoTime
    /\ thread[p].pc = "applied" =>
         /\ thread[p].step.key \in stored
         /\ thread[p].step.half = "close" =>
              /\ Ended(thread[p].step.key) /\ OnPhone(thread[p].step.key)
              /\ rows[thread[p].step.key].end # NoTime

ThreadSound(p) == PlanSound(p) /\ GoalSound(p) /\ FlightSound(p) /\ AnswerSound(p)

\* No two flows start the same shift.
StartsApart ==
    \A p, q \in Thread : p # q /\ Starts(p) /\ Starts(q) => thread[p].goal.key # thread[q].goal.key

Sound == TableSound /\ QueueSound /\ (\A p \in Thread : ThreadSound(p)) /\ StartsApart

PhoneInv == Typed /\ Sound

-----------------------------------------------------------------------------
(* What every step respects, and what it leaves sound by that alone.       *)

\* No tap is forgotten, nor what the worker said, nor that a flag was lost.
Remembers ==
    /\ tapped' \in [Key -> SUBSET Time] /\ confirmed' \in [Key -> SUBSET Time]
    /\ overwritten' \subseteq Key /\ overwritten \subseteq overwritten'
    /\ \A k \in Key : tapped[k] \subseteq tapped'[k] /\ confirmed[k] \subseteq confirmed'[k]
    /\ tapping' \in Tap \cup {None}

LEMMA TapsKept == ASSUME Typed, UNCHANGED taps PROVE Remembers
BY DEF Typed, PhoneTypeOK, Remembers

\* Shifts keep their start and building and stay ended once they are; the queue keeps
\* its rows.
Grows ==
    /\ stored \subseteq stored'
    /\ \A k \in stored :
         /\ shift'[k].start = shift[k].start /\ shift'[k].building = shift[k].building
         /\ shift'[k].worker = shift[k].worker /\ (Ended(k) => Ended(k)')
    /\ Keeps(rows, rows') /\ Remembers

\* A row that is new to the phone is of a shift nobody has in hand, or of a stored one.
NewRowsKnown ==
    \A k \in DOMAIN rows' \ DOMAIN rows :
      k \in stored' \/ \A q \in Thread : thread[q].goal = None \/ thread[q].goal.key # k

\* A shift that is new to the server is the one of the phone's row.
NewShiftsAgree ==
    \A k \in stored' \ stored : OnPhone(k) => shift'[k].start = rows[k].start

\* It is not one that q is about to start.
NotStarting(q) == \A k \in stored' \ stored : Starts(q) => thread[q].goal.key # k

LEMMA RightStays ==
    ASSUME Grows, NEW st \in Step, Right(st),
           st.key \in stored' \ stored => OnPhone(st.key) /\ shift'[st.key].start = rows[st.key].start,
           st.key \in DOMAIN rows' \ DOMAIN rows => st.key \in stored'
    PROVE  Right(st)'
BY DEF Right, Grows, Keeps, OnPhone, Step, Ended, Remembers, VouchedFor

LEMMA HeardStays ==
    ASSUME Grows, NEW k, NEW row, Heard(k, row)
    PROVE  Heard(k, row)'
BY DEF Grows, Heard, Ended

\* A plan that loses steps, or none, stays sound.
LEMMA PlanStays ==
    ASSUME Typed, Grows, NEW q \in Thread, NewShiftsAgree, PlanSound(q),
           thread'[q].steps \subseteq thread[q].steps, thread'[q].worker = thread[q].worker
    PROVE  PlanSound(q)'
<1>. SUFFICES ASSUME NEW st \in thread'[q].steps
             PROVE  /\ OnPhone(st.key)' /\ Right(st)' /\ st.half \in {"open", "close"}
                    /\ st.half = "open" => Owner[st.key] = thread'[q].worker
  BY DEF PlanSound
<1>1. st \in thread[q].steps /\ st \in Step
  BY DEF Typed, PhoneTypeOK, Memory
<1>2. OnPhone(st.key) /\ Right(st)
  BY <1>1 DEF PlanSound
<1>3. Right(st)'
  BY <1>1, <1>2, RightStays DEF NewShiftsAgree, OnPhone
<1>. QED BY <1>1, <1>2, <1>3 DEF PlanSound, Grows, Keeps, OnPhone

\* A coroutine that does nothing stays sound.
LEMMA OthersStay ==
    ASSUME Typed, Grows, NewRowsKnown, NewShiftsAgree, NEW q \in Thread, NotStarting(q),
           ThreadSound(q), thread'[q] = thread[q], req'[q] = req[q] \/ thread[q].pc # "looking"
    PROVE  ThreadSound(q)'
<1>0. thread[q] \in Memory
  BY DEF Typed, PhoneTypeOK
<1>1. PlanSound(q)'
  BY PlanStays DEF ThreadSound
<1>2. GoalSound(q)'
  BY DEF ThreadSound, GoalSound, Starts, Grows, Keeps, NewRowsKnown, NotStarting, OnPhone
<1>3. ASSUME InFlight(q), thread[q].final PROVE Right(thread[q].step)'
  <2>. DEFINE st == thread[q].step
  <2>1. /\ st \in Step /\ Right(st) /\ thread[q].goal # None /\ st.key = thread[q].goal.key
        /\ st.half = "open" <=> Starts(q)
    BY <1>0, <1>3 DEF ThreadSound, FlightSound, Memory, Starts
  <2>2. CASE st.half = "open"
    BY <2>1, <2>2, RightStays DEF NewShiftsAgree, NotStarting, NewRowsKnown
  <2>3. CASE st.half # "open"
    BY <2>1, <2>3 DEF Right, Grows, Step, Ended, Remembers, VouchedFor
  <2>. QED BY <2>2, <2>3
<1>4. FlightSound(q)'
  BY <1>3 DEF ThreadSound, FlightSound, InFlight
<1>5. AnswerSound(q)'
  <2>1. thread[q].pc = "applied" =>
          (thread[q].step.key \in stored
           /\ (thread[q].step.half = "close" =>
                /\ Ended(thread[q].step.key) /\ OnPhone(thread[q].step.key)
                /\ rows[thread[q].step.key].end # NoTime))'
    BY DEF ThreadSound, AnswerSound, Grows, Keeps, OnPhone
  <2>. QED BY <2>1, HeardStays DEF ThreadSound, AnswerSound
<1>. QED BY <1>1, <1>2, <1>4, <1>5 DEF ThreadSound

\* A row nobody wrote stays sound.
LEMMA LocalStays ==
    ASSUME Grows, NEW k \in Key, LocalSound(k), k \in DOMAIN rows, rows'[k] = rows[k]
    PROVE  LocalSound(k)'
BY DEF Grows, LocalSound, Ended, Remembers, VouchedFor

-----------------------------------------------------------------------------
(* From the parts of a step to the whole invariant.                        *)

\* Only p, if anything, acts, and if it starts a shift it has that in hand already or
\* nobody has.
OnlyActs(p) ==
    /\ \A q \in Thread \ {p} : thread'[q] = thread[q] /\ req'[q] = req[q]
    /\ p \in Thread /\ Starts(p)' =>
         \/ thread'[p].goal = thread[p].goal
         \/ \A q \in Thread : thread[q].goal = None \/ thread[q].goal.key # thread'[p].goal.key

LEMMA ApartStays ==
    ASSUME StartsApart, NEW p, OnlyActs(p)
    PROVE  StartsApart'
BY DEF StartsApart, OnlyActs, Starts

LEMMA SoundStep ==
    ASSUME Typed, Sound, Grows, NewRowsKnown, NewShiftsAgree, NEW p, OnlyActs(p),
           \A q \in Thread \ {p} : NotStarting(q),
           p \in Thread => ThreadSound(p)', TableSound', QueueSound'
    PROVE  Sound'
<1>1. ASSUME NEW q \in Thread PROVE ThreadSound(q)'
  BY OthersStay DEF Sound, OnlyActs
<1>. QED BY <1>1, ApartStays DEF Sound

\* The table alone stays: what is new on the phone is as the server has it.
LEMMA QueueStep ==
    ASSUME Typed, Sound, UNCHANGED <<now, table>>, Keeps(rows, rows'),
           Remembers, NewRowsKnown,
           \A k \in DOMAIN rows' \ DOMAIN rows :
             k \in stored => rows'[k].start = shift[k].start /\ rows'[k].building = shift[k].building,
           QueueSound', NEW p, OnlyActs(p), p \in Thread => ThreadSound(p)'
    PROVE  Sound'
<1>1. shift' = shift /\ endBy' = endBy /\ stored' = stored /\ now' = now
  BY DEF table, stored
<1>2. Grows /\ NewShiftsAgree /\ \A q \in Thread : NotStarting(q)
  BY <1>1 DEF Grows, NewShiftsAgree, NotStarting, Ended
<1>3. ASSUME NEW k \in stored
      PROVE  /\ (SaneRow(shift[k]) /\ UnopenedRow(k) /\ ConfirmedRow(k) /\ SaidRow(k))'
             /\ (Ended(k) /\ endBy[k] \in {"tap", "switch"} => shift[k].end \in tapped[k])'
  BY <1>1, <1>3 DEF Sound, TableSound, SaneRow, UnopenedRow, ConfirmedRow, SaidRow, Typed, Open,
                    Ended, Payable, Flagged, Remembers, VouchedFor
<1>4. ASSUME NEW k \in stored, OnPhone(k)'
      PROVE  (shift[k].start = rows[k].start /\ shift[k].building = rows[k].building)'
  BY <1>1, <1>4 DEF Sound, TableSound, OnPhone, Keeps
<1>5. TableSound'
  BY <1>1, <1>3, <1>4 DEF TableSound
<1>. QED BY <1>2, <1>5, SoundStep

\* Neither the table nor the queue moves.
LEMMA QuietStep ==
    ASSUME Typed, Sound, UNCHANGED <<now, table, rows>>, Remembers,
           NEW p, OnlyActs(p), p \in Thread => ThreadSound(p)'
    PROVE  Sound'
<1>1. Keeps(rows, rows') /\ NewRowsKnown
  BY DEF Keeps, NewRowsKnown
<1>2. Grows
  BY <1>1 DEF Grows, table, stored, Ended
<1>3. QueueSound'
  BY <1>2, LocalStays DEF Sound, QueueSound, Typed, PhoneTypeOK
<1>. QED BY <1>1, <1>3, QueueStep

\* The server alone moves.
LEMMA ServerMoves ==
    ASSUME Typed, Sound, UNCHANGED <<rows, taps>>, Grows, NewShiftsAgree, TableSound',
           NEW p, OnlyActs(p), p \in Thread => ThreadSound(p)',
           \A q \in Thread \ {p} : NotStarting(q)
    PROVE  Sound'
<1>1. QueueSound' /\ NewRowsKnown
  BY LocalStays DEF Sound, QueueSound, Typed, PhoneTypeOK, NewRowsKnown
<1>. QED BY <1>1, SoundStep

-----------------------------------------------------------------------------
(* What lands at the server.                                               *)

LEMMA OpenLands ==
    ASSUME Typed, Sound, NEW k \in Key, NEW w \in Worker, NEW b \in Building, NEW t \in Time,
           InsertOpen(k, w, b, t), UNCHANGED <<now, rows, taps>>,
           OnPhone(k) => rows[k].start = t /\ rows[k].building = b
    PROVE  /\ k \notin stored /\ stored' = stored \cup {k} /\ stored' \subseteq Key
           /\ shift' \in [stored' -> Row] /\ shift'[k] = FreshShift(w, b, t)
           /\ endBy' = endBy
           /\ Grows /\ NewShiftsAgree /\ TableSound'
<1>1. k \in RowId /\ FreshShift(w, b, t) \in Row /\ k \notin stored
  BY DEF FreshShift, Row, RowId, InsertOpen, Conflicts
<1>2. /\ stored' = stored \cup {k} /\ stored' \subseteq Key /\ shift' \in [stored' -> Row]
      /\ shift'[k] = FreshShift(w, b, t) /\ \A j \in stored : shift'[j] = shift[j]
      /\ endBy' = endBy
  BY <1>1, InsertTyped DEF InsertOpen, Typed, TypeOK
<1>3. Grows
  BY <1>2, TapsKept DEF Grows, Keeps, Ended
<1>4. NewShiftsAgree
  BY <1>2 DEF NewShiftsAgree, FreshShift
<1>5. ASSUME NEW j \in stored
      PROVE  /\ (SaneRow(shift[j]) /\ UnopenedRow(j) /\ ConfirmedRow(j) /\ SaidRow(j))'
             /\ (Ended(j) /\ endBy[j] \in {"tap", "switch"} => shift[j].end \in tapped[j])'
             /\ (OnPhone(j) => /\ shift[j].start = rows[j].start
                               /\ shift[j].building = rows[j].building)'
  BY <1>2 DEF Sound, TableSound, SaneRow, UnopenedRow, ConfirmedRow, SaidRow, Open, Ended,
              Payable, Flagged, OnPhone, VouchedFor
<1>6. /\ (SaneRow(shift[k]) /\ UnopenedRow(k) /\ ConfirmedRow(k) /\ SaidRow(k))' /\ ~Ended(k)'
      /\ (OnPhone(k) => /\ shift[k].start = rows[k].start
                        /\ shift[k].building = rows[k].building)'
  BY <1>2 DEF SaneRow, UnopenedRow, ConfirmedRow, SaidRow, Open, Ended, Payable, Flagged,
              OnPhone, FreshShift, InsertOpen, Acceptable
<1>7. TableSound'
  BY <1>2, <1>5, <1>6 DEF TableSound
<1>. QED BY <1>1, <1>2, <1>3, <1>4, <1>7

\* An end that lands is flagged, resolved or one the worker said.
LEMMA EndLands ==
    ASSUME Typed, Sound, NEW k \in stored, NEW row \in Row, NEW who \in Provenance,
           Update(k, row), EndedBy(k, who), UNCHANGED <<now, rows, taps>>,
           SaneRow(row), row.end # NoTime, row.worker = shift[k].worker,
           row.start = shift[k].start, row.building = shift[k].building,
           (row.auto /\ ~row.corrected) \/ who \notin Unconfirmed,
           (row.auto /\ ~row.corrected) \/ who = "resolve" \/ VouchedFor(k, row.end),
           who \in {"tap", "switch"} => row.end \in tapped[k]
    PROVE  /\ stored' = stored /\ shift' \in [stored' -> Row] /\ shift'[k] = row
           /\ endBy' \in [RowId -> Provenance]
           /\ Grows /\ NewShiftsAgree /\ TableSound'
<1>1. /\ stored' = stored /\ shift' \in [stored' -> Row] /\ shift'[k] = row
      /\ \A j \in stored \ {k} : shift'[j] = shift[j]
  BY UpdateTyped DEF Typed, TypeOK
<1>2. /\ endBy' \in [RowId -> Provenance] /\ endBy'[k] = who
      /\ \A j \in stored \ {k} : endBy'[j] = endBy[j]
  BY DEF EndedBy, Typed, TypeOK
<1>3. Grows
  BY <1>1, TapsKept DEF Grows, Keeps, Ended
<1>4. NewShiftsAgree
  BY <1>1 DEF NewShiftsAgree
<1>5. ASSUME NEW j \in stored, j # k
      PROVE  /\ (SaneRow(shift[j]) /\ UnopenedRow(j) /\ ConfirmedRow(j) /\ SaidRow(j))'
             /\ (Ended(j) /\ endBy[j] \in {"tap", "switch"} => shift[j].end \in tapped[j])'
             /\ (OnPhone(j) => /\ shift[j].start = rows[j].start
                               /\ shift[j].building = rows[j].building)'
  BY <1>1, <1>2, <1>5 DEF Sound, TableSound, SaneRow, UnopenedRow, ConfirmedRow, SaidRow, Open,
                          Ended, Payable, Flagged, OnPhone, VouchedFor
<1>6. /\ (SaneRow(shift[k]) /\ UnopenedRow(k) /\ ConfirmedRow(k) /\ SaidRow(k))'
      /\ (Ended(k) /\ endBy[k] \in {"tap", "switch"} => shift[k].end \in tapped[k])'
      /\ (OnPhone(k) => /\ shift[k].start = rows[k].start
                        /\ shift[k].building = rows[k].building)'
  BY <1>1, <1>2 DEF Sound, TableSound, SaneRow, UnopenedRow, ConfirmedRow, SaidRow, Open, Ended,
                    Payable, Flagged, OnPhone, VouchedFor
<1>7. TableSound'
  BY <1>1, <1>5, <1>6 DEF TableSound
<1>. QED BY <1>1, <1>2, <1>3, <1>4, <1>7

LEMMA ServerStepSound == ASSUME PhoneInv, ServerStep PROVE PhoneInv'
<1>. USE PhoneAssumption, LedgerAssumption DEF PhoneInv
<1>1. LedgerNext /\ now' + drift \in Time /\ UNCHANGED phone
  BY DEF ServerStep, LedgerNext
<1>2. TypeOK'
  BY <1>1, TypeStep DEF Typed
<1>3. stored' = stored /\ req' = req
  BY DEF ServerStep, AutoClose, Tick, table, stored
<1>4. Typed'
  BY <1>1, <1>2, <1>3 DEF Typed, PhoneTypeOK, phone, phoneNow
<1>5. LedgerInv'
  <2>1. LedgerInv
    BY DEF LedgerInv, HandlersHoldSaneValues, Typed, Sound, TableSound
  <2>. QED BY <1>1, <2>1, SaneStep DEF Typed
<1>6. NoEditInv'
  <2>1. NoEditInv
    BY DEF NoEditInv, Typed, Sound, TableSound
  <2>. QED BY <1>1, <2>1, NoEditStep DEF Typed
<1>7. ASSUME NEW j \in stored
      PROVE  /\ shift'[j].start = shift[j].start /\ shift'[j].building = shift[j].building
             /\ shift'[j].worker = shift[j].worker /\ (Ended(j) => Ended(j)')
             /\ (Ended(j) /\ endBy[j] # "timer")' =>
                  shift'[j] = shift[j] /\ endBy'[j] = endBy[j] /\ Ended(j)
  <2>1. CASE Tick
    BY <2>1 DEF Tick, table, Ended, stored
  <2>2. CASE AutoClose
    <3>1. /\ shift'[j] = IF Overdue(j) THEN TimedOutRow(shift[j]) ELSE shift[j]
          /\ endBy'[j] = IF Overdue(j) THEN "timer" ELSE endBy[j]
      BY <2>2 DEF AutoClose, Typed, TypeOK
    <3>2. /\ TimedOutRow(shift[j]).start = shift[j].start
          /\ TimedOutRow(shift[j]).building = shift[j].building
          /\ TimedOutRow(shift[j]).worker = shift[j].worker
          /\ Overdue(j) => ~Ended(j)
      BY DEF TimedOutRow, Typed, TypeOK, Row, Overdue, Open, Ended
    <3>. QED BY <1>3, <3>1, <3>2 DEF Ended
  <2>. QED BY <2>1, <2>2 DEF ServerStep
<1>8. Grows /\ NewShiftsAgree /\ \A q \in Thread : NotStarting(q)
  BY <1>1, <1>3, <1>7, TapsKept DEF Grows, Keeps, phone, NewShiftsAgree, NotStarting
<1>9. TableSound'
  <2>. SUFFICES ASSUME NEW k \in stored'
               PROVE  /\ (SaneRow(shift[k]) /\ UnopenedRow(k) /\ ConfirmedRow(k) /\ SaidRow(k))'
                      /\ (Ended(k) /\ endBy[k] \in {"tap", "switch"}
                            => shift[k].end \in tapped[k])'
                      /\ (OnPhone(k) => /\ shift[k].start = rows[k].start
                                        /\ shift[k].building = rows[k].building)'
    BY DEF TableSound
  <2>1. (SaneRow(shift[k]) /\ UnopenedRow(k) /\ ConfirmedRow(k))'
    BY <1>5, <1>6 DEF LedgerInv, NoEditInv
  <2>4. SaidRow(k)'
    <3>. SUFFICES ASSUME Payable(k)' PROVE (endBy[k] = "resolve" \/ VouchedFor(k, shift[k].end))'
      BY DEF SaidRow
    <3>1. endBy'[k] # "timer"
      BY <2>1 DEF ConfirmedRow, Unconfirmed
    <3>2. shift'[k] = shift[k] /\ endBy'[k] = endBy[k] /\ Ended(k)
      BY <1>3, <1>7, <3>1 DEF Payable
    <3>. QED BY <1>1, <1>3, <3>2 DEF Sound, TableSound, SaidRow, Payable, Flagged, Ended,
                                 VouchedFor, phone
  <2>2. (Ended(k) /\ endBy[k] \in {"tap", "switch"} => shift[k].end \in tapped[k])'
    BY <1>1, <1>3, <1>7 DEF Sound, TableSound, phone
  <2>3. (OnPhone(k) => /\ shift[k].start = rows[k].start
                       /\ shift[k].building = rows[k].building)'
    BY <1>1, <1>3, <1>7 DEF Sound, TableSound, phone, OnPhone
  <2>. QED BY <2>1, <2>2, <2>3, <2>4
<1>10. OnlyActs(None) /\ (None \in Thread => ThreadSound(None)')
  <2>1. \A q \in Thread : thread'[q] = thread[q] /\ req'[q] = req[q] /\ ThreadSound(q)'
    BY <1>1, <1>3, <1>8, OthersStay DEF phone, Sound, NewRowsKnown
  <2>. QED BY <2>1 DEF OnlyActs
<1>. QED BY <1>1, <1>4, <1>8, <1>9, <1>10, ServerMoves DEF phone

-----------------------------------------------------------------------------
(* A request lands: the table moves, or does not, and an answer sets off.  *)

LEMMA AnsweredTyped ==
    ASSUME Typed, NEW p \in Thread, NEW a \in Answer, Answered(p, a)
    PROVE  /\ thread' \in [Thread -> Memory]
           /\ thread'[p] = [thread[p] EXCEPT !.pc = "answered", !.answer = a]
           /\ thread'[p].pc = "answered" /\ thread'[p].answer = a
           /\ thread'[p].step = thread[p].step /\ thread'[p].steps = thread[p].steps
           /\ thread'[p].goal = thread[p].goal /\ thread'[p].final = thread[p].final
           /\ thread'[p].worker = thread[p].worker
           /\ \A q \in Thread \ {p} : thread'[q] = thread[q]
<1>. DEFINE m == [thread[p] EXCEPT !.pc = "answered", !.answer = a]
<1>1. thread \in [Thread -> Memory]
  BY DEF Typed, PhoneTypeOK
<1>2. thread' = [thread EXCEPT ![p] = m]
  BY <1>1 DEF Answered, Memory
<1>3. /\ m \in Memory /\ m.pc = "answered" /\ m.answer = a /\ m.step = thread[p].step
      /\ m.steps = thread[p].steps /\ m.goal = thread[p].goal /\ m.final = thread[p].final
      /\ m.worker = thread[p].worker
  BY <1>1 DEF Memory
<1>. HIDE DEF m
<1>4. thread' \in [Thread -> Memory] /\ thread'[p] = m
      /\ \A q \in Thread \ {p} : thread'[q] = thread[q]
  BY <1>1, <1>2, <1>3
<1>. QED BY <1>3, <1>4 DEF m

\* Whatever the server does with a request, the coroutine that sent it stays sound
\* when a shift the request opens starts when the request says.
LEMMA InFlightStays ==
    ASSUME Typed, Sound, rows' = rows, Grows, NewShiftsAgree, NEW p \in Thread,
           thread[p].pc \in {"sent", "looking"}, InFlight(p)',
           thread'[p].step = thread[p].step, thread'[p].steps = thread[p].steps,
           thread'[p].goal = thread[p].goal, thread'[p].final = thread[p].final,
           thread'[p].worker = thread[p].worker,
           thread[p].final \/ NotStarting(p),
           thread[p].step.key \in stored' \ stored =>
             thread[p].step.at = shift'[thread[p].step.key].start,
           AnswerSound(p)', \A q \in Thread \ {p} : thread'[q] = thread[q] /\ req'[q] = req[q]
    PROVE  ThreadSound(p)' /\ OnlyActs(p)
<1>. DEFINE st == thread[p].step
<1>1. /\ thread[p] \in Memory /\ ThreadSound(p) /\ st \in Step
  BY DEF Typed, PhoneTypeOK, Memory, Sound, ThreadSound, FlightSound, InFlight
<1>2. PlanSound(p)'
  BY <1>1, PlanStays DEF ThreadSound
<1>3. GoalSound(p)'
  BY <1>1 DEF ThreadSound, GoalSound, Starts, Grows, NotStarting, OnPhone
<1>4. ASSUME thread[p].final PROVE Right(st)'
  <2>1. Right(st)
    BY <1>1, <1>4 DEF ThreadSound, FlightSound, InFlight
  <2>. QED BY <1>1, <2>1 DEF Right, Grows, OnPhone, Ended, Step, Remembers, VouchedFor
<1>5. FlightSound(p)'
  BY <1>1, <1>4 DEF ThreadSound, FlightSound, InFlight
<1>6. OnlyActs(p)
  BY DEF OnlyActs
<1>. QED BY <1>2, <1>3, <1>5, <1>6 DEF ThreadSound

\* A refusal, or an answer about a row that is there already.
LEMMA AnswerOnly ==
    ASSUME PhoneInv, NEW p \in Thread, thread[p].pc \in {"sent", "looking"},
           NEW a \in Answer, Answered(p, a), UNCHANGED <<now, table, rows, session, drift, place, taps>>,
           TypeOK', req'[p] = Idle \/ req' = req, \A q \in Thread \ {p} : req'[q] = req[q],
           a.code = "ok" =>
             /\ Heard(thread[p].step.key, a.row)
             /\ thread[p].step.half # "open" => a.row.end # NoTime
    PROVE  PhoneInv'
<1>. USE DEF PhoneInv
<1>1. /\ thread' \in [Thread -> Memory]
      /\ thread'[p].pc = "answered" /\ thread'[p].answer = a
      /\ thread'[p].step = thread[p].step /\ thread'[p].steps = thread[p].steps
      /\ thread'[p].goal = thread[p].goal /\ thread'[p].final = thread[p].final
      /\ thread'[p].worker = thread[p].worker
      /\ \A q \in Thread \ {p} : thread'[q] = thread[q]
  BY AnsweredTyped
<1>2. Typed'
  BY <1>1 DEF Typed, PhoneTypeOK, phoneNow, table, stored, Idle
<1>3. /\ Grows /\ NewShiftsAgree /\ NotStarting(p) /\ stored' = stored /\ shift' = shift
      /\ Remembers
  BY TapsKept DEF Grows, NewShiftsAgree, NotStarting, table, stored, Keeps, Ended
<1>4. InFlight(p)'
  BY <1>1 DEF InFlight
<1>5. a # None
  BY PhoneAssumption
<1>6. AnswerSound(p)'
  BY <1>1, <1>3, <1>5, HeardStays DEF AnswerSound
<1>7. ThreadSound(p)' /\ OnlyActs(p)
  <2>1. rows' = rows /\ ~(thread[p].step.key \in stored' \ stored)
    BY <1>3
  <2>. QED BY <1>1, <1>3, <1>4, <1>6, <2>1, InFlightStays
<1>. QED BY <1>2, <1>3, <1>7, QuietStep

LEMMA InFlightRight ==
    ASSUME PhoneInv, NEW p \in Thread, InFlight(p)
    PROVE  /\ thread[p] \in Memory /\ thread[p].step \in Step /\ Right(thread[p].step)
           /\ thread[p].step.half \in {"open", "close"} \/ thread[p].final
           /\ ~thread[p].final => OnPhone(thread[p].step.key)
           /\ thread[p].final /\ thread[p].step.half = "open" =>
                Starts(p) /\ thread[p].goal.key = thread[p].step.key
<1>1. thread[p] \in Memory /\ ThreadSound(p)
  BY DEF PhoneInv, Typed, PhoneTypeOK, Sound
<1>2. thread[p].step \in Step
  BY <1>1 DEF ThreadSound, FlightSound, Memory
<1>. QED BY <1>1, <1>2 DEF ThreadSound, FlightSound, PlanSound, Starts

\* No other coroutine is about to start the shift this request opens.
LEMMA NobodyElseStarts ==
    ASSUME PhoneInv, NEW p \in Thread, InFlight(p), thread[p].step.half = "open",
           stored' = stored \cup {thread[p].step.key}, thread[p].step.key \notin stored
    PROVE  /\ \A q \in Thread \ {p} : NotStarting(q)
           /\ thread[p].final \/ NotStarting(p)
<1>. DEFINE k == thread[p].step.key
<1>1. ASSUME ~thread[p].final, NEW q \in Thread PROVE NotStarting(q)
  <2>1. OnPhone(k)
    BY <1>1, InFlightRight
  <2>2. Starts(q) => thread[q].goal.key # k
    BY <2>1 DEF PhoneInv, Sound, ThreadSound, GoalSound, Starts
  <2>. QED BY <2>2 DEF NotStarting
<1>2. ASSUME thread[p].final, NEW q \in Thread \ {p} PROVE NotStarting(q)
  <2>1. Starts(p) /\ thread[p].goal.key = k
    BY <1>2, InFlightRight
  <2>2. Starts(q) => thread[q].goal.key # k
    BY <2>1 DEF PhoneInv, Sound, StartsApart
  <2>. QED BY <2>2 DEF NotStarting
<1>. QED BY <1>1, <1>2

LEMMA LandOpenSound ==
    ASSUME PhoneInv, NEW p \in Thread, thread[p].pc = "sent", thread[p].step.half = "open",
           NEW w \in Worker, LandOpen(p, thread[p].step, w),
           UNCHANGED <<rows, session, drift, place, taps>>
    PROVE  PhoneInv'
<1>. USE DEF PhoneInv
<1>. DEFINE st == thread[p].step
            k == st.key
<1>1. InFlight(p)
  BY DEF InFlight
<1>2. /\ thread[p] \in Memory /\ st \in Step /\ Right(st) /\ k \in Key /\ st.at \in Time
      /\ st.building \in Building
  BY <1>1, InFlightRight DEF Step
<1>3. ASSUME NEW code \in Code, Answered(p, Refused(code)), UNCHANGED vars PROVE PhoneInv'
  <2>1. Refused(code) \in Answer /\ Refused(code).code # "ok"
    BY DEF Refused, Answer, Code
  <2>2. UNCHANGED <<now, table, rows, session, drift, place, taps>> /\ req' = req /\ TypeOK'
    BY <1>3 DEF vars, table, Typed, TypeOK, stored
  <2>. QED BY <1>3, <2>1, <2>2, AnswerOnly
<1>4. ASSUME place[st.building] # "live", Answered(p, Refused(place[st.building])), UNCHANGED vars
      PROVE PhoneInv'
  <2>1. place[st.building] \in Code
    BY <1>2, <1>4, PhoneAssumption DEF Typed, PhoneTypeOK, Code
  <2>. QED BY <1>3, <1>4, <2>1
<1>5. ASSUME InsertOpen(k, w, st.building, st.at), UNCHANGED <<now, req>>,
             Answered(p, Ok(FreshShift(w, st.building, st.at)))
      PROVE  PhoneInv'
  <2>. DEFINE row == FreshShift(w, st.building, st.at)
  <2>1. k \notin stored
    BY <1>5 DEF InsertOpen, Conflicts
  <2>2. OnPhone(k) => rows[k].start = st.at /\ rows[k].building = st.building
    BY <2>1, <1>2 DEF Right
  <2>3. /\ stored' = stored \cup {k} /\ stored' \subseteq Key /\ shift' \in [stored' -> Row]
        /\ shift'[k] = row /\ endBy' = endBy
        /\ Grows /\ NewShiftsAgree /\ TableSound'
    BY <1>2, <1>5, <2>2, OpenLands
  <2>4. /\ row \in Row /\ row.start = st.at /\ row.building = st.building
        /\ row.end = NoTime /\ Ok(row) \in Answer /\ Ok(row) # None
    <3>1. /\ row \in Row /\ row.start = st.at /\ row.building = st.building
          /\ row.end = NoTime
      BY <1>2 DEF Row, FreshShift
    <3>2. Ok(row) \in Answer
      BY <3>1 DEF Ok, Answer
    <3>. QED BY <3>1, <3>2, PhoneAssumption
  <2>5. /\ thread' \in [Thread -> Memory]
        /\ thread'[p].pc = "answered" /\ thread'[p].answer = Ok(row)
        /\ thread'[p].step = thread[p].step /\ thread'[p].steps = thread[p].steps
        /\ thread'[p].goal = thread[p].goal /\ thread'[p].final = thread[p].final
        /\ thread'[p].worker = thread[p].worker
        /\ \A q \in Thread \ {p} : thread'[q] = thread[q]
    BY <1>5, <2>4, AnsweredTyped
  <2>6. Typed'
    BY <1>5, <2>3, <2>5 DEF Typed, TypeOK, PhoneTypeOK, phoneNow, RowId
  <2>7. /\ k \in stored' /\ row.start = shift'[k].start
        /\ row.building = shift'[k].building
    BY <2>3, <2>4
  <2>8. AnswerSound(p)'
    <3>1. Ok(row).code = "ok" /\ Ok(row).row = row
      BY DEF Ok
    <3>. HIDE DEF row
    <3>2. /\ thread'[p].answer.row = row /\ thread'[p].step.key = k /\ thread'[p].step.half = "open"
          /\ thread'[p].pc = "answered" /\ thread'[p].answer # None
      BY <2>4, <2>5, <3>1
    <3>3. Heard(thread[p].step.key, thread[p].answer.row)'
      BY <2>4, <2>7, <3>2 DEF Heard
    <3>. QED BY <3>2, <3>3 DEF AnswerSound
  <2>9. /\ \A q \in Thread \ {p} : NotStarting(q)
        /\ thread[p].final \/ NotStarting(p)
    BY <1>1, <2>1, <2>3, NobodyElseStarts
  <2>10. ThreadSound(p)' /\ OnlyActs(p)
    <3>1. InFlight(p)' /\ rows' = rows
      BY <2>5 DEF InFlight
    <3>2. /\ k \in stored' \ stored => st.at = shift'[k].start
          /\ \A q \in Thread \ {p} : thread'[q] = thread[q] /\ req'[q] = req[q]
      BY <1>5, <2>3, <2>4, <2>5
    <3>. QED BY <2>3, <2>5, <2>8, <2>9, <3>1, <3>2, InFlightStays
  <2>11. Sound'
    BY <2>3, <2>9, <2>10, ServerMoves
  <2>. QED BY <2>6, <2>11
<1>6. ASSUME OpenConflict(p, k, w, st.at), thread' = [thread EXCEPT ![p].pc = "looking"]
      PROVE  PhoneInv'
  <2>. DEFINE m == [thread[p] EXCEPT !.pc = "looking"]
  <2>1. thread \in [Thread -> Memory] /\ thread' = [thread EXCEPT ![p] = m]
    BY <1>2, <1>6 DEF Typed, PhoneTypeOK, Memory
  <2>2. /\ m \in Memory /\ m.pc = "looking" /\ m.step = st
        /\ m.steps = thread[p].steps /\ m.goal = thread[p].goal /\ m.final = thread[p].final
        /\ m.worker = thread[p].worker
    BY <1>2 DEF Memory
  <2>. HIDE DEF m
  <2>3. /\ thread' \in [Thread -> Memory] /\ thread'[p] = m
        /\ \A q \in Thread \ {p} : thread'[q] = thread[q]
    BY <2>1, <2>2
  <2>4. /\ p \in Request /\ req'[p] = [pc |-> "find_key", worker |-> w, key |-> k]
        /\ \A q \in Thread \ {p} : req'[q] = req[q]
        /\ UNCHANGED <<now, table>>
    BY <1>6, PhoneAssumption DEF OpenConflict, Typed, TypeOK
  <2>5. TypeOK'
    BY <1>2, <1>6 DEF OpenConflict, Typed, TypeOK, OpenState, table, stored
  <2>6. Typed'
    BY <2>3, <2>4, <2>5 DEF Typed, PhoneTypeOK, phoneNow, table, stored
  <2>7. /\ Grows /\ NewShiftsAgree /\ NotStarting(p) /\ stored' = stored /\ rows' = rows
        /\ ~(k \in stored' \ stored) /\ Remembers
    BY <2>4, TapsKept DEF Grows, NewShiftsAgree, NotStarting, table, stored, Keeps, Ended
  <2>8. AnswerSound(p)' /\ InFlight(p)'
    BY <2>2, <2>3, <2>4 DEF AnswerSound, InFlight
  <2>9. ThreadSound(p)' /\ OnlyActs(p)
    BY <2>2, <2>3, <2>4, <2>7, <2>8, InFlightStays
  <2>. QED BY <2>4, <2>6, <2>7, <2>9, QuietStep
<1>. QED BY <1>3, <1>4, <1>5, <1>6 DEF LandOpen, Code

LEMMA EndAnswered ==
    ASSUME PhoneInv, NEW p \in Thread, thread[p].pc = "sent", thread[p].step.half # "open",
           NEW k \in stored, k = thread[p].step.key, NEW row \in Row, row.end # NoTime,
           Answered(p, Ok(row)), UNCHANGED <<now, req, rows, session, drift, place, taps>>,
           stored' = stored, shift' \in [stored' -> Row], shift'[k] = row,
           endBy' \in [RowId -> Provenance], Grows, NewShiftsAgree, TableSound'
    PROVE  PhoneInv'
<1>. USE DEF PhoneInv
<1>1. Ok(row) \in Answer /\ Ok(row) # None /\ Ok(row).row = row
  BY PhoneAssumption DEF Ok, Answer
<1>2. /\ thread' \in [Thread -> Memory]
      /\ thread'[p].pc = "answered" /\ thread'[p].answer = Ok(row)
      /\ thread'[p].step = thread[p].step /\ thread'[p].steps = thread[p].steps
      /\ thread'[p].goal = thread[p].goal /\ thread'[p].final = thread[p].final
      /\ thread'[p].worker = thread[p].worker
      /\ \A q \in Thread \ {p} : thread'[q] = thread[q]
  BY <1>1, AnsweredTyped
<1>3. Typed'
  BY <1>2 DEF Typed, TypeOK, PhoneTypeOK, phoneNow
<1>4. k \in stored' /\ row.start = shift'[k].start /\ row.building = shift'[k].building /\ Ended(k)'
  BY DEF Ended
<1>5. AnswerSound(p)' /\ InFlight(p)'
  BY <1>1, <1>2, <1>4 DEF AnswerSound, Heard, Ok, InFlight
<1>6. \A q \in Thread : NotStarting(q)
  BY DEF NotStarting
<1>7. ThreadSound(p)' /\ OnlyActs(p)
  <2>1. rows' = rows /\ ~(thread[p].step.key \in stored' \ stored)
    OBVIOUS
  <2>. QED BY <1>2, <1>5, <1>6, <2>1, InFlightStays
<1>8. Sound'
  BY <1>6, <1>7, ServerMoves
<1>. QED BY <1>3, <1>8

LEMMA LandEndSound ==
    ASSUME PhoneInv, NEW p \in Thread, thread[p].pc = "sent", NEW w \in Worker,
           \/ thread[p].step.half = "close" /\ LandClose(p, thread[p].step, w)
           \/ thread[p].step.half = "resolve" /\ LandResolve(p, thread[p].step, w),
           UNCHANGED <<rows, session, drift, place, taps>>
    PROVE  PhoneInv'
<1>. USE DEF PhoneInv
<1>. DEFINE st == thread[p].step
            k == st.key
<1>1. InFlight(p)
  BY DEF InFlight
<1>2. /\ thread[p] \in Memory /\ st \in Step /\ Right(st) /\ k \in Key /\ st.at \in Time
      /\ st.how \in {"tap", "switch", "stop"}
  BY <1>1, InFlightRight DEF Step
<1>3. ASSUME NEW code \in Code, Answered(p, Refused(code)), UNCHANGED vars PROVE PhoneInv'
  <2>1. Refused(code) \in Answer /\ Refused(code).code # "ok"
    BY DEF Refused, Answer, Code
  <2>2. UNCHANGED <<now, table, rows, session, drift, place, taps>> /\ req' = req /\ TypeOK'
    BY <1>3 DEF vars, table, Typed, TypeOK, stored
  <2>. QED BY <1>3, <2>1, <2>2, AnswerOnly
<1>4. ASSUME Ended(k), Answered(p, Ok(shift[k])), UNCHANGED vars PROVE PhoneInv'
  <2>1. shift[k] \in Row
    BY <1>4 DEF Ended, Typed, TypeOK
  <2>2. Ok(shift[k]) \in Answer /\ Ok(shift[k]).row = shift[k]
    BY <2>1 DEF Ok, Answer
  <2>3. UNCHANGED <<now, table, rows, session, drift, place, taps>> /\ req' = req /\ TypeOK'
    BY <1>4 DEF vars, table, Typed, TypeOK, stored
  <2>4. Heard(k, shift[k]) /\ shift[k].end # NoTime
    BY <1>4, <2>1 DEF Heard, Ended
  <2>. QED BY <1>4, <2>2, <2>3, <2>4, AnswerOnly
<1>5. ASSUME st.half = "close", CloseRow(k, w, st.at, st.how, None), UNCHANGED <<now, req>>,
             Answered(p, Ok(ClosedRow(shift[k], st.at, st.how)))
      PROVE  PhoneInv'
  <2>. DEFINE row == ClosedRow(shift[k], st.at, st.how)
              who == IF st.how = "switch" THEN "switch" ELSE "tap"
  <2>1. k \in stored /\ Open(k) /\ shift[k] \in Row /\ Update(k, row) /\ EndedBy(k, who)
    BY <1>5 DEF CloseRow, Typed, TypeOK
  <2>2. SaneWindow(shift[k].start, st.at)
    BY <1>5 DEF CloseRow
  <2>3. row \in Row
    BY <1>2, <2>1, RowsTyped
  <2>4. /\ row.end = st.at /\ row.start = shift[k].start /\ row.building = shift[k].building
        /\ row.worker = shift[k].worker /\ row.auto = (shift[k].auto \/ st.how = "switch")
        /\ row.manual = (shift[k].manual \/ st.how = "stop")
        /\ row.corrected = (shift[k].corrected \/ st.how = "stop")
    BY <2>1 DEF ClosedRow, Row
  <2>5. ~shift[k].auto /\ ~shift[k].corrected /\ SaneRow(shift[k])
    BY <2>1 DEF Sound, TableSound, UnopenedRow
  <2>6. SaneRow(row) /\ row.end # NoTime
    <3>1. row.corrected => row.manual
      BY <2>1, <2>4, <2>5 DEF Row
    <3>. HIDE DEF row
    <3>. QED BY <1>2, <2>2, <2>4, <3>1 DEF SaneRow, SaneWindow, Acceptable, Time, NoTime
  <2>7. st.at \in tapped[k] /\ (st.how # "switch" => VouchedFor(k, st.at))
    BY <1>2, <1>5, <2>1 DEF Right, Open, Ended
  <2>8. /\ who \in Provenance /\ ((row.auto /\ ~row.corrected) \/ who \notin Unconfirmed)
        /\ ((row.auto /\ ~row.corrected) \/ VouchedFor(k, row.end))
        /\ (who \in {"tap", "switch"} => row.end \in tapped[k])
    BY <2>4, <2>5, <2>7 DEF Provenance, Unconfirmed
  <2>. HIDE DEF row, who
  <2>9. /\ stored' = stored /\ shift' \in [stored' -> Row] /\ shift'[k] = row
        /\ endBy' \in [RowId -> Provenance] /\ Grows /\ NewShiftsAgree /\ TableSound'
    BY <1>5, <2>1, <2>3, <2>4, <2>6, <2>8, EndLands
  <2>. QED BY <1>5, <2>1, <2>3, <2>6, <2>9, EndAnswered DEF row
<1>6. ASSUME st.half = "resolve", ResolveRow(k, w, st.at), UNCHANGED <<now, req>>,
             Answered(p, Ok(ResolvedRow(shift[k], st.at)))
      PROVE  PhoneInv'
  <2>. DEFINE row == ResolvedRow(shift[k], st.at)
  <2>1. /\ k \in stored /\ Flagged(k) /\ shift[k] \in Row /\ Update(k, row)
        /\ EndedBy(k, "resolve") /\ SaneWindow(shift[k].start, st.at)
    BY <1>6 DEF ResolveRow, Typed, TypeOK
  <2>2. row \in Row
    BY <1>2, <2>1, RowsTyped
  <2>3. /\ row.end = st.at /\ row.start = shift[k].start /\ row.building = shift[k].building
        /\ row.worker = shift[k].worker /\ row.auto = shift[k].auto
    BY <2>1 DEF ResolvedRow, Row
  <2>4. SaneRow(row) /\ row.end # NoTime
    BY <1>2, <2>1, <2>3 DEF Flagged, SaneRow, SaneWindow, Acceptable, Time, NoTime
  <2>5. "resolve" \in Provenance /\ "resolve" \notin Unconfirmed
    BY DEF Provenance, Unconfirmed
  <2>. HIDE DEF row
  <2>6. /\ stored' = stored /\ shift' \in [stored' -> Row] /\ shift'[k] = row
        /\ endBy' \in [RowId -> Provenance] /\ Grows /\ NewShiftsAgree /\ TableSound'
    BY <1>6, <2>1, <2>2, <2>3, <2>4, <2>5, EndLands
  <2>. QED BY <1>6, <2>1, <2>2, <2>4, <2>6, EndAnswered DEF row
<1>7. CASE st.half = "close" /\ LandClose(p, st, w)
  BY <1>3, <1>4, <1>5, <1>7 DEF LandClose, Code
<1>8. CASE st.half = "resolve" /\ LandResolve(p, st, w)
  BY <1>3, <1>6, <1>8 DEF LandResolve, Code
<1>. QED BY <1>7, <1>8

LEMMA LandCases ==
    ASSUME PhoneInv, NEW p \in Thread, Land(p)
    PROVE  LET st == thread[p].step
               w == thread[p].cookie
           IN \/ Answered(p, Refused("unauthorized")) /\ UNCHANGED vars
              \/ /\ w \in Worker
                 /\ \/ st.half = "open" /\ LandOpen(p, st, w)
                    \/ st.half = "close" /\ LandClose(p, st, w)
                    \/ st.half = "resolve" /\ LandResolve(p, st, w)
<1>1. thread[p].step \in Step /\ thread[p] \in Memory
  BY InFlightRight DEF Land, InFlight
<1>. QED BY <1>1 DEF Land, Step, Memory

LEMMA LandSound == ASSUME PhoneInv, NEW p \in Thread, Land(p) PROVE PhoneInv'
<1>. DEFINE st == thread[p].step
            w == thread[p].cookie
<1>1. thread[p].pc = "sent" /\ UNCHANGED <<rows, session, drift, place, taps>>
  BY DEF Land
<1>2. CASE Answered(p, Refused("unauthorized")) /\ UNCHANGED vars
  <2>1. Refused("unauthorized") \in Answer /\ Refused("unauthorized").code # "ok"
    BY DEF Refused, Answer, Code
  <2>2. InFlight(p)
    BY <1>1 DEF InFlight
  <2>3. UNCHANGED <<now, table, rows, session, drift, place, taps>> /\ req' = req /\ TypeOK'
    BY <1>1, <1>2 DEF vars, table, PhoneInv, Typed, TypeOK, stored
  <2>. QED BY <1>1, <1>2, <2>1, <2>2, <2>3, AnswerOnly
<1>3. CASE /\ w \in Worker
           /\ \/ st.half = "open" /\ LandOpen(p, st, w)
              \/ st.half = "close" /\ LandClose(p, st, w)
              \/ st.half = "resolve" /\ LandResolve(p, st, w)
  BY <1>1, <1>3, LandOpenSound, LandEndSound
<1>. QED BY <1>2, <1>3, LandCases

LEMMA LookUpSound == ASSUME PhoneInv, NEW p \in Thread, LookUp(p) PROVE PhoneInv'
<1>. USE PhoneAssumption DEF PhoneInv
<1>. DEFINE k == thread[p].step.key
<1>1. /\ thread[p].pc = "looking" /\ UNCHANGED <<rows, session, drift, place, taps>>
      /\ OpenFindKey(p) \/ OpenFindOpen(p) \/ ConflictAnswered(p)
      /\ p \in Request
  BY DEF LookUp
<1>2. UNCHANGED <<now, table>> /\ \A q \in Thread \ {p} : req'[q] = req[q]
  BY <1>1 DEF OpenFindKey, OpenFindOpen, ConflictAnswered, Typed, TypeOK
<1>3. TypeOK'
  BY <1>1, TypeStep DEF Typed, LedgerNext, HandlerStep
<1>4. req[p].pc \in {"find_key", "find_open", "conflict"} /\ req[p].key = k
      /\ thread[p].step.half = "open"
  BY <1>1 DEF Sound, ThreadSound, AnswerSound
<1>5. req[p] \in OpenState \cup ConflictState
  BY <1>1, <1>4, ReqByPc DEF Typed, TypeOK, ReqState
<1>6. ASSUME NEW a \in Answer, Answered(p, a), req'[p] = Idle,
             a.code = "ok" => Heard(k, a.row)
      PROVE  PhoneInv'
  BY <1>1, <1>2, <1>3, <1>4, <1>6, AnswerOnly
<1>7. ASSUME NEW code \in Code, Answered(p, Refused(code)), req'[p] = Idle PROVE PhoneInv'
  <2>1. Refused(code) \in Answer /\ Refused(code).code # "ok"
    BY DEF Refused, Answer, Code
  <2>. QED BY <1>6, <1>7, <2>1
<1>8. ASSUME UNCHANGED thread, req'[p].pc \in {"find_key", "find_open", "conflict"},
             req'[p].key = req[p].key
      PROVE  PhoneInv'
  <2>1. Typed'
    BY <1>1, <1>2, <1>3, <1>8 DEF Typed, PhoneTypeOK, phoneNow, table, stored
  <2>2. /\ Grows /\ NewShiftsAgree /\ NotStarting(p) /\ ~(k \in stored' \ stored)
        /\ rows' = rows /\ Remembers
    BY <1>1, <1>2, TapsKept DEF Grows, NewShiftsAgree, NotStarting, table, stored, Keeps, Ended
  <2>3. AnswerSound(p)' /\ InFlight(p)'
    BY <1>1, <1>4, <1>8 DEF AnswerSound, InFlight
  <2>4. thread'[p] = thread[p] /\ \A q \in Thread \ {p} : thread'[q] = thread[q]
    BY <1>8
  <2>5. ThreadSound(p)' /\ OnlyActs(p)
    BY <1>1, <1>2, <2>2, <2>3, <2>4, InFlightStays
  <2>. QED BY <1>1, <1>2, <2>1, <2>2, <2>5, QuietStep
<1>9. CASE OpenFindKey(p)
  <2>1. CASE k \in stored /\ shift[k].worker = req[p].worker
    <3>1. req'[p] = Idle
      BY <1>4, <1>9, <2>1 DEF OpenFindKey, Typed, TypeOK
    <3>2. Answered(p, Ok(shift[k]))
      BY <1>4, <1>9, <3>1 DEF LookUp, OpenFindOpen, ConflictAnswered, OpenFindKey
    <3>3. shift[k] \in Row
      BY <2>1 DEF Typed, TypeOK
    <3>4. Ok(shift[k]) \in Answer /\ Ok(shift[k]).row = shift[k]
      BY <3>3 DEF Ok, Answer
    <3>5. Heard(k, shift[k])
      BY <2>1, <3>3 DEF Heard, Ended
    <3>. QED BY <1>6, <3>1, <3>2, <3>4, <3>5
  <2>2. CASE ~(k \in stored /\ shift[k].worker = req[p].worker)
    <3>1. req'[p] = [req[p] EXCEPT !.pc = "find_open"]
      BY <1>4, <1>9, <2>2 DEF OpenFindKey, Typed, TypeOK
    <3>2. req'[p].pc = "find_open" /\ req'[p].key = req[p].key /\ req'[p] # Idle
      BY <1>5, <3>1 DEF OpenState, ConflictState, Idle
    <3>3. UNCHANGED thread
      BY <1>9, <3>2 DEF LookUp, OpenFindOpen, ConflictAnswered, OpenFindKey
    <3>. QED BY <1>8, <3>2, <3>3
  <2>. QED BY <2>1, <2>2
<1>10. CASE OpenFindOpen(p)
  <2>1. CASE HasOpen(req[p].worker)
    <3>1. req'[p] = Idle
      BY <1>10, <2>1 DEF OpenFindOpen, Typed, TypeOK
    <3>2. Answered(p, Refused("shift_already_open"))
      BY <1>10, <3>1 DEF LookUp, OpenFindOpen, ConflictAnswered, OpenFindKey
    <3>. QED BY <1>7, <3>1, <3>2 DEF Code
  <2>2. CASE ~HasOpen(req[p].worker)
    <3>1. req'[p] = [req[p] EXCEPT !.pc = "conflict"]
      BY <1>10, <2>2 DEF OpenFindOpen, Typed, TypeOK
    <3>2. req'[p].pc = "conflict" /\ req'[p].key = req[p].key /\ req'[p] # Idle
      BY <1>5, <3>1 DEF OpenState, ConflictState, Idle
    <3>3. UNCHANGED thread
      BY <1>10, <3>2 DEF LookUp, OpenFindOpen, ConflictAnswered, OpenFindKey
    <3>. QED BY <1>8, <3>2, <3>3
  <2>. QED BY <2>1, <2>2
<1>11. CASE ConflictAnswered(p)
  <2>1. req'[p] = Idle
    BY <1>11 DEF ConflictAnswered, Typed, TypeOK
  <2>2. Answered(p, Refused("conflict"))
    BY <1>11 DEF LookUp, OpenFindOpen, ConflictAnswered, OpenFindKey
  <2>. QED BY <1>7, <2>1, <2>2 DEF Code
<1>. QED BY <1>1, <1>9, <1>10, <1>11

-----------------------------------------------------------------------------
(* Steps in a coroutine's own memory.                                      *)

LEMMA MemoryMoves ==
    ASSUME PhoneInv, NEW p \in Thread, NEW m \in Memory, thread' = [thread EXCEPT ![p] = m],
           UNCHANGED <<vars, rows, session, drift, place>>, Remembers
    PROVE  /\ thread'[p] = m /\ \A q \in Thread \ {p} : thread'[q] = thread[q]
           /\ thread[p] \in Memory /\ ThreadSound(p)
           /\ Typed' /\ Grows /\ NewShiftsAgree
           /\ stored' = stored /\ shift' = shift /\ rows' = rows /\ req' = req
           /\ UNCHANGED <<now, table, rows>>
<1>1. /\ thread \in [Thread -> Memory] /\ ThreadSound(p) /\ Typed
  BY DEF PhoneInv, Typed, PhoneTypeOK, Sound
<1>2. /\ thread'[p] = m /\ \A q \in Thread \ {p} : thread'[q] = thread[q]
      /\ thread' \in [Thread -> Memory]
  BY <1>1
<1>3. /\ stored' = stored /\ shift' = shift /\ rows' = rows /\ req' = req
      /\ UNCHANGED <<now, table, rows>>
  BY DEF vars, table, stored
<1>4. TypeOK'
  BY <1>1, <1>3 DEF Typed, TypeOK, table
<1>5. Typed'
  BY <1>1, <1>2, <1>3, <1>4 DEF Typed, PhoneTypeOK, phoneNow, Remembers
<1>6. Grows /\ NewShiftsAgree
  BY <1>3 DEF Grows, NewShiftsAgree, Keeps, Ended
<1>. QED BY <1>1, <1>2, <1>3, <1>5, <1>6

LEMMA MemorySound ==
    ASSUME PhoneInv, NEW p \in Thread, NEW m \in Memory, thread' = [thread EXCEPT ![p] = m],
           UNCHANGED <<vars, rows, session, drift, place>>, Remembers,
           ThreadSound(p)',
           \/ m.goal = thread[p].goal \/ m.goal = None \/ m.goal.how # "start"
           \/ \A q \in Thread : thread[q].goal = None \/ thread[q].goal.key # m.goal.key
    PROVE  PhoneInv'
<1>1. /\ thread'[p] = m /\ \A q \in Thread \ {p} : thread'[q] = thread[q]
      /\ Typed' /\ req' = req /\ UNCHANGED <<now, table, rows>>
  BY MemoryMoves
<1>2. OnlyActs(p)
  BY <1>1 DEF OnlyActs, Starts
<1>. QED BY <1>1, <1>2, QuietStep DEF PhoneInv

LEMMA BeginsSound ==
    ASSUME PhoneInv, NEW p \in Thread, BeginRefresh(p) \/ BeginJob(p)
    PROVE  PhoneInv'
<1>. DEFINE m == [Resting EXCEPT !.pc = IF BeginRefresh(p) THEN "ask" ELSE "plan",
                                 !.worker = session]
<1>1. m \in Memory /\ m.steps = {} /\ m.goal = None /\ ~m.final /\ m.pc \in {"ask", "plan"}
  BY DEF PhoneInv, Typed, PhoneTypeOK, Memory, Resting
<1>2. /\ thread' = [thread EXCEPT ![p] = m]
      /\ UNCHANGED <<vars, rows, session, drift, place, taps>>
  BY DEF BeginRefresh, BeginJob
<1>. HIDE DEF m
<1>3. Remembers
  BY <1>2, TapsKept DEF PhoneInv
<1>4. thread'[p] = m
  BY <1>1, <1>2, <1>3, MemoryMoves
<1>5. ThreadSound(p)'
  BY <1>1, <1>4
     DEF ThreadSound, PlanSound, GoalSound, FlightSound, AnswerSound, Starts, InFlight
<1>. QED BY <1>1, <1>2, <1>3, <1>5, MemorySound

LEMMA FreshKeyIsFresh ==
    ASSUME NEW w, FreshKeys(w) # {}
    PROVE  /\ FreshKey(w) \in Key /\ Owner[FreshKey(w)] = w /\ ~OnPhone(FreshKey(w))
           /\ FreshKey(w) \notin stored
           /\ \A q \in Thread : thread[q].goal = None \/ thread[q].goal.key # FreshKey(w)
<1>1. FreshKey(w) \in FreshKeys(w)
  BY DEF FreshKey
<1>. QED BY <1>1 DEF FreshKeys

LEMMA OnlineSound ==
    ASSUME PhoneInv, NEW p \in Thread, NEW b \in Building,
           \/ StartOnline(p, b) \/ EndOnline(p, b, "tap") \/ EndOnline(p, b, "stop")
           \/ \E k \in Key : ResolveOnline(p, k)
    PROVE  PhoneInv'
<1>1. Remembers
  BY TapsKept DEF StartOnline, EndOnline, ResolveOnline, PhoneInv
<1>2. ASSUME NEW m \in Memory, thread' = [thread EXCEPT ![p] = m],
             UNCHANGED <<vars, rows, session, drift, place, taps>>,
             m.steps = {}, m.goal \in Goal, ~m.final, m.pc \in {"plan", "confirm"},
             m.goal.how \in {"tap", "stop"} => OnPhone(m.goal.key),
             m.goal.how = "resolve" => m.goal.key \in stored,
             m.goal.how = "start" =>
               /\ m.goal.key \notin stored /\ ~OnPhone(m.goal.key)
               /\ \A q \in Thread : thread[q].goal = None \/ thread[q].goal.key # m.goal.key
      PROVE  PhoneInv'
  <2>1. thread'[p] = m /\ stored' = stored /\ rows' = rows
    BY <1>1, <1>2, MemoryMoves
  <2>2. m.goal # None
    BY <1>2, PhoneAssumption
  <2>3. ThreadSound(p)'
    BY <1>2, <2>1, <2>2
       DEF ThreadSound, PlanSound, GoalSound, FlightSound, AnswerSound, Starts, InFlight, OnPhone
  <2>. QED BY <1>1, <1>2, <2>3, MemorySound
<1>3. ASSUME NEW pc \in {"plan", "confirm"}, NEW g \in Goal, session # None
      PROVE  LET m == [Resting EXCEPT !.pc = pc, !.worker = session, !.goal = g] IN
             m \in Memory /\ m.steps = {} /\ m.goal = g /\ ~m.final /\ m.pc = pc
  BY DEF PhoneInv, Typed, PhoneTypeOK, Memory, Resting
<1>4. CASE StartOnline(p, b)
  <2>. DEFINE k == FreshKey(session)
              g == [key |-> k, how |-> "start", building |-> b]
              m == [Resting EXCEPT !.pc = "confirm", !.worker = session, !.goal = g]
  <2>1. /\ k \in Key /\ k \notin stored /\ ~OnPhone(k)
        /\ \A q \in Thread : thread[q].goal = None \/ thread[q].goal.key # k
    BY <1>4, FreshKeyIsFresh DEF StartOnline
  <2>2. g \in Goal /\ g.key = k /\ g.how = "start"
    BY <2>1 DEF Goal
  <2>3. m \in Memory /\ m.steps = {} /\ m.goal = g /\ ~m.final /\ m.pc = "confirm"
    BY <1>3, <1>4, <2>2 DEF StartOnline
  <2>4. /\ thread' = [thread EXCEPT ![p] = m]
        /\ UNCHANGED <<vars, rows, session, drift, place, taps>>
    BY <1>4 DEF StartOnline
  <2>. HIDE DEF m, g, k
  <2>. QED BY <1>2, <2>1, <2>2, <2>3, <2>4
<1>5. ASSUME NEW how \in {"tap", "stop"}, EndOnline(p, b, how) PROVE PhoneInv'
  <2>1. PICK k \in Running(session) : thread' = [thread EXCEPT ![p] =
              [Resting EXCEPT !.pc = IF rows[k].proof = "unknown" THEN "plan" ELSE "confirm",
                              !.worker = session,
                              !.goal = [key |-> k, how |-> how, building |->
                                          IF how = "stop" THEN rows[k].building ELSE b]]]
    BY <1>5 DEF EndOnline
  <2>. DEFINE pc == IF rows[k].proof = "unknown" THEN "plan" ELSE "confirm"
              g == [key |-> k, how |-> how, building |->
                      IF how = "stop" THEN rows[k].building ELSE b]
              m == [Resting EXCEPT !.pc = pc, !.worker = session, !.goal = g]
  <2>2. k \in Key /\ OnPhone(k) /\ rows[k].building \in Building
    BY DEF Running, OnPhone, PhoneInv, Typed, PhoneTypeOK, LocalRow
  <2>3. g \in Goal /\ g.key = k /\ g.how = how
    BY <2>2 DEF Goal
  <2>4. pc \in {"plan", "confirm"} /\ session # None
    BY <1>5 DEF EndOnline, CanTap
  <2>5. /\ thread' = [thread EXCEPT ![p] = m]
        /\ UNCHANGED <<vars, rows, session, drift, place, taps>>
    BY <1>5, <2>1 DEF EndOnline
  <2>. HIDE DEF g, pc
  <2>6. m \in Memory /\ m.steps = {} /\ m.goal = g /\ ~m.final /\ m.pc \in {"plan", "confirm"}
    BY <1>3, <2>3, <2>4
  <2>. HIDE DEF m
  <2>. QED BY <1>2, <2>2, <2>3, <2>5, <2>6
<1>6. ASSUME NEW k \in Key, ResolveOnline(p, k) PROVE PhoneInv'
  <2>. DEFINE g == [key |-> k, how |-> "resolve", building |-> shift[k].building]
              m == [Resting EXCEPT !.pc = "confirm", !.worker = session, !.goal = g]
  <2>1. k \in stored /\ shift[k].building \in Building
    BY <1>6 DEF ResolveOnline, Ended, PhoneInv, Typed, TypeOK, Row
  <2>2. g \in Goal /\ g.key = k /\ g.how = "resolve"
    BY <2>1 DEF Goal
  <2>3. m \in Memory /\ m.steps = {} /\ m.goal = g /\ ~m.final /\ m.pc = "confirm"
    BY <1>3, <1>6, <2>2 DEF ResolveOnline, CanTap
  <2>4. /\ thread' = [thread EXCEPT ![p] = m]
        /\ UNCHANGED <<vars, rows, session, drift, place, taps>>
    BY <1>6 DEF ResolveOnline
  <2>. HIDE DEF m, g
  <2>. QED BY <1>2, <2>1, <2>2, <2>3, <2>4
<1>. QED BY <1>4, <1>5, <1>6

LEMMA RestSound ==
    ASSUME PhoneInv, NEW p \in Thread, thread' = [thread EXCEPT ![p] = Resting],
           UNCHANGED <<vars, rows, session, drift, place, taps>>
    PROVE  PhoneInv'
<1>1. /\ Resting \in Memory /\ Resting.steps = {} /\ Resting.goal = None /\ ~Resting.final
      /\ Resting.pc = "idle"
  BY DEF Memory, Resting
<1>2. Remembers
  BY TapsKept DEF PhoneInv
<1>3. thread'[p] = Resting
  BY <1>1, <1>2, MemoryMoves
<1>4. ThreadSound(p)'
  BY <1>1, <1>3
     DEF ThreadSound, PlanSound, GoalSound, FlightSound, AnswerSound, Starts, InFlight
<1>. QED BY <1>1, <1>2, <1>4, MemorySound

\* The plan loses steps or none, and the goal is the same.
LEMMA StepSound ==
    ASSUME PhoneInv, NEW p \in Thread, NEW m \in Memory, thread' = [thread EXCEPT ![p] = m],
           UNCHANGED <<vars, rows, session, drift, place>>, Remembers,
           m.steps \subseteq thread[p].steps, m.worker = thread[p].worker,
           m.goal = thread[p].goal, thread[p].final => m.final,
           (FlightSound(p) /\ AnswerSound(p))'
    PROVE  PhoneInv'
<1>1. /\ thread'[p] = m /\ ThreadSound(p) /\ Grows /\ NewShiftsAgree
      /\ stored' = stored /\ rows' = rows
  BY MemoryMoves
<1>2. PlanSound(p)'
  BY <1>1, PlanStays DEF ThreadSound, PhoneInv
<1>3. GoalSound(p)'
  BY <1>1 DEF ThreadSound, GoalSound, Starts, OnPhone
<1>. QED BY <1>2, <1>3, MemorySound DEF ThreadSound

LEMMA AskSound == ASSUME PhoneInv, NEW p \in Thread, Ask(p) \/ AskFails(p) PROVE PhoneInv'
<1>1. /\ thread \in [Thread -> Memory] /\ thread[p] \in Memory /\ FlightSound(p)
      /\ thread[p].pc = "ask"
  BY DEF PhoneInv, Typed, PhoneTypeOK, Sound, ThreadSound, Ask, AskFails
<1>2. ~thread[p].final
  BY <1>1 DEF FlightSound, InFlight
<1>3. Remembers /\ UNCHANGED <<vars, rows, session, drift, place>>
  BY TapsKept DEF Ask, AskFails, PhoneInv
<1>4. CASE thread' = [thread EXCEPT ![p].pc = AfterAsk(p)]
  <2>. DEFINE m == [thread[p] EXCEPT !.pc = AfterAsk(p)]
  <2>1. /\ m \in Memory /\ m.steps = thread[p].steps /\ m.worker = thread[p].worker
        /\ m.goal = thread[p].goal /\ m.final = thread[p].final
        /\ m.pc = AfterAsk(p)
    BY <1>1 DEF Memory, AfterAsk
  <2>2. thread' = [thread EXCEPT ![p] = m]
    BY <1>1, <1>4 DEF Memory
  <2>. HIDE DEF m
  <2>3. thread'[p] = m
    BY <1>3, <2>1, <2>2, MemoryMoves
  <2>4. (FlightSound(p) /\ AnswerSound(p))'
    BY <1>2, <2>1, <2>3 DEF FlightSound, AnswerSound, InFlight, AfterAsk
  <2>. QED BY <1>3, <2>1, <2>2, <2>4, StepSound
<1>5. ASSUME NEW k \in stored,
             thread' = [thread EXCEPT ![p].pc = "asked", ![p].step = StepFor(k, shift[k]),
                                      ![p].answer = Ok(shift[k])]
      PROVE  PhoneInv'
  <2>. DEFINE st == StepFor(k, shift[k])
              a == Ok(shift[k])
              m == [thread[p] EXCEPT !.pc = "asked", !.step = st, !.answer = a]
  <2>1. shift[k] \in Row /\ k \in Key
    BY DEF PhoneInv, Typed, TypeOK
  <2>2. st \in Step /\ a \in Answer /\ st.key = k /\ a.row = shift[k]
    BY <2>1 DEF Step, StepFor, Answer, Ok, Row
  <2>3. Heard(k, shift[k])
    BY <2>1 DEF Heard, Ended
  <2>. HIDE DEF st, a
  <2>4. /\ m \in Memory /\ m.steps = thread[p].steps /\ m.worker = thread[p].worker
        /\ m.goal = thread[p].goal /\ m.final = thread[p].final
        /\ m.pc = "asked" /\ m.step = st /\ m.answer = a
    BY <1>1, <2>2 DEF Memory
  <2>5. thread' = [thread EXCEPT ![p] = m]
    BY <1>1, <1>5 DEF Memory, st, a
  <2>. HIDE DEF m
  <2>6. thread'[p] = m /\ Grows
    BY <1>3, <2>4, <2>5, MemoryMoves
  <2>7. a # None /\ st # None
    BY <2>2, PhoneAssumption
  <2>8. FlightSound(p)'
    BY <1>2, <2>4, <2>6 DEF FlightSound, InFlight
  <2>9. Heard(k, shift[k])' /\ shift' = shift
    BY <1>3, <2>3 DEF vars, Heard, Ended, stored
  <2>10. AnswerSound(p)'
    BY <2>2, <2>4, <2>6, <2>7, <2>9 DEF AnswerSound
  <2>. QED BY <1>3, <2>4, <2>5, <2>8, <2>10, StepSound
<1>. QED BY <1>4, <1>5 DEF Ask, AskFails

LEMMA SendSound == ASSUME PhoneInv, NEW p \in Thread, Send(p) PROVE PhoneInv'
<1>1. /\ thread \in [Thread -> Memory] /\ thread[p] \in Memory /\ FlightSound(p)
      /\ thread[p].pc = "push"
  BY DEF PhoneInv, Typed, PhoneTypeOK, Sound, ThreadSound, Send
<1>2. ~thread[p].final
  BY <1>1 DEF FlightSound, InFlight
<1>3. /\ Remembers /\ UNCHANGED <<vars, rows, session, drift, place>>
      /\ session \in Worker \cup {None}
  BY TapsKept DEF Send, PhoneInv, Typed, PhoneTypeOK
<1>4. PICK st \in thread[p].steps :
        thread' = [thread EXCEPT ![p].pc = "sent", ![p].cookie = session, ![p].step = st]
  BY DEF Send, First
<1>. DEFINE m == [thread[p] EXCEPT !.pc = "sent", !.cookie = session, !.step = st]
<1>5. /\ m \in Memory /\ m.steps = thread[p].steps /\ m.worker = thread[p].worker
      /\ m.goal = thread[p].goal /\ m.final = thread[p].final
      /\ m.pc = "sent" /\ m.step = st /\ st \in Step
  BY <1>1, <1>3, <1>4 DEF Memory
<1>6. thread' = [thread EXCEPT ![p] = m]
  BY <1>1, <1>4 DEF Memory
<1>. HIDE DEF m
<1>7. thread'[p] = m
  BY <1>3, <1>5, <1>6, MemoryMoves
<1>8. st # None
  BY <1>5, PhoneAssumption
<1>9. (FlightSound(p) /\ AnswerSound(p))'
  BY <1>2, <1>5, <1>7, <1>8 DEF FlightSound, AnswerSound, InFlight
<1>. QED BY <1>3, <1>5, <1>6, <1>9, StepSound

LEMMA EndPassSound == ASSUME PhoneInv, NEW p \in Thread, EndPass(p) PROVE PhoneInv'
<1>1. /\ thread \in [Thread -> Memory] /\ thread[p] \in Memory /\ FlightSound(p)
      /\ thread[p].pc = "push"
  BY DEF PhoneInv, Typed, PhoneTypeOK, Sound, ThreadSound, EndPass
<1>2. ~thread[p].final
  BY <1>1 DEF FlightSound, InFlight
<1>3. Remembers /\ UNCHANGED <<vars, rows, session, drift, place, taps>>
  BY TapsKept DEF EndPass, PhoneInv
<1>4. CASE thread[p].goal = None
  BY <1>1, <1>3, <1>4, RestSound DEF EndPass
<1>5. CASE thread[p].goal # None
  <2>. DEFINE m == [thread[p] EXCEPT !.pc = "ask"]
  <2>1. /\ m \in Memory /\ m.steps = thread[p].steps /\ m.worker = thread[p].worker
        /\ m.goal = thread[p].goal /\ m.final = thread[p].final /\ m.pc = "ask"
    BY <1>1 DEF Memory
  <2>2. thread' = [thread EXCEPT ![p] = m]
    BY <1>1, <1>5 DEF EndPass
  <2>. HIDE DEF m
  <2>3. thread'[p] = m
    BY <1>3, <2>1, <2>2, MemoryMoves
  <2>4. (FlightSound(p) /\ AnswerSound(p))'
    BY <1>2, <2>1, <2>3 DEF FlightSound, AnswerSound, InFlight
  <2>. QED BY <1>3, <2>1, <2>2, <2>4, StepSound
<1>. QED BY <1>4, <1>5

\* What the worker confirmed is stamped as it is sent.
LEMMA ConfirmSound == ASSUME PhoneInv, NEW p \in Thread, Confirm(p) PROVE PhoneInv'
<1>. DEFINE g == thread[p].goal
<1>1. /\ thread \in [Thread -> Memory] /\ thread[p] \in Memory /\ FlightSound(p) /\ GoalSound(p)
      /\ thread[p].pc = "confirm" /\ phoneNow \in Time
  BY DEF PhoneInv, Typed, PhoneTypeOK, Sound, ThreadSound, Confirm
<1>2. ~thread[p].final /\ g # None /\ g \in Goal
  BY <1>1 DEF FlightSound, InFlight, Memory
<1>3. CASE g.how \in {"tap", "stop"} /\ rows[g.key].proof = "unknown"
  BY <1>3, RestSound DEF Confirm
<1>4. CASE ~(g.how \in {"tap", "stop"} /\ rows[g.key].proof = "unknown")
  <2>1. PICK e \in IF g.how = "resolve" THEN Time ELSE {phoneNow} :
          thread' = [thread EXCEPT ![p].pc = "sent", ![p].cookie = session,
                                   ![p].final = TRUE, ![p].step = [FinalStep(g) EXCEPT !.at = e]]
    BY <1>4 DEF Confirm
  <2>2. /\ tapped' = IF g.how \in {"tap", "stop"}
                       THEN [tapped EXCEPT ![g.key] = @ \cup {phoneNow}] ELSE tapped
        /\ confirmed' =
             IF g.how = "stop" \/ (g.how = "tap" /\ g.building = rows[g.key].building)
               THEN [confirmed EXCEPT ![g.key] = @ \cup {phoneNow}] ELSE confirmed
        /\ UNCHANGED <<vars, rows, session, drift, place, tapping, overwritten>>
    BY <1>4 DEF Confirm
  <2>3. /\ g.key \in Key /\ session \in Worker \cup {None}
        /\ tapped \in [Key -> SUBSET Time] /\ confirmed \in [Key -> SUBSET Time]
        /\ overwritten \subseteq Key /\ tapping \in Tap \cup {None}
    BY <1>2 DEF Goal, PhoneInv, Typed, PhoneTypeOK
  <2>4. /\ Remembers
        /\ g.how \in {"tap", "stop"} => phoneNow \in tapped'[g.key]
        /\ g.how = "stop" \/ (g.how = "tap" /\ g.building = rows[g.key].building)
             => phoneNow \in confirmed'[g.key]
    BY <1>1, <2>2, <2>3 DEF Remembers
  <2>. DEFINE st == [FinalStep(g) EXCEPT !.at = e]
              m == [thread[p] EXCEPT !.pc = "sent", !.cookie = session, !.final = TRUE,
                                     !.step = st]
  <2>5. e \in Time /\ (g.how # "resolve" => e = phoneNow)
    BY <1>1, <2>1
  <2>6. /\ st \in Step /\ st.key = g.key /\ st.at = e
        /\ st.half = "open" <=> g.how = "start"
        /\ st.half = "resolve" <=> g.how = "resolve"
        /\ st.half = "close" <=> g.how \in {"tap", "stop"}
        /\ g.how = "tap" /\ st.how # "switch" => g.building = rows[g.key].building
    BY <1>1, <1>2, <2>5 DEF FinalStep, Step, Goal
  <2>. HIDE DEF st
  <2>7. /\ m \in Memory /\ m.steps = thread[p].steps /\ m.worker = thread[p].worker
        /\ m.goal = g /\ m.final = TRUE /\ m.pc = "sent" /\ m.step = st
    BY <1>1, <2>3, <2>6 DEF Memory
  <2>8. thread' = [thread EXCEPT ![p] = m]
    BY <1>1, <2>1 DEF Memory, st
  <2>. HIDE DEF m
  <2>9. thread'[p] = m /\ stored' = stored /\ rows' = rows
    BY <2>2, <2>4, <2>7, <2>8, MemoryMoves
  <2>10. st # None
    BY <2>6, PhoneAssumption
  <2>11. st.half = "open" => st.key \notin stored /\ ~OnPhone(st.key)
    BY <1>1, <1>2, <2>6 DEF GoalSound, Starts
  <2>12. Right(thread[p].step)'
    <3>1. thread'[p].step = st
      BY <2>7, <2>9
    <3>2. st.half = "close" => st.at \in tapped'[st.key]
      BY <2>4, <2>5, <2>6
    <3>3. st.half = "close" /\ st.how # "switch" => st.at \in confirmed'[st.key]
      BY <2>4, <2>5, <2>6
    <3>. QED BY <2>9, <2>11, <3>1, <3>2, <3>3 DEF Right, OnPhone, VouchedFor
  <2>13. (FlightSound(p) /\ AnswerSound(p))'
    BY <1>2, <2>6, <2>7, <2>9, <2>10, <2>12 DEF FlightSound, AnswerSound, InFlight
  <2>. QED BY <2>2, <2>4, <2>7, <2>8, <2>13, StepSound
<1>. QED BY <1>3, <1>4

-----------------------------------------------------------------------------
(* Steps of nobody's coroutine: the worker, the clock, the places, and the *)
(* end of the process.                                                     *)

LEMMA NobodyActs ==
    ASSUME Typed, Sound, UNCHANGED <<vars, thread>>, Keeps(rows, rows'), NewRowsKnown,
           Remembers
    PROVE  OnlyActs(None) /\ (None \in Thread => ThreadSound(None)')
<1>1. Grows /\ NewShiftsAgree /\ \A q \in Thread : NotStarting(q)
  BY DEF Grows, NewShiftsAgree, NotStarting, vars, stored, Ended
<1>2. \A q \in Thread : thread'[q] = thread[q] /\ req'[q] = req[q]
  BY DEF vars
<1>3. \A q \in Thread : ThreadSound(q)'
  BY <1>1, <1>2, OthersStay DEF Sound
<1>. QED BY <1>2, <1>3 DEF OnlyActs

LEMMA OutsideSound ==
    ASSUME PhoneInv, UNCHANGED <<vars, rows, thread, taps>>,
           session' \in Worker \cup {None}, drift' \in Drift, now + drift' \in Time,
           place' \in [Building -> PlaceState]
    PROVE  PhoneInv'
<1>1. Typed'
  BY DEF PhoneInv, Typed, TypeOK, PhoneTypeOK, phoneNow, vars, stored
<1>2. Keeps(rows, rows') /\ NewRowsKnown /\ UNCHANGED <<now, table, rows>> /\ Remembers
  BY TapsKept DEF Keeps, NewRowsKnown, vars, table, PhoneInv
<1>3. OnlyActs(None) /\ (None \in Thread => ThreadSound(None)')
  BY <1>2, NobodyActs DEF PhoneInv
<1>. QED BY <1>1, <1>2, <1>3, QuietStep DEF PhoneInv

LEMMA PhoneDiesSound == ASSUME PhoneInv, PhoneDies PROVE PhoneInv'
<1>. USE PhoneAssumption DEF PhoneInv
<1>1. /\ thread' = [p \in Thread |-> Resting] /\ req' = [p \in Request |-> Idle]
      /\ UNCHANGED <<now, table, rows, session, drift, place, tapped, confirmed, overwritten>>
      /\ tapping' = None
  BY DEF PhoneDies
<1>2. shift' = shift /\ stored' = stored /\ endBy' = endBy
  BY <1>1 DEF table, stored
<1>3. /\ Resting \in Memory /\ Resting.steps = {} /\ Resting.goal = None /\ ~Resting.final
      /\ Resting.pc = "idle"
  BY DEF Memory, Resting
<1>4. Typed'
  BY <1>1, <1>2, <1>3 DEF Typed, TypeOK, PhoneTypeOK, phoneNow, Idle
<1>5. \A p \in Thread : ThreadSound(p)'
  BY <1>1, <1>3
     DEF ThreadSound, PlanSound, GoalSound, FlightSound, AnswerSound, Starts, InFlight
<1>6. StartsApart'
  BY <1>1, <1>3 DEF StartsApart, Starts
<1>7. TableSound'
  BY <1>1, <1>2 DEF Sound, TableSound, SaneRow, UnopenedRow, ConfirmedRow, SaidRow, Open, Ended,
                    Payable, Flagged, OnPhone, VouchedFor
<1>8. QueueSound'
  BY <1>1, <1>2 DEF Sound, QueueSound, LocalSound, Ended, VouchedFor
<1>. QED BY <1>4, <1>5, <1>6, <1>7, <1>8 DEF Sound

\* A tap writes the queue, and nothing else but the instants tapped.
LEMMA TapSound ==
    ASSUME PhoneInv, UNCHANGED <<vars, session, thread, drift, place>>,
           IsQueue(rows'), Keeps(rows, rows'), Remembers, QueueSound',
           \A k \in DOMAIN rows' \ DOMAIN rows :
             /\ k \notin stored
             /\ \A q \in Thread : thread[q].goal = None \/ thread[q].goal.key # k
    PROVE  PhoneInv'
<1>1. Typed'
  BY DEF PhoneInv, Typed, TypeOK, PhoneTypeOK, phoneNow, vars, stored, IsQueue, Remembers
<1>2. NewRowsKnown /\ UNCHANGED <<now, table>>
  BY DEF NewRowsKnown, vars, table
<1>3. OnlyActs(None) /\ (None \in Thread => ThreadSound(None)')
  BY <1>2, NobodyActs DEF PhoneInv
<1>. QED BY <1>1, <1>2, <1>3, QueueStep DEF PhoneInv

\* A row that a tap ends.
LEMMA EndedRowSound ==
    ASSUME NEW k, k \in DOMAIN rows, LocalSound(k), stored' = stored, shift' = shift,
           rows'[k].opened = rows[k].opened, rows'[k].worker = rows[k].worker,
           rows'[k].closed = FALSE, rows'[k].end \in tapped'[k],
           rows'[k].auto \/ VouchedFor(k, rows[k].end)'
    PROVE  LocalSound(k)'
BY DEF LocalSound

\* A tap-in, or the second statement of a tap elsewhere, adds a row.
LEMMA StartsSound == ASSUME PhoneInv, TapIn \/ Arrive PROVE PhoneInv'
<1>. USE DEF PhoneInv
<1>. PICK w, b, k : w = tapping.worker /\ b = tapping.building /\ k = FreshKey(w)
  OBVIOUS
<1>1. /\ IsQueue(rows) /\ phoneNow \in Time /\ tapping \in Tap
      /\ UNCHANGED <<vars, session, thread, drift, place, tapped, confirmed, overwritten>>
      /\ FreshKeys(w) # {} /\ rows' = Started(rows, k, w, b, phoneNow) /\ tapping' = None
      /\ \A j \in DOMAIN rows : LocalSound(j)
  BY DEF TapIn, Arrive, Writes, StartsNow, Typed, PhoneTypeOK, IsQueue, Sound, QueueSound
<1>2. stored' = stored /\ shift' = shift
  BY <1>1 DEF vars, stored
<1>3. /\ k \in Key \ DOMAIN rows /\ Owner[k] = w /\ k \notin stored
      /\ w \in Worker /\ b \in Building
      /\ \A q \in Thread : thread[q].goal = None \/ thread[q].goal.key # k
  BY <1>1, FreshKeyIsFresh DEF OnPhone, Tap
<1>4. Adds(rows, rows', k, w)
  BY <1>1, <1>3, StartedQueue
<1>5. LocalSound(k)'
  BY <1>3, <1>4 DEF LocalSound, Adds
<1>6. ASSUME NEW j \in DOMAIN rows PROVE LocalSound(j)'
  BY <1>1, <1>2, <1>4, <1>6 DEF LocalSound, Ended, Adds, VouchedFor
<1>7. QueueSound'
  BY <1>4, <1>5, <1>6 DEF QueueSound, Adds
<1>8. Remembers
  BY <1>1 DEF Typed, PhoneTypeOK, Remembers
<1>. QED BY <1>1, <1>3, <1>4, <1>7, <1>8, TapSound DEF Adds

\* A tap-out ends a row, flagged where the tap was elsewhere.
LEMMA EndsSound == ASSUME PhoneInv, TapOut \/ TapElsewhere PROVE PhoneInv'
<1>. USE DEF PhoneInv
<1>1. /\ IsQueue(rows) /\ phoneNow \in Time /\ tapping \in Tap
      /\ tapped \in [Key -> SUBSET Time] /\ confirmed \in [Key -> SUBSET Time]
      /\ UNCHANGED <<vars, session, thread, drift, place, overwritten>>
      /\ \A j \in DOMAIN rows : LocalSound(j)
  BY DEF TapOut, TapElsewhere, Writes, Typed, PhoneTypeOK, IsQueue, Sound, QueueSound
<1>2. stored' = stored /\ shift' = shift
  BY <1>1 DEF vars, stored
<1>3. PICK k \in DOMAIN rows, auto \in BOOLEAN :
        /\ rows' = Closed(rows, k, phoneNow, auto)
        /\ tapped' = [tapped EXCEPT ![k] = @ \cup {phoneNow}]
        /\ confirmed' = IF auto THEN confirmed ELSE [confirmed EXCEPT ![k] = @ \cup {phoneNow}]
  BY DEF TapOut, TapElsewhere, Running
<1>4. k \in Key
  BY <1>1 DEF IsQueue
<1>5. tapping' \in Tap \cup {None}
  BY <1>1 DEF TapOut, TapElsewhere, Tap
<1>6. Remembers
  BY <1>1, <1>3, <1>4, <1>5 DEF Remembers, Typed, PhoneTypeOK
<1>7. Closes(rows, rows', k, phoneNow, auto)
  BY <1>1, <1>3, ClosedQueue
<1>8. LocalSound(k)'
  <2>1. phoneNow \in tapped'[k] /\ (auto \/ phoneNow \in confirmed'[k])
    BY <1>1, <1>3, <1>4
  <2>2. rows'[k].auto \/ VouchedFor(k, rows[k].end)'
    BY <1>7, <2>1 DEF VouchedFor, Closes
  <2>. QED BY <1>1, <1>2, <1>7, <2>1, <2>2, EndedRowSound DEF Closes
<1>9. ASSUME NEW j \in DOMAIN rows \ {k} PROVE LocalSound(j)'
  <2>1. LocalSound(j) /\ rows'[j] = rows[j] /\ j \in Key
    BY <1>1, <1>7 DEF IsQueue, Closes
  <2>. QED BY <1>2, <1>6, <2>1 DEF LocalSound, Ended, Remembers, VouchedFor
<1>10. QueueSound'
  BY <1>7, <1>8, <1>9 DEF QueueSound, Closes
<1>. QED BY <1>1, <1>6, <1>7, <1>10, TapSound DEF Closes

\* The handler of a tap has looked, and written nothing yet.
LEMMA BeginTapSound == ASSUME PhoneInv, NEW b \in Building, BeginTap(b) PROVE PhoneInv'
<1>. USE DEF PhoneInv
<1>1. /\ tapping' \in Tap
      /\ UNCHANGED <<vars, rows, session, thread, drift, place, tapped, confirmed, overwritten>>
  BY DEF BeginTap, CanTap, Tap, Typed, PhoneTypeOK
<1>2. Remembers /\ Keeps(rows, rows') /\ IsQueue(rows')
  BY <1>1 DEF Remembers, Typed, PhoneTypeOK, Keeps, IsQueue
<1>3. stored' = stored /\ shift' = shift
  BY <1>1 DEF vars, stored
<1>4. QueueSound'
  BY <1>1, <1>3 DEF Sound, QueueSound, LocalSound, Ended, VouchedFor
<1>. QED BY <1>1, <1>2, <1>4, TapSound

-----------------------------------------------------------------------------
(* Steps that write the queue from a coroutine.                            *)

LEMMA WriteMoves ==
    ASSUME PhoneInv, NEW p \in Thread, NEW m \in Memory, thread' = [thread EXCEPT ![p] = m],
           UNCHANGED <<now, table, session, drift, place>>, Remembers,
           req' = req \/ req' = [req EXCEPT ![p] = Idle],
           IsQueue(rows'), Keeps(rows, rows')
    PROVE  /\ thread'[p] = m /\ thread[p] \in Memory /\ ThreadSound(p)
           /\ \A q \in Thread \ {p} : thread'[q] = thread[q] /\ req'[q] = req[q]
           /\ Typed' /\ Grows /\ NewShiftsAgree
           /\ stored' = stored /\ shift' = shift
<1>1. /\ thread \in [Thread -> Memory] /\ ThreadSound(p) /\ Typed /\ Thread = Request
  BY PhoneAssumption DEF PhoneInv, Typed, PhoneTypeOK, Sound
<1>2. /\ thread'[p] = m /\ \A q \in Thread \ {p} : thread'[q] = thread[q]
      /\ thread' \in [Thread -> Memory]
  BY <1>1
<1>3. shift' = shift /\ stored' = stored /\ endBy' = endBy
  BY DEF table, stored
<1>4. /\ \A q \in Thread \ {p} : req'[q] = req[q]
      /\ \A q \in Thread : req'[q].pc \notin {"insert", "update"}
      /\ TypeOK'
  BY <1>1, <1>3 DEF Typed, TypeOK, Idle
<1>5. Typed'
  BY <1>1, <1>2, <1>3, <1>4 DEF Typed, PhoneTypeOK, phoneNow, IsQueue, Remembers
<1>6. Grows /\ NewShiftsAgree
  BY <1>3 DEF Grows, NewShiftsAgree, Ended
<1>. QED BY <1>1, <1>2, <1>3, <1>4, <1>5, <1>6

LEMMA WriteSound ==
    ASSUME PhoneInv, NEW p \in Thread, NEW m \in Memory, thread' = [thread EXCEPT ![p] = m],
           UNCHANGED <<now, table, session, drift, place>>, Remembers,
           req' = req \/ req' = [req EXCEPT ![p] = Idle],
           IsQueue(rows'), Keeps(rows, rows'), NewRowsKnown,
           \A k \in DOMAIN rows' \ DOMAIN rows :
             k \in stored => rows'[k].start = shift[k].start /\ rows'[k].building = shift[k].building,
           QueueSound', ThreadSound(p)', m.goal = thread[p].goal \/ m.goal = None
    PROVE  PhoneInv'
<1>1. /\ thread'[p] = m /\ Typed' /\ Typed /\ Sound
      /\ \A q \in Thread \ {p} : thread'[q] = thread[q] /\ req'[q] = req[q]
  BY WriteMoves DEF PhoneInv
<1>2. OnlyActs(p)
  BY <1>1 DEF OnlyActs, Starts
<1>. QED BY <1>1, <1>2, QueueStep DEF PhoneInv

\* The server's row wins; where it clears a flag, that is remembered.
LEMMA WrittenRowSound ==
    ASSUME NEW k \in Key, k \in DOMAIN rows, LocalSound(k), stored' = stored, shift' = shift,
           Remembers, NEW row, Heard(k, row), rows'[k].worker = rows[k].worker,
           rows'[k].end = IF row.end = NoTime THEN rows[k].end ELSE row.end,
           rows'[k].auto = row.auto, Clears(k, row) => k \in overwritten',
           rows'[k].opened = rows[k].opened, rows'[k].closed = rows[k].closed
    PROVE  LocalSound(k)'
<1>1. /\ rows'[k].opened => k \in stored
      /\ rows'[k].opened \/ rows'[k].worker = Owner[k]
  BY DEF LocalSound
<1>2. rows'[k].closed => Ended(k) /\ rows'[k].end # NoTime
  BY DEF LocalSound
<1>3. rows'[k].end # NoTime => rows'[k].end \in tapped'[k] \/ Ended(k)
  BY DEF LocalSound, Heard, Remembers
<1>4. ASSUME rows'[k].end # NoTime, ~rows'[k].auto
      PROVE  VouchedFor(k, rows[k].end)' \/ Ended(k)
  <2>1. CASE row.end # NoTime
    BY <2>1 DEF Heard
  <2>2. CASE row.end = NoTime /\ rows[k].auto
    BY <1>4, <2>2 DEF Clears, OnPhone, VouchedFor
  <2>3. CASE row.end = NoTime /\ ~rows[k].auto
    BY <1>4, <2>3 DEF LocalSound, VouchedFor, Remembers
  <2>. QED BY <2>1, <2>2, <2>3
<1>5. Ended(k) => Ended(k)'
  BY DEF Ended
<1>. QED BY <1>1, <1>2, <1>3, <1>4, <1>5 DEF LocalSound

LEMMA GoalStays ==
    ASSUME NEW p \in Thread, GoalSound(p), Grows, NewRowsKnown, stored' = stored,
           thread'[p].goal = thread[p].goal, thread'[p].final = thread[p].final
    PROVE  GoalSound(p)'
BY DEF GoalSound, Starts, Grows, Keeps, NewRowsKnown, OnPhone

\* A pass goes on with its plan, or with less of it.
LEMMA PassSound ==
    ASSUME PhoneInv, NEW p \in Thread, NEW m \in Memory, thread' = [thread EXCEPT ![p] = m],
           UNCHANGED <<now, table, session, drift, place>>, Remembers,
           req' = req \/ req' = [req EXCEPT ![p] = Idle],
           IsQueue(rows'), Keeps(rows, rows'), NewRowsKnown,
           \A k \in DOMAIN rows' \ DOMAIN rows :
             k \in stored => rows'[k].start = shift[k].start /\ rows'[k].building = shift[k].building,
           QueueSound', ~thread[p].final, m.steps \subseteq thread[p].steps,
           m.worker = thread[p].worker, m.goal = thread[p].goal, m.final = thread[p].final,
           m.pc \in {"plan", "push", "confirm"}, m.pc = "confirm" => m.goal # None
    PROVE  PhoneInv'
<1>1. /\ thread'[p] = m /\ ThreadSound(p) /\ Grows /\ NewShiftsAgree /\ stored' = stored
  BY WriteMoves
<1>2. PlanSound(p)'
  BY <1>1, PlanStays DEF PhoneInv, ThreadSound
<1>3. GoalSound(p)'
  BY <1>1, GoalStays DEF ThreadSound
<1>4. FlightSound(p)' /\ AnswerSound(p)'
  BY <1>1 DEF FlightSound, AnswerSound, InFlight
<1>. QED BY <1>2, <1>3, <1>4, WriteSound DEF ThreadSound


LEMMA AdoptSound == ASSUME PhoneInv, NEW p \in Thread, Adopt(p) PROVE PhoneInv'
<1>. DEFINE m == [thread[p] EXCEPT !.pc = AfterAsk(p), !.step = None, !.answer = None]
<1>1. /\ thread \in [Thread -> Memory] /\ thread[p] \in Memory /\ thread[p].pc = "asked"
      /\ FlightSound(p) /\ AnswerSound(p) /\ IsQueue(rows) /\ QueueSound
      /\ stored \subseteq Key /\ TableSound
  BY DEF Adopt, PhoneInv, Typed, PhoneTypeOK, Sound, ThreadSound, IsQueue
<1>2. /\ m \in Memory /\ m.steps = thread[p].steps /\ m.worker = thread[p].worker
      /\ m.goal = thread[p].goal /\ m.final = thread[p].final /\ m.pc = AfterAsk(p)
  BY <1>1 DEF Memory, AfterAsk
<1>3. /\ thread' = [thread EXCEPT ![p] = m]
      /\ UNCHANGED <<vars, session, drift, place, tapping, tapped, confirmed>>
  BY <1>1 DEF Adopt, Memory
<1>. HIDE DEF m
<1>. PICK k, row : k = thread[p].step.key /\ row = thread[p].answer.row
  OBVIOUS
<1>4. Heard(k, row) /\ row \in Row /\ k \in stored /\ k \in Key /\ ~thread[p].final
  BY <1>1 DEF AnswerSound, Heard, FlightSound, InFlight
<1>5. /\ rows' = Applied(Adopted(rows, k, row), k, row)
      /\ overwritten' = overwritten \cup {j \in {k} : Clears(j, row)}
  BY DEF Adopt
<1>6. Takes(rows, rows', k, row)
  BY <1>1, <1>4, <1>5, TakesServerRow
<1>7. shift' = shift /\ stored' = stored
  BY <1>3 DEF vars, stored
<1>14. Remembers
  BY <1>3, <1>4, <1>5 DEF Remembers, PhoneInv, Typed, PhoneTypeOK
<1>8. LocalSound(k)'
  <2>1. CASE k \in DOMAIN rows
    <3>1. LocalSound(k)
      BY <1>1, <2>1 DEF QueueSound
    <3>. QED BY <1>4, <1>5, <1>6, <1>7, <1>14, <2>1, <3>1, WrittenRowSound DEF Takes
  <2>2. CASE k \notin DOMAIN rows
    BY <1>4, <1>6, <1>7, <2>2 DEF LocalSound, Heard, Ended, Takes
  <2>. QED BY <2>1, <2>2
<1>9. ASSUME NEW j \in DOMAIN rows \ {k} PROVE LocalSound(j)'
  <2>1. LocalSound(j) /\ rows'[j] = rows[j] /\ j \in Key
    BY <1>1, <1>6 DEF QueueSound, Takes, IsQueue
  <2>. QED BY <1>7, <1>14, <2>1 DEF LocalSound, Ended, Remembers, VouchedFor
<1>10. QueueSound'
  BY <1>6, <1>8, <1>9 DEF QueueSound, Takes
<1>11. NewRowsKnown
  BY <1>4, <1>6, <1>7 DEF NewRowsKnown, Takes
<1>12. \A j \in DOMAIN rows' \ DOMAIN rows :
         j \in stored => rows'[j].start = shift[j].start /\ rows'[j].building = shift[j].building
  BY <1>4, <1>6 DEF Heard, Takes
<1>13. /\ UNCHANGED <<now, table, session, drift, place>> /\ req' = req
       /\ m.pc \in {"plan", "push", "confirm"} /\ (m.pc = "confirm" => m.goal # None)
  BY <1>2, <1>3 DEF vars, table, AfterAsk
<1>. QED BY <1>2, <1>3, <1>4, <1>6, <1>10, <1>11, <1>12, <1>13, <1>14, PassSound DEF Takes

LEMMA PlanStepSound == ASSUME PhoneInv, NEW p \in Thread, Plan(p) PROVE PhoneInv'
<1>. DEFINE w == thread[p].worker
            due == {k \in Waiting : ~WrongAccount(k, w)}
            plan == UNION {StepsOf(k) : k \in due}
            m == [thread[p] EXCEPT !.pc = "push", !.steps = plan]
<1>1. /\ thread \in [Thread -> Memory] /\ thread[p] \in Memory /\ thread[p].pc = "plan"
      /\ FlightSound(p) /\ GoalSound(p) /\ IsQueue(rows) /\ QueueSound /\ TableSound
  BY DEF Plan, PhoneInv, Typed, PhoneTypeOK, Sound, ThreadSound, IsQueue
<1>2. ~thread[p].final
  BY <1>1 DEF FlightSound, InFlight
<1>3. ASSUME NEW k \in due, NEW st \in StepsOf(k)
      PROVE  /\ st \in Step /\ st.key = k /\ OnPhone(k) /\ Right(st)
             /\ st.half \in {"open", "close"}
             /\ st.half = "open" => Owner[k] = w
  <2>1. k \in DOMAIN rows /\ k \in Key /\ rows[k] \in LocalRow /\ LocalSound(k)
        /\ (~rows[k].opened => rows[k].worker = w)
    BY <1>1, <1>3 DEF Waiting, IsQueue, QueueSound, WrongAccount
  <2>2. CASE st = OpenStep(k) /\ ~rows[k].opened
    <3>1. /\ st \in Step /\ st.key = k /\ st.half = "open" /\ st.at = rows[k].start
          /\ st.building = rows[k].building
      BY <2>1, <2>2 DEF OpenStep, StepFor, Step, LocalRow
    <3>2. Right(st)
      BY <1>1, <2>1, <3>1 DEF Right, TableSound, OnPhone
    <3>. QED BY <2>1, <2>2, <3>1, <3>2 DEF LocalSound, OnPhone
  <2>3. CASE st = CloseStep(k) /\ ~LocallyOpen(k)
    <3>1. rows[k].end \in Time /\ rows[k].end # NoTime
      BY <2>1, <2>3 DEF LocallyOpen, OnPhone, LocalRow
    <3>2. /\ st \in Step /\ st.key = k /\ st.half = "close" /\ st.at = rows[k].end
          /\ st.how # "switch" => ~rows[k].auto
      BY <2>1, <2>3, <3>1 DEF CloseStep, StepFor, Step, LocalRow
    <3>3. Right(st)
      BY <2>1, <3>1, <3>2 DEF Right, LocalSound
    <3>. QED BY <2>1, <3>2, <3>3 DEF OnPhone
  <2>. QED BY <1>3, <2>2, <2>3 DEF StepsOf
<1>4. plan \subseteq Step
  BY <1>3
<1>5. /\ m \in Memory /\ m.steps = plan /\ m.worker = w
      /\ m.goal = thread[p].goal /\ m.final = thread[p].final /\ m.pc = "push"
  BY <1>1, <1>4 DEF Memory
<1>6. /\ thread' = [thread EXCEPT ![p] = m]
      /\ UNCHANGED <<vars, session, drift, place, taps>>
      /\ rows' = [k \in DOMAIN rows |->
                    IF k \in Waiting /\ WrongAccount(k, w)
                      THEN [rows[k] EXCEPT !.blocked = "wrong_account"] ELSE rows[k]]
  BY <1>1 DEF Plan, Memory
<1>7. ASSUME NEW k \in DOMAIN rows
      PROVE  /\ rows'[k] \in LocalRow
             /\ rows'[k].start = rows[k].start /\ rows'[k].building = rows[k].building
             /\ rows'[k].worker = rows[k].worker /\ rows'[k].end = rows[k].end
             /\ rows'[k].opened = rows[k].opened /\ rows'[k].closed = rows[k].closed
             /\ rows'[k].auto = rows[k].auto
  BY <1>1, <1>6 DEF IsQueue, LocalRow
<1>8. IsQueue(rows') /\ Keeps(rows, rows') /\ DOMAIN rows' = DOMAIN rows
  BY <1>1, <1>6, <1>7 DEF IsQueue, Keeps
<1>9. /\ shift' = shift /\ stored' = stored /\ UNCHANGED taps /\ Remembers
      /\ UNCHANGED <<now, table, session, drift, place>> /\ req' = req
  BY <1>6, TapsKept DEF vars, stored, table, PhoneInv
<1>10. QueueSound'
  BY <1>1, <1>7, <1>8, <1>9 DEF QueueSound, LocalSound, Ended, VouchedFor
<1>. HIDE DEF m
<1>11. thread'[p] = m /\ Grows /\ NewRowsKnown
  BY <1>5, <1>6, <1>8, <1>9, WriteMoves DEF NewRowsKnown
<1>12. PlanSound(p)'
  <2>. SUFFICES ASSUME NEW st \in thread'[p].steps
               PROVE  /\ OnPhone(st.key)' /\ Right(st)' /\ st.half \in {"open", "close"}
                      /\ st.half = "open" => Owner[st.key] = thread'[p].worker
    BY DEF PlanSound
  <2>1. PICK k \in due : st \in StepsOf(k)
    BY <1>5, <1>11
  <2>2. /\ st \in Step /\ st.key = k /\ OnPhone(k) /\ Right(st)
        /\ st.half \in {"open", "close"} /\ (st.half = "open" => Owner[k] = w)
    BY <1>3, <2>1
  <2>3. Right(st)'
    BY <1>7, <1>8, <1>9, <2>2 DEF Right, OnPhone, Ended, VouchedFor
  <2>. QED BY <1>5, <1>8, <1>11, <2>2, <2>3 DEF OnPhone
<1>13. GoalSound(p)'
  BY <1>1, <1>5, <1>9, <1>11, GoalStays
<1>14. FlightSound(p)' /\ AnswerSound(p)'
  BY <1>2, <1>5, <1>11 DEF FlightSound, AnswerSound, InFlight
<1>15. ThreadSound(p)'
  BY <1>12, <1>13, <1>14 DEF ThreadSound
<1>. QED BY <1>5, <1>6, <1>8, <1>9, <1>10, <1>11, <1>15, WriteSound

\* One row of the queue is written.
LEMMA OneRowSound ==
    ASSUME NEW k, IsQueue(rows), QueueSound, stored' = stored, shift' = shift,
           Remembers, \A j \in DOMAIN rows \ {k} : rows'[j] = rows[j],
           DOMAIN rows' \subseteq DOMAIN rows \cup {k}, k \in DOMAIN rows' => LocalSound(k)'
    PROVE  QueueSound'
<1>1. ASSUME NEW j \in DOMAIN rows \ {k} PROVE LocalSound(j)'
  <2>1. LocalSound(j) /\ rows'[j] = rows[j] /\ j \in Key
    BY <1>1 DEF QueueSound, IsQueue
  <2>. QED BY <2>1 DEF LocalSound, Ended, Remembers, VouchedFor
<1>. QED BY <1>1 DEF QueueSound

\* What an online flow was answered is written, and the flow is over.
LEMMA FlowEnds ==
    ASSUME PhoneInv, NEW p \in Thread, thread' = [thread EXCEPT ![p] = Resting],
           UNCHANGED <<now, table, session, drift, place>>, Remembers,
           req' = req \/ req' = [req EXCEPT ![p] = Idle],
           IsQueue(rows'), Keeps(rows, rows'), NewRowsKnown,
           \A k \in DOMAIN rows' \ DOMAIN rows :
             k \in stored => rows'[k].start = shift[k].start /\ rows'[k].building = shift[k].building,
           QueueSound'
    PROVE  PhoneInv'
<1>1. /\ Resting \in Memory /\ Resting.steps = {} /\ Resting.goal = None /\ ~Resting.final
      /\ Resting.pc = "idle"
  BY DEF Memory, Resting
<1>2. thread'[p] = Resting
  BY <1>1, WriteMoves
<1>3. ThreadSound(p)'
  BY <1>1, <1>2
     DEF ThreadSound, PlanSound, GoalSound, FlightSound, AnswerSound, Starts, InFlight
<1>. QED BY <1>1, <1>3, WriteSound

\* An answer that was heard is written to its row, and the half is not marked yet.
LEMMA ApplySound == ASSUME PhoneInv, NEW p \in Thread, Apply(p) PROVE PhoneInv'
<1>. PICK st, row, k : /\ st = thread[p].step /\ row = thread[p].answer.row
                      /\ k = thread[p].step.key
  OBVIOUS
<1>1. /\ thread \in [Thread -> Memory] /\ thread[p] \in Memory /\ ThreadSound(p)
      /\ thread[p].pc = "answered" /\ thread[p].answer.code = "ok" /\ InFlight(p)
      /\ IsQueue(rows) /\ QueueSound /\ TableSound /\ stored \subseteq Key
      /\ overwritten \subseteq Key
  BY DEF Apply, PhoneInv, Typed, PhoneTypeOK, Sound, IsQueue, InFlight
<1>2. /\ Heard(k, row) /\ row \in Row /\ k \in stored /\ k \in Key
      /\ st.half # "open" => row.end # NoTime
  BY <1>1 DEF ThreadSound, AnswerSound, Heard
<1>3. st \in Step /\ Right(st) /\ st.key = k /\ (st.half = "close" => OnPhone(k))
  <2>1. st \in Step /\ Right(st) /\ (~thread[p].final => OnPhone(k))
    BY <1>1, InFlightRight
  <2>2. thread[p].final /\ st.half = "close" => OnPhone(k)
    BY <1>1 DEF ThreadSound, FlightSound, GoalSound, Memory, Goal
  <2>. QED BY <2>1, <2>2
<1>4. /\ thread' = [thread EXCEPT ![p] = [thread[p] EXCEPT !.pc = "applied"]]
      /\ UNCHANGED <<vars, session, drift, place, tapping, tapped, confirmed>>
      /\ \/ rows' = Adopted(rows, k, row) /\ UNCHANGED overwritten /\ st.half = "open"
         \/ /\ rows' = Applied(rows, k, row)
            /\ overwritten' = overwritten \cup {j \in {k} : Clears(j, row)}
  BY <1>1 DEF Apply, Memory
<1>5. stored' = stored /\ shift' = shift /\ req' = req /\ UNCHANGED <<now, table>>
  BY <1>4 DEF vars, stored, table
<1>6. Remembers
  BY <1>2, <1>4 DEF Remembers, PhoneInv, Typed, PhoneTypeOK
<1>7. /\ IsQueue(rows') /\ Keeps(rows, rows') /\ QueueSound' /\ DOMAIN rows' \subseteq DOMAIN rows \cup {k}
      /\ k \notin DOMAIN rows /\ k \in DOMAIN rows' =>
           rows'[k].start = row.start /\ rows'[k].building = row.building
      /\ st.half = "close" => OnPhone(k)' /\ rows'[k].end # NoTime
  <2>1. CASE rows' = Adopted(rows, k, row) /\ st.half = "open"
    <3>1. Adopts(rows, rows', k, row)
      BY <1>1, <1>2, <2>1, AdoptedQueue
    <3>2. LocalSound(k)'
      <4>1. CASE k \notin DOMAIN rows
        BY <1>2, <1>5, <3>1, <4>1 DEF LocalSound, Heard, Ended, Adopts
      <4>2. CASE k \in DOMAIN rows
        BY <1>1, <1>2, <1>5, <1>6, <3>1, <4>2
           DEF QueueSound, LocalSound, Ended, Adopts, Remembers, VouchedFor
      <4>. QED BY <4>1, <4>2
    <3>3. QueueSound'
      BY <1>1, <1>5, <1>6, <3>1, <3>2, OneRowSound DEF Adopts
    <3>. QED BY <2>1, <3>1, <3>3 DEF Adopts
  <2>2. CASE /\ rows' = Applied(rows, k, row)
             /\ overwritten' = overwritten \cup {j \in {k} : Clears(j, row)}
    <3>1. /\ IsQueue(rows') /\ Keeps(rows, rows') /\ DOMAIN rows' = DOMAIN rows
          /\ \A j \in DOMAIN rows \ {k} : rows'[j] = rows[j]
      BY <1>1, <1>2, <2>2, AppliedQueue
    <3>2. ASSUME k \in DOMAIN rows
          PROVE  /\ rows'[k].opened = rows[k].opened /\ rows'[k].closed = rows[k].closed
                 /\ rows'[k].worker = rows[k].worker /\ rows'[k].auto = row.auto
                 /\ rows'[k].end = IF row.end = NoTime THEN rows[k].end ELSE row.end
      BY <1>1, <1>2, <2>2, <3>2, AppliedQueue
    <3>3. k \in DOMAIN rows => LocalSound(k)'
      BY <1>1, <1>2, <1>5, <1>6, <2>2, <3>2, WrittenRowSound DEF QueueSound
    <3>4. QueueSound'
      BY <1>1, <1>5, <1>6, <3>1, <3>3, OneRowSound
    <3>5. st.half = "close" => OnPhone(k)' /\ rows'[k].end # NoTime
      BY <1>2, <1>3, <3>1, <3>2 DEF OnPhone
    <3>. QED BY <3>1, <3>4, <3>5
  <2>. QED BY <1>4, <2>1, <2>2
<1>8. NewRowsKnown
  BY <1>2, <1>5, <1>7 DEF NewRowsKnown
<1>. DEFINE m == [thread[p] EXCEPT !.pc = "applied"]
<1>9. /\ m \in Memory /\ m.steps = thread[p].steps /\ m.worker = thread[p].worker
      /\ m.goal = thread[p].goal /\ m.final = thread[p].final /\ m.pc = "applied"
      /\ m.step = st /\ thread' = [thread EXCEPT ![p] = m]
  BY <1>1, <1>4 DEF Memory
<1>. HIDE DEF m
<1>10. thread'[p] = m /\ Grows /\ NewShiftsAgree
  BY <1>4, <1>5, <1>6, <1>7, <1>9, WriteMoves
<1>11. PlanSound(p)'
  BY <1>1, <1>9, <1>10, PlanStays DEF PhoneInv, ThreadSound
<1>12. GoalSound(p)'
  BY <1>1, <1>5, <1>8, <1>9, <1>10, GoalStays DEF ThreadSound
<1>13. Right(st)'
  BY <1>2, <1>3, <1>5, <1>10, RightStays
<1>14. FlightSound(p)'
  <2>1. thread'[p].step = st /\ st # None
    BY <1>3, <1>9, <1>10, PhoneAssumption
  <2>2. Right(thread[p].step)'
    BY <1>13, <2>1 DEF Right
  <2>. QED BY <1>1, <1>9, <1>10, <2>1, <2>2 DEF ThreadSound, FlightSound, InFlight
<1>15. AnswerSound(p)'
  <2>1. thread'[p].pc = "applied" /\ thread'[p].step.key = k /\ thread'[p].step.half = st.half
    BY <1>3, <1>9, <1>10
  <2>2. st.half = "close" => Ended(k)'
    BY <1>2, <1>3, <1>5 DEF Heard, Ended, Step
  <2>3. (st.half = "close" => Ended(k)' /\ OnPhone(k)' /\ rows'[k].end # NoTime) /\ k \in stored'
    BY <1>2, <1>5, <1>7, <2>2
  <2>. QED BY <2>1, <2>3 DEF AnswerSound, Ended, OnPhone
<1>16. \A j \in DOMAIN rows' \ DOMAIN rows :
         j \in stored => rows'[j].start = shift[j].start /\ rows'[j].building = shift[j].building
  BY <1>2, <1>7 DEF Heard
<1>17. ThreadSound(p)'
  BY <1>11, <1>12, <1>14, <1>15 DEF ThreadSound
<1>. QED BY <1>4, <1>5, <1>6, <1>7, <1>8, <1>9, <1>16, <1>17, WriteSound

\* The queue after the end of a request: the flow is over, or the pass goes on with what
\* is left of its plan.
LEMMA RequestEnds ==
    ASSUME PhoneInv, NEW p \in Thread, InFlight(p), NEW left \in SUBSET thread[p].steps,
           \/ thread[p].final /\ thread' = [thread EXCEPT ![p] = Resting]
           \/ ~thread[p].final /\ thread' = NextStep(p, left),
           UNCHANGED <<now, table, session, drift, place>>, Remembers,
           req' = req \/ req' = [req EXCEPT ![p] = Idle],
           IsQueue(rows'), Keeps(rows, rows'), DOMAIN rows' = DOMAIN rows, QueueSound'
    PROVE  PhoneInv'
<1>1. NewRowsKnown
  BY DEF NewRowsKnown
<1>2. CASE thread[p].final
  BY <1>1, <1>2, FlowEnds
<1>3. CASE ~thread[p].final
  <2>. DEFINE m == [thread[p] EXCEPT !.pc = "push", !.step = None, !.cookie = None,
                                     !.answer = None, !.steps = left]
  <2>1. thread \in [Thread -> Memory] /\ thread[p] \in Memory
    BY DEF PhoneInv, Typed, PhoneTypeOK
  <2>2. /\ m \in Memory /\ m.steps \subseteq thread[p].steps /\ m.worker = thread[p].worker
        /\ m.goal = thread[p].goal /\ m.final = thread[p].final /\ m.pc = "push"
    BY <2>1 DEF Memory
  <2>3. thread' = [thread EXCEPT ![p] = m]
    BY <1>3, <2>1 DEF NextStep, Memory
  <2>. HIDE DEF m
  <2>. QED BY <1>1, <1>3, <2>2, <2>3, PassSound
<1>. QED BY <1>2, <1>3

\* The half that was answered is marked on its row.
LEMMA MarkSound == ASSUME PhoneInv, NEW p \in Thread, Mark(p) PROVE PhoneInv'
<1>. PICK st, k, g, left : /\ st = thread[p].step /\ k = thread[p].step.key
                          /\ g = thread[p].goal /\ left = thread[p].steps \ {thread[p].step}
  OBVIOUS
<1>1. /\ thread[p] \in Memory /\ ThreadSound(p) /\ thread[p].pc = "applied" /\ InFlight(p)
      /\ IsQueue(rows) /\ QueueSound
  BY DEF Mark, PhoneInv, Typed, PhoneTypeOK, Sound, IsQueue, InFlight
<1>2. st \in Step
  BY <1>1, InFlightRight
<1>3. /\ k \in stored
      /\ st.half = "close" => Ended(k) /\ rows[k].end # NoTime
  BY <1>1 DEF ThreadSound, AnswerSound
<1>4. /\ rows' = Marked(rows, st, thread[p].final)
      /\ UNCHANGED <<vars, session, drift, place, tapped, confirmed, overwritten>>
      /\ \/ thread[p].final /\ thread' = [thread EXCEPT ![p] = Resting]
         \/ ~thread[p].final /\ thread' = NextStep(p, left)
      /\ \/ UNCHANGED tapping
         \/ /\ thread[p].final /\ st.half = "close"
            /\ tapping' = [worker |-> rows[g.key].worker, building |-> g.building, pc |-> "start"]
  BY DEF Mark
<1>5. tapping' \in Tap \cup {None}
  <2>1. CASE UNCHANGED tapping
    BY <2>1 DEF PhoneInv, Typed, PhoneTypeOK
  <2>2. CASE /\ thread[p].final /\ st.half = "close"
             /\ tapping' = [worker |-> rows[g.key].worker, building |-> g.building, pc |-> "start"]
    <3>1. g \in Goal /\ OnPhone(g.key)
      BY <1>1, <2>2 DEF ThreadSound, FlightSound, GoalSound, Memory, Goal
    <3>2. rows[g.key].worker \in Worker /\ g.building \in Building
      BY <1>1, <3>1 DEF OnPhone, IsQueue, LocalRow, Goal
    <3>. QED BY <2>2, <3>2 DEF Tap
  <2>. QED BY <1>4, <2>1, <2>2
<1>6. Remembers
  BY <1>4, <1>5 DEF Remembers, PhoneInv, Typed, PhoneTypeOK
<1>7. MarksHalf(rows, rows', st)
  BY <1>1, <1>2, <1>4, AnsweredHalfMarked DEF Memory
<1>8. stored' = stored /\ shift' = shift /\ req' = req /\ UNCHANGED <<now, table>>
  BY <1>4 DEF vars, stored, table
<1>9. k \in DOMAIN rows => LocalSound(k)'
  <2>. SUFFICES ASSUME k \in DOMAIN rows PROVE LocalSound(k)'
    OBVIOUS
  <2>1. /\ LocalSound(k) /\ k \in Key /\ rows'[k].end = rows[k].end
        /\ rows'[k].worker = rows[k].worker /\ rows'[k].auto = rows[k].auto
        /\ rows[k].opened => rows'[k].opened
    BY <1>1, <1>7 DEF QueueSound, IsQueue, MarksHalf, MarksRow, Keeps
  <2>2. /\ rows'[k].opened => rows[k].opened \/ st.half = "open"
        /\ rows'[k].closed => rows[k].closed \/ st.half = "close"
    BY <1>7 DEF MarksHalf
  <2>. QED BY <1>3, <1>4, <1>8, <2>1, <2>2 DEF LocalSound, Ended, VouchedFor
<1>10. QueueSound'
  BY <1>1, <1>6, <1>7, <1>8, <1>9, OneRowSound DEF MarksHalf, MarksRow
<1>. QED BY <1>1, <1>4, <1>6, <1>7, <1>8, <1>10, RequestEnds DEF MarksHalf, MarksRow

\* A failure blocks a row of the queue or not, and nothing else.
LEMMA FailsSound ==
    ASSUME PhoneInv, NEW p \in Thread, InFlight(p), NEW code \in Code, Fails(p, code),
           UNCHANGED <<now, table>>, req' = req \/ req' = [req EXCEPT ![p] = Idle]
    PROVE  PhoneInv'
<1>. PICK k, left : /\ k = thread[p].step.key
                   /\ left = GiveUpOn(thread[p].steps, thread[p].step.key)
  OBVIOUS
<1>1. IsQueue(rows) /\ QueueSound /\ left \subseteq thread[p].steps
  BY DEF PhoneInv, Typed, PhoneTypeOK, Sound, IsQueue, GiveUpOn
<1>2. /\ UNCHANGED <<session, drift, place, taps>> /\ Remembers
      /\ \/ thread[p].final /\ thread' = [thread EXCEPT ![p] = Resting] /\ rows' = rows
         \/ ~thread[p].final /\ thread' = NextStep(p, left) /\ rows' = Failed(rows, k, code)
  BY TapsKept DEF Fails, PhoneInv
<1>3. /\ IsQueue(rows') /\ Keeps(rows, rows') /\ DOMAIN rows' = DOMAIN rows
      /\ Alike(rows, rows')
  BY <1>1, <1>2, FailedQueue DEF Keeps, Alike
<1>4. stored' = stored /\ shift' = shift
  BY DEF table, stored
<1>5. QueueSound'
  BY <1>1, <1>2, <1>3, <1>4 DEF QueueSound, LocalSound, Alike, Ended, VouchedFor
<1>. QED BY <1>1, <1>2, <1>3, <1>5, RequestEnds

LEMMA OutcomeSound ==
    ASSUME PhoneInv, NEW p \in Thread, Deliver(p) \/ Lose(p)
    PROVE  PhoneInv'
<1>1. CASE Apply(p)
  BY <1>1, ApplySound
<1>2. ASSUME thread[p].pc = "answered", thread[p].answer.code # "ok",
             Fails(p, thread[p].answer.code), UNCHANGED vars
      PROVE  PhoneInv'
  <2>1. InFlight(p) /\ thread[p].answer.code \in Code
    BY <1>2 DEF InFlight, PhoneInv, Typed, PhoneTypeOK, Sound, ThreadSound, AnswerSound, Memory,
                Answer
  <2>. QED BY <1>2, <2>1, FailsSound DEF vars, table
<1>3. CASE Lose(p)
  <2>1. InFlight(p) /\ "network" \in Code
    BY <1>3 DEF Lose, InFlight, Code
  <2>. QED BY <1>3, <2>1, FailsSound DEF Lose
<1>. QED BY <1>1, <1>2, <1>3 DEF Deliver

-----------------------------------------------------------------------------
(* Every step, and what follows.                                           *)

LEMMA PhoneInitSound == PhoneInit => PhoneInv
<1>. SUFFICES ASSUME PhoneInit PROVE PhoneInv
  OBVIOUS
<1>. USE LedgerAssumption, PhoneAssumption
<1>1. /\ Init /\ stored = {} /\ DOMAIN rows = {} /\ Resting \in Memory
      /\ \A p \in Thread : thread[p] = Resting
  BY DEF PhoneInit, Init, stored, Memory, Resting
<1>2. TypeOK
  BY <1>1 DEF Init, TypeOK, Time, Provenance, stored
<1>3. PhoneTypeOK
  BY <1>1 DEF PhoneInit, PhoneTypeOK
<1>4. Typed
  BY <1>1, <1>2, <1>3 DEF PhoneInit, Typed, Init, Idle
<1>5. TableSound /\ QueueSound
  BY <1>1 DEF TableSound, QueueSound
<1>6. \A p \in Thread : ThreadSound(p)
  BY <1>1
     DEF ThreadSound, PlanSound, GoalSound, FlightSound, AnswerSound, Starts, InFlight, Resting
<1>7. StartsApart
  BY <1>1 DEF StartsApart, Starts, Resting
<1>. QED BY <1>4, <1>5, <1>6, <1>7 DEF PhoneInv, Sound

LEMMA ThreadStepSound == ASSUME PhoneInv, NEW p \in Thread, ThreadStep(p) PROVE PhoneInv'
<1>1. CASE Ask(p) \/ AskFails(p)
  BY <1>1, AskSound
<1>2. CASE Adopt(p)
  BY <1>2, AdoptSound
<1>3. CASE Plan(p)
  BY <1>3, PlanStepSound
<1>4. CASE Send(p)
  BY <1>4, SendSound
<1>5. CASE EndPass(p)
  BY <1>5, EndPassSound
<1>6. CASE Confirm(p)
  BY <1>6, ConfirmSound
<1>7. CASE Land(p)
  BY <1>7, LandSound
<1>8. CASE LookUp(p)
  BY <1>8, LookUpSound
<1>9. CASE Deliver(p) \/ Lose(p)
  BY <1>9, OutcomeSound
<1>10. CASE Mark(p)
  BY <1>10, MarkSound
<1>. QED BY <1>1, <1>2, <1>3, <1>4, <1>5, <1>6, <1>7, <1>8, <1>9, <1>10 DEF ThreadStep

LEMMA WorkerActsSound == ASSUME PhoneInv, WorkerActs PROVE PhoneInv'
<1>1. ASSUME NEW b \in Building, BeginTap(b) PROVE PhoneInv'
  BY <1>1, BeginTapSound
<1>6. CASE TapIn \/ TapOut \/ TapElsewhere \/ Arrive
  BY <1>6, StartsSound, EndsSound
<1>2. ASSUME NEW p \in Flow, NEW b \in Building, StartOnline(p, b) \/ EndOnline(p, b, "tap")
      PROVE  PhoneInv'
  BY <1>2, OnlineSound DEF Thread
<1>3. ASSUME NEW p \in Flow, EndOnline(p, CHOOSE b \in Building : TRUE, "stop")
      PROVE  PhoneInv'
  <2>1. PICK k \in DOMAIN rows : k \in Running(session)
    BY <1>3 DEF EndOnline, Running
  <2>2. rows[k].building \in Building
    BY <2>1 DEF PhoneInv, Typed, PhoneTypeOK, LocalRow
  <2>3. (CHOOSE b \in Building : TRUE) \in Building
    BY <2>2
  <2>. QED BY <1>3, <2>3, OnlineSound DEF Thread
<1>4. ASSUME NEW p \in Flow, NEW k \in Key, ResolveOnline(p, k) PROVE PhoneInv'
  <2>1. shift[k].building \in Building
    BY <1>4 DEF ResolveOnline, Ended, PhoneInv, Typed, TypeOK, Row
  <2>. QED BY <1>4, <2>1, OnlineSound DEF Thread
<1>5. CASE SignOut \/ \E w \in Worker : SignIn(w)
  <2>1. /\ UNCHANGED <<vars, rows, thread, taps, drift, place>>
        /\ session' \in Worker \cup {None}
    BY <1>5 DEF SignOut, SignIn
  <2>2. drift' \in Drift /\ now + drift' \in Time /\ place' \in [Building -> PlaceState]
    BY <2>1 DEF PhoneInv, Typed, PhoneTypeOK, phoneNow
  <2>. QED BY <2>1, <2>2, OutsideSound
<1>. QED BY <1>1, <1>2, <1>3, <1>4, <1>5, <1>6 DEF WorkerActs

LEMMA PhoneStepSound == PhoneInv /\ [PhoneNext]_allVars => PhoneInv'
<1>. SUFFICES ASSUME PhoneInv, [PhoneNext]_allVars PROVE PhoneInv'
  OBVIOUS
<1>0. /\ session \in Worker \cup {None} /\ drift \in Drift /\ now + drift \in Time
      /\ place \in [Building -> PlaceState]
  BY DEF PhoneInv, Typed, PhoneTypeOK, phoneNow
<1>1. CASE ServerStep
  BY <1>1, ServerStepSound
<1>2. CASE WorkerActs
  BY <1>2, WorkerActsSound
<1>3. CASE PhoneDies
  BY <1>3, PhoneDiesSound
<1>4. ASSUME NEW p \in Thread, BeginRefresh(p) \/ BeginJob(p) PROVE PhoneInv'
  BY <1>4, BeginsSound
<1>5. ASSUME NEW p \in Thread, ThreadStep(p) PROVE PhoneInv'
  BY <1>5, ThreadStepSound
<1>6. ASSUME NEW b \in Building, NEW s \in PlaceState, SetPlace(b, s) PROVE PhoneInv'
  <2>1. /\ UNCHANGED <<vars, rows, thread, taps, session, drift>>
        /\ place' \in [Building -> PlaceState]
    BY <1>0, <1>6 DEF SetPlace
  <2>. QED BY <1>0, <2>1, OutsideSound
<1>7. ASSUME NEW d \in Drift, SetClock(d) PROVE PhoneInv'
  <2>1. /\ UNCHANGED <<vars, rows, thread, taps, session, place>>
        /\ drift' \in Drift /\ now + drift' \in Time
    BY <1>7 DEF SetClock
  <2>. QED BY <1>0, <2>1, OutsideSound
<1>8. CASE UNCHANGED allVars
  <2>1. UNCHANGED <<vars, rows, thread, taps, session, drift, place>>
    BY <1>8 DEF allVars, phone
  <2>. QED BY <1>0, <2>1, OutsideSound
<1>. QED BY <1>1, <1>2, <1>3, <1>4, <1>5, <1>6, <1>7, <1>8 DEF PhoneNext, Thread

LEMMA PhoneInvariant == PhoneSpec => []PhoneInv
BY PhoneInitSound, PhoneStepSound, PTL DEF PhoneSpec

\* Whatever is lost, repeated or overtaken, every row of the queue, every coroutine and
\* every answer in flight stays one the program can hold (ShiftStore, TimeSheetViewModel).
THEOREM PhoneTypes == PhoneSpec => []PhoneTypeOK
BY PhoneInvariant, PTL DEF PhoneInv, Typed

\* What the phone counts as delivered is on the server, for any number of coroutines that
\* deliver the same rows at once and any loss of their answers (PendingWork, ShiftSync).
THEOREM Delivered == PhoneSpec => []DeliveredIsStored
<1>1. PhoneInv => DeliveredIsStored
  BY DEF PhoneInv, Sound, QueueSound, LocalSound, DeliveredIsStored
<1>. QED BY <1>1, PhoneInvariant, PTL

\* No pass opens, under the account it began with, a shift that another worker queued on
\* the same phone (SyncPlan: WRONG_ACCOUNT).
THEOREM OpensOwnRows == PhoneSpec => []OpensItsOwnRows
<1>1. PhoneInv => OpensItsOwnRows
  BY DEF PhoneInv, Sound, ThreadSound, PlanSound, FlightSound, InFlight, OpensItsOwnRows
<1>. QED BY <1>1, PhoneInvariant, PTL

\* A shift that a tap ended is paid to the instant of the tap, and starts when and where
\* the phone says, whenever it was delivered (SyncPlan, TimeSheetViewModel).
THEOREM PaidToTheTap == PhoneSpec => []PaidAsTapped
<1>1. PhoneInv => PaidAsTapped
  BY DEF PhoneInv, Sound, TableSound, PaidAsTapped
<1>. QED BY <1>1, PhoneInvariant, PTL

\* Of the shifts that phones deliver, payroll takes none whose end nobody confirmed but
\* for those whose flag a refresh, or a late answer to an open, cleared on the phone after
\* a building switch: a shift left behind by a tap elsewhere, or timed out, otherwise
\* waits for its worker (app.js, writeTap, ShiftStore.applyServer).
THEOREM OnlyTheOverwrittenAreGuesses == PhoneSpec => []OnlyOverwrittenIsAGuess
<1>1. PhoneInv => OnlyOverwrittenIsAGuess
  BY DEF PhoneInv, Sound, TableSound, SaidRow, OnlyOverwrittenIsAGuess
<1>. QED BY <1>1, PhoneInvariant, PTL

-----------------------------------------------------------------------------
(* A half that has landed is accepted again.                               *)

\* An answer sets off where a request lands, or where a conflict is settled.
LEMMA AnswersFromTheServer ==
    ASSUME PhoneInv, [PhoneNext]_allVars, NEW p \in Thread,
           thread'[p].pc = "answered", thread[p].pc # "answered"
    PROVE  Land(p) \/ LookUp(p)
<1>1. thread \in [Thread -> Memory]
  BY DEF PhoneInv, Typed, PhoneTypeOK
<1>2. thread' # thread
  OBVIOUS
<1>3. ~ServerStep /\ ~PhoneDies /\ ~UNCHANGED allVars
  BY <1>2 DEF ServerStep, phone, PhoneDies, Resting, allVars
<1>4. ASSUME NEW b, NEW s, NEW d PROVE ~SetPlace(b, s) /\ ~SetClock(d)
  BY <1>2 DEF SetPlace, SetClock
<1>5. ASSUME NEW b, NEW w
      PROVE  /\ ~BeginTap(b) /\ ~TapIn /\ ~TapOut /\ ~TapElsewhere /\ ~Arrive
             /\ ~SignOut /\ ~SignIn(w)
  BY <1>2 DEF BeginTap, TapIn, TapOut, TapElsewhere, Arrive, SignOut, SignIn
<1>6. ASSUME NEW q \in Thread, NEW m, m.pc # "answered", thread' = [thread EXCEPT ![q] = m]
      PROVE  FALSE
  BY <1>1, <1>6
<1>7. ASSUME NEW q \in Thread, NEW b, NEW how, NEW k
      PROVE  ~StartOnline(q, b) /\ ~EndOnline(q, b, how) /\ ~ResolveOnline(q, k)
  BY <1>6 DEF StartOnline, EndOnline, ResolveOnline, Resting
<1>8. ASSUME NEW q \in Thread PROVE ~BeginRefresh(q) /\ ~BeginJob(q)
  BY <1>6 DEF BeginRefresh, BeginJob, Resting
<1>9. ASSUME NEW q \in Thread, ThreadStep(q), ~Land(q), ~LookUp(q) PROVE FALSE
  <2>1. thread[q] \in Memory
    BY <1>1
  <2>2. thread'[q].pc # "answered"
    <3>0. AfterAsk(q) # "answered"
      BY DEF AfterAsk
    <3>1. AskFails(q) \/ Adopt(q) => thread'[q].pc # "answered"
      BY <1>1, <2>1, <3>0 DEF AskFails, Adopt, Memory
    <3>6. Ask(q) => thread'[q].pc # "answered"
      <4>1. ASSUME NEW k \in stored,
                   thread' = [thread EXCEPT ![q].pc = "asked", ![q].step = StepFor(k, shift[k]),
                                            ![q].answer = Ok(shift[k])]
            PROVE  thread'[q].pc # "answered"
        BY <1>1, <2>1, <4>1 DEF Memory
      <4>2. ASSUME thread' = [thread EXCEPT ![q].pc = AfterAsk(q)]
            PROVE  thread'[q].pc # "answered"
        BY <1>1, <2>1, <3>0, <4>2 DEF Memory
      <4>. QED BY <4>1, <4>2 DEF Ask
    <3>2. Plan(q) \/ Send(q) \/ EndPass(q) => thread'[q].pc # "answered"
      BY <1>1, <2>1 DEF Plan, Send, EndPass, Memory, Resting
    <3>3. Confirm(q) => thread'[q].pc # "answered"
      BY <1>1, <2>1 DEF Confirm, Memory, Resting
    <3>4. ASSUME NEW code, Fails(q, code) PROVE thread'[q].pc # "answered"
      BY <1>1, <2>1, <3>4 DEF Fails, NextStep, Memory, Resting
    <3>7. Apply(q) \/ Mark(q) => thread'[q].pc # "answered"
      BY <1>1, <2>1 DEF Apply, Mark, NextStep, Memory, Resting
    <3>5. Deliver(q) \/ Lose(q) \/ Mark(q) => thread'[q].pc # "answered"
      BY <3>4, <3>7 DEF Deliver, Lose
    <3>. QED BY <1>9, <3>1, <3>2, <3>3, <3>5, <3>6 DEF ThreadStep
  <2>3. \A o \in Thread \ {q} : thread'[o] = thread[o]
    BY <1>1, <1>9 DEF ThreadStep, Ask, AskFails, Adopt, Plan, Send, EndPass, Confirm,
                    Deliver, Lose, Apply, Mark, Fails, NextStep
  <2>. QED BY <2>2, <2>3
<1>10. ASSUME NEW q \in Thread, q # p PROVE ~Land(q) /\ ~LookUp(q)
  <2>1. ASSUME NEW a, Answered(q, a) PROVE FALSE
    BY <1>1, <1>10, <2>1 DEF Answered
  <2>2. thread' # [thread EXCEPT ![q].pc = "looking"]
    BY <1>1, <1>10
  <2>3. \A st, w : ~LandOpen(q, st, w) /\ ~LandClose(q, st, w) /\ ~LandResolve(q, st, w)
    BY <2>1, <2>2 DEF LandOpen, LandClose, LandResolve
  <2>4. ~LookUp(q)
    BY <1>2, <2>1 DEF LookUp
  <2>5. ~Land(q)
    BY <2>1, <2>3, LandCases
  <2>. QED BY <2>4, <2>5
<1>11. ~WorkerActs
  BY <1>5, <1>7 DEF WorkerActs, Thread
<1>. QED BY <1>3, <1>4, <1>8, <1>9, <1>10, <1>11 DEF PhoneNext, Thread

LEMMA LandAccepts ==
    ASSUME PhoneInv, NEW p \in Thread, Land(p)
    PROVE  AcceptsLanded(p)
<1>. DEFINE st == thread[p].step
            w == thread[p].cookie
<1>. SUFFICES ASSUME st.key \in stored, shift[st.key].worker = w,
                     st.half = "close" => Ended(st.key), st.half # "resolve",
                     thread'[p].pc = "answered"
             PROVE  \/ thread'[p].answer.code = "ok"
                    \/ Retryable(thread'[p].answer.code)
                    \/ SetAside(st, thread'[p].answer.code)
  BY DEF AcceptsLanded
<1>1. /\ thread[p] \in Memory /\ thread \in [Thread -> Memory] /\ st \in Step /\ Right(st)
      /\ thread[p].pc = "sent" /\ now \in Nat
  BY InFlightRight DEF Land, InFlight, PhoneInv, Typed, PhoneTypeOK, TypeOK, Time
<1>2. ASSUME NEW a, Answered(p, a) PROVE thread'[p].answer = a
  BY <1>1, <1>2 DEF Answered, Memory
<1>3. CASE Answered(p, Refused("unauthorized"))
  BY <1>2, <1>3 DEF Refused, Retryable
<1>4. CASE st.half = "open" /\ LandOpen(p, st, w)
  <2>1. Acceptable(st.at)
    <3>1. st.at = shift[st.key].start
      BY <1>1, <1>4 DEF Right
    <3>2. SaneRow(shift[st.key])
      BY DEF PhoneInv, Sound, TableSound
    <3>. QED BY <1>1, <3>1, <3>2 DEF SaneRow, Acceptable, Step
  <2>2. ~InsertOpen(st.key, w, st.building, st.at)
    BY DEF InsertOpen, Conflicts
  <2>3. place[st.building] \in PlaceState
    BY <1>1 DEF PhoneInv, Typed, PhoneTypeOK, Step
  <2>4. place[st.building] # "live" =>
          Retryable(place[st.building]) \/ SetAside(st, place[st.building])
    BY <1>4, <2>3, PhoneAssumption DEF Retryable, SetAside
  <2>5. thread' # [thread EXCEPT ![p].pc = "looking"]
    BY <1>1 DEF Memory
  <2>6. place[st.building] # "live" /\ Answered(p, Refused(place[st.building]))
    BY <1>4, <2>1, <2>2, <2>5 DEF LandOpen
  <2>. QED BY <1>2, <2>4, <2>6 DEF Refused
<1>5. CASE st.half = "close" /\ LandClose(p, st, w)
  <2>1. ~Open(st.key) /\ Ended(st.key)
    BY <1>5 DEF Open, Ended
  <2>2. Answered(p, Ok(shift[st.key]))
    BY <1>5, <2>1 DEF LandClose, CloseRow
  <2>. QED BY <1>2, <2>2 DEF Ok
<1>. QED BY <1>3, <1>4, <1>5, LandCases

LEMMA LookUpAccepts ==
    ASSUME PhoneInv, NEW p \in Thread, LookUp(p)
    PROVE  AcceptsLanded(p)
<1>1. thread[p] \in Memory /\ thread \in [Thread -> Memory]
  BY DEF PhoneInv, Typed, PhoneTypeOK
<1>2. ASSUME NEW a, Answered(p, a) PROVE thread'[p].answer = a
  BY <1>1, <1>2 DEF Answered, Memory
<1>3. \/ Answered(p, Ok(shift[req[p].key])) \/ UNCHANGED thread
      \/ Answered(p, Refused("shift_already_open")) \/ Answered(p, Refused("conflict"))
  BY DEF LookUp
<1>4. UNCHANGED thread => AcceptsLanded(p)
  BY DEF AcceptsLanded
<1>5. thread[p].step.half = "open"
  BY DEF LookUp, PhoneInv, Sound, ThreadSound, AnswerSound
<1>. QED BY <1>2, <1>3, <1>4, <1>5 DEF AcceptsLanded, Ok, Refused, Retryable, SetAside

\* Both halves are idempotent on the phone's key: a half that landed under its worker is
\* not refused to that worker for good, however late, doubled or out of order it arrives
\* again; but for an open whose tag has been deleted since, and one that met a conflict
\* (app.js, the two handlers of /shifts; isRetryable).
THEOREM LandedIsAccepted == PhoneSpec => LandedHalfIsAccepted
<1>1. PhoneInv /\ [PhoneNext]_allVars => [\A p \in Thread : AcceptsLanded(p)]_allVars
  <2>. SUFFICES ASSUME PhoneInv, [PhoneNext]_allVars, NEW p \in Thread
               PROVE  AcceptsLanded(p)
    OBVIOUS
  <2>1. CASE Land(p) \/ LookUp(p)
    BY <2>1, LandAccepts, LookUpAccepts
  <2>2. CASE ~(Land(p) \/ LookUp(p))
    BY <2>2, AnswersFromTheServer DEF AcceptsLanded
  <2>. QED BY <2>1, <2>2
<1>. QED BY <1>1, PhoneInvariant, PTL DEF PhoneSpec, LandedHalfIsAccepted

-----------------------------------------------------------------------------
(* The phones on top of the ledger: every step of the composition is a     *)
(* step of the ledger, under the account the request carries, so what the  *)
(* ledger promises it promises to phones that lose answers, repeat halves  *)
(* and change accounts.                                                    *)

LEMMA LandIsLedgerStep ==
    ASSUME PhoneInv, NEW p \in Thread, Land(p)
    PROVE  LedgerNext \/ UNCHANGED vars
<1>. USE PhoneAssumption
<1>. DEFINE st == thread[p].step
            w == thread[p].cookie
<1>1. st \in Step /\ p \in Request
  BY InFlightRight DEF Land, InFlight
<1>2. st.key \in Key /\ st.key \in RowId /\ st.at \in Time /\ st.building \in Building
      /\ st.how \in {"tap", "switch", "stop"}
  BY <1>1 DEF Step, RowId
<1>. HIDE DEF st, w
<1>3. CASE w \in Worker /\ LandOpen(p, st, w)
  <2>1. \/ UNCHANGED vars
        \/ OpenShift(st.key, w, st.building, st.at)
        \/ OpenConflict(p, st.key, w, st.at)
    BY <1>3 DEF LandOpen, OpenShift
  <2>. QED BY <1>1, <1>2, <1>3, <2>1 DEF LedgerNext, WorkerStep
<1>4. CASE w \in Worker /\ LandClose(p, st, w)
  <2>1. UNCHANGED vars \/ CloseShift(st.key, w, st.at, st.how, None)
    BY <1>4 DEF LandClose, CloseShift
  <2>. QED BY <1>1, <1>2, <1>4, <2>1 DEF LedgerNext, WorkerStep
<1>5. CASE w \in Worker /\ LandResolve(p, st, w)
  <2>1. UNCHANGED vars \/ ResolveShift(st.key, w, st.at)
    BY <1>5 DEF LandResolve, ResolveShift
  <2>. QED BY <1>1, <1>2, <1>5, <2>1 DEF LedgerNext, WorkerStep
<1>. QED BY <1>3, <1>4, <1>5, LandCases DEF st, w

LEMMA PhoneStepIsLedgerStep == PhoneInv /\ [PhoneNext]_allVars => [LedgerNext]_vars
<1>. SUFFICES ASSUME PhoneInv, [PhoneNext]_allVars PROVE LedgerNext \/ UNCHANGED vars
  OBVIOUS
<1>. USE PhoneAssumption
<1>1. req \in [Request -> ReqState]
  BY DEF PhoneInv, Typed, TypeOK, ReqState
<1>2. CASE ServerStep
  BY <1>2 DEF ServerStep, LedgerNext
<1>3. CASE WorkerActs
  BY <1>3 DEF WorkerActs, BeginTap, TapIn, TapOut, TapElsewhere, Arrive, StartOnline, EndOnline,
              ResolveOnline, SignOut, SignIn
<1>4. CASE PhoneDies
  BY <1>4 DEF PhoneDies, LedgerNext, Forget
<1>5. ASSUME NEW p \in Thread, BeginRefresh(p) \/ BeginJob(p) PROVE UNCHANGED vars
  BY <1>5 DEF BeginRefresh, BeginJob
<1>6. ASSUME NEW p \in Thread, ThreadStep(p) PROVE LedgerNext \/ UNCHANGED vars
  <2>1. CASE Ask(p) \/ AskFails(p) \/ Adopt(p) \/ Plan(p) \/ Send(p) \/ EndPass(p)
             \/ Confirm(p) \/ Deliver(p) \/ Mark(p)
    BY <2>1 DEF Ask, AskFails, Adopt, Plan, Send, EndPass, Confirm, Deliver, Apply, Mark
  <2>2. CASE Land(p)
    BY <2>2, LandIsLedgerStep
  <2>3. CASE LookUp(p)
    BY <2>3 DEF LookUp, LedgerNext, HandlerStep
  <2>4. CASE Lose(p)
    <3>1. req' = [r \in Request |-> IF r \in {p} THEN Idle ELSE req[r]]
      BY <1>1, <2>4 DEF Lose
    <3>. QED BY <2>4, <3>1 DEF Lose, LedgerNext, Forget
  <2>. QED BY <1>6, <2>1, <2>2, <2>3, <2>4 DEF ThreadStep
<1>7. ASSUME NEW b \in Building, NEW s \in PlaceState, SetPlace(b, s) PROVE UNCHANGED vars
  BY <1>7 DEF SetPlace
<1>8. ASSUME NEW d \in Drift, SetClock(d) PROVE UNCHANGED vars
  BY <1>8 DEF SetClock
<1>9. CASE UNCHANGED allVars
  BY <1>9 DEF allVars
<1>. QED BY <1>2, <1>3, <1>4, <1>5, <1>6, <1>7, <1>8, <1>9 DEF PhoneNext, Thread

\* The ledger's own invariants are parts of the phone's, or follow the same steps.
LEMMA LedgerUnderPhones ==
    PhoneInv => TypeOK /\ LedgerInv
<1>. SUFFICES ASSUME PhoneInv PROVE TypeOK /\ LedgerInv
  OBVIOUS
<1>1. TypeOK /\ \A r \in Request : req[r].pc \notin {"insert", "update"}
  BY PhoneAssumption DEF PhoneInv, Typed
<1>2. \A i \in stored : SaneRow(shift[i])
  BY DEF PhoneInv, Sound, TableSound
<1>3. HandlersHoldSaneValues
  BY <1>1 DEF HandlersHoldSaneValues
<1>. QED BY <1>1, <1>2, <1>3 DEF LedgerInv

\* However many coroutines deliver a queue, and whoever is signed in by then, a worker is
\* never on two shifts at the server (shifts_one_open_per_worker_idx, ShiftSync).
THEOREM PhonesKeepOneOpen == PhoneSpec => []OneOpenPerWorker
<1>1. PhoneInit => OneOpenPerWorker
  BY DEF PhoneInit, Init, OneOpenPerWorker, stored
<1>2. TypeOK /\ OneOpenPerWorker /\ [LedgerNext]_vars => OneOpenPerWorker'
  BY OneOpenStep
<1>. QED BY <1>1, <1>2, PhoneInvariant, PhoneStepIsLedgerStep, LedgerUnderPhones, PTL
         DEF PhoneSpec

\* A clock that is set back or forth on the phone, and a delivery hours later, leave no
\* shift with a negative length or an end in the future (v.shiftWindow).
THEOREM PhonesKeepWindowsSane == PhoneSpec => []WindowsAreSane
<1>1. LedgerInv => WindowsAreSane
  BY SaneRows DEF LedgerInv
<1>. QED BY <1>1, PhoneInvariant, LedgerUnderPhones, PTL

\* A half delivered late or twice never moves an end that is there: only a resolution of
\* a flagged shift does (app.js close and resolve, ShiftSync).
THEOREM PhonesKeepEnds == PhoneSpec => EndIsFinal
<1>1. TypeOK /\ [LedgerNext]_vars =>
        [\A i \in stored :
           Ended(i) /\ shift'[i].end # shift[i].end
             => \/ Flagged(i) /\ endBy'[i] = "resolve"
                \/ PatchPending(i)]_vars
  BY EndsStep DEF MovesEnds
<1>. QED BY <1>1, PhoneInvariant, PhoneStepIsLedgerStep, LedgerUnderPhones, PTL
         DEF PhoneSpec, EndIsFinal

\* The phones and the server together implement Payroll: whatever the network does to
\* the halves of a shift, payroll sees a worker start, finish and confirm it, and nothing
\* else.
THEOREM PhonesImplementPayroll == PhoneSpec => ImplementsPayroll
<1>1. TypeOK /\ LedgerInv /\ OneOpenPerWorker' /\ [LedgerNext]_vars
        => [Pay!PayrollNext]_(Pay!pvars)
  BY StepIsStep
<1>2. PhoneInit => Pay!PayrollInit
  BY InitIsInit DEF PhoneInit
<1>. QED BY <1>1, <1>2, PhoneInvariant, PhonesKeepOneOpen, PhoneStepIsLedgerStep,
            LedgerUnderPhones, PTL
         DEF PhoneSpec, ImplementsPayroll, Pay!PayrollSpec

\* Of a shift that a building switch or the timer flagged, payroll hears nothing until a
\* person says when it ended, although phones deliver their halves in any order.
THEOREM PhonesSettleFlagged == PhoneSpec => FlaggedIsPaidByAPerson
<1>1. PhoneInit => PersonInv
  BY DEF PhoneInit, Init, PersonInv, KnownPatch, stored, Idle
<1>2. TypeOK /\ LedgerInv /\ PersonInv /\ [LedgerNext]_vars => PersonInv'
  BY PersonStepHolds DEF PersonStep
<1>3. TypeOK /\ LedgerInv /\ PersonInv /\ [LedgerNext]_vars =>
        [/\ \A i \in stored : i \in stored' /\ (shift[i].auto => shift'[i].auto)
         /\ \A i \in stored' :
              Payable(i)' /\ endBy'[i] \in Unconfirmed
                => i \in stored /\ (shift[i].corrected \/ AcceptedWhenRead(i))]_vars
  BY PersonStepHolds DEF PersonStep, PaidByAPerson, Rises
<1>. QED BY <1>1, <1>2, <1>3, PhoneInvariant, PhoneStepIsLedgerStep, LedgerUnderPhones, PTL
         DEF PhoneSpec, FlaggedIsPaidByAPerson

=============================================================================
