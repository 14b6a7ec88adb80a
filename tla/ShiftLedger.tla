----------------------------- MODULE ShiftLedger -----------------------------
(***************************************************************************)
(* The `shifts` table and every writer of it: the worker's routes          *)
(* POST /shifts/open, /shifts/close and /shifts/:id/resolve (app.js), the  *)
(* administrator's POST and PATCH /admin/shifts (admin.js) and the         *)
(* eight-hour timer (ops/sql/autoclose.sql).                               *)
(*                                                                         *)
(* One action is one database transaction.  A route that the code wraps in *)
(* `transaction(...)` with FOR UPDATE (close, resolve) is one action; a    *)
(* route whose queries are separate transactions (open, create, patch) is  *)
(* several actions, and `req` holds what the handler carries in memory     *)
(* from one query to the next.                                             *)
(*                                                                         *)
(* Time is a bounded discrete clock.  Refused requests change nothing and  *)
(* are not actions, except where the refusal needs further queries.        *)
(*                                                                         *)
(* A definition introduced as a mutant is part of no behaviour: it is a    *)
(* plausible mistake in the definition that follows it, under which TLC    *)
(* must find a property violated.                                          *)
(***************************************************************************)
EXTENDS Integers, FiniteSets

CONSTANTS
    Worker,       \* workers.id
    Building,     \* locations.id of places that resolve and are verified
    Key,          \* client_uuid values the phones generate
    Slot,         \* ids of rows typed in by an administrator: client_uuid IS NULL
    Request,      \* HTTP requests the API process can have in progress
    Admin,        \* those of them that an administrator's session may be using
    None,         \* no provenance, no row
    Window,       \* the timer's eight hours, in clock units
    ClockSkew,    \* CLOCK_SKEW_MS: how far ahead of the server a timestamp may be
    MaxTime       \* bound on the clock

\* A row's id: the phone's client_uuid, or a slot when client_uuid IS NULL.
RowId == Key \cup Slot
Time == 0 .. MaxTime
NoTime == -1      \* SQL NULL in end_time

ASSUME LedgerAssumption ==
    /\ Window \in Nat \ {0} /\ ClockSkew \in Nat /\ MaxTime \in Nat
    /\ Key \cap Slot = {}
    /\ Admin \subseteq Request

\* What the server was told of the end time that a row now carries: "switch" is a close
\* whose body has auto_closed, "tap" any other.  History, not a column.
Provenance == {None, "tap", "switch", "timer", "resolve", "edit"}
Unconfirmed == {"switch", "timer"}

Row == [worker : Worker, building : Building,
        start : Time, end : Time \cup {NoTime},
        auto : BOOLEAN, corrected : BOOLEAN, manual : BOOLEAN]

VARIABLES
    now,       \* the server's clock
    shift,     \* the table: a function from the ids it holds to rows
    endBy,     \* RowId -> Provenance (history variable)
    req        \* Request -> what a handler has in memory between two queries

table == <<shift, endBy>>
vars == <<now, shift, endBy, req>>

stored == DOMAIN shift

Idle == [pc |-> "idle"]

OpenState == [pc : {"find_key", "find_open"}, worker : Worker, key : Key]
ConflictState == [pc : {"conflict"}, worker : Worker, key : Key]
CreateState == [pc : {"insert"}, worker : Worker, building : Building,
                start : Time, end : Time]
PatchState == [pc : {"update"}, id : RowId, worker : Worker, building : Building,
               start : Time, end : Time \cup {NoTime},
               corrected : BOOLEAN, by : Provenance, typed : BOOLEAN]

TypeOK ==
    /\ now \in Time
    /\ stored \subseteq RowId
    /\ shift \in [stored -> Row]
    /\ endBy \in [RowId -> Provenance]
    /\ req \in [Request -> {Idle} \cup OpenState \cup ConflictState
                                  \cup CreateState \cup PatchState]

-----------------------------------------------------------------------------
(* Reading the table.                                                      *)

Open(i) == i \in stored /\ shift[i].end = NoTime
Ended(i) == i \in stored /\ shift[i].end # NoTime
Flagged(i) == shift[i].auto /\ ~shift[i].corrected
Unresolved(i) == i \in stored /\ Flagged(i)

\* PAYABLE in reporting.js: what the payroll totals count.
Payable(i) == Ended(i) /\ ~Flagged(i)

HasOpen(w) == \E i \in stored : shift[i].worker = w /\ Open(i)

\* v.timestamp accepts anything up to the skew ahead of the server's clock.
Acceptable(t) == t \in Time /\ t <= now + ClockSkew

\* v.shiftWindow
SaneWindow(s, e) == Acceptable(s) /\ Acceptable(e) /\ s < e

\* [s, e) overlaps row i; an open row reaches to infinity.
Overlaps(i, s, e) == shift[i].start < e /\ (Open(i) \/ s < shift[i].end)

-----------------------------------------------------------------------------
Init ==
    /\ now = 0
    /\ shift = [i \in {} |-> None]
    /\ endBy = [i \in RowId |-> None]
    /\ req = [r \in Request |-> Idle]

Insert(i, row) == shift' = [j \in stored \cup {i} |-> IF j = i THEN row ELSE shift[j]]
Update(i, row) == shift' = [shift EXCEPT ![i] = row]
EndedBy(i, who) == endBy' = [endBy EXCEPT ![i] = who]

Tick == now < MaxTime /\ now' = now + 1 /\ UNCHANGED <<table, req>>

(***************************************************************************)
(* POST /shifts/open.  INSERT ... ON CONFLICT DO NOTHING absorbs both      *)
(* unique indexes, client_uuid and shifts_one_open_per_worker_idx; the two *)
(* look-ups that tell them apart are transactions of their own.            *)
(***************************************************************************)
\* Mutant: the partial unique index on open shifts is gone.
ConflictsOnKey(k, w) == k \in stored

Conflicts(k, w) == k \in stored \/ HasOpen(w)

FreshShift(w, b, t) ==
    [worker |-> w, building |-> b, start |-> t, end |-> NoTime,
     auto |-> FALSE, corrected |-> FALSE, manual |-> FALSE]

InsertOpen(k, w, b, t) ==
    /\ Acceptable(t)
    /\ ~Conflicts(k, w)
    /\ Insert(k, FreshShift(w, b, t))
    /\ UNCHANGED endBy

OpenShift(k, w, b, t) == InsertOpen(k, w, b, t) /\ UNCHANGED <<now, req>>

OpenConflict(r, k, w, t) ==
    /\ req[r] = Idle /\ Acceptable(t)
    /\ Conflicts(k, w)
    /\ req' = [req EXCEPT ![r] = [pc |-> "find_key", worker |-> w, key |-> k]]
    /\ UNCHANGED <<now, table>>

\* 200 duplicate when this worker's row has the key, else look for the open one.
OpenFindKey(r) ==
    /\ req[r].pc = "find_key"
    /\ LET k == req[r].key IN
       req' = [req EXCEPT ![r] =
                 IF k \in stored /\ shift[k].worker = req[r].worker
                   THEN Idle ELSE [@ EXCEPT !.pc = "find_open"]]
    /\ UNCHANGED <<now, table>>

\* 409 shift_already_open, or 409 conflict when no open row is found either.
OpenFindOpen(r) ==
    /\ req[r].pc = "find_open"
    /\ req' = [req EXCEPT ![r] =
                 IF HasOpen(req[r].worker) THEN Idle ELSE [@ EXCEPT !.pc = "conflict"]]
    /\ UNCHANGED <<now, table>>

ConflictAnswered(r) ==
    /\ req[r].pc = "conflict"
    /\ req' = [req EXCEPT ![r] = Idle]
    /\ UNCHANGED <<now, table>>

(***************************************************************************)
(* POST /shifts/close, one transaction under the row lock.  `how` says why *)
(* the app closes: a tap-out; "switch", the worker tapped another building *)
(* (auto_closed); "stop", the Stop button (manual).                        *)
(***************************************************************************)
\* Mutant: the body's auto_closed replaces the column.
ClosedOverFlag(row, e, how) ==
    [row EXCEPT !.end = e, !.auto = how = "switch",
                !.manual = @ \/ how = "stop", !.corrected = @ \/ how = "stop"]

ClosedRow(row, e, how) ==
    [row EXCEPT !.end = e, !.auto = @ \/ how = "switch",
                !.manual = @ \/ how = "stop", !.corrected = @ \/ how = "stop"]

CloseRow(k, w, e, how, place) ==
    /\ k \in stored /\ shift[k].worker = w
    /\ Open(k)
    /\ place \in {None, shift[k].building}
    /\ SaneWindow(shift[k].start, e)
    /\ Update(k, ClosedRow(shift[k], e, how))
    /\ EndedBy(k, IF how = "switch" THEN "switch" ELSE "tap")

CloseShift(k, w, e, how, place) ==
    CloseRow(k, w, e, how, place) /\ UNCHANGED <<now, req>>

\* POST /shifts/:id/resolve, one transaction under the row lock.
ResolvedRow(row, e) == [row EXCEPT !.end = e, !.corrected = TRUE]

ResolveRow(i, w, e) ==
    /\ i \in stored /\ shift[i].worker = w
    /\ Flagged(i)
    /\ SaneWindow(shift[i].start, e)
    /\ Update(i, ResolvedRow(shift[i], e))
    /\ EndedBy(i, "resolve")

ResolveShift(i, w, e) == ResolveRow(i, w, e) /\ UNCHANGED <<now, req>>

(***************************************************************************)
(* The timer: one UPDATE over every row that is open and older than the    *)
(* window.                                                                 *)
(***************************************************************************)
\* Mutants of the timer's WHERE clause: no end_time IS NULL; no age.
OverdueEvenIfEnded(i) == i \in stored /\ shift[i].start + Window < now
OverdueAtAnyAge(i) == Open(i)

Overdue(i) == Open(i) /\ shift[i].start + Window < now

\* Mutant: the timer closes without raising the flag.
TimedOutUnflagged(row) == [row EXCEPT !.end = row.start + Window]

TimedOutRow(row) == [row EXCEPT !.end = row.start + Window, !.auto = TRUE]

\* Mutant: the timer passes over rows it has closed once already.
AutoCloseOnce ==
    /\ \E i \in stored : Overdue(i) /\ ~shift[i].auto
    /\ shift' = [i \in stored |->
                   IF Overdue(i) /\ ~shift[i].auto THEN TimedOutRow(shift[i]) ELSE shift[i]]
    /\ endBy' = [i \in RowId |->
                   IF i \in stored /\ Overdue(i) /\ ~shift[i].auto THEN "timer" ELSE endBy[i]]
    /\ UNCHANGED <<now, req>>

AutoClose ==
    /\ \E i \in stored : Overdue(i)
    /\ shift' = [i \in stored |->
                   IF Overdue(i) THEN TimedOutRow(shift[i]) ELSE shift[i]]
    /\ endBy' = [i \in RowId |->
                   IF i \in stored /\ Overdue(i) THEN "timer" ELSE endBy[i]]
    /\ UNCHANGED <<now, req>>

(***************************************************************************)
(* POST /admin/shifts: the overlap check and the INSERT are separate       *)
(* transactions.                                                           *)
(***************************************************************************)
Clash(w, s, e) == \E i \in stored : shift[i].worker = w /\ Overlaps(i, s, e)

CreateCheck(r, w, b, s, e) ==
    /\ r \in Admin /\ req[r] = Idle
    /\ SaneWindow(s, e)
    /\ ~Clash(w, s, e)
    /\ req' = [req EXCEPT ![r] = [pc |-> "insert", worker |-> w, building |-> b,
                                  start |-> s, end |-> e]]
    /\ UNCHANGED <<now, table>>

HandRow(q) ==
    [worker |-> q.worker, building |-> q.building, start |-> q.start, end |-> q.end,
     auto |-> FALSE, corrected |-> FALSE, manual |-> FALSE]

CreateInsert(r, i) ==
    /\ req[r].pc = "insert"
    /\ i \in Slot \ stored
    /\ Insert(i, HandRow(req[r]))
    /\ EndedBy(i, "edit")
    /\ req' = [req EXCEPT ![r] = Idle]
    /\ UNCHANGED now

(***************************************************************************)
(* PATCH /admin/shifts/:id: read the row, merge the body into what was     *)
(* read, write every column back.  A field the body omits keeps the value  *)
(* that was READ; `typed` says whether the body names end_time.            *)
(***************************************************************************)
\* Mutant: every PATCH that leaves an end stamps corrected_at.
ResolvesAlways(i, e) == e # NoTime

Resolves(i, e) == Flagged(i) /\ e # NoTime

PatchRead(r, i, w, b, s, e, typed) ==
    /\ r \in Admin /\ req[r] = Idle
    /\ i \in stored
    /\ typed \/ e = shift[i].end
    /\ IF e = NoTime THEN Acceptable(s) ELSE SaneWindow(s, e)
    /\ req' = [req EXCEPT ![r] =
                 [pc |-> "update", id |-> i, worker |-> w, building |-> b,
                  start |-> s, end |-> e, typed |-> typed,
                  corrected |-> shift[i].corrected \/ Resolves(i, e),
                  by |-> IF e = NoTime THEN None
                         ELSE IF typed \/ Resolves(i, e) THEN "edit" ELSE endBy[i]]]
    /\ UNCHANGED <<now, table>>

\* Mutant: writes back only the end the body named, after validating the merged row.
PatchedTypedOnly(row, q) ==
    [row EXCEPT !.worker = q.worker, !.building = q.building, !.start = q.start,
                !.end = IF q.typed THEN q.end ELSE row.end, !.corrected = q.corrected]

PatchedRow(row, q) ==
    [row EXCEPT !.worker = q.worker, !.building = q.building,
                !.start = q.start, !.end = q.end, !.corrected = q.corrected]

\* Mutant: no partial unique index on open shifts.
PatchNeverBreaksIndex(q) == FALSE

\* shifts_one_open_per_worker_idx rejects a second open row: 23505, no write.
PatchBreaksIndex(q) ==
    /\ q.end = NoTime
    /\ \E j \in stored \ {q.id} : shift[j].worker = q.worker /\ Open(j)

PatchWrite(r) ==
    /\ req[r].pc = "update"
    /\ req' = [req EXCEPT ![r] = Idle]
    /\ IF PatchBreaksIndex(req[r])
         THEN UNCHANGED table
         ELSE /\ Update(req[r].id, PatchedRow(shift[req[r].id], req[r]))
              /\ EndedBy(req[r].id, req[r].by)
    /\ UNCHANGED now

\* The API process restarts: whatever a handler had in memory is gone.
Restart == req' = [r \in Request |-> Idle] /\ UNCHANGED <<now, table>>

-----------------------------------------------------------------------------
\* The server sees cookies, not phones: it takes a key under any account, as when a
\* queue outlives a sign-out or an administrator has moved the shift to somebody else.
WorkerStep ==
    \E t \in Time, w \in Worker :
      \/ \E k \in Key, b \in Building : OpenShift(k, w, b, t)
      \/ \E k \in Key, r \in Request : OpenConflict(r, k, w, t)
      \/ \E k \in Key, how \in {"tap", "switch", "stop"}, p \in Building \cup {None} :
           CloseShift(k, w, t, how, p)
      \/ \E i \in RowId : ResolveShift(i, w, t)

HandlerStep ==
    \E r \in Request :
      \/ OpenFindKey(r) \/ OpenFindOpen(r) \/ ConflictAnswered(r)
      \/ \E i \in Slot : CreateInsert(r, i)
      \/ PatchWrite(r)

AdminStep ==
    \E r \in Admin, w \in Worker, b \in Building, s \in Time :
      \/ \E e \in Time : CreateCheck(r, w, b, s, e)
      \/ \E i \in RowId, e \in Time \cup {NoTime}, typed \in BOOLEAN :
           PatchRead(r, i, w, b, s, e, typed)

Next == WorkerStep \/ HandlerStep \/ AdminStep \/ AutoClose \/ Tick \/ Restart

\* systemd runs the timer every fifteen minutes, and once on boot after an outage.
Fairness == WF_vars(AutoClose)

Spec == Init /\ [][Next]_vars /\ Fairness

-----------------------------------------------------------------------------
(* What the table promises.                                                *)

\* At most one open shift per worker (shifts_one_open_per_worker_idx), through
\* every writer: the tap path, an administrator moving or reopening a shift, and
\* the interleavings of both.
OneOpenPerWorker ==
    \A i, j \in stored :
      Open(i) /\ Open(j) /\ shift[i].worker = shift[j].worker => i = j

\* An ended shift has a positive length and does not end in the future, although
\* PATCH validates a window it read earlier and other writers move both ends.
WindowsAreSane ==
    \A i \in stored :
      /\ shift[i].start <= now + ClockSkew
      /\ Ended(i) => shift[i].start < shift[i].end /\ shift[i].end <= now + ClockSkew

\* corrected_at is set only on a shift whose end was once in doubt or was stopped
\* by hand: an ordinary edit or tap-out never looks like a correction.
CorrectionHasCause ==
    \A i \in stored : shift[i].corrected => shift[i].auto \/ shift[i].manual

\* What an administrator's handler carries from its read to its write is still a
\* sane window, and a correction it is about to stamp still has its cause, however
\* many other writers came in between (the inductive step behind the two above).
HandlersHoldSaneValues ==
    \A r \in Request :
      LET q == req[r] IN
      /\ q.pc \in {"insert", "update"} =>
           /\ q.start <= now + ClockSkew
           /\ q.end # NoTime => q.start < q.end /\ q.end <= now + ClockSkew
      /\ q.pc = "update" =>
           /\ q.id \in stored
           /\ q.corrected => shift[q.id].auto \/ shift[q.id].manual

PatchPending(i) == \E r \in Request : req[r].pc = "update" /\ req[r].id = i

\* Only a resolution of a flagged shift or an administrator's PATCH changes the
\* end of an ended shift: a retry, a late close or the timer never does.
EndIsFinal ==
    [][\A i \in stored :
         Ended(i) /\ shift'[i].end # shift[i].end
           => \/ Flagged(i) /\ endBy'[i] = "resolve"
              \/ PatchPending(i)]_vars

\* A PATCH under way that is about to write back an end nobody supplied, which it read
\* as accepted.
AcceptedWhenRead(i) ==
    \E r \in Request : /\ req[r].pc = "update" /\ req[r].id = i
                       /\ req[r].by \in Unconfirmed /\ req[r].corrected

\* The end of a shift that the timer or a building switch supplied reaches payroll only
\* where a person had accepted an end of that shift before: the corrected_at that
\* survives a reopening (patchShift), or the one a PATCH read before another PATCH took
\* it back.  Otherwise a person resolves it, and the flag itself is history that nothing
\* erases (decision-10: auto_closed stays TRUE through a resolution).
FlaggedIsPaidByAPerson ==
    [][/\ \A i \in stored : i \in stored' /\ (shift[i].auto => shift'[i].auto)
       /\ \A i \in stored' :
            Payable(i)' /\ endBy'[i] \in Unconfirmed
              => i \in stored /\ (shift[i].corrected \/ AcceptedWhenRead(i))]_vars

\* A shift the worker forgot does not accrue for ever: none stays overdue.
NoneStaysOverdue == \A i \in RowId : []<>~(i \in stored /\ Overdue(i))

-----------------------------------------------------------------------------
(* The table as payroll sees it: the refinement mapping.                   *)

OnDuty == {p \in Worker \X RowId : Open(p[2]) /\ shift[p[2]].worker = p[1]}
InDoubt == {i \in stored : Ended(i) /\ Flagged(i)}
Paid == {i \in stored : Payable(i)}
Accepted == {i \in stored : shift[i].corrected}
BeingEdited == {i \in RowId : PatchPending(i)}

Pay == INSTANCE Payroll WITH
         Shift <- RowId, on <- OnDuty, doubtful <- InDoubt, settled <- Paid,
         accepted <- Accepted, editing <- BeingEdited

\* Every step of every writer is one that payroll allows: a retry, a late answer
\* or the timer never reopens a shift, takes a paid one back or pays a guess that
\* no administrator had a hand in, however PATCH is interleaved with them.
ImplementsPayroll == Pay!PayrollSpec

=============================================================================
