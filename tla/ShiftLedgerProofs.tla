-------------------------- MODULE ShiftLedgerProofs --------------------------
(***************************************************************************)
(* Proofs about ShiftLedger for any number of workers, shifts and          *)
(* concurrent requests, any window and any bound on the clock.             *)
(***************************************************************************)
EXTENDS ShiftLedger, TLAPS

ReqState == {Idle} \cup OpenState \cup ConflictState \cup CreateState \cup PatchState

\* The handler's program counter tells which of the record types its memory has.
LEMMA ReqByPc ==
    ASSUME NEW q \in ReqState
    PROVE  /\ q.pc \in {"find_key", "find_open"} => q \in OpenState
           /\ q.pc = "conflict" => q \in ConflictState
           /\ q.pc = "insert" => q \in CreateState
           /\ q.pc = "update" => q \in PatchState
           /\ q # Idle => q.pc # "idle"
BY DEF ReqState, Idle, OpenState, ConflictState, CreateState, PatchState

\* Adding a row to the table keeps it a table of rows.
LEMMA InsertTyped ==
    ASSUME NEW i \in RowId, NEW row \in Row, stored \subseteq RowId,
           shift \in [stored -> Row], Insert(i, row)
    PROVE  /\ stored' = stored \cup {i} /\ stored' \subseteq RowId
           /\ shift' \in [stored' -> Row]
           /\ shift'[i] = row /\ \A j \in stored \ {i} : shift'[j] = shift[j]
BY DEF Insert, stored

\* Writing a row of the table back changes that row only.
LEMMA UpdateTyped ==
    ASSUME NEW i \in stored, NEW row \in Row, shift \in [stored -> Row], Update(i, row)
    PROVE  /\ stored' = stored /\ shift' \in [stored' -> Row]
           /\ shift'[i] = row /\ \A j \in stored \ {i} : shift'[j] = shift[j]
BY DEF Update, stored

-----------------------------------------------------------------------------
(* The memory of any handlers can be lost, not only of all of them at     *)
(* once: what is proved below also holds where ShiftLedger is composed     *)
(* with clients whose requests end on their own.                           *)

Forget ==
    /\ \E lost \in SUBSET Request : req' = [r \in Request |-> IF r \in lost THEN Idle ELSE req[r]]
    /\ UNCHANGED <<now, table>>

LedgerNext == WorkerStep \/ HandlerStep \/ AdminStep \/ AutoClose \/ Tick \/ Forget

\* The ledger's own steps are among them.
LEMMA NextIsLedgerNext == [Next]_vars => [LedgerNext]_vars
<1>1. Restart => Forget
  BY DEF Restart, Forget
<1>. QED BY <1>1 DEF Next, LedgerNext

-----------------------------------------------------------------------------
(* Type correctness.                                                       *)

\* What close, resolve and the timer write back is still a row.
LEMMA RowsTyped ==
    ASSUME NEW row \in Row, NEW e \in Time
    PROVE  /\ \A how : ClosedRow(row, e, how) \in Row
           /\ ResolvedRow(row, e) \in Row
           /\ row.start + Window \in Time => TimedOutRow(row) \in Row
BY DEF Row, ClosedRow, ResolvedRow, TimedOutRow

\* What an administrator's PATCH and POST write is a row.
LEMMA AdminRowsTyped ==
    /\ \A row \in Row, q \in PatchState : PatchedRow(row, q) \in Row
    /\ \A q \in CreateState : HandRow(q) \in Row
BY DEF Row, PatchedRow, PatchState, HandRow, CreateState

\* Every step of every writer keeps the table and the handlers typed.
LEMMA TypeStep == TypeOK /\ [LedgerNext]_vars => TypeOK'
<1> SUFFICES ASSUME TypeOK, [LedgerNext]_vars PROVE TypeOK'
  OBVIOUS
<1> USE LedgerAssumption
<1>1. ASSUME NEW t \in Time, NEW w \in Worker, NEW k \in Key, NEW b \in Building,
             OpenShift(k, w, b, t)
      PROVE  TypeOK'
  <2>1. FreshShift(w, b, t) \in Row /\ k \in RowId
    BY <1>1 DEF FreshShift, Row, RowId
  <2>. QED BY <1>1, <2>1, InsertTyped DEF TypeOK, OpenShift, InsertOpen
<1>2. ASSUME NEW t \in Time, NEW w \in Worker, NEW k \in Key, NEW r \in Request,
             OpenConflict(r, k, w, t)
      PROVE  TypeOK'
  BY <1>2 DEF TypeOK, OpenConflict, OpenState, table, stored
<1>3. ASSUME NEW t \in Time, NEW w \in Worker, NEW k \in Key, NEW how, NEW p,
             CloseShift(k, w, t, how, p)
      PROVE  TypeOK'
  <2>1. k \in stored /\ ClosedRow(shift[k], t, how) \in Row
    BY <1>3, RowsTyped DEF TypeOK, CloseShift, CloseRow
  <2>2. stored' \subseteq RowId /\ shift' \in [stored' -> Row]
    BY <1>3, <2>1, UpdateTyped DEF TypeOK, CloseShift, CloseRow
  <2>. QED BY <1>3, <2>2 DEF TypeOK, CloseShift, CloseRow, EndedBy, Provenance
<1>4. ASSUME NEW t \in Time, NEW i \in RowId, NEW w \in Worker, ResolveShift(i, w, t)
      PROVE  TypeOK'
  <2>1. i \in stored /\ ResolvedRow(shift[i], t) \in Row
    BY <1>4, RowsTyped DEF TypeOK, ResolveShift, ResolveRow
  <2>2. stored' \subseteq RowId /\ shift' \in [stored' -> Row]
    BY <1>4, <2>1, UpdateTyped DEF TypeOK, ResolveShift, ResolveRow
  <2>. QED BY <1>4, <2>2 DEF TypeOK, ResolveShift, ResolveRow, EndedBy, Provenance
<1>5. ASSUME NEW r \in Request, OpenFindKey(r) \/ OpenFindOpen(r) \/ ConflictAnswered(r)
      PROVE  TypeOK'
  <2>1. req[r] \in OpenState \cup ConflictState
    BY <1>5, ReqByPc DEF TypeOK, ReqState, OpenFindKey, OpenFindOpen, ConflictAnswered
  <2>2. req'[r] \in {Idle} \cup OpenState \cup ConflictState
    BY <1>5, <2>1
       DEF TypeOK, OpenFindKey, OpenFindOpen, ConflictAnswered, OpenState, ConflictState
  <2>3. req' \in [Request -> ReqState]
    BY <1>5, <2>2 DEF TypeOK, OpenFindKey, OpenFindOpen, ConflictAnswered, ReqState
  <2>. QED BY <1>5, <2>3
           DEF TypeOK, OpenFindKey, OpenFindOpen, ConflictAnswered, table, stored, ReqState
<1>6. ASSUME NEW r \in Request, NEW i \in Slot, CreateInsert(r, i)
      PROVE  TypeOK'
  <2>1. i \in RowId /\ HandRow(req[r]) \in Row
    BY <1>6, ReqByPc, AdminRowsTyped DEF TypeOK, ReqState, CreateInsert, RowId
  <2>2. stored' \subseteq RowId /\ shift' \in [stored' -> Row]
    BY <1>6, <2>1, InsertTyped DEF TypeOK, CreateInsert
  <2>. QED BY <1>6, <2>2 DEF TypeOK, CreateInsert, EndedBy, Provenance, Idle
<1>7. ASSUME NEW r \in Request, PatchWrite(r)
      PROVE  TypeOK'
  <2>. DEFINE q == req[r]
  <2>1. q \in PatchState
    BY <1>7, ReqByPc DEF TypeOK, ReqState, PatchWrite
  <2>2. req' \in [Request -> ReqState]
    BY <1>7 DEF TypeOK, PatchWrite, ReqState, Idle
  <2>3. stored' \subseteq RowId /\ shift' \in [stored' -> Row]
    <3>1. CASE PatchBreaksIndex(q)
      BY <1>7, <3>1 DEF TypeOK, PatchWrite, table, stored
    <3>2. CASE ~PatchBreaksIndex(q) /\ q.id \in stored
      <4>1. PatchedRow(shift[q.id], q) \in Row
        BY <2>1, <3>2, AdminRowsTyped DEF TypeOK
      <4>. QED BY <1>7, <3>2, <4>1, UpdateTyped DEF TypeOK, PatchWrite
    <3>3. CASE ~PatchBreaksIndex(q) /\ q.id \notin stored
      BY <1>7, <3>3 DEF TypeOK, PatchWrite, Update, stored
    <3>. QED BY <3>1, <3>2, <3>3
  <2>4. endBy' \in [RowId -> Provenance]
    BY <1>7, <2>1 DEF TypeOK, PatchWrite, PatchState, EndedBy, table
  <2>. QED BY <1>7, <2>2, <2>3, <2>4 DEF TypeOK, PatchWrite, ReqState
<1>8. ASSUME NEW r \in Admin, NEW w \in Worker, NEW b \in Building, NEW s \in Time,
             NEW e \in Time, CreateCheck(r, w, b, s, e)
      PROVE  TypeOK'
  BY <1>8 DEF TypeOK, CreateCheck, CreateState, table, stored
<1>9. ASSUME NEW r \in Admin, NEW w \in Worker, NEW b \in Building, NEW s \in Time,
             NEW i \in RowId, NEW e \in Time \cup {NoTime}, NEW typed \in BOOLEAN,
             PatchRead(r, i, w, b, s, e, typed)
      PROVE  TypeOK'
  <2>1. i \in stored /\ shift[i] \in Row /\ endBy[i] \in Provenance
    BY <1>9 DEF TypeOK, PatchRead
  <2>2. (shift[i].corrected \/ Resolves(i, e)) \in BOOLEAN
    OBVIOUS
  <2>3. (IF e = NoTime THEN None ELSE IF typed \/ Resolves(i, e) THEN "edit" ELSE endBy[i])
          \in Provenance
    BY <2>1 DEF Provenance
  <2>4. req'[r] \in PatchState /\ req' \in [Request -> ReqState]
    BY <1>9, <2>1, <2>2, <2>3 DEF TypeOK, PatchRead, PatchState, ReqState
  <2>. QED BY <1>9, <2>4 DEF TypeOK, PatchRead, ReqState, table, stored
<1>10. CASE AutoClose
  <2>1. ASSUME NEW i \in stored
        PROVE  (IF Overdue(i) THEN TimedOutRow(shift[i]) ELSE shift[i]) \in Row
    <3>1. CASE Overdue(i)
      <4>1. shift[i].start \in Time /\ shift[i].start + Window < now
        BY <3>1 DEF TypeOK, Overdue, Row
      <4>2. shift[i].start + Window \in Time
        BY <4>1 DEF TypeOK, Time
      <4>. QED BY <3>1, <4>2, RowsTyped, <4>1 DEF TypeOK
    <3>. QED BY <3>1 DEF TypeOK
  <2>2. stored' = stored /\ shift' \in [stored' -> Row]
    BY <1>10, <2>1 DEF AutoClose, stored
  <2>. QED BY <1>10, <2>2 DEF TypeOK, AutoClose, Provenance
<1>11. CASE Tick
  BY <1>11 DEF TypeOK, Tick, Time, table, stored
<1>12. CASE Forget
  BY <1>12 DEF TypeOK, Forget, table, stored
<1>13. CASE UNCHANGED vars
  BY <1>13 DEF TypeOK, vars, stored
<1>14. CASE WorkerStep
  BY <1>14, <1>1, <1>2, <1>3, <1>4 DEF WorkerStep
<1>15. CASE HandlerStep
  BY <1>15, <1>5, <1>6, <1>7 DEF HandlerStep
<1>16. CASE AdminStep
  BY <1>16, <1>8, <1>9 DEF AdminStep
<1>. QED BY <1>10, <1>11, <1>12, <1>13, <1>14, <1>15, <1>16 DEF LedgerNext

\* Every reachable state is well typed.
THEOREM TypeCorrect == Spec => []TypeOK
<1>1. Init => TypeOK
  BY LedgerAssumption DEF Init, TypeOK, Time, Provenance, stored
<1>. QED BY <1>1, TypeStep, NextIsLedgerNext, PTL DEF Spec

-----------------------------------------------------------------------------
(* One open shift per worker.                                              *)

\* A step that opens nothing and moves no open shift keeps the property.
LEMMA NoNewOpen ==
    ASSUME OneOpenPerWorker,
           \A j \in stored' : Open(j)' => /\ j \in stored /\ Open(j)
                                          /\ shift'[j].worker = shift[j].worker
    PROVE  OneOpenPerWorker'
BY DEF OneOpenPerWorker, Open

\* Every step keeps the worker to one open shift: the index refuses the two writes
\* that could open a second one, and no other write opens or moves an open shift.
LEMMA OneOpenStep == TypeOK /\ OneOpenPerWorker /\ [LedgerNext]_vars => OneOpenPerWorker'
<1> SUFFICES ASSUME TypeOK, OneOpenPerWorker, [LedgerNext]_vars PROVE OneOpenPerWorker'
  OBVIOUS
<1> USE LedgerAssumption
<1>1. ASSUME NEW t \in Time, NEW w \in Worker, NEW k \in Key, NEW b \in Building,
             OpenShift(k, w, b, t)
      PROVE  OneOpenPerWorker'
  <2>1. k \in RowId /\ FreshShift(w, b, t) \in Row
    BY DEF FreshShift, Row, RowId
  <2>2. /\ stored' = stored \cup {k} /\ shift'[k] = FreshShift(w, b, t)
        /\ \A j \in stored \ {k} : shift'[j] = shift[j]
    BY <1>1, <2>1, InsertTyped DEF TypeOK, OpenShift, InsertOpen
  <2>3. ~HasOpen(w) /\ k \notin stored
    BY <1>1 DEF OpenShift, InsertOpen, Conflicts
  <2>. QED BY <2>2, <2>3 DEF OneOpenPerWorker, Open, HasOpen, FreshShift
<1>2. ASSUME UNCHANGED shift PROVE OneOpenPerWorker'
  BY <1>2 DEF OneOpenPerWorker, Open, stored
<1>3. ASSUME NEW t \in Time, NEW w \in Worker, NEW k \in Key, NEW how, NEW p,
             CloseShift(k, w, t, how, p)
      PROVE  OneOpenPerWorker'
  <2>1. k \in stored /\ ClosedRow(shift[k], t, how) \in Row
    BY <1>3, RowsTyped DEF TypeOK, CloseShift, CloseRow
  <2>2. /\ stored' = stored /\ shift'[k] = ClosedRow(shift[k], t, how)
        /\ \A j \in stored \ {k} : shift'[j] = shift[j]
    BY <1>3, <2>1, UpdateTyped DEF TypeOK, CloseShift, CloseRow
  <2>3. ClosedRow(shift[k], t, how).end # NoTime
    BY <2>1 DEF TypeOK, ClosedRow, Row, Time, NoTime
  <2>. QED BY <2>2, <2>3, NoNewOpen DEF Open
<1>4. ASSUME NEW t \in Time, NEW i \in RowId, NEW w \in Worker, ResolveShift(i, w, t)
      PROVE  OneOpenPerWorker'
  <2>1. i \in stored /\ ResolvedRow(shift[i], t) \in Row
    BY <1>4, RowsTyped DEF TypeOK, ResolveShift, ResolveRow
  <2>2. /\ stored' = stored /\ shift'[i] = ResolvedRow(shift[i], t)
        /\ \A j \in stored \ {i} : shift'[j] = shift[j]
    BY <1>4, <2>1, UpdateTyped DEF TypeOK, ResolveShift, ResolveRow
  <2>3. ResolvedRow(shift[i], t).end # NoTime
    BY <2>1 DEF TypeOK, ResolvedRow, Row, Time, NoTime
  <2>. QED BY <2>2, <2>3, NoNewOpen DEF Open
<1>5. ASSUME NEW r \in Request, NEW i \in Slot, CreateInsert(r, i)
      PROVE  OneOpenPerWorker'
  <2>1. req[r] \in CreateState /\ i \in RowId /\ HandRow(req[r]) \in Row
    BY <1>5, ReqByPc, AdminRowsTyped DEF TypeOK, ReqState, CreateInsert, RowId
  <2>2. /\ stored' = stored \cup {i} /\ shift'[i] = HandRow(req[r])
        /\ \A j \in stored \ {i} : shift'[j] = shift[j]
    BY <1>5, <2>1, InsertTyped DEF TypeOK, CreateInsert
  <2>3. HandRow(req[r]).end # NoTime
    BY <2>1 DEF HandRow, CreateState, Time, NoTime
  <2>. QED BY <2>2, <2>3, NoNewOpen DEF Open
<1>6. ASSUME NEW r \in Request, PatchWrite(r)
      PROVE  OneOpenPerWorker'
  <2>. DEFINE q == req[r]
  <2>1. q \in PatchState
    BY <1>6, ReqByPc DEF TypeOK, ReqState, PatchWrite
  <2>2. CASE PatchBreaksIndex(q)
    BY <1>6, <1>2, <2>2 DEF PatchWrite, table
  <2>3. CASE ~PatchBreaksIndex(q) /\ q.id \in stored
    <3>1. PatchedRow(shift[q.id], q) \in Row
      BY <2>1, <2>3, AdminRowsTyped DEF TypeOK
    <3>2. /\ stored' = stored /\ shift'[q.id] = PatchedRow(shift[q.id], q)
          /\ \A j \in stored \ {q.id} : shift'[j] = shift[j]
      BY <1>6, <2>3, <3>1, UpdateTyped DEF TypeOK, PatchWrite
    <3>3. PatchedRow(shift[q.id], q).end = q.end
          /\ PatchedRow(shift[q.id], q).worker = q.worker
      BY <2>3, <3>1 DEF TypeOK, PatchedRow, Row
    <3>. QED BY <2>3, <3>2, <3>3 DEF OneOpenPerWorker, Open, PatchBreaksIndex
  <2>4. CASE ~PatchBreaksIndex(q) /\ q.id \notin stored
    <3>1. shift' = shift
      BY <1>6, <2>4 DEF TypeOK, PatchWrite, Update, stored
    <3>. QED BY <3>1, <1>2
  <2>. QED BY <2>2, <2>3, <2>4
<1>7. CASE AutoClose
  <2>1. stored' = stored
    BY <1>7 DEF AutoClose, stored
  <2>2. ASSUME NEW j \in stored', Open(j)'
        PROVE  Open(j) /\ shift'[j].worker = shift[j].worker
    <3>1. ~Overdue(j)
      <4>1. SUFFICES ASSUME Overdue(j) PROVE FALSE
        OBVIOUS
      <4>2. shift[j] \in Row
        BY <2>1 DEF TypeOK
      <4>3. shift'[j] = TimedOutRow(shift[j])
        BY <1>7, <2>1, <4>1 DEF AutoClose
      <4>4. TimedOutRow(shift[j]).end = shift[j].start + Window
        BY <4>2 DEF TimedOutRow, Row
      <4>5. shift[j].start \in Nat
        BY <4>2 DEF Row, Time
      <4>. QED BY <2>2, <4>3, <4>4, <4>5 DEF Open, NoTime
    <3>2. shift'[j] = shift[j]
      BY <1>7, <2>1, <3>1 DEF AutoClose
    <3>. QED BY <2>1, <2>2, <3>2 DEF Open
  <2>. QED BY <2>1, <2>2, NoNewOpen
<1>8. CASE WorkerStep
  BY <1>8, <1>1, <1>2, <1>3, <1>4 DEF WorkerStep, OpenConflict, table
<1>9. CASE HandlerStep
  BY <1>9, <1>2, <1>5, <1>6
     DEF HandlerStep, OpenFindKey, OpenFindOpen, ConflictAnswered, table
<1>10. CASE AdminStep
  BY <1>10, <1>2 DEF AdminStep, CreateCheck, PatchRead, table
<1>11. CASE Tick \/ Forget \/ UNCHANGED vars
  BY <1>11, <1>2 DEF Tick, Forget, table, vars
<1>. QED BY <1>7, <1>8, <1>9, <1>10, <1>11 DEF LedgerNext

\* Whatever workers, administrators and the timer do, and however their requests
\* interleave, a worker never has two open shifts (shifts_one_open_per_worker_idx).
THEOREM OneOpen == Spec => []OneOpenPerWorker
<1>1. Init => OneOpenPerWorker
  BY DEF Init, OneOpenPerWorker, stored
<1>. QED BY <1>1, TypeCorrect, OneOpenStep, NextIsLedgerNext, PTL DEF Spec

-----------------------------------------------------------------------------
(* Sane windows and causes of corrections, through stale administrator     *)
(* writes: the table's invariants are inductive only together with what    *)
(* the handlers hold between their read and their write.                   *)

SaneRow(row) ==
    /\ row.start <= now + ClockSkew
    /\ row.end # NoTime => row.start < row.end /\ row.end <= now + ClockSkew
    /\ row.corrected => row.auto \/ row.manual

LedgerInv == (\A i \in stored : SaneRow(shift[i])) /\ HandlersHoldSaneValues

\* The row-wise form of the invariant is the two properties together.
LEMMA SaneRows ==
    (\A i \in stored : SaneRow(shift[i])) <=> WindowsAreSane /\ CorrectionHasCause
BY DEF SaneRow, WindowsAreSane, CorrectionHasCause, Ended

\* A step that leaves the clock and the handlers alone, and keeps every row sane
\* and its two history flags up, keeps the invariant.
LEMMA SaneTable ==
    ASSUME LedgerInv, UNCHANGED <<now, req>>, stored \subseteq stored',
           \A j \in stored' : SaneRow(shift'[j]),
           \A j \in stored : /\ shift[j].auto => shift'[j].auto
                             /\ shift[j].manual => shift'[j].manual
    PROVE  LedgerInv'
BY DEF LedgerInv, HandlersHoldSaneValues, SaneRow

\* Every step keeps the rows sane and what the handlers carry sane: a handler's values
\* were validated against an earlier clock, and the clock only grows.
LEMMA SaneStep == TypeOK /\ LedgerInv /\ [LedgerNext]_vars => LedgerInv'
<1> SUFFICES ASSUME TypeOK, LedgerInv, [LedgerNext]_vars PROVE LedgerInv'
  OBVIOUS
<1> USE LedgerAssumption
<1>1. ASSUME NEW t \in Time, NEW w \in Worker, NEW k \in Key, NEW b \in Building,
             OpenShift(k, w, b, t)
      PROVE  LedgerInv'
  <2>1. k \in RowId /\ FreshShift(w, b, t) \in Row
    BY DEF FreshShift, Row, RowId
  <2>2. /\ stored' = stored \cup {k} /\ shift'[k] = FreshShift(w, b, t)
        /\ \A j \in stored \ {k} : shift'[j] = shift[j]
    BY <1>1, <2>1, InsertTyped DEF TypeOK, OpenShift, InsertOpen
  <2>3. SaneRow(FreshShift(w, b, t)) /\ k \notin stored
    BY <1>1 DEF SaneRow, FreshShift, OpenShift, InsertOpen, Acceptable, Conflicts
  <2>4. UNCHANGED <<now, req>>
    BY <1>1 DEF OpenShift
  <2>. QED BY <2>2, <2>3, <2>4, SaneTable DEF LedgerInv
<1>2. ASSUME NEW t \in Time, NEW w \in Worker, NEW k \in Key, NEW how, NEW p,
             CloseShift(k, w, t, how, p)
      PROVE  LedgerInv'
  <2>. DEFINE row == ClosedRow(shift[k], t, how)
  <2>1. k \in stored /\ row \in Row /\ UNCHANGED <<now, req>>
    BY <1>2, RowsTyped DEF TypeOK, CloseShift, CloseRow
  <2>2. /\ stored' = stored /\ shift'[k] = row
        /\ \A j \in stored \ {k} : shift'[j] = shift[j]
    BY <1>2, <2>1, UpdateTyped DEF TypeOK, CloseShift, CloseRow
  <2>3. /\ row.start = shift[k].start /\ row.end = t
        /\ row.auto = (shift[k].auto \/ how = "switch")
        /\ row.manual = (shift[k].manual \/ how = "stop")
        /\ row.corrected = (shift[k].corrected \/ how = "stop")
    BY <2>1 DEF TypeOK, Row, ClosedRow
  <2>4. SaneRow(row)
    BY <1>2, <2>1, <2>3 DEF LedgerInv, SaneRow, CloseShift, CloseRow, SaneWindow, Acceptable
  <2>. QED BY <2>1, <2>2, <2>3, <2>4, SaneTable DEF LedgerInv
<1>3. ASSUME NEW t \in Time, NEW i \in RowId, NEW w \in Worker, ResolveShift(i, w, t)
      PROVE  LedgerInv'
  <2>. DEFINE row == ResolvedRow(shift[i], t)
  <2>1. i \in stored /\ row \in Row /\ UNCHANGED <<now, req>>
    BY <1>3, RowsTyped DEF TypeOK, ResolveShift, ResolveRow
  <2>2. /\ stored' = stored /\ shift'[i] = row
        /\ \A j \in stored \ {i} : shift'[j] = shift[j]
    BY <1>3, <2>1, UpdateTyped DEF TypeOK, ResolveShift, ResolveRow
  <2>3. /\ row.start = shift[i].start /\ row.end = t
        /\ row.auto = shift[i].auto /\ row.manual = shift[i].manual
    BY <2>1 DEF TypeOK, Row, ResolvedRow
  <2>4. SaneRow(row)
    BY <1>3, <2>3
       DEF SaneRow, ResolveShift, ResolveRow, Flagged, SaneWindow, Acceptable
  <2>. QED BY <2>1, <2>2, <2>3, <2>4, SaneTable DEF LedgerInv
<1>4. ASSUME NEW r \in Request, NEW i \in Slot, CreateInsert(r, i)
      PROVE  LedgerInv'
  <2>1. req[r] \in CreateState /\ i \in RowId /\ HandRow(req[r]) \in Row
    BY <1>4, ReqByPc, AdminRowsTyped DEF TypeOK, ReqState, CreateInsert, RowId
  <2>2. /\ stored' = stored \cup {i} /\ shift'[i] = HandRow(req[r])
        /\ \A j \in stored \ {i} : shift'[j] = shift[j]
    BY <1>4, <2>1, InsertTyped DEF TypeOK, CreateInsert
  <2>3. SaneRow(HandRow(req[r])) /\ i \notin stored
    BY <1>4 DEF CreateInsert, SaneRow, HandRow, LedgerInv, HandlersHoldSaneValues
  <2>4. now' = now /\ \A q \in Request : req'[q] = req[q] \/ req'[q] = Idle
    BY <1>4 DEF TypeOK, CreateInsert
  <2>. QED BY <2>2, <2>3, <2>4 DEF LedgerInv, HandlersHoldSaneValues, SaneRow, Idle
<1>5. ASSUME NEW r \in Request, PatchWrite(r)
      PROVE  LedgerInv'
  <2>. DEFINE q == req[r]
  <2>1. q \in PatchState /\ q.id \in stored
    BY <1>5, ReqByPc
       DEF TypeOK, ReqState, PatchWrite, LedgerInv, HandlersHoldSaneValues
  <2>2. now' = now /\ \A s \in Request : req'[s] = req[s] \/ req'[s] = Idle
    BY <1>5 DEF TypeOK, PatchWrite
  <2>3. CASE PatchBreaksIndex(q)
    BY <1>5, <2>2, <2>3
       DEF PatchWrite, table, stored, LedgerInv, HandlersHoldSaneValues, SaneRow, Idle
  <2>4. CASE ~PatchBreaksIndex(q)
    <3>. DEFINE row == PatchedRow(shift[q.id], q)
    <3>1. row \in Row
      BY <2>1, AdminRowsTyped DEF TypeOK
    <3>2. /\ stored' = stored /\ shift'[q.id] = row
          /\ \A j \in stored \ {q.id} : shift'[j] = shift[j]
      BY <1>5, <2>1, <2>4, <3>1, UpdateTyped DEF TypeOK, PatchWrite
    <3>3. /\ row.start = q.start /\ row.end = q.end /\ row.corrected = q.corrected
          /\ row.auto = shift[q.id].auto /\ row.manual = shift[q.id].manual
      BY <2>1 DEF TypeOK, PatchedRow, Row
    <3>4. SaneRow(row)
      BY <1>5, <3>3 DEF PatchWrite, SaneRow, LedgerInv, HandlersHoldSaneValues
    <3>. QED BY <2>2, <3>2, <3>3, <3>4
             DEF LedgerInv, HandlersHoldSaneValues, SaneRow, Idle
  <2>. QED BY <2>3, <2>4
<1>6. ASSUME NEW r \in Admin, NEW w \in Worker, NEW b \in Building, NEW s \in Time,
             NEW e \in Time, CreateCheck(r, w, b, s, e)
      PROVE  LedgerInv'
  <2>1. UNCHANGED <<now, table>> /\ SaneWindow(s, e)
    BY <1>6 DEF CreateCheck
  <2>2. /\ req'[r] = [pc |-> "insert", worker |-> w, building |-> b, start |-> s, end |-> e]
        /\ \A q \in Request \ {r} : req'[q] = req[q]
    BY <1>6 DEF TypeOK, CreateCheck
  <2>. QED BY <2>1, <2>2 DEF LedgerInv, HandlersHoldSaneValues, SaneRow, SaneWindow,
                             Acceptable, table, stored
<1>7. ASSUME NEW r \in Admin, NEW w \in Worker, NEW b \in Building, NEW s \in Time,
             NEW i \in RowId, NEW e \in Time \cup {NoTime}, NEW typed \in BOOLEAN,
             PatchRead(r, i, w, b, s, e, typed)
      PROVE  LedgerInv'
  <2>1. /\ UNCHANGED <<now, table>> /\ i \in stored
        /\ IF e = NoTime THEN Acceptable(s) ELSE SaneWindow(s, e)
    BY <1>7 DEF PatchRead
  <2>2. /\ req'[r].pc = "update" /\ req'[r].id = i
        /\ req'[r].start = s /\ req'[r].end = e
        /\ req'[r].corrected = (shift[i].corrected \/ Resolves(i, e))
        /\ \A q \in Request \ {r} : req'[q] = req[q]
    BY <1>7 DEF TypeOK, PatchRead
  <2>3. req'[r].corrected => shift[i].auto \/ shift[i].manual
    BY <2>1, <2>2 DEF LedgerInv, SaneRow, Resolves, Flagged
  <2>. QED BY <2>1, <2>2, <2>3 DEF LedgerInv, HandlersHoldSaneValues, SaneRow, SaneWindow,
                                   Acceptable, table, stored
<1>8. CASE AutoClose
  <2>1. stored' = stored /\ UNCHANGED <<now, req>>
    BY <1>8 DEF AutoClose, stored
  <2>2. ASSUME NEW j \in stored
        PROVE  /\ SaneRow(shift'[j])
               /\ shift[j].auto => shift'[j].auto
               /\ shift[j].manual => shift'[j].manual
    <3>. DEFINE row == TimedOutRow(shift[j])
    <3>1. shift'[j] = IF Overdue(j) THEN row ELSE shift[j]
      BY <1>8 DEF AutoClose
    <3>2. /\ row.start = shift[j].start /\ row.end = shift[j].start + Window
          /\ row.auto = TRUE /\ row.manual = shift[j].manual
          /\ shift[j].start \in Nat /\ now \in Nat
      BY DEF TypeOK, TimedOutRow, Row, Time
    <3>3. CASE Overdue(j)
      BY <3>1, <3>2, <3>3 DEF LedgerInv, SaneRow, Overdue
    <3>4. CASE ~Overdue(j)
      BY <3>1, <3>4 DEF LedgerInv
    <3>. QED BY <3>3, <3>4
  <2>. QED BY <2>1, <2>2, SaneTable
<1>9. ASSUME UNCHANGED table, now' \in Time, now <= now',
             \A r \in Request : \/ req'[r] = req[r]
                                \/ req'[r].pc \notin {"insert", "update"}
      PROVE  LedgerInv'
  <2>1. stored' = stored /\ shift' = shift
    BY <1>9 DEF table, stored
  <2>2. ASSUME NEW i \in stored PROVE SaneRow(shift[i])'
    <3>1. shift[i].start \in Int /\ shift[i].end \in Int /\ now \in Int
      BY DEF TypeOK, Row, Time, NoTime
    <3>. QED BY <1>9, <2>1, <3>1 DEF LedgerInv, SaneRow, Time
  <2>3. HandlersHoldSaneValues'
    <3>1. SUFFICES ASSUME NEW r \in Request, req[r].pc \in {"insert", "update"}
                   PROVE  req[r].start \in Int /\ req[r].end \in Int
      BY <1>9, <2>1 DEF LedgerInv, HandlersHoldSaneValues, TypeOK, Time
    <3>. QED BY <3>1, ReqByPc DEF TypeOK, ReqState, CreateState, PatchState, Time, NoTime
  <2>. QED BY <2>1, <2>2, <2>3 DEF LedgerInv
<1>10. ASSUME NEW t \in Time, NEW w \in Worker, NEW k \in Key, NEW r \in Request,
              OpenConflict(r, k, w, t)
       PROVE  LedgerInv'
  BY <1>10, <1>9 DEF OpenConflict, TypeOK, Time
<1>11. ASSUME NEW r \in Request, OpenFindKey(r) \/ OpenFindOpen(r) \/ ConflictAnswered(r)
       PROVE  LedgerInv'
  <2>1. req[r] \in OpenState \cup ConflictState
    BY <1>11, ReqByPc DEF TypeOK, ReqState, OpenFindKey, OpenFindOpen, ConflictAnswered
  <2>2. /\ req'[r].pc \notin {"insert", "update"}
        /\ \A q \in Request \ {r} : req'[q] = req[q]
    BY <1>11, <2>1
       DEF TypeOK, OpenFindKey, OpenFindOpen, ConflictAnswered, OpenState, ConflictState, Idle
  <2>. QED BY <1>11, <2>2, <1>9
           DEF TypeOK, OpenFindKey, OpenFindOpen, ConflictAnswered, Time
<1>12. CASE WorkerStep
  BY <1>12, <1>1, <1>2, <1>3, <1>10 DEF WorkerStep
<1>13. CASE HandlerStep
  BY <1>13, <1>4, <1>5, <1>11 DEF HandlerStep
<1>14. CASE AdminStep
  BY <1>14, <1>6, <1>7 DEF AdminStep
<1>15. CASE Tick
  BY <1>15, <1>9 DEF Tick, TypeOK, Time
<1>16. CASE Forget
  BY <1>16, <1>9 DEF Forget, TypeOK, Time, Idle
<1>17. CASE UNCHANGED vars
  BY <1>17, <1>9 DEF vars, table, TypeOK, Time
<1>. QED BY <1>8, <1>12, <1>13, <1>14, <1>15, <1>16, <1>17 DEF LedgerNext

\* The strengthened invariant holds: the rows and the handlers' memory are sane.
LEMMA LedgerInvariant == Spec => []LedgerInv
<1>1. Init => LedgerInv
  BY DEF Init, LedgerInv, HandlersHoldSaneValues, SaneRow, stored, Idle
<1>. QED BY <1>1, TypeCorrect, SaneStep, NextIsLedgerNext, PTL DEF Spec

\* Every ended shift has a positive length and does not end in the future, also
\* when an administrator's PATCH writes back what it read before others wrote.
THEOREM SaneWindows == Spec => []WindowsAreSane
<1>1. LedgerInv => WindowsAreSane
  BY SaneRows DEF LedgerInv
<1>. QED BY <1>1, LedgerInvariant, PTL

\* What a handler of create or PATCH carries from its read to its write stays sane
\* while other writers come in between: no lock holds them off.
THEOREM HandlersSane == Spec => []HandlersHoldSaneValues
<1>1. LedgerInv => HandlersHoldSaneValues
  BY DEF LedgerInv
<1>. QED BY <1>1, LedgerInvariant, PTL

\* corrected_at is never set on a shift that was neither flagged nor stopped by hand.
THEOREM CorrectionsHaveCause == Spec => []CorrectionHasCause
<1>1. LedgerInv => CorrectionHasCause
  BY SaneRows DEF LedgerInv
<1>. QED BY <1>1, LedgerInvariant, PTL

-----------------------------------------------------------------------------
(* Among phones alone an open row is never flagged or corrected, so that   *)
(* the end the timer or a declared switch gives it is not paid: a step     *)
(* that PhoneProofs builds on.  With an administrator it is false, for     *)
(* PATCH can reopen a shift that already carries corrected_at.             *)

UnopenedRow(i) == Open(i) => ~shift[i].auto /\ ~shift[i].corrected
ConfirmedRow(i) == Payable(i) => endBy[i] \notin Unconfirmed

NoEditInv ==
    /\ \A r \in Request : req[r].pc \notin {"insert", "update"}
    /\ \A i \in stored : UnopenedRow(i) /\ ConfirmedRow(i)

\* Without an administrator, every step keeps open rows unflagged and uncorrected, and
\* every end nobody confirmed flagged.
LEMMA NoEditStep ==
    ASSUME Admin = {}
    PROVE  TypeOK /\ NoEditInv /\ [LedgerNext]_vars => NoEditInv'
<1> SUFFICES ASSUME TypeOK, NoEditInv, [LedgerNext]_vars PROVE NoEditInv'
  OBVIOUS
<1> USE LedgerAssumption
<1>1. ASSUME UNCHANGED <<shift, endBy>>,
             \A r \in Request : \/ req'[r] = req[r]
                                \/ req'[r].pc \notin {"insert", "update"}
      PROVE  NoEditInv'
  BY <1>1 DEF NoEditInv, UnopenedRow, ConfirmedRow, Open, Payable, Ended, Flagged, stored
<1>2. ASSUME NEW t \in Time, NEW w \in Worker, NEW k \in Key, NEW b \in Building,
             OpenShift(k, w, b, t)
      PROVE  NoEditInv'
  <2>1. k \in RowId /\ FreshShift(w, b, t) \in Row
    BY DEF FreshShift, Row, RowId
  <2>2. /\ stored' = stored \cup {k} /\ shift'[k] = FreshShift(w, b, t)
        /\ \A j \in stored \ {k} : shift'[j] = shift[j]
    BY <1>2, <2>1, InsertTyped DEF TypeOK, OpenShift, InsertOpen
  <2>3. UNCHANGED <<endBy, req>> /\ k \notin stored
    BY <1>2 DEF OpenShift, InsertOpen, Conflicts
  <2>. QED BY <2>2, <2>3
           DEF NoEditInv, UnopenedRow, ConfirmedRow, Open, Payable, Ended, Flagged, FreshShift
<1>3. ASSUME NEW t \in Time, NEW w \in Worker, NEW k \in Key, NEW how, NEW p,
             CloseShift(k, w, t, how, p)
      PROVE  NoEditInv'
  <2>. DEFINE row == ClosedRow(shift[k], t, how)
  <2>1. k \in stored /\ k \in RowId /\ row \in Row /\ Open(k) /\ UNCHANGED req
    BY <1>3, RowsTyped DEF TypeOK, CloseShift, CloseRow
  <2>2. /\ stored' = stored /\ shift'[k] = row
        /\ \A j \in stored \ {k} : shift'[j] = shift[j]
    BY <1>3, <2>1, UpdateTyped DEF TypeOK, CloseShift, CloseRow
  <2>3. /\ row.end = t /\ t # NoTime
        /\ row.auto = (shift[k].auto \/ how = "switch")
        /\ row.corrected = (shift[k].corrected \/ how = "stop")
    BY <2>1 DEF TypeOK, Row, ClosedRow, Time, NoTime
  <2>4. /\ endBy'[k] = (IF how = "switch" THEN "switch" ELSE "tap")
        /\ \A j \in stored \ {k} : endBy'[j] = endBy[j]
    BY <1>3, <2>1 DEF TypeOK, CloseShift, CloseRow, EndedBy
  <2>5. ~shift[k].auto /\ ~shift[k].corrected
    BY <2>1 DEF NoEditInv, UnopenedRow
  <2>6. (UnopenedRow(k) /\ ConfirmedRow(k))'
    BY <2>1, <2>2, <2>3, <2>4, <2>5
       DEF UnopenedRow, ConfirmedRow, Open, Payable, Ended, Flagged, Unconfirmed
  <2>7. ASSUME NEW j \in stored \ {k} PROVE (UnopenedRow(j) /\ ConfirmedRow(j))'
    BY <2>2, <2>4
       DEF NoEditInv, UnopenedRow, ConfirmedRow, Open, Payable, Ended, Flagged
  <2>. QED BY <2>1, <2>2, <2>6, <2>7 DEF NoEditInv
<1>4. ASSUME NEW t \in Time, NEW i \in RowId, NEW w \in Worker, ResolveShift(i, w, t)
      PROVE  NoEditInv'
  <2>. DEFINE row == ResolvedRow(shift[i], t)
  <2>1. i \in stored /\ row \in Row /\ UNCHANGED req
    BY <1>4, RowsTyped DEF TypeOK, ResolveShift, ResolveRow
  <2>2. /\ stored' = stored /\ shift'[i] = row
        /\ \A j \in stored \ {i} : shift'[j] = shift[j]
    BY <1>4, <2>1, UpdateTyped DEF TypeOK, ResolveShift, ResolveRow
  <2>3. row.end = t /\ t # NoTime
    BY <2>1 DEF TypeOK, Row, ResolvedRow, Time, NoTime
  <2>4. endBy'[i] = "resolve" /\ \A j \in stored \ {i} : endBy'[j] = endBy[j]
    BY <1>4, <2>1 DEF TypeOK, ResolveShift, ResolveRow, EndedBy
  <2>5. (UnopenedRow(i) /\ ConfirmedRow(i))'
    BY <2>1, <2>2, <2>3, <2>4
       DEF UnopenedRow, ConfirmedRow, Open, Payable, Ended, Flagged, Unconfirmed
  <2>6. ASSUME NEW j \in stored \ {i} PROVE (UnopenedRow(j) /\ ConfirmedRow(j))'
    BY <2>2, <2>4
       DEF NoEditInv, UnopenedRow, ConfirmedRow, Open, Payable, Ended, Flagged
  <2>. QED BY <2>1, <2>2, <2>5, <2>6 DEF NoEditInv
<1>5. CASE AutoClose
  <2>1. stored' = stored /\ UNCHANGED req
    BY <1>5 DEF AutoClose, stored
  <2>2. ASSUME NEW j \in stored PROVE (UnopenedRow(j) /\ ConfirmedRow(j))'
    <3>1. /\ shift'[j] = IF Overdue(j) THEN TimedOutRow(shift[j]) ELSE shift[j]
          /\ endBy'[j] = IF Overdue(j) THEN "timer" ELSE endBy[j]
      BY <1>5 DEF AutoClose, TypeOK
    <3>2. CASE ~Overdue(j)
      BY <2>1, <3>1, <3>2
         DEF NoEditInv, UnopenedRow, ConfirmedRow, Open, Payable, Ended, Flagged
    <3>3. CASE Overdue(j)
      <4>. DEFINE row == TimedOutRow(shift[j])
      <4>1. /\ row.end = shift[j].start + Window /\ row.auto = TRUE
            /\ row.corrected = shift[j].corrected /\ shift[j].start \in Nat
        BY DEF TypeOK, TimedOutRow, Row, Time
      <4>2. ~shift[j].corrected
        BY <3>3 DEF NoEditInv, UnopenedRow, Overdue
      <4>. QED BY <2>1, <3>1, <3>3, <4>1, <4>2
               DEF UnopenedRow, ConfirmedRow, Open, Payable, Ended, Flagged, NoTime
    <3>. QED BY <3>2, <3>3
  <2>. QED BY <2>1, <2>2 DEF NoEditInv
<1>6. CASE WorkerStep
  BY <1>6, <1>1, <1>2, <1>3, <1>4 DEF WorkerStep, OpenConflict, table, TypeOK
<1>7. CASE HandlerStep
  <2>1. PICK r \in Request : OpenFindKey(r) \/ OpenFindOpen(r) \/ ConflictAnswered(r)
    BY <1>7 DEF HandlerStep, NoEditInv, CreateInsert, PatchWrite
  <2>2. req[r] \in OpenState \cup ConflictState
    BY <2>1, ReqByPc DEF TypeOK, ReqState, OpenFindKey, OpenFindOpen, ConflictAnswered
  <2>3. /\ req'[r].pc \notin {"insert", "update"}
        /\ \A q \in Request \ {r} : req'[q] = req[q]
    BY <2>1, <2>2
       DEF TypeOK, OpenFindKey, OpenFindOpen, ConflictAnswered, OpenState, ConflictState, Idle
  <2>. QED BY <2>1, <2>3, <1>1 DEF OpenFindKey, OpenFindOpen, ConflictAnswered, table
<1>8. CASE Tick \/ Forget \/ UNCHANGED vars
  BY <1>8, <1>1 DEF Tick, Forget, table, vars, Idle
<1>. QED BY <1>5, <1>6, <1>7, <1>8 DEF LedgerNext, AdminStep

-----------------------------------------------------------------------------
(* An end that is there stays, but for those who may move it.              *)

\* If the end of shift i moves, it is somebody who may move it.
MovesEnds(i) ==
    Ended(i) /\ shift'[i].end # shift[i].end
      => \/ Flagged(i) /\ endBy'[i] = "resolve"
         \/ PatchPending(i)

LEMMA OnlyMoves ==
    ASSUME NEW k, \A j \in stored \ {k} : shift'[j] = shift[j],
           k \in stored => Open(k) \/ MovesEnds(k)
    PROVE  \A i \in stored : MovesEnds(i)
BY DEF MovesEnds, Open, Ended

LEMMA EndsStep == TypeOK /\ [LedgerNext]_vars => \A i \in stored : MovesEnds(i)
<1>. SUFFICES ASSUME TypeOK, [LedgerNext]_vars PROVE \A i \in stored : MovesEnds(i)
  OBVIOUS
<1>. USE LedgerAssumption
<1>1. ASSUME UNCHANGED shift PROVE \A i \in stored : MovesEnds(i)
  BY <1>1 DEF MovesEnds
<1>2. ASSUME NEW t \in Time, NEW w \in Worker, NEW k \in Key, NEW b \in Building,
             OpenShift(k, w, b, t)
      PROVE  \A i \in stored : MovesEnds(i)
  <2>1. k \in RowId /\ FreshShift(w, b, t) \in Row /\ k \notin stored
    BY <1>2 DEF FreshShift, Row, RowId, OpenShift, InsertOpen, Conflicts
  <2>2. \A j \in stored \ {k} : shift'[j] = shift[j]
    BY <1>2, <2>1, InsertTyped DEF TypeOK, OpenShift, InsertOpen
  <2>. QED BY <2>1, <2>2, OnlyMoves
<1>3. ASSUME NEW t \in Time, NEW w \in Worker, NEW k \in Key, NEW how, NEW p,
             CloseShift(k, w, t, how, p)
      PROVE  \A i \in stored : MovesEnds(i)
  <2>1. k \in stored /\ ClosedRow(shift[k], t, how) \in Row /\ Open(k)
    BY <1>3, RowsTyped DEF TypeOK, CloseShift, CloseRow
  <2>2. \A j \in stored \ {k} : shift'[j] = shift[j]
    BY <1>3, <2>1, UpdateTyped DEF TypeOK, CloseShift, CloseRow
  <2>. QED BY <2>1, <2>2, OnlyMoves
<1>4. ASSUME NEW t \in Time, NEW k \in RowId, NEW w \in Worker, ResolveShift(k, w, t)
      PROVE  \A i \in stored : MovesEnds(i)
  <2>1. k \in stored /\ ResolvedRow(shift[k], t) \in Row
    BY <1>4, RowsTyped DEF TypeOK, ResolveShift, ResolveRow
  <2>2. \A j \in stored \ {k} : shift'[j] = shift[j]
    BY <1>4, <2>1, UpdateTyped DEF TypeOK, ResolveShift, ResolveRow
  <2>3. MovesEnds(k)
    BY <1>4, <2>1 DEF MovesEnds, TypeOK, ResolveShift, ResolveRow, EndedBy
  <2>. QED BY <2>2, <2>3, OnlyMoves
<1>5. ASSUME NEW r \in Request, NEW k \in Slot, CreateInsert(r, k)
      PROVE  \A i \in stored : MovesEnds(i)
  <2>1. req[r] \in CreateState /\ k \in RowId /\ HandRow(req[r]) \in Row /\ k \notin stored
    BY <1>5, ReqByPc, AdminRowsTyped DEF TypeOK, ReqState, CreateInsert, RowId
  <2>2. \A j \in stored \ {k} : shift'[j] = shift[j]
    BY <1>5, <2>1, InsertTyped DEF TypeOK, CreateInsert
  <2>. QED BY <2>1, <2>2, OnlyMoves
<1>6. ASSUME NEW r \in Request, PatchWrite(r) PROVE \A i \in stored : MovesEnds(i)
  <2>. DEFINE q == req[r]
  <2>1. q \in PatchState /\ PatchPending(q.id)
    BY <1>6, ReqByPc DEF TypeOK, ReqState, PatchWrite, PatchPending
  <2>2. CASE PatchBreaksIndex(q)
    BY <1>1, <1>6, <2>2 DEF PatchWrite, table
  <2>3. CASE ~PatchBreaksIndex(q) /\ q.id \in stored
    <3>1. PatchedRow(shift[q.id], q) \in Row
      BY <2>1, <2>3, AdminRowsTyped DEF TypeOK
    <3>2. \A j \in stored \ {q.id} : shift'[j] = shift[j]
      BY <1>6, <2>3, <3>1, UpdateTyped DEF TypeOK, PatchWrite
    <3>3. MovesEnds(q.id)
      BY <2>1 DEF MovesEnds
    <3>. QED BY <3>2, <3>3, OnlyMoves
  <2>4. CASE ~PatchBreaksIndex(q) /\ q.id \notin stored
    BY <1>1, <1>6, <2>4 DEF TypeOK, PatchWrite, Update, stored
  <2>. QED BY <2>2, <2>3, <2>4
<1>7. CASE AutoClose
  <2>1. ASSUME NEW i \in stored, Ended(i) PROVE shift'[i] = shift[i]
    BY <1>7, <2>1 DEF AutoClose, Overdue, Open, Ended
  <2>. QED BY <2>1 DEF MovesEnds
<1>8. CASE WorkerStep
  BY <1>8, <1>1, <1>2, <1>3, <1>4 DEF WorkerStep, OpenConflict, table
<1>9. CASE HandlerStep
  BY <1>9, <1>1, <1>5, <1>6
     DEF HandlerStep, OpenFindKey, OpenFindOpen, ConflictAnswered, table
<1>10. CASE AdminStep
  BY <1>10, <1>1 DEF AdminStep, CreateCheck, PatchRead, table
<1>11. CASE Tick \/ Forget \/ UNCHANGED vars
  BY <1>11, <1>1 DEF Tick, Forget, table, vars
<1>. QED BY <1>7, <1>8, <1>9, <1>10, <1>11 DEF LedgerNext

\* An end that is stored is moved by a resolution of a flagged shift or by an
\* administrator's PATCH, and by no retry, late close or timer (app.js, autoclose.sql).
THEOREM EndsAreFinal == Spec => EndIsFinal
<1>1. TypeOK /\ [LedgerNext]_vars =>
        [\A i \in stored :
           Ended(i) /\ shift'[i].end # shift[i].end
             => \/ Flagged(i) /\ endBy'[i] = "resolve"
                \/ PatchPending(i)]_vars
  BY EndsStep DEF MovesEnds
<1>. QED BY <1>1, TypeCorrect, NextIsLedgerNext, PTL DEF Spec, EndIsFinal

-----------------------------------------------------------------------------
(* A flagged shift is paid by a person, for any number of administrators.  *)
(* The flag on a row is never lowered, so that a PATCH carrying a guessed  *)
(* end still finds the row flagged when it writes; what it accepted when   *)
(* it read, another PATCH may have taken back by then.                     *)

ByPerson == {"resolve", "edit", "tap"}

\* Whose word the end of shift i is; a guessed end carries the flag.
KnownEnd(i) ==
    Ended(i) => endBy[i] \in ByPerson \/ (endBy[i] \in Unconfirmed /\ shift[i].auto = TRUE)

\* A PATCH that is about to write a guessed end back read it as one a person had
\* accepted, and the row is still flagged.
KnownPatch(r) ==
    req[r].pc = "update" =>
      /\ req[r].id \in stored
      /\ req[r].end # NoTime =>
           \/ req[r].by \in ByPerson
           \/ /\ req[r].by \in Unconfirmed /\ req[r].corrected = TRUE
              /\ shift[req[r].id].auto = TRUE

PersonInv == (\A i \in stored : KnownEnd(i)) /\ \A r \in Request : KnownPatch(r)

\* If shift i is paid at an end nobody supplied, a person had accepted one before.
PaidByAPerson(i) ==
    Payable(i)' /\ endBy'[i] \in Unconfirmed
      => i \in stored /\ (shift[i].corrected \/ AcceptedWhenRead(i))

\* Shift i and its flag stay.
Rises(i) == i \in stored' /\ (shift[i].auto => shift'[i].auto)

PersonStep ==
    /\ PersonInv'
    /\ \A i \in stored : Rises(i)
    /\ \A i \in stored' : PaidByAPerson(i)

\* A writer of one row other than a PATCH: what the PATCHes hold stays true.
LEMMA WriterOfOneRow ==
    ASSUME TypeOK, PersonInv, TypeOK', NEW k \in RowId,
           k \in stored',
           stored \subseteq stored', stored' \subseteq stored \cup {k},
           \A j \in stored \ {k} : shift'[j] = shift[j] /\ endBy'[j] = endBy[j],
           k \in stored => Rises(k), PaidByAPerson(k), KnownEnd(k)',
           \A r \in Request : req'[r] = req[r] \/ req'[r] = Idle
    PROVE  PersonStep
<1>1. \A j \in stored : Rises(j)
  BY DEF Rises
<1>2. \A j \in stored' \ {k} : PaidByAPerson(j)
  BY DEF PersonInv, KnownEnd, PaidByAPerson, Payable, Ended, Flagged, ByPerson, Unconfirmed
<1>3. \A j \in stored' \ {k} : KnownEnd(j)'
  BY DEF PersonInv, KnownEnd, Ended
<1>4. ASSUME NEW r \in Request PROVE KnownPatch(r)'
  <2>1. CASE req'[r] = Idle
    BY <2>1 DEF KnownPatch, Idle
  <2>2. CASE req'[r] = req[r]
    <3>1. KnownPatch(r)
      BY DEF PersonInv
    <3>2. \A j \in stored : j \in stored' /\ (shift[j].auto = TRUE => shift'[j].auto = TRUE)
      BY <1>1 DEF Rises, TypeOK, Row
    <3>. QED BY <2>2, <3>1, <3>2 DEF KnownPatch
  <2>. QED BY <2>1, <2>2
<1>. QED BY <1>1, <1>2, <1>3, <1>4 DEF PersonStep, PersonInv

\* A step that leaves the table alone: only a PATCH that reads can matter.
LEMMA ReaderOnly ==
    ASSUME TypeOK, PersonInv, UNCHANGED table,
           \A r \in Request : \/ req'[r] = req[r] \/ req'[r].pc # "update"
                              \/ KnownPatch(r)'
    PROVE  PersonStep
<1>1. UNCHANGED <<shift, endBy>> /\ stored' = stored
  BY DEF table, stored
<1>2. \A i \in stored : KnownEnd(i)' /\ PaidByAPerson(i) /\ Rises(i)
  BY <1>1 DEF PersonInv, KnownEnd, PaidByAPerson, Rises, Payable, Ended, Flagged, ByPerson,
              Unconfirmed
<1>3. \A r \in Request : KnownPatch(r)'
  BY <1>1 DEF PersonInv, KnownPatch
<1>. QED BY <1>1, <1>2, <1>3 DEF PersonStep, PersonInv

\* No step of any writer pays an end nobody supplied that nobody had accepted.
LEMMA PersonStepHolds == TypeOK /\ LedgerInv /\ PersonInv /\ [LedgerNext]_vars => PersonStep
<1>. SUFFICES ASSUME TypeOK, LedgerInv, PersonInv, [LedgerNext]_vars PROVE PersonStep
  OBVIOUS
<1>. USE LedgerAssumption
<1>0. TypeOK'
  BY TypeStep
<1>1. ASSUME NEW t \in Time, NEW w \in Worker, NEW k \in Key, NEW b \in Building,
             OpenShift(k, w, b, t)
      PROVE  PersonStep
  <2>1. k \in RowId /\ FreshShift(w, b, t) \in Row
    BY DEF FreshShift, Row, RowId
  <2>2. /\ stored' = stored \cup {k} /\ shift'[k] = FreshShift(w, b, t)
        /\ \A j \in stored \ {k} : shift'[j] = shift[j]
    BY <1>1, <2>1, InsertTyped DEF TypeOK, OpenShift, InsertOpen
  <2>3. UNCHANGED <<endBy, req>> /\ k \notin stored
    BY <1>1 DEF OpenShift, InsertOpen, Conflicts
  <2>4. KnownEnd(k)' /\ PaidByAPerson(k)
    BY <2>2 DEF KnownEnd, PaidByAPerson, Payable, Ended, FreshShift
  <2>. QED BY <1>0, <2>1, <2>2, <2>3, <2>4, WriterOfOneRow
<1>2. ASSUME NEW t \in Time, NEW w \in Worker, NEW k \in Key, NEW how, NEW p,
             CloseShift(k, w, t, how, p)
      PROVE  PersonStep
  <2>. DEFINE row == ClosedRow(shift[k], t, how)
  <2>1. k \in stored /\ k \in RowId /\ row \in Row /\ UNCHANGED req /\ Open(k)
    BY <1>2, RowsTyped DEF TypeOK, CloseShift, CloseRow
  <2>2. /\ stored' = stored /\ shift'[k] = row
        /\ \A j \in stored \ {k} : shift'[j] = shift[j]
    BY <1>2, <2>1, UpdateTyped DEF TypeOK, CloseShift, CloseRow
  <2>3. /\ row.auto = (shift[k].auto \/ how = "switch")
        /\ row.corrected = (shift[k].corrected \/ how = "stop")
    BY <2>1 DEF TypeOK, Row, ClosedRow
  <2>4. /\ endBy'[k] = (IF how = "switch" THEN "switch" ELSE "tap")
        /\ \A j \in stored \ {k} : endBy'[j] = endBy[j]
    BY <1>2, <2>1 DEF TypeOK, CloseShift, CloseRow, EndedBy
  <2>. HIDE DEF row
  <2>5. KnownEnd(k)' /\ Rises(k)
    BY <2>1, <2>2, <2>3, <2>4 DEF KnownEnd, Rises, ByPerson, Unconfirmed
  <2>6. PaidByAPerson(k)
    BY <2>1, <2>2, <2>3, <2>4
       DEF PaidByAPerson, Payable, Ended, Flagged, Unconfirmed
  <2>. QED BY <1>0, <2>1, <2>2, <2>4, <2>5, <2>6, WriterOfOneRow
<1>3. ASSUME NEW t \in Time, NEW i \in RowId, NEW w \in Worker, ResolveShift(i, w, t)
      PROVE  PersonStep
  <2>. DEFINE row == ResolvedRow(shift[i], t)
  <2>1. i \in stored /\ row \in Row /\ UNCHANGED req
    BY <1>3, RowsTyped DEF TypeOK, ResolveShift, ResolveRow
  <2>2. /\ stored' = stored /\ shift'[i] = row
        /\ \A j \in stored \ {i} : shift'[j] = shift[j]
    BY <1>3, <2>1, UpdateTyped DEF TypeOK, ResolveShift, ResolveRow
  <2>3. row.auto = shift[i].auto /\ row.corrected = TRUE
    BY <2>1 DEF TypeOK, Row, ResolvedRow
  <2>4. endBy'[i] = "resolve" /\ \A j \in stored \ {i} : endBy'[j] = endBy[j]
    BY <1>3, <2>1 DEF TypeOK, ResolveShift, ResolveRow, EndedBy
  <2>. HIDE DEF row
  <2>5. KnownEnd(i)' /\ Rises(i) /\ PaidByAPerson(i)
    BY <2>1, <2>2, <2>3, <2>4 DEF KnownEnd, Rises, PaidByAPerson, ByPerson, Unconfirmed
  <2>. QED BY <1>0, <2>1, <2>2, <2>4, <2>5, WriterOfOneRow
<1>4. ASSUME NEW r \in Request, NEW i \in Slot, CreateInsert(r, i)
      PROVE  PersonStep
  <2>1. req[r] \in CreateState /\ i \in RowId /\ HandRow(req[r]) \in Row
    BY <1>4, ReqByPc, AdminRowsTyped DEF TypeOK, ReqState, CreateInsert, RowId
  <2>2. /\ stored' = stored \cup {i} /\ i \notin stored
        /\ \A j \in stored \ {i} : shift'[j] = shift[j]
    BY <1>4, <2>1, InsertTyped DEF TypeOK, CreateInsert
  <2>3. endBy'[i] = "edit" /\ \A j \in stored : endBy'[j] = endBy[j]
    BY <1>4, <2>1, <2>2 DEF TypeOK, CreateInsert, EndedBy
  <2>4. \A q \in Request : req'[q] = req[q] \/ req'[q] = Idle
    BY <1>4 DEF TypeOK, CreateInsert
  <2>5. KnownEnd(i)' /\ PaidByAPerson(i)
    BY <2>3 DEF KnownEnd, PaidByAPerson, ByPerson, Unconfirmed
  <2>. QED BY <1>0, <2>1, <2>2, <2>3, <2>4, <2>5, WriterOfOneRow
<1>5. ASSUME NEW r \in Request, PatchWrite(r)
      PROVE  PersonStep
  <2>. DEFINE q == req[r]
              row == PatchedRow(shift[q.id], q)
  <2>1. q \in PatchState /\ q.pc = "update" /\ q.id \in stored /\ KnownPatch(r)
    BY <1>5, ReqByPc DEF TypeOK, ReqState, PatchWrite, PersonInv, KnownPatch
  <2>2. /\ req'[r] = Idle
        /\ \A a \in Request \ {r} : req'[a] = req[a]
    BY <1>5, <2>1 DEF TypeOK, PatchWrite
  <2>4. CASE PatchBreaksIndex(q)
    BY <1>5, <2>2, <2>4, ReaderOnly DEF PatchWrite, Idle
  <2>5. CASE ~PatchBreaksIndex(q)
    <3>1. row \in Row
      BY <2>1, AdminRowsTyped DEF TypeOK
    <3>2. /\ stored' = stored /\ shift'[q.id] = row
          /\ \A j \in stored \ {q.id} : shift'[j] = shift[j]
      BY <1>5, <2>1, <2>5, <3>1, UpdateTyped DEF TypeOK, PatchWrite
    <3>3. /\ row.end = q.end /\ row.corrected = q.corrected
          /\ row.auto = shift[q.id].auto
      BY <2>1 DEF TypeOK, PatchedRow, Row
    <3>4. endBy'[q.id] = q.by /\ \A j \in stored \ {q.id} : endBy'[j] = endBy[j]
      BY <1>5, <2>1, <2>5 DEF TypeOK, PatchWrite, EndedBy
    <3>5. q.end # NoTime =>
            \/ q.by \in ByPerson
            \/ /\ q.by \in Unconfirmed /\ q.corrected = TRUE
               /\ shift[q.id].auto = TRUE
      BY <2>1 DEF KnownPatch
    <3>. HIDE DEF row
    <3>6. PICK i \in stored : i = q.id
      BY <2>1
    <3>7. KnownEnd(i)'
      BY <3>2, <3>3, <3>4, <3>5, <3>6 DEF KnownEnd, Ended
    <3>8. PaidByAPerson(i) /\ Rises(i)
      <4>1. q.by \in Unconfirmed /\ q.corrected => AcceptedWhenRead(i)
        BY <2>1, <3>6 DEF AcceptedWhenRead
      <4>2. Payable(i)' /\ endBy'[i] \in Unconfirmed => q.by \in Unconfirmed /\ q.corrected
        BY <3>2, <3>3, <3>4, <3>5, <3>6 DEF Payable, Ended, ByPerson, Unconfirmed
      <4>. QED BY <3>2, <3>3, <3>6, <4>1, <4>2 DEF PaidByAPerson, Rises
    <3>9. ASSUME NEW j \in stored \ {i}
          PROVE  KnownEnd(j)' /\ PaidByAPerson(j) /\ Rises(j)
      BY <3>2, <3>4, <3>6
         DEF PersonInv, KnownEnd, PaidByAPerson, Rises, Flagged, Payable, Ended, ByPerson,
             Unconfirmed
    <3>10. ASSUME NEW a \in Request PROVE KnownPatch(a)'
      <4>1. CASE a = r
        BY <2>2, <4>1 DEF KnownPatch, Idle
      <4>2. CASE a # r
        <5>1. KnownPatch(a) /\ req'[a] = req[a]
          BY <2>2, <4>2 DEF PersonInv
        <5>2. \A j \in stored : shift[j].auto = TRUE => shift'[j].auto = TRUE
          BY <3>2, <3>3, <3>6
        <5>. QED BY <3>2, <5>1, <5>2 DEF KnownPatch
      <4>. QED BY <4>1, <4>2
    <3>. QED BY <3>2, <3>7, <3>8, <3>9, <3>10 DEF PersonStep, PersonInv
  <2>. QED BY <2>4, <2>5
<1>6. ASSUME NEW r \in Admin, NEW w \in Worker, NEW b \in Building, NEW s \in Time,
             NEW i \in RowId, NEW e \in Time \cup {NoTime}, NEW typed \in BOOLEAN,
             PatchRead(r, i, w, b, s, e, typed)
      PROVE  PersonStep
  <2>1. UNCHANGED table /\ stored' = stored /\ i \in stored /\ KnownEnd(i)
        /\ (typed \/ e = shift[i].end)
    BY <1>6 DEF PatchRead, table, stored, PersonInv
  <2>2. /\ req'[r].id = i /\ req'[r].end = e
        /\ req'[r].corrected = (shift[i].corrected \/ Resolves(i, e))
        /\ e # NoTime => req'[r].by = IF typed \/ Resolves(i, e) THEN "edit" ELSE endBy[i]
        /\ \A q \in Request \ {r} : req'[q] = req[q]
    BY <1>6 DEF TypeOK, PatchRead
  <2>3. shift[i].auto \in BOOLEAN /\ shift[i].corrected \in BOOLEAN
    BY <2>1 DEF TypeOK, Row
  <2>4. ASSUME e # NoTime, ~typed, ~Resolves(i, e), endBy[i] \notin ByPerson
        PROVE  endBy[i] \in Unconfirmed /\ shift[i].auto = TRUE /\ shift[i].corrected = TRUE
    BY <2>1, <2>3, <2>4 DEF KnownEnd, Ended, Resolves, Flagged
  <2>5. KnownPatch(r)'
    BY <2>1, <2>2, <2>4 DEF KnownPatch, ByPerson, table
  <2>. QED BY <2>1, <2>2, <2>5, ReaderOnly
<1>7. CASE AutoClose
  <2>1. stored' = stored /\ UNCHANGED req
    BY <1>7 DEF AutoClose, stored
  <2>2. ASSUME NEW j \in stored
        PROVE  KnownEnd(j)' /\ PaidByAPerson(j) /\ Rises(j)
    <3>1. /\ shift'[j] = IF Overdue(j) THEN TimedOutRow(shift[j]) ELSE shift[j]
          /\ endBy'[j] = IF Overdue(j) THEN "timer" ELSE endBy[j]
      BY <1>7 DEF AutoClose, TypeOK
    <3>2. /\ TimedOutRow(shift[j]).auto = TRUE
          /\ TimedOutRow(shift[j]).corrected = shift[j].corrected
      BY DEF TypeOK, TimedOutRow, Row
    <3>. QED BY <2>1, <3>1, <3>2
             DEF PersonInv, KnownEnd, PaidByAPerson, Rises, Flagged, Payable, Ended, ByPerson,
                 Unconfirmed
  <2>3. \A j \in stored : shift[j].auto = TRUE => shift'[j].auto = TRUE
    BY <2>2 DEF Rises, TypeOK, Row
  <2>4. \A r \in Request : KnownPatch(r)'
    BY <2>1, <2>3 DEF PersonInv, KnownPatch
  <2>. QED BY <2>1, <2>2, <2>4 DEF PersonStep, PersonInv
<1>8. ASSUME UNCHANGED table, \A r \in Request : req'[r] = req[r] \/ req'[r].pc # "update"
      PROVE  PersonStep
  BY <1>8, ReaderOnly
<1>9. CASE WorkerStep
  <2>1. ASSUME NEW t \in Time, NEW w \in Worker, NEW k \in Key, NEW r \in Request,
               OpenConflict(r, k, w, t)
        PROVE  PersonStep
    BY <1>8, <2>1 DEF OpenConflict, TypeOK
  <2>. QED BY <1>1, <1>2, <1>3, <1>9, <2>1 DEF WorkerStep
<1>10. CASE HandlerStep
  <2>1. ASSUME NEW r \in Request, OpenFindKey(r) \/ OpenFindOpen(r) \/ ConflictAnswered(r)
        PROVE  PersonStep
    <3>1. req[r] \in OpenState \cup ConflictState
      BY <2>1, ReqByPc DEF TypeOK, ReqState, OpenFindKey, OpenFindOpen, ConflictAnswered
    <3>2. /\ req'[r].pc # "update" /\ UNCHANGED table
          /\ \A q \in Request \ {r} : req'[q] = req[q]
      BY <2>1, <3>1
         DEF TypeOK, OpenFindKey, OpenFindOpen, ConflictAnswered, OpenState, ConflictState,
             Idle
    <3>. QED BY <1>8, <3>2
  <2>. QED BY <1>4, <1>5, <1>10, <2>1 DEF HandlerStep
<1>11. CASE AdminStep
  <2>1. ASSUME NEW r \in Admin, NEW w \in Worker, NEW b \in Building, NEW s \in Time,
               NEW e \in Time, CreateCheck(r, w, b, s, e)
        PROVE  PersonStep
    BY <1>8, <2>1 DEF CreateCheck, TypeOK
  <2>. QED BY <1>6, <1>11, <2>1 DEF AdminStep
<1>12. CASE Tick \/ Forget \/ UNCHANGED vars
  BY <1>8, <1>12 DEF Tick, Forget, vars, table, Idle
<1>. QED BY <1>7, <1>9, <1>10, <1>11, <1>12 DEF LedgerNext

\* Whatever workers, administrators and the timer do, an end that the timer or a declared
\* switch supplied is paid only where a person had accepted an end of that shift before,
\* and the flag stays on its row (closeShift, patchShift, autoclose.sql).
THEOREM FlaggedPaidByAPerson == Spec => FlaggedIsPaidByAPerson
<1>1. Init => PersonInv
  BY DEF Init, PersonInv, KnownPatch, stored, Idle
<1>2. TypeOK /\ LedgerInv /\ PersonInv /\ [LedgerNext]_vars => PersonInv'
  BY PersonStepHolds DEF PersonStep
<1>3. TypeOK /\ LedgerInv /\ PersonInv /\ [LedgerNext]_vars =>
        [/\ \A i \in stored : i \in stored' /\ (shift[i].auto => shift'[i].auto)
         /\ \A i \in stored' :
              Payable(i)' /\ endBy'[i] \in Unconfirmed
                => i \in stored /\ (shift[i].corrected \/ AcceptedWhenRead(i))]_vars
  BY PersonStepHolds DEF PersonStep, PaidByAPerson, Rises
<1>. QED BY <1>1, <1>2, <1>3, TypeCorrect, LedgerInvariant, NextIsLedgerNext, PTL
         DEF Spec, FlaggedIsPaidByAPerson

-----------------------------------------------------------------------------
(* ShiftLedger implements Payroll.                                         *)

\* A step that writes row i alone leaves payroll's view of every other shift.
LEMMA OtherShiftsStay ==
    ASSUME NEW i \in RowId,
           \A j \in RowId \ {i} :
             /\ j \in stored' <=> j \in stored
             /\ j \in stored => shift'[j] = shift[j]
    PROVE  /\ {p \in OnDuty' : p[2] # i} = {p \in OnDuty : p[2] # i}
           /\ \A j \in RowId \ {i} :
                /\ j \in InDoubt' <=> j \in InDoubt
                /\ j \in Paid' <=> j \in Paid
                /\ j \in Accepted' <=> j \in Accepted
<1>1. \A j \in RowId \ {i} :
        /\ Open(j)' <=> Open(j)
        /\ j \in stored => (Flagged(j)' <=> Flagged(j)) /\ (Ended(j)' <=> Ended(j))
        /\ j \in stored' => j \in stored
  BY DEF Open, Flagged, Ended
<1>2. \A p \in Worker \X RowId : p[2] # i => (p \in OnDuty' <=> p \in OnDuty)
  BY <1>1 DEF OnDuty, Open
<1>3. {p \in OnDuty' : p[2] # i} = {p \in OnDuty : p[2] # i}
  BY <1>2 DEF OnDuty
<1>4. ASSUME NEW j \in RowId \ {i}
      PROVE  /\ j \in InDoubt' <=> j \in InDoubt
             /\ j \in Paid' <=> j \in Paid
             /\ j \in Accepted' <=> j \in Accepted
  BY <1>1 DEF InDoubt, Paid, Accepted, Payable, Ended
<1>. QED BY <1>3, <1>4

\* A step that leaves the table alone is at most an edit that begins or is given up.
LEMMA TableStays == UNCHANGED table => Pay!Edit
<1>. SUFFICES ASSUME UNCHANGED table PROVE Pay!Edit
  OBVIOUS
<1>1. shift' = shift
  BY DEF table
<1>2. stored' = stored
  BY <1>1 DEF stored
<1>3. OnDuty' = OnDuty
  BY <1>1, <1>2 DEF OnDuty, Open
<1>4. InDoubt' = InDoubt
  BY <1>1, <1>2 DEF InDoubt, Ended, Flagged
<1>5. Paid' = Paid
  BY <1>1, <1>2 DEF Paid, Payable, Ended, Flagged
<1>6. Accepted' = Accepted
  BY <1>1, <1>2 DEF Accepted
<1>. QED BY <1>3, <1>4, <1>5, <1>6 DEF Pay!Edit

LEMMA InitIsInit == Init => Pay!PayrollInit
BY DEF Init, Pay!PayrollInit, OnDuty, InDoubt, Paid, Accepted, BeingEdited, Open, Ended,
       PatchPending, stored, Idle

\* A tap-in that the index lets through starts a shift.
LEMMA OpenStarts ==
    ASSUME TypeOK, NEW w \in Worker, NEW k \in Key, NEW b \in Building, NEW t \in Time,
           OpenShift(k, w, b, t)
    PROVE  Pay!Start(w, k)
<1>. DEFINE row == FreshShift(w, b, t)
<1>. USE LedgerAssumption
<1>1. k \in RowId /\ w \in Worker /\ row \in Row
  BY DEF RowId, Row, FreshShift
<1>2. /\ stored' = stored \cup {k} /\ shift'[k] = row /\ k \notin stored /\ ~HasOpen(w)
      /\ \A j \in stored \ {k} : shift'[j] = shift[j]
  BY <1>1, InsertTyped DEF OpenShift, InsertOpen, Conflicts, TypeOK
<1>3. /\ {p \in OnDuty' : p[2] # k} = {p \in OnDuty : p[2] # k}
      /\ \A j \in RowId \ {k} :
           (j \in InDoubt' <=> j \in InDoubt) /\ (j \in Paid' <=> j \in Paid)
           /\ (j \in Accepted' <=> j \in Accepted)
  BY <1>1, <1>2, OtherShiftsStay
<1>4. \A p \in Worker \X RowId : p[2] = k => (p \in OnDuty' <=> p = <<w, k>>)
  BY <1>1, <1>2 DEF OnDuty, Open, FreshShift
<1>5. \A p \in OnDuty : p[2] # k /\ p[1] # w
  BY <1>2 DEF OnDuty, Open, HasOpen
<1>6. OnDuty' = OnDuty \cup {<<w, k>>}
  BY <1>1, <1>3, <1>4, <1>5 DEF OnDuty
<1>7. k \notin InDoubt /\ k \notin Paid /\ k \notin Accepted
  BY <1>2 DEF InDoubt, Paid, Accepted
<1>8. k \notin InDoubt' /\ k \notin Paid' /\ k \notin Accepted'
  BY <1>2 DEF InDoubt, Paid, Accepted, Payable, Ended, FreshShift
<1>9. InDoubt' = InDoubt /\ Paid' = Paid /\ Accepted' = Accepted
  <2>1. /\ InDoubt \subseteq RowId /\ Paid \subseteq RowId /\ Accepted \subseteq RowId
        /\ InDoubt' \subseteq RowId /\ Paid' \subseteq RowId /\ Accepted' \subseteq RowId
    BY <1>1, <1>2 DEF InDoubt, Paid, Accepted, TypeOK
  <2>2. ASSUME NEW j \in RowId
        PROVE  (j \in InDoubt' <=> j \in InDoubt) /\ (j \in Paid' <=> j \in Paid)
               /\ (j \in Accepted' <=> j \in Accepted)
    BY <1>3, <1>7, <1>8
  <2>. QED BY <2>1, <2>2
<1>10. BeingEdited' = BeingEdited
  BY DEF OpenShift, BeingEdited, PatchPending
<1>. QED BY <1>5, <1>6, <1>7, <1>9, <1>10 DEF Pay!Start, Pay!Known, Pay!OnShift

\* What payroll sees when row i alone is rewritten as an ended row.
LEMMA RowEnds ==
    ASSUME TypeOK, NEW i \in stored, NEW row \in Row, Update(i, row), row.end # NoTime
    PROVE  /\ OnDuty' = {p \in OnDuty : p[2] # i}
           /\ InDoubt' = IF row.auto /\ ~row.corrected
                         THEN InDoubt \cup {i} ELSE InDoubt \ {i}
           /\ Paid' = IF row.auto /\ ~row.corrected THEN Paid \ {i} ELSE Paid \cup {i}
           /\ Accepted' = IF row.corrected THEN Accepted \cup {i} ELSE Accepted \ {i}
<1>1. i \in RowId /\ stored' = stored /\ shift'[i] = row
      /\ \A j \in stored \ {i} : shift'[j] = shift[j]
  BY UpdateTyped DEF TypeOK
<1>2. /\ {p \in OnDuty' : p[2] # i} = {p \in OnDuty : p[2] # i}
      /\ \A j \in RowId \ {i} :
           (j \in InDoubt' <=> j \in InDoubt) /\ (j \in Paid' <=> j \in Paid)
           /\ (j \in Accepted' <=> j \in Accepted)
  BY <1>1, OtherShiftsStay
<1>3. \A p \in OnDuty' : p[2] # i
  BY <1>1 DEF OnDuty, Open
<1>4. OnDuty' = {p \in OnDuty : p[2] # i}
  BY <1>2, <1>3
<1>5. /\ i \in InDoubt' <=> row.auto /\ ~row.corrected
      /\ i \in Paid' <=> ~(row.auto /\ ~row.corrected)
      /\ i \in Accepted' <=> row.corrected
  BY <1>1 DEF InDoubt, Paid, Accepted, Payable, Ended, Flagged
<1>6. /\ InDoubt \subseteq RowId /\ Paid \subseteq RowId /\ Accepted \subseteq RowId
      /\ InDoubt' \subseteq RowId /\ Paid' \subseteq RowId /\ Accepted' \subseteq RowId
  BY <1>1 DEF InDoubt, Paid, Accepted, TypeOK
<1>. QED BY <1>1, <1>2, <1>4, <1>5, <1>6

\* A worker's open row is the pair payroll knows, and is neither in doubt nor paid.
LEMMA OpenIsOnDuty ==
    ASSUME TypeOK, NEW i \in stored, Open(i)
    PROVE  /\ <<shift[i].worker, i>> \in OnDuty /\ shift[i].worker \in Worker /\ i \in RowId
           /\ {p \in OnDuty : p[2] # i} = OnDuty \ {<<shift[i].worker, i>>}
           /\ i \notin InDoubt /\ i \notin Paid
<1>1. shift[i].worker \in Worker /\ i \in RowId
  BY DEF TypeOK, Row
<1>2. \A p \in OnDuty : p[2] = i <=> p = <<shift[i].worker, i>>
  BY <1>1 DEF OnDuty
<1>. QED BY <1>1, <1>2 DEF OnDuty, InDoubt, Paid, Payable, Ended, Open

\* A tap-out, a switch or a Stop ends the shift its worker is on.
LEMMA CloseFinishes ==
    ASSUME TypeOK, NEW w \in Worker, NEW k \in Key, NEW e \in Time, NEW how, NEW place,
           CloseShift(k, w, e, how, place)
    PROVE  Pay!Finish(w, k)
<1>. DEFINE row == ClosedRow(shift[k], e, how)
<1>1. k \in stored /\ Open(k) /\ shift[k].worker = w /\ Update(k, row)
      /\ shift[k] \in Row /\ row \in Row
  BY RowsTyped DEF CloseShift, CloseRow, TypeOK
<1>2. row.end # NoTime /\ row.corrected = (shift[k].corrected \/ how = "stop")
  BY <1>1 DEF ClosedRow, Row, Time, NoTime
<1>3. <<w, k>> \in OnDuty /\ {p \in OnDuty : p[2] # k} = OnDuty \ {<<w, k>>}
      /\ k \notin InDoubt /\ k \notin Paid
  BY <1>1, OpenIsOnDuty
<1>4. k \in Accepted => row.corrected
  BY <1>1, <1>2 DEF Accepted
<1>5. BeingEdited' = BeingEdited
  BY DEF CloseShift, BeingEdited, PatchPending
<1>6. /\ OnDuty' = OnDuty \ {<<w, k>>}
      /\ \/ InDoubt' = InDoubt \cup {k} /\ Paid' = Paid
         \/ Paid' = Paid \cup {k} /\ InDoubt' = InDoubt
      /\ Accepted' = IF row.corrected THEN Accepted \cup {k} ELSE Accepted \ {k}
  <2>. HIDE DEF row
  <2>1. /\ OnDuty' = {p \in OnDuty : p[2] # k}
        /\ InDoubt' = IF row.auto /\ ~row.corrected
                      THEN InDoubt \cup {k} ELSE InDoubt \ {k}
        /\ Paid' = IF row.auto /\ ~row.corrected THEN Paid \ {k} ELSE Paid \cup {k}
        /\ Accepted' = IF row.corrected THEN Accepted \cup {k} ELSE Accepted \ {k}
    BY <1>1, <1>2, RowEnds
  <2>2. OnDuty' = OnDuty \ {<<w, k>>}
    BY <1>3, <2>1
  <2>3. InDoubt \ {k} = InDoubt /\ Paid \ {k} = Paid
    BY <1>3
  <2>4. \/ InDoubt' = InDoubt \cup {k} /\ Paid' = Paid
        \/ Paid' = Paid \cup {k} /\ InDoubt' = InDoubt
    <3>1. CASE row.auto /\ ~row.corrected
      BY <2>1, <2>3, <3>1
    <3>2. CASE ~(row.auto /\ ~row.corrected)
      BY <2>1, <2>3, <3>2
    <3>. QED BY <3>1, <3>2
  <2>. QED BY <2>1, <2>2, <2>4
<1>7. Accepted \subseteq Accepted' /\ Accepted' \subseteq Accepted \cup {k}
  BY <1>4, <1>6
<1>. QED BY <1>3, <1>5, <1>6, <1>7 DEF Pay!Finish

\* A resolution settles an end that was in doubt; of a flagged shift that an
\* administrator reopened it is the worker's end.
LEMMA ResolveSettles ==
    ASSUME TypeOK, NEW i \in RowId, NEW w \in Worker, NEW e \in Time, ResolveShift(i, w, e)
    PROVE  Pay!Confirm(i) \/ Pay!Finish(w, i)
<1>. DEFINE row == ResolvedRow(shift[i], e)
<1>1. i \in stored /\ shift[i].worker = w /\ Flagged(i) /\ Update(i, row)
      /\ shift[i] \in Row /\ row \in Row
  BY RowsTyped DEF ResolveShift, ResolveRow, TypeOK
<1>2. row.end # NoTime /\ row.corrected
  BY <1>1 DEF ResolvedRow, Row, Time, NoTime
<1>3. BeingEdited' = BeingEdited
  BY DEF ResolveShift, BeingEdited, PatchPending
<1>4. CASE Open(i)
  <2>1. <<w, i>> \in OnDuty /\ {p \in OnDuty : p[2] # i} = OnDuty \ {<<w, i>>}
        /\ i \notin InDoubt /\ i \notin Paid
    BY <1>1, <1>4, OpenIsOnDuty
  <2>2. /\ OnDuty' = OnDuty \ {<<w, i>>} /\ Paid' = Paid \cup {i} /\ InDoubt' = InDoubt
        /\ Accepted' = Accepted \cup {i}
    <3>. HIDE DEF row
    <3>1. /\ OnDuty' = {p \in OnDuty : p[2] # i}
          /\ InDoubt' = InDoubt \ {i} /\ Paid' = Paid \cup {i}
          /\ Accepted' = Accepted \cup {i}
      BY <1>1, <1>2, RowEnds
    <3>. QED BY <2>1, <3>1
  <2>. QED BY <1>3, <2>1, <2>2 DEF Pay!Finish
<1>5. CASE ~Open(i)
  <2>1. i \in InDoubt
    BY <1>1, <1>5 DEF InDoubt, Open, Ended
  <2>2. {p \in OnDuty : p[2] # i} = OnDuty
    BY <1>5 DEF OnDuty
  <2>. QED BY <1>1, <1>2, <1>3, <2>1, <2>2, RowEnds DEF Pay!Confirm
<1>. QED BY <1>4, <1>5

\* An administrator's new row is a finished shift.
LEMMA CreateEnters ==
    ASSUME TypeOK, LedgerInv, NEW r \in Request, NEW i \in Slot, CreateInsert(r, i)
    PROVE  Pay!Enter(i)
<1>. DEFINE row == HandRow(req[r])
<1>1. req[r] \in CreateState /\ row \in Row /\ i \in RowId
  BY ReqByPc, AdminRowsTyped DEF CreateInsert, TypeOK, ReqState, RowId
<1>2. /\ stored' = stored \cup {i} /\ shift'[i] = row /\ i \notin stored
      /\ \A j \in stored \ {i} : shift'[j] = shift[j]
  BY <1>1, InsertTyped DEF CreateInsert, TypeOK
<1>3. row.end # NoTime /\ ~row.auto /\ ~row.corrected
  BY <1>1 DEF HandRow, CreateState, Time, NoTime
<1>4. /\ {p \in OnDuty' : p[2] # i} = {p \in OnDuty : p[2] # i}
      /\ \A j \in RowId \ {i} :
           (j \in InDoubt' <=> j \in InDoubt) /\ (j \in Paid' <=> j \in Paid)
           /\ (j \in Accepted' <=> j \in Accepted)
  BY <1>1, <1>2, OtherShiftsStay
<1>. HIDE DEF row
<1>5. (\A p \in OnDuty : p[2] # i) /\ (\A p \in OnDuty' : p[2] # i)
  BY <1>2, <1>3 DEF OnDuty, Open
<1>6. /\ i \notin InDoubt /\ i \notin Paid /\ i \notin Accepted
      /\ i \notin InDoubt' /\ i \in Paid' /\ i \notin Accepted'
  BY <1>2, <1>3 DEF InDoubt, Paid, Accepted, Payable, Ended, Flagged
<1>7. /\ InDoubt \subseteq RowId /\ Paid \subseteq RowId /\ Accepted \subseteq RowId
      /\ InDoubt' \subseteq RowId /\ Paid' \subseteq RowId /\ Accepted' \subseteq RowId
  BY <1>1, <1>2 DEF InDoubt, Paid, Accepted, TypeOK
<1>8. OnDuty' = OnDuty /\ InDoubt' = InDoubt /\ Paid' = Paid \cup {i} /\ Accepted' = Accepted
  BY <1>1, <1>4, <1>5, <1>6, <1>7
<1>9. BeingEdited' = BeingEdited
  <2>1. \A j \in RowId : PatchPending(j)' <=> PatchPending(j)
    BY DEF CreateInsert, PatchPending, TypeOK, Idle
  <2>. QED BY <2>1 DEF BeingEdited
<1>. QED BY <1>5, <1>6, <1>8, <1>9 DEF Pay!Enter, Pay!Known, Pay!OnShift

\* The timer's UPDATE ends every shift it finds overdue, and pays for none whose
\* end no person ever accepted.
LEMMA TimerTimesOut ==
    ASSUME TypeOK, AutoClose
    PROVE  \E pairs \in SUBSET OnDuty : Pay!TimeOut(pairs)
<1>. DEFINE late == {i \in stored : Overdue(i)}
            pairs == {p \in OnDuty : p[2] \in late}
<1>1. /\ stored' = stored /\ stored \subseteq RowId /\ late # {}
      /\ \A i \in stored : shift[i] \in Row
      /\ \A i \in stored :
           shift'[i] = IF Overdue(i) THEN TimedOutRow(shift[i]) ELSE shift[i]
  BY DEF AutoClose, TypeOK, stored
<1>2. \A i \in late : Open(i) /\ Ended(i)' /\ shift'[i].auto
                      /\ shift'[i].corrected = shift[i].corrected
  <2>1. ASSUME NEW i \in late
        PROVE  Open(i) /\ Ended(i)' /\ shift'[i].auto
               /\ shift'[i].corrected = shift[i].corrected
    <3>1. Overdue(i) /\ shift'[i] = TimedOutRow(shift[i]) /\ shift[i] \in Row
      BY <1>1
    <3>2. /\ shift'[i].end = shift[i].start + Window /\ shift[i].start \in 0 .. MaxTime
          /\ shift'[i].auto /\ shift'[i].corrected = shift[i].corrected
      BY <3>1 DEF TimedOutRow, Row, Time
    <3>3. shift'[i].end # NoTime
      BY <3>2, LedgerAssumption DEF NoTime
    <3>. QED BY <1>1, <3>1, <3>2, <3>3 DEF Overdue, Ended
  <2>. QED BY <2>1
<1>3. \A i \in RowId \ late : (i \in stored' <=> i \in stored)
                              /\ (i \in stored => shift'[i] = shift[i])
  BY <1>1
<1>4. \A p \in OnDuty : p \in pairs <=> p \notin OnDuty'
  BY <1>2, <1>3 DEF OnDuty, Open, Ended
<1>5. \A p \in OnDuty' : p \in OnDuty
  BY <1>2, <1>3 DEF OnDuty, Open, Ended
<1>6. OnDuty' = OnDuty \ pairs
  BY <1>4, <1>5
<1>7. {p[2] : p \in pairs} = late
  <2>1. ASSUME NEW i \in late PROVE \E p \in pairs : p[2] = i
    <3>1. <<shift[i].worker, i>> \in OnDuty
      BY <1>2, OpenIsOnDuty
    <3>. QED BY <3>1
  <2>. QED BY <2>1
<1>8. /\ InDoubt' = InDoubt \cup (late \ Accepted)
      /\ Paid' = Paid \cup (late \cap Accepted)
      /\ Accepted' = Accepted
  <2>1. ASSUME NEW i \in stored
        PROVE  /\ i \in InDoubt' <=> i \in InDoubt \cup (late \ Accepted)
               /\ i \in Paid' <=> i \in Paid \cup (late \cap Accepted)
               /\ i \in Accepted' <=> i \in Accepted
    <3>1. CASE i \in late
      BY <1>1, <1>2, <3>1 DEF InDoubt, Paid, Accepted, Payable, Ended, Flagged, Open
    <3>2. CASE i \notin late
      BY <1>1, <1>3, <3>2 DEF InDoubt, Paid, Accepted, Payable, Ended, Flagged
    <3>. QED BY <3>1, <3>2
  <2>2. /\ InDoubt \subseteq stored /\ Paid \subseteq stored /\ Accepted \subseteq stored
        /\ InDoubt' \subseteq stored /\ Paid' \subseteq stored /\ Accepted' \subseteq stored
    BY <1>1 DEF InDoubt, Paid, Accepted
  <2>. QED BY <2>1, <2>2
<1>9. BeingEdited' = BeingEdited
  BY DEF AutoClose, BeingEdited, PatchPending
<1>10. pairs # {}
  BY <1>1, <1>7
<1>11. pairs \in SUBSET OnDuty
  OBVIOUS
<1>12. Pay!TimeOut(pairs)
  <2>. HIDE DEF pairs, late
  <2>. QED BY <1>6, <1>7, <1>8, <1>9, <1>10, <1>11 DEF Pay!TimeOut
<1>. QED BY <1>11, <1>12

\* A PATCH writes the one shift its handler read, and leaves its worker on one
\* shift at most.
LEMMA PatchAmends ==
    ASSUME TypeOK, LedgerInv, OneOpenPerWorker', NEW r \in Request, PatchWrite(r)
    PROVE  Pay!Edit \/ Pay!Amend(req[r].id)
<1>. DEFINE q == req[r]
            i == req[r].id
            row == PatchedRow(shift[i], q)
<1>1. q \in PatchState /\ i \in stored /\ i \in RowId
  BY ReqByPc DEF PatchWrite, TypeOK, ReqState, PatchState, LedgerInv, HandlersHoldSaneValues
<1>2. CASE PatchBreaksIndex(q)
  <2>1. UNCHANGED table
    BY <1>2 DEF PatchWrite
  <2>. QED BY <2>1, TableStays
<1>3. CASE ~PatchBreaksIndex(q)
  <2>1. row \in Row /\ row.worker = q.worker /\ q.worker \in Worker
    <3>1. shift[i] \in Row /\ row \in Row
      BY <1>1, AdminRowsTyped DEF TypeOK
    <3>. QED BY <1>1, <3>1 DEF PatchedRow, PatchState, Row
  <2>2. /\ stored' = stored /\ shift'[i] = row
        /\ \A j \in stored \ {i} : shift'[j] = shift[j]
    BY <1>1, <1>3, <2>1, UpdateTyped DEF PatchWrite, TypeOK
  <2>3. /\ {p \in OnDuty' : p[2] # i} = {p \in OnDuty : p[2] # i}
        /\ \A j \in RowId \ {i} :
             (j \in InDoubt' <=> j \in InDoubt) /\ (j \in Paid' <=> j \in Paid)
             /\ (j \in Accepted' <=> j \in Accepted)
    BY <1>1, <2>2, OtherShiftsStay
  <2>. HIDE DEF row
  <2>4. \A p \in OnDuty' : p[2] = i => p = <<q.worker, i>>
    BY <2>1, <2>2 DEF OnDuty
  <2>5. LET others == {p \in OnDuty : p[2] # i}
        IN  OnDuty' \in {others, others \cup {<<q.worker, i>>}}
    <3>1. CASE <<q.worker, i>> \in OnDuty'
      BY <2>3, <2>4, <3>1
    <3>2. CASE <<q.worker, i>> \notin OnDuty'
      BY <2>3, <2>4, <3>2
    <3>. QED BY <3>1, <3>2
  <2>6. Pay!Single(OnDuty')
    <3>1. ASSUME NEW a \in OnDuty', NEW c \in OnDuty', a[1] = c[1] PROVE a = c
      <4>1. /\ a \in Worker \X RowId /\ c \in Worker \X RowId
            /\ Open(a[2])' /\ Open(c[2])' /\ a[2] \in stored' /\ c[2] \in stored'
            /\ shift'[a[2]].worker = a[1] /\ shift'[c[2]].worker = c[1]
        BY DEF OnDuty, Open
      <4>2. a[2] = c[2]
        BY <3>1, <4>1 DEF OneOpenPerWorker
      <4>. QED BY <3>1, <4>1, <4>2
    <3>. QED BY <3>1 DEF Pay!Single
  <2>7. /\ InDoubt \ {i} = InDoubt' \ {i} /\ Paid \ {i} = Paid' \ {i}
        /\ Accepted \ {i} = Accepted' \ {i}
    <3>1. /\ InDoubt \subseteq RowId /\ Paid \subseteq RowId /\ Accepted \subseteq RowId
          /\ InDoubt' \subseteq RowId /\ Paid' \subseteq RowId /\ Accepted' \subseteq RowId
      BY <2>2 DEF InDoubt, Paid, Accepted, TypeOK
    <3>. QED BY <2>3, <3>1
  <2>8. i \in BeingEdited /\ BeingEdited' \subseteq BeingEdited
    <3>1. PatchPending(i)
      BY DEF PatchWrite, PatchPending
    <3>2. \A j \in RowId : PatchPending(j)' => PatchPending(j)
      BY DEF PatchWrite, PatchPending, TypeOK, Idle
    <3>. QED BY <1>1, <3>1, <3>2 DEF BeingEdited
  <2>. QED BY <2>1, <2>5, <2>6, <2>7, <2>8 DEF Pay!Amend
<1>. QED BY <1>2, <1>3

-----------------------------------------------------------------------------
\* Every step of every writer is a step of Payroll, or changes nothing it sees.
LEMMA StepIsStep ==
    TypeOK /\ LedgerInv /\ OneOpenPerWorker' /\ [LedgerNext]_vars => [Pay!PayrollNext]_(Pay!pvars)
<1> SUFFICES ASSUME TypeOK, LedgerInv, OneOpenPerWorker', [LedgerNext]_vars
             PROVE  [Pay!PayrollNext]_(Pay!pvars)
  OBVIOUS
<1>. USE LedgerAssumption
<1>1. ASSUME NEW t \in Time, NEW w \in Worker, NEW k \in Key, NEW b \in Building,
             OpenShift(k, w, b, t)
      PROVE  Pay!PayrollNext
  <2>1. k \in RowId
    BY DEF RowId
  <2>. QED BY <1>1, <2>1, OpenStarts DEF Pay!PayrollNext
<1>2. ASSUME NEW t \in Time, NEW w \in Worker, NEW k \in Key, NEW how, NEW p,
             CloseShift(k, w, t, how, p)
      PROVE  Pay!PayrollNext
  <2>1. k \in RowId
    BY DEF RowId
  <2>. QED BY <1>2, <2>1, CloseFinishes DEF Pay!PayrollNext
<1>3. ASSUME NEW t \in Time, NEW i \in RowId, NEW w \in Worker, ResolveShift(i, w, t)
      PROVE  Pay!PayrollNext
  BY <1>3, ResolveSettles DEF Pay!PayrollNext
<1>4. ASSUME NEW r \in Request, NEW i \in Slot, CreateInsert(r, i)
      PROVE  Pay!PayrollNext
  <2>1. i \in RowId
    BY DEF RowId
  <2>. QED BY <1>4, <2>1, CreateEnters DEF Pay!PayrollNext
<1>5. ASSUME NEW r \in Request, PatchWrite(r)
      PROVE  Pay!PayrollNext
  <2>1. req[r].id \in RowId
    BY <1>5, ReqByPc DEF PatchWrite, TypeOK, ReqState, PatchState
  <2>. QED BY <1>5, <2>1, PatchAmends DEF Pay!PayrollNext
<1>6. CASE AutoClose
  BY <1>6, TimerTimesOut DEF Pay!PayrollNext
<1>7. UNCHANGED table => Pay!PayrollNext
  BY TableStays DEF Pay!PayrollNext
<1>8. CASE WorkerStep
  <2>1. (\E t \in Time, w \in Worker, k \in Key, r \in Request : OpenConflict(r, k, w, t))
          => UNCHANGED table
    BY DEF OpenConflict
  <2>2. CASE \E t \in Time, w \in Worker, k \in Key, b \in Building : OpenShift(k, w, b, t)
    BY <1>1, <2>2
  <2>3. CASE \E t \in Time, w \in Worker, k \in Key, how \in {"tap", "switch", "stop"},
               p \in Building \cup {None} : CloseShift(k, w, t, how, p)
    BY <1>2, <2>3
  <2>4. CASE \E t \in Time, i \in RowId, w \in Worker : ResolveShift(i, w, t)
    BY <1>3, <2>4
  <2>. QED BY <1>7, <1>8, <2>1, <2>2, <2>3, <2>4 DEF WorkerStep
<1>9. CASE HandlerStep
  <2>1. ASSUME NEW r \in Request, OpenFindKey(r) \/ OpenFindOpen(r) \/ ConflictAnswered(r)
        PROVE  UNCHANGED table
    BY <2>1 DEF OpenFindKey, OpenFindOpen, ConflictAnswered
  <2>. QED BY <1>4, <1>5, <1>7, <1>9, <2>1 DEF HandlerStep
<1>10. AdminStep => UNCHANGED table
  BY DEF AdminStep, CreateCheck, PatchRead
<1>11. Tick \/ Forget \/ UNCHANGED vars => UNCHANGED table
  BY DEF Tick, Forget, vars, table
<1>. QED BY <1>6, <1>7, <1>8, <1>9, <1>10, <1>11 DEF LedgerNext

\* ShiftLedger implements Payroll: no interleaving of the tap path, its retries,
\* the timer and an administrator's two-transaction PATCH takes a paid shift back,
\* reopens an ended one or pays a guessed end, other than the edit of that shift.
THEOREM LedgerImplementsPayroll == Spec => ImplementsPayroll
<1>1. TypeOK /\ LedgerInv /\ OneOpenPerWorker' /\ [LedgerNext]_vars => [Pay!PayrollNext]_(Pay!pvars)
  BY StepIsStep
<1>2. Spec => []TypeOK /\ []LedgerInv /\ []OneOpenPerWorker
  BY TypeCorrect, LedgerInvariant, OneOpen
<1>. QED BY <1>1, <1>2, InitIsInit, NextIsLedgerNext, PTL
         DEF Spec, ImplementsPayroll, Pay!PayrollSpec

=============================================================================
