---------------------------- MODULE MaterialProofs ----------------------------
(***************************************************************************)
(* Proofs about MaterialRequests and MaterialOutbox, for any number of     *)
(* workers, administrators, entries and rows.                              *)
(***************************************************************************)
EXTENDS MaterialOutbox, FiniteSetTheorems, TLAPS

-----------------------------------------------------------------------------
(* The server                                                              *)

\* A PATCH under way names a row, asked for a legal move from the status it read, and
\* had it read a spend, the row has its month: months are never taken away.
EditIsSound(a) ==
    edit[a] # Idle =>
      /\ edit[a] \in Edit /\ edit[a].id \in ids
      /\ edit[a].status \in {edit[a].from} \cup Transitions[edit[a].from]
      /\ edit[a].from \in Spend => requests[edit[a].id].ordered # None

RowIsSound(id) ==
    /\ requests[id].status \in Spend => requests[id].ordered # None
    /\ requests[id].status = "arrived" => requests[id].arrived
    /\ requests[id].seen => requests[id].arrived
    /\ requests[id].arrived => requests[id].ordered # None

ServerInv ==
    /\ ServerTypeOK
    /\ \A a \in Admin : EditIsSound(a)
    /\ \A id \in ids : RowIsSound(id)

\* Whatever happens to the server's rows, also from a phone.
FileStep == \E w \in Worker, i \in Item : File(w, i)
OtherStep ==
    \/ \E w \in Worker, id \in ids : MarkSeen(w, id)
    \/ OfficeStep
    \/ UNCHANGED serverVars

LEMMA ServerInitHolds == ServerInit => ServerInv
BY MaterialAssumption
   DEF ServerInit, ServerInv, ServerTypeOK, Month, EditIsSound, RowIsSound, Idle, ids

LEMMA ArrivedWasOrdered ==
    ASSUME NEW from \in Status, NEW to \in {from} \cup Transitions[from]
    PROVE  /\ to \in Status
           /\ to = "arrived" => from \in Spend
BY DEF Status, Transitions, Spend

LEMMA FileKeeps ==
    ASSUME ServerInv, NEW w \in Worker, NEW i \in Item, File(w, i)
    PROVE  /\ ServerInv'
           /\ ids' = ids \cup {Len(requests) + 1} /\ Len(requests) + 1 \notin ids
           /\ \A id \in ids : requests'[id] = requests[id]
           /\ requests'[Len(requests) + 1].item = i /\ requests'[Len(requests) + 1].worker = w
<1>1. /\ requests \in Seq(Request) /\ Len(requests) < MaxRequests
      /\ requests' = Append(requests, Filed(w, i)) /\ UNCHANGED <<month, edit>>
  BY DEF ServerInv, ServerTypeOK, File
<1>2. Filed(w, i) \in Request
  BY DEF Filed, Request, Status
<1>3. /\ requests' \in Seq(Request) /\ Len(requests') = Len(requests) + 1
      /\ ids = 1 .. Len(requests) /\ ids' = 1 .. Len(requests) + 1
      /\ \A id \in ids : requests'[id] = requests[id]
      /\ requests'[Len(requests) + 1] = Filed(w, i)
  BY <1>1, <1>2 DEF ids
<1>4. Len(requests) \in Nat
  BY <1>1
<1>5. ServerTypeOK'
  BY <1>1, <1>3, <1>4, MaterialAssumption DEF ServerInv, ServerTypeOK
<1>6. \A a \in Admin : EditIsSound(a)'
  BY <1>1, <1>3, <1>4 DEF ServerInv, EditIsSound
<1>7. \A id \in ids' : RowIsSound(id)'
  BY <1>3, <1>4 DEF ServerInv, RowIsSound, Filed, Spend
<1>. QED BY <1>3, <1>4, <1>5, <1>6, <1>7 DEF ServerInv, Filed

\* One PATCH's UPDATE: the row keeps whose it is and what it is for, and a month it has.
LEMMA PatchedRow ==
    ASSUME ServerInv, NEW a \in Admin, edit[a] # Idle, NEW r, r = requests[edit[a].id]
    PROVE  /\ Patched(r, edit[a]) \in Request
           /\ Patched(r, edit[a]).status = edit[a].status
           /\ Patched(r, edit[a]).item = r.item /\ Patched(r, edit[a]).worker = r.worker
           /\ r.ordered # None => Patched(r, edit[a]).ordered = r.ordered
           /\ edit[a].status \in Spend => Patched(r, edit[a]).ordered # None
           /\ edit[a].status = "arrived" => Patched(r, edit[a]).arrived
           /\ Patched(r, edit[a]).seen => Patched(r, edit[a]).arrived
           /\ Patched(r, edit[a]).arrived => Patched(r, edit[a]).ordered # None
<1>1. edit[a] \in Edit /\ edit[a].id \in ids /\ r \in Request /\ month \in Month
  BY DEF ServerInv, ServerTypeOK, EditIsSound, ids
<1>2. RowIsSound(edit[a].id) /\ None \notin Month
  BY <1>1, MaterialAssumption DEF ServerInv
<1>3. edit[a].status \in Status /\ (edit[a].status = "arrived" => r.ordered # None)
  BY <1>1, ArrivedWasOrdered DEF ServerInv, EditIsSound, Edit
<1>. QED BY <1>1, <1>2, <1>3 DEF RowIsSound, Patched, Request, Spend

LEMMA OneRowChanges ==
    ASSUME NEW rows \in Seq(Request), NEW id \in DOMAIN rows, NEW r \in Request
    PROVE  LET new == [rows EXCEPT ![id] = r] IN
           /\ new \in Seq(Request) /\ Len(new) = Len(rows) /\ DOMAIN new = DOMAIN rows
           /\ \A d \in DOMAIN rows : new[d] = IF d = id THEN r ELSE rows[d]
OBVIOUS

\* No step but a filing adds a row or changes what a row is for; a month stays, and the
\* status follows the table unless the PATCH that writes had read another one.
LEMMA OtherKeeps ==
    ASSUME ServerInv, OtherStep
    PROVE  /\ ServerInv' /\ ids' = ids
           /\ \A id \in ids :
                /\ requests'[id].item = requests[id].item
                /\ requests'[id].worker = requests[id].worker
                /\ requests[id].ordered # None => requests'[id].ordered = requests[id].ordered
                /\ \/ requests'[id].status \in
                        {requests[id].status} \cup Transitions[requests[id].status]
                   \/ \E a \in Admin : /\ edit[a].id = id /\ edit'[a] = Idle
                                       /\ edit[a].from # requests[id].status
<1>1. ASSUME NEW w \in Worker, NEW id \in ids, MarkSeen(w, id)
      PROVE  /\ ServerInv' /\ ids' = ids
             /\ \A d \in ids : /\ requests'[d].item = requests[d].item
                               /\ requests'[d].worker = requests[d].worker
                               /\ requests'[d].ordered = requests[d].ordered
                               /\ requests'[d].status = requests[d].status
  <2>. DEFINE r == [requests[id] EXCEPT !.seen = TRUE]
  <2>1. requests \in Seq(Request) /\ requests[id] \in Request /\ r \in Request
    <3>1. requests \in Seq(Request) /\ requests[id] \in Request
      BY <1>1 DEF ServerInv, ServerTypeOK, ids
    <3>. QED BY <3>1 DEF Request
  <2>2. requests' = [requests EXCEPT ![id] = r] /\ UNCHANGED <<month, edit>>
    BY <1>1 DEF MarkSeen
  <2>3. /\ r.item = requests[id].item /\ r.worker = requests[id].worker
        /\ r.ordered = requests[id].ordered
        /\ r.status = requests[id].status /\ r.arrived = requests[id].arrived
    BY <2>1 DEF Request
  <2>. HIDE DEF r
  <2>4. /\ requests' \in Seq(Request) /\ Len(requests') = Len(requests) /\ ids' = ids
        /\ \A d \in ids : requests'[d] = IF d = id THEN r ELSE requests[d]
    BY <2>1, <2>2, OneRowChanges DEF ids
  <2>5. requests[id].arrived
    BY <1>1 DEF MarkSeen, ServerInv, RowIsSound
  <2>6. ServerTypeOK'
    BY <2>2, <2>4 DEF ServerInv, ServerTypeOK
  <2>7. \A a \in Admin : EditIsSound(a)'
    BY <2>2, <2>3, <2>4 DEF ServerInv, EditIsSound
  <2>8. \A d \in ids : RowIsSound(d)'
    BY <2>3, <2>4, <2>5 DEF ServerInv, RowIsSound
  <2>. QED BY <2>3, <2>4, <2>6, <2>7, <2>8 DEF ServerInv
<1>2. ASSUME NEW a \in Admin, NEW id \in ids, NEW next \in Status \cup {None},
             PatchRead(a, id, next)
      PROVE  ServerInv' /\ UNCHANGED requests
  <2>. DEFINE from == requests[id].status
              e == [id |-> id, from |-> from, status |-> IF next = None THEN from ELSE next]
  <2>1. UNCHANGED <<month, requests>> /\ edit' = [edit EXCEPT ![a] = e] /\ Legal(from, next)
    BY <1>2 DEF PatchRead
  <2>2. from \in Status /\ id \in 1 .. MaxRequests
    <3>1. requests \in Seq(Request) /\ Len(requests) <= MaxRequests /\ MaxRequests \in Nat
      BY MaterialAssumption DEF ServerInv, ServerTypeOK
    <3>2. requests[id] \in Request /\ id \in 1 .. Len(requests)
      BY <3>1 DEF ids
    <3>. QED BY <3>1, <3>2 DEF Request
  <2>3. e.status \in {from} \cup Transitions[from]
    BY <2>1, <2>2 DEF Legal
  <2>4. e \in Edit
    BY <2>2, <2>3, ArrivedWasOrdered DEF Edit
  <2>5. e.from \in Spend => requests[id].ordered # None
    BY DEF ServerInv, RowIsSound
  <2>. HIDE DEF e, from
  <2>6. e.id = id /\ e.from = from
    BY DEF e
  <2>7. ServerTypeOK'
    BY <2>1, <2>4 DEF ServerInv, ServerTypeOK
  <2>8. \A b \in Admin : EditIsSound(b)'
    BY <2>1, <2>3, <2>4, <2>5, <2>6 DEF ServerInv, ServerTypeOK, EditIsSound, ids
  <2>. QED BY <2>1, <2>7, <2>8 DEF ServerInv, RowIsSound, ids
<1>3. ASSUME NEW a \in Admin, PatchWrite(a)
      PROVE  /\ ServerInv' /\ ids' = ids
             /\ \A d \in ids :
                  /\ requests'[d].item = requests[d].item
                  /\ requests'[d].worker = requests[d].worker
                  /\ requests[d].ordered # None => requests'[d].ordered = requests[d].ordered
                  /\ \/ requests'[d].status \in
                          {requests[d].status} \cup Transitions[requests[d].status]
                     \/ /\ edit[a].id = d /\ edit'[a] = Idle
                        /\ edit[a].from # requests[d].status
  <2>. DEFINE id == edit[a].id
              r == Patched(requests[id], edit[a])
  <2>1. /\ edit[a] # Idle /\ edit[a] \in Edit /\ id \in ids
        /\ requests' = [requests EXCEPT ![id] = r]
        /\ edit' = [edit EXCEPT ![a] = Idle] /\ UNCHANGED month
    BY <1>3 DEF PatchWrite, ServerInv, EditIsSound
  <2>2. /\ r \in Request /\ r.status = edit[a].status /\ r.item = requests[id].item
        /\ r.worker = requests[id].worker
        /\ requests[id].ordered # None => r.ordered = requests[id].ordered
        /\ r.status \in Spend => r.ordered # None
        /\ r.status = "arrived" => r.arrived
        /\ r.seen => r.arrived
        /\ r.arrived => r.ordered # None
    BY <2>1, PatchedRow
  <2>. HIDE DEF r
  <2>3. /\ requests' \in Seq(Request) /\ Len(requests') = Len(requests) /\ ids' = ids
        /\ \A d \in ids : requests'[d] = IF d = id THEN r ELSE requests[d]
    BY <2>1, <2>2, OneRowChanges DEF ServerInv, ServerTypeOK, ids
  <2>4. /\ \A b \in Admin : edit'[b] = IF b = a THEN Idle ELSE edit[b]
        /\ edit' \in [Admin -> {Idle} \cup Edit]
    BY <2>1 DEF ServerInv, ServerTypeOK
  <2>5. ServerTypeOK'
    BY <2>1, <2>3, <2>4 DEF ServerInv, ServerTypeOK
  <2>6. \A b \in Admin : EditIsSound(b)'
    BY <2>2, <2>3, <2>4 DEF ServerInv, EditIsSound
  <2>7. \A d \in ids : RowIsSound(d)'
    BY <2>2, <2>3 DEF ServerInv, RowIsSound
  <2>8. r.status \in {edit[a].from} \cup Transitions[edit[a].from]
    BY <2>1, <2>2 DEF ServerInv, EditIsSound
  <2>. QED BY <2>2, <2>3, <2>4, <2>5, <2>6, <2>7, <2>8 DEF ServerInv
<1>4. CASE Restart
  <2>1. /\ UNCHANGED <<month, requests>> /\ \A a \in Admin : edit'[a] = Idle
        /\ edit' \in [Admin -> {Idle} \cup Edit]
    BY <1>4 DEF Restart
  <2>. QED BY <2>1 DEF ServerInv, ServerTypeOK, EditIsSound, RowIsSound, ids
<1>5. CASE NextMonth
  <2>1. UNCHANGED <<requests, edit>> /\ month' \in Month
    BY <1>5, MaterialAssumption DEF NextMonth, ServerInv, ServerTypeOK, Month
  <2>. QED BY <2>1 DEF ServerInv, ServerTypeOK, EditIsSound, RowIsSound, ids
<1>6. CASE UNCHANGED serverVars
  BY <1>6 DEF serverVars, ServerInv, ServerTypeOK, EditIsSound, RowIsSound, ids
<1>7. CASE OfficeStep
  <2>1. ASSUME NEW a \in Admin, NEW id \in ids, NEW next \in Status \cup {None},
               PatchRead(a, id, next)
        PROVE  ServerInv' /\ UNCHANGED requests
    BY <2>1, <1>2
  <2>. QED BY <1>7, <2>1, <1>3, <1>4, <1>5 DEF OfficeStep, ids
<1>. QED BY <1>1, <1>6, <1>7 DEF OtherStep

-----------------------------------------------------------------------------
(* The phone                                                               *)

Known(i) == \E t \in authors : t.item = i

\* A pass has rows of its own worker in hand; the one whose POST is out is among them.
PassIsSound(p) ==
    pass[p] # Resting =>
      /\ \A i \in pass[p].todo : [item |-> i, worker |-> pass[p].as] \in authors
      /\ Out(p) => pass[p].row \in pass[p].todo
      /\ pass[p].landed => Out(p) /\ pass[p].cookie # None /\ Copies(pass[p].row) # {}

OneRuns == \A p, q \in Pass : pass[p] # Resting /\ pass[q] # Resting => p = q

PhoneInv ==
    /\ OutboxTypeOK /\ IsFiniteSet(late)
    /\ OneRuns
    /\ \A p \in Pass : PassIsSound(p)
    /\ \A i \in DOMAIN outbox : [item |-> i, worker |-> outbox[i].worker] \in authors
    /\ \A i \in Item : Copies(i) # {} => Known(i)
    /\ \A m \in late : Known(m.item)
    /\ NothingWrittenIsLost

\* An entry whose POST has landed and is being answered, or that is done with, may be
\* at the server once more than the phone was left in doubt.
Settled(i) ==
    \/ \E p \in Pass : Out(p) /\ pass[p].row = i /\ pass[p].landed
    \/ i \notin DOMAIN outbox /\ \A p \in Pass : pass[p] = Resting \/ i \notin pass[p].todo

Queued(i) == {m \in late : m.item = i}

\* The copies at the server and those still under way are accounted for.
Accounted(i) ==
    Cardinality(Copies(i)) + Cardinality(Queued(i)) <= inDoubt[i] + (IF Settled(i) THEN 1 ELSE 0)

Inv == ServerInv /\ PhoneInv /\ \A i \in Item : Accounted(i)

LEMMA Restless ==
    ASSUME NEW r \in {Resting} \cup Pushing
    PROVE  /\ r # Resting <=> r \in Pushing
           /\ r.pc = "wait" => r \in Pushing
           /\ r.pc = "plan" => r \in Pushing
           /\ r.pc = "send" => r \in Pushing
BY DEF Resting, Pushing

LEMMA Typing ==
    ASSUME OutboxTypeOK, NEW t
    PROVE  typed' = Append(typed, t) /\ t \in [item : Item, worker : Worker] =>
             typed' \in Seq([item : Item, worker : Worker]) /\ authors' = authors \cup {t}
<1>. SUFFICES ASSUME typed' = Append(typed, t), t \in [item : Item, worker : Worker]
              PROVE  typed' \in Seq([item : Item, worker : Worker]) /\ authors' = authors \cup {t}
  OBVIOUS
<1>. DEFINE T == [item : Item, worker : Worker]
<1>1. typed \in Seq(T)
  BY DEF OutboxTypeOK
<1>. HIDE DEF T
<1>2. /\ typed' \in Seq(T) /\ DOMAIN typed' = 1 .. Len(typed) + 1 /\ Len(typed) \in Nat
      /\ DOMAIN typed = 1 .. Len(typed) /\ typed'[Len(typed) + 1] = t
      /\ \A n \in 1 .. Len(typed) : typed'[n] = typed[n]
  BY <1>1 DEF T
<1>3. authors' = authors \cup {t}
  BY <1>2 DEF authors
<1>. QED BY <1>2, <1>3 DEF T

\* The server's part of every step.
LEMMA ServerPart ==
    ASSUME Inv, [Next]_vars
    PROVE  FileStep \/ OtherStep
<1>1. ASSUME NEW p \in Pass, Land(p) PROVE FileStep
  <2>1. pass[p] \in Pushing /\ pass[p].row \in pass[p].todo
    BY <1>1, Restless DEF Inv, PhoneInv, OutboxTypeOK, PassIsSound, Land, Out
  <2>2. pass[p].cookie \in Worker /\ pass[p].row \in Item
    BY <1>1, <2>1 DEF Land, Pushing
  <2>. QED BY <1>1, <2>2 DEF Land, FileStep
<1>2. ASSUME NEW m \in late, LandLate(m) PROVE FileStep
  BY <1>2 DEF LandLate, FileStep, Inv, PhoneInv, OutboxTypeOK
<1>3. ASSUME NEW id \in ids, Acknowledge(id) PROVE OtherStep
  <2>1. session \in Worker
    BY <1>3 DEF Acknowledge, Inv, PhoneInv, OutboxTypeOK
  <2>. QED BY <1>3, <2>1 DEF Acknowledge, OtherStep
<1>4. CASE UNCHANGED serverVars
  BY <1>4 DEF OtherStep
<1>5. CASE OfficeStep
  BY <1>5 DEF OtherStep
<1>6. CASE \E p \in Pass : PassStep(p)
  <2>. PICK p \in Pass : PassStep(p)
    BY <1>6
  <2>1. CASE Land(p)
    BY <2>1, <1>1
  <2>2. CASE ~Land(p)
    BY <2>2, <1>4 DEF PassStep, Begin, Plan, Send, Heard, Finish, StopPass, RetryLater, Block,
                      Unavailable
  <2>. QED BY <2>1, <2>2
<1>7. CASE UNCHANGED vars
  BY <1>7, <1>4 DEF vars
<1>8. CASE \E w \in Worker : SignIn(w)
  BY <1>8, <1>4 DEF SignIn
<1>9. CASE SignOut \/ StartMaterials \/ Submit \/ Die
  BY <1>9, <1>4 DEF SignOut, StartMaterials, Submit, Die
<1>10. CASE (\E w \in Worker : Adopt(w)) \/ (\E w \in Worker, i \in Item : Enqueue(w, i))
  BY <1>10, <1>4 DEF Adopt, Enqueue
<1>. QED BY <1>2, <1>3, <1>5, <1>6, <1>7, <1>8, <1>9, <1>10 DEF Next

\* What the phone's invariant depends on at the server: the entries' copies.
LEMMA CopiesGrow ==
    ASSUME Inv
    PROVE  /\ \A w \in Worker, i \in Item : File(w, i) =>
                /\ ServerInv'
                /\ \A j \in Item \ {i} : Copies(j)' = Copies(j)
                /\ Copies(i)' # {}
                /\ Cardinality(Copies(i)') = Cardinality(Copies(i)) + 1
           /\ OtherStep => ServerInv' /\ \A j \in Item : Copies(j)' = Copies(j)
           /\ \A j \in Item : IsFiniteSet(Copies(j)) /\ Cardinality(Copies(j)) \in Nat
           /\ \A j \in Item : IsFiniteSet(Queued(j)) /\ Cardinality(Queued(j)) \in Nat
<1>1. \A j \in Item : IsFiniteSet(Copies(j)) /\ Cardinality(Copies(j)) \in Nat
  <2>1. Len(requests) \in Nat /\ ids = 1 .. Len(requests)
    BY DEF Inv, ServerInv, ServerTypeOK, ids
  <2>2. IsFiniteSet(ids)
    BY <2>1, FS_Interval
  <2>. QED BY <2>2, FS_Subset, FS_CardinalityType DEF Copies
<1>2. \A j \in Item : IsFiniteSet(Queued(j)) /\ Cardinality(Queued(j)) \in Nat
  BY FS_Subset, FS_CardinalityType DEF Queued, Inv, PhoneInv
<1>3. ASSUME NEW w \in Worker, NEW i \in Item, File(w, i)
      PROVE  /\ ServerInv'
             /\ \A j \in Item \ {i} : Copies(j)' = Copies(j)
             /\ Copies(i)' # {}
             /\ Cardinality(Copies(i)') = Cardinality(Copies(i)) + 1
  <2>. DEFINE n == Len(requests) + 1
  <2>1. /\ ServerInv' /\ ids' = ids \cup {n} /\ n \notin ids
        /\ \A id \in ids : requests'[id] = requests[id]
        /\ requests'[n].item = i
    BY <1>3, FileKeeps DEF Inv
  <2>. HIDE DEF n
  <2>2. \A j \in Item \ {i} : Copies(j)' = Copies(j)
    BY <2>1 DEF Copies
  <2>3. Copies(i)' = Copies(i) \cup {n} /\ n \notin Copies(i)
    BY <2>1 DEF Copies
  <2>4. Cardinality(Copies(i) \cup {n}) = Cardinality(Copies(i)) + 1
    BY <1>1, <2>3, FS_AddElement
  <2>. QED BY <2>1, <2>2, <2>3, <2>4
<1>4. ASSUME OtherStep PROVE ServerInv' /\ \A j \in Item : Copies(j)' = Copies(j)
  BY <1>4, OtherKeeps DEF Copies, Inv
<1>. QED BY <1>1, <1>2, <1>3, <1>4

LEMMA AuthorsType ==
    ASSUME Inv
    PROVE  authors \subseteq [item : Item, worker : Worker] /\ \A t \in authors : t.item \in Item
<1>. DEFINE T == [item : Item, worker : Worker]
<1>1. typed \in Seq(T)
  BY DEF Inv, PhoneInv, OutboxTypeOK
<1>2. \A t \in T : t.item \in Item
  OBVIOUS
<1>. HIDE DEF T
<1>3. authors \subseteq T
  BY <1>1 DEF authors
<1>. QED BY <1>2, <1>3 DEF T

\* A step of pass p that files nothing and leaves p at x.
PassMoves(p, x) ==
    /\ UNCHANGED <<session, typed, dropped>> /\ OtherStep
    /\ x \in {Resting} \cup Pushing /\ pass' = [pass EXCEPT ![p] = x]
    /\ x # Resting =>
         /\ pass[p] # Resting \/ \A q \in Pass : pass[q] = Resting
         /\ ~x.landed
         /\ x.pc = "wait" => x.row \in x.todo
         /\ \A i \in x.todo :
              /\ [item |-> i, worker |-> x.as] \in authors
              /\ i \in DOMAIN outbox \/ (pass[p] # Resting /\ i \in pass[p].todo)
    /\ DOMAIN outbox' \subseteq DOMAIN outbox
    /\ outbox' \in [DOMAIN outbox' -> [worker : Worker, blocked : BOOLEAN]]
    /\ \A i \in DOMAIN outbox' : outbox'[i].worker = outbox[i].worker
    /\ \A i \in DOMAIN outbox \ DOMAIN outbox' : Copies(i) # {}
    /\ UNCHANGED <<late, inDoubt>> \/ (Out(p) /\ Doubt(p))
    /\ Out(p) /\ pass[p].landed =>
         \/ Doubt(p)
         \/ pass[p].row \notin DOMAIN outbox' /\ (x = Resting \/ pass[p].row \notin x.todo)

LEMMA DoubtFacts ==
    ASSUME Inv, NEW p \in Pass, Out(p), Doubt(p)
    PROVE  /\ pass[p].row \in Item /\ pass[p].row \in pass[p].todo /\ pass[p] \in Pushing
           /\ Known(pass[p].row)
           /\ inDoubt' \in [Item -> Nat] /\ inDoubt'[pass[p].row] = inDoubt[pass[p].row] + 1
           /\ \A j \in Item \ {pass[p].row} : inDoubt'[j] = inDoubt[j]
           /\ pass[p].landed => late' = late
           /\ ~pass[p].landed =>
                \E m \in [item : {pass[p].row}, worker : Worker, nth : Nat] : late' = late \cup {m}
<1>1. pass[p] \in Pushing /\ pass[p].row \in pass[p].todo
  BY Restless DEF Inv, PhoneInv, OutboxTypeOK, PassIsSound, Out
<1>2. pass[p].row \in Item /\ pass[p].cookie \in Worker /\ pass[p].landed \in BOOLEAN
  BY <1>1 DEF Pushing, Doubt
<1>3. Known(pass[p].row)
  <2>. DEFINE t == [item |-> pass[p].row, worker |-> pass[p].as]
  <2>1. t \in authors
    BY <1>1, Restless DEF Inv, PhoneInv, PassIsSound
  <2>2. t.item = pass[p].row
    OBVIOUS
  <2>. QED BY <2>1, <2>2 DEF Known
<1>4. inDoubt \in [Item -> Nat]
  BY DEF Inv, PhoneInv, OutboxTypeOK
<1>5. /\ inDoubt' \in [Item -> Nat] /\ inDoubt'[pass[p].row] = inDoubt[pass[p].row] + 1
      /\ \A j \in Item \ {pass[p].row} : inDoubt'[j] = inDoubt[j]
  BY <1>2, <1>4 DEF Doubt
<1>6. pass[p].landed => late' = late
  BY DEF Doubt
<1>7. ASSUME ~pass[p].landed
      PROVE  \E m \in [item : {pass[p].row}, worker : Worker, nth : Nat] : late' = late \cup {m}
  <2>. DEFINE m == [item |-> pass[p].row, worker |-> pass[p].cookie, nth |-> inDoubt[pass[p].row]]
  <2>1. m \in [item : {pass[p].row}, worker : Worker, nth : Nat]
    BY <1>2, <1>4
  <2>2. late' = late \cup {m}
    BY <1>7 DEF Doubt
  <2>. QED BY <2>1, <2>2
<1>. QED BY <1>1, <1>2, <1>3, <1>5, <1>6, <1>7

\* Only a pass that is left in doubt about a row unsettles it.
LEMMA StaysSettled ==
    ASSUME Inv, NEW p \in Pass, NEW x, PassMoves(p, x), NEW j \in Item, Settled(j)
    PROVE  Settled(j)' \/ (Out(p) /\ Doubt(p) /\ pass[p].row = j)
<1>1. /\ \A q \in Pass : pass'[q] = IF q = p THEN x ELSE pass[q]
      /\ pass'[p] = x
  BY DEF PassMoves, Inv, PhoneInv, OutboxTypeOK
<1>2. ASSUME NEW q \in Pass, Out(q), pass[q].row = j, pass[q].landed
      PROVE  Settled(j)' \/ (Out(p) /\ Doubt(p) /\ pass[p].row = j)
  <2>1. CASE q # p
    BY <1>1, <1>2, <2>1 DEF Settled, Out
  <2>2. CASE q = p /\ ~Doubt(p)
    <3>1. j \notin DOMAIN outbox' /\ (x = Resting \/ j \notin x.todo)
      BY <1>2, <2>2 DEF PassMoves
    <3>2. \A r \in Pass : r = p \/ pass[r] = Resting
      BY <1>2, <2>2, Restless DEF Inv, PhoneInv, OutboxTypeOK, OneRuns, Out, Resting
    <3>. QED BY <1>1, <3>1, <3>2 DEF Settled
  <2>. QED BY <1>2, <2>1, <2>2
<1>3. ASSUME j \notin DOMAIN outbox, \A q \in Pass : pass[q] = Resting \/ j \notin pass[q].todo
      PROVE  Settled(j)'
  <2>1. j \notin DOMAIN outbox' /\ (x = Resting \/ j \notin x.todo)
    BY <1>3 DEF PassMoves
  <2>. QED BY <1>1, <1>3, <2>1 DEF Settled
<1>. QED BY <1>2, <1>3 DEF Settled

LEMMA MovesKeepAccounts ==
    ASSUME Inv, NEW p \in Pass, NEW x, PassMoves(p, x), NEW j \in Item
    PROVE  Accounted(j)'
<1>1. /\ Copies(j)' = Copies(j) /\ Cardinality(Copies(j)) \in Nat
      /\ IsFiniteSet(Queued(j)) /\ Cardinality(Queued(j)) \in Nat
      /\ Accounted(j) /\ inDoubt[j] \in Nat
  BY CopiesGrow DEF PassMoves, Inv, PhoneInv, OutboxTypeOK
<1>2. CASE UNCHANGED <<late, inDoubt>> /\ ~(Out(p) /\ Doubt(p))
  <2>1. Queued(j)' = Queued(j) /\ inDoubt'[j] = inDoubt[j]
    BY <1>2 DEF Queued
  <2>2. Settled(j) => Settled(j)'
    BY <1>2, StaysSettled
  <2>. QED BY <1>1, <2>1, <2>2 DEF Accounted
<1>3. CASE Out(p) /\ Doubt(p) /\ j # pass[p].row
  <2>1. Queued(j)' = Queued(j)
    BY <1>3, DoubtFacts DEF Queued
  <2>2. inDoubt'[j] = inDoubt[j]
    BY <1>3, DoubtFacts
  <2>3. Settled(j) => Settled(j)'
    BY <1>3, StaysSettled
  <2>. QED BY <1>1, <2>1, <2>2, <2>3 DEF Accounted
<1>4. CASE Out(p) /\ Doubt(p) /\ j = pass[p].row
  <2>1. inDoubt'[j] = inDoubt[j] + 1 /\ j \in pass[p].todo /\ pass[p] # Resting
    BY <1>4, DoubtFacts, Restless
  <2>2. CASE pass[p].landed
    <3>1. Queued(j)' = Queued(j)
      BY <1>4, <2>2, DoubtFacts DEF Queued
    <3>. QED BY <1>1, <2>1, <3>1 DEF Accounted
  <2>3. CASE ~pass[p].landed
    <3>1. ~Settled(j)
      BY <1>4, <2>1, <2>3, Restless DEF Settled, Inv, PhoneInv, OutboxTypeOK, OneRuns, Out, Resting
    <3>2. PICK m : late' = late \cup {m} /\ m.item = j
      BY <1>4, <2>3, DoubtFacts
    <3>3. Queued(j)' = Queued(j) \cup {m}
      BY <3>2 DEF Queued
    <3>. DEFINE Q == Queued(j)
    <3>4. IsFiniteSet(Q) /\ Cardinality(Q) \in Nat
      BY <1>1
    <3>. HIDE DEF Q
    <3>5. Cardinality(Q \cup {m}) = IF m \in Q THEN Cardinality(Q) ELSE Cardinality(Q) + 1
      BY <3>4, FS_AddElement
    <3>. USE DEF Q
    <3>. QED BY <1>1, <2>1, <3>1, <3>3, <3>4, <3>5 DEF Accounted
  <2>. QED BY <2>2, <2>3
<1>. QED BY <1>2, <1>3, <1>4 DEF PassMoves

LEMMA MovesKeepPhone ==
    ASSUME Inv, NEW p \in Pass, NEW x, PassMoves(p, x)
    PROVE  PhoneInv'
<1>1. /\ pass \in [Pass -> {Resting} \cup Pushing]
      /\ pass' \in [Pass -> {Resting} \cup Pushing]
      /\ \A q \in Pass : pass'[q] = IF q = p THEN x ELSE pass[q]
  BY DEF PassMoves, Inv, PhoneInv, OutboxTypeOK
<1>2. /\ authors' = authors /\ ServerInv'
      /\ \A j \in Item : Copies(j)' = Copies(j) /\ (Known(j) <=> Known(j)')
  BY CopiesGrow DEF PassMoves, authors, Known
<1>3. /\ late' \subseteq [item : Item, worker : Worker, nth : Nat]
      /\ inDoubt' \in [Item -> Nat] /\ IsFiniteSet(late') /\ \A m \in late' : Known(m.item)
  <2>1. CASE UNCHANGED <<late, inDoubt>>
    BY <2>1 DEF Inv, PhoneInv, OutboxTypeOK
  <2>2. CASE Out(p) /\ Doubt(p)
    <3>1. CASE pass[p].landed
      BY <2>2, <3>1, DoubtFacts DEF Inv, PhoneInv, OutboxTypeOK
    <3>2. CASE ~pass[p].landed
      <4>1. PICK m \in [item : {pass[p].row}, worker : Worker, nth : Nat] : late' = late \cup {m}
        BY <2>2, <3>2, DoubtFacts
      <4>2. m.item = pass[p].row /\ m \in [item : Item, worker : Worker, nth : Nat]
        BY <2>2, DoubtFacts
      <4>3. IsFiniteSet(late \cup {m})
        BY FS_AddElement DEF Inv, PhoneInv
      <4>4. Known(pass[p].row) /\ inDoubt' \in [Item -> Nat]
        BY <2>2, DoubtFacts
      <4>. QED BY <4>1, <4>2, <4>3, <4>4 DEF Inv, PhoneInv, OutboxTypeOK
    <3>. QED BY <3>1, <3>2
  <2>. QED BY <2>1, <2>2 DEF PassMoves
<1>4. \A m \in late' : Known(m.item)'
  BY <1>2, <1>3
<1>5. OutboxTypeOK'
  BY <1>1, <1>2, <1>3 DEF PassMoves, Inv, PhoneInv, OutboxTypeOK, ServerInv
<1>6. OneRuns'
  BY <1>1 DEF PassMoves, Inv, PhoneInv, OneRuns
<1>7. ASSUME NEW q \in Pass PROVE PassIsSound(q)'
  <2>1. CASE q = p
    BY <1>1, <1>2, <2>1 DEF PassMoves, PassIsSound, Out
  <2>2. CASE q # p
    <3>1. pass'[q] = pass[q] /\ PassIsSound(q)
      BY <1>1, <2>2 DEF Inv, PhoneInv
    <3>2. pass[q] # Resting => pass[q].todo \subseteq Item
      BY <1>1, Restless DEF Pushing
    <3>. QED BY <1>2, <3>1, <3>2 DEF PassIsSound, Out
  <2>. QED BY <2>1, <2>2
<1>8. \A i \in DOMAIN outbox' : [item |-> i, worker |-> outbox'[i].worker] \in authors'
  BY <1>2 DEF PassMoves, Inv, PhoneInv
<1>9. \A i \in Item : Copies(i)' # {} => Known(i)'
  BY <1>2 DEF Inv, PhoneInv
<1>10. NothingWrittenIsLost'
  <2>1. \A t \in authors : t.item \in Item
    BY AuthorsType
  <2>. QED BY <1>2, <2>1 DEF NothingWrittenIsLost, PassMoves, Inv, PhoneInv
<1>. QED BY <1>3, <1>4, <1>5, <1>6, <1>7, <1>8, <1>9, <1>10 DEF PhoneInv

LEMMA MovesKeepInv ==
    ASSUME Inv, NEW p \in Pass, NEW x, PassMoves(p, x)
    PROVE  Inv'
BY MovesKeepPhone, MovesKeepAccounts, CopiesGrow DEF Inv, PassMoves

LEMMA MarkedRows ==
    ASSUME Inv, NEW S, NEW b \in BOOLEAN, outbox' = Marked(S, b)
    PROVE  /\ DOMAIN outbox' = DOMAIN outbox
           /\ outbox' \in [DOMAIN outbox' -> [worker : Worker, blocked : BOOLEAN]]
           /\ \A i \in DOMAIN outbox' : outbox'[i].worker = outbox[i].worker
<1>1. outbox \in [DOMAIN outbox -> [worker : Worker, blocked : BOOLEAN]]
  BY DEF Inv, PhoneInv, OutboxTypeOK
<1>2. \A i \in DOMAIN outbox :
        /\ [outbox[i] EXCEPT !.blocked = b] \in [worker : Worker, blocked : BOOLEAN]
        /\ [outbox[i] EXCEPT !.blocked = b].worker = outbox[i].worker
  BY <1>1
<1>. QED BY <1>1, <1>2 DEF Marked

\* A row whose POST was answered leaves the outbox.
LEMMA RowLeaves ==
    ASSUME Inv, NEW j, outbox' = [i \in DOMAIN outbox \ {j} |-> outbox[i]]
    PROVE  /\ DOMAIN outbox' = DOMAIN outbox \ {j}
           /\ outbox' \in [DOMAIN outbox' -> [worker : Worker, blocked : BOOLEAN]]
           /\ \A i \in DOMAIN outbox' : outbox'[i].worker = outbox[i].worker
BY DEF Inv, PhoneInv, OutboxTypeOK

LEMMA RunningPass ==
    ASSUME Inv, NEW p \in Pass, pass[p] # Resting
    PROVE  /\ pass[p] \in Pushing /\ pass[p].todo \subseteq Item /\ pass[p].as \in Worker
           /\ \A i \in pass[p].todo : [item |-> i, worker |-> pass[p].as] \in authors
           /\ Out(p) => pass[p].row \in pass[p].todo
           /\ pass[p].landed => Out(p) /\ pass[p].cookie # None /\ Copies(pass[p].row) # {}
<1>1. pass[p] \in Pushing
  BY Restless DEF Inv, PhoneInv, OutboxTypeOK
<1>2. pass[p].todo \subseteq Item /\ pass[p].as \in Worker
  BY <1>1 DEF Pushing
<1>. QED BY <1>1, <1>2 DEF Inv, PhoneInv, PassIsSound

LEMMA MovedPass ==
    ASSUME Inv, NEW p \in Pass, pass[p] # Resting
    PROVE  \E x \in Pushing :
             /\ Moved(p) = [pass EXCEPT ![p] = x] /\ x # Resting /\ ~x.landed
             /\ x.as = pass[p].as /\ x.pc = "send" /\ x.todo = pass[p].todo \ {pass[p].row}
<1>. DEFINE r == pass[p]
            x == [r EXCEPT !.pc = "send", !.todo = @ \ {r.row},
                           !.row = None, !.cookie = None, !.landed = FALSE]
<1>1. r \in Pushing
  BY RunningPass
<1>2. x \in Pushing /\ ~x.landed /\ x.as = r.as /\ x.pc = "send" /\ x.todo = r.todo \ {r.row}
  BY <1>1 DEF Pushing
<1>3. x # Resting
  BY <1>2 DEF Resting
<1>4. Moved(p) = [pass EXCEPT ![p] = x]
  BY DEF Moved
<1>. QED BY <1>2, <1>3, <1>4

\* The process dies while p runs.
Killed(p) == Cut(p) /\ UNCHANGED <<serverVars, session, outbox, typed, dropped>>

\* Every step of a pass but the landing of its POST is such a move.
LEMMA StepsAreMoves ==
    ASSUME Inv, NEW p \in Pass, (PassStep(p) /\ ~Land(p)) \/ Killed(p)
    PROVE  \E x : PassMoves(p, x)
<1>. DEFINE Row == [worker : Worker, blocked : BOOLEAN]
<1>1. /\ outbox \in [DOMAIN outbox -> Row] /\ DOMAIN outbox \subseteq Item
      /\ \A i \in DOMAIN outbox : [item |-> i, worker |-> outbox[i].worker] \in authors
  BY DEF Inv, PhoneInv, OutboxTypeOK
<1>2. ASSUME Stopped(p) = pass', UNCHANGED <<session, typed, dropped, serverVars>>,
             DOMAIN outbox' = DOMAIN outbox, outbox' \in [DOMAIN outbox' -> Row],
             \A i \in DOMAIN outbox' : outbox'[i].worker = outbox[i].worker,
             UNCHANGED <<late, inDoubt>> \/ (Out(p) /\ Doubt(p)),
             ~pass[p].landed \/ ~Out(p) \/ Doubt(p)
      PROVE  PassMoves(p, Resting)
  BY <1>2 DEF PassMoves, Stopped, OtherStep
<1>3. CASE Begin(p)
  <2>. DEFINE x == [pc |-> "plan", as |-> session, todo |-> {},
                    row |-> None, cookie |-> None, landed |-> FALSE]
  <2>1. session \in Worker /\ pass[p] = Resting /\ ~Out(p)
    BY <1>3 DEF Begin, Inv, PhoneInv, OutboxTypeOK, Out, Resting
  <2>2. x \in Pushing
    BY <2>1 DEF Pushing
  <2>3. pass' = [pass EXCEPT ![p] = x] /\ UNCHANGED <<serverVars, session, outbox, late, typed,
                                                       inDoubt, dropped>>
        /\ \A q \in Pass : pass[q] = Resting
    BY <1>3 DEF Begin
  <2>4. x.todo = {} /\ ~x.landed /\ x.pc = "plan"
    OBVIOUS
  <2>. HIDE DEF x
  <2>5. PassMoves(p, x)
    BY <1>1, <2>1, <2>2, <2>3, <2>4 DEF PassMoves, OtherStep
  <2>. QED BY <2>5
<1>4. CASE Plan(p)
  <2>. DEFINE r == pass[p]
              x == [r EXCEPT !.pc = "send", !.todo = Sends(r.as)]
  <2>1. r # Resting /\ ~Out(p)
    BY <1>4 DEF Plan, Out, Resting
  <2>2. r \in Pushing /\ ~r.landed
    BY <2>1, RunningPass
  <2>3. Sends(r.as) \subseteq DOMAIN outbox /\ Sends(r.as) \subseteq Item
        /\ \A i \in Sends(r.as) : outbox[i].worker = r.as
    BY <1>1 DEF Sends
  <2>4. /\ x \in Pushing /\ ~x.landed /\ x.pc = "send" /\ x.todo = Sends(r.as) /\ x.as = r.as
    BY <2>2, <2>3 DEF Pushing
  <2>5. pass' = [pass EXCEPT ![p] = x] /\ UNCHANGED <<serverVars, session, late, typed, inDoubt,
                                                       dropped>>
    BY <1>4 DEF Plan
  <2>6. /\ DOMAIN outbox' = DOMAIN outbox /\ outbox' \in [DOMAIN outbox' -> Row]
        /\ \A i \in DOMAIN outbox' : outbox'[i].worker = outbox[i].worker
    BY <1>4, MarkedRows DEF Plan
  <2>7. \A i \in x.todo : [item |-> i, worker |-> x.as] \in authors
    BY <1>1, <2>3, <2>4
  <2>. HIDE DEF x
  <2>8. PassMoves(p, x)
    BY <2>1, <2>3, <2>4, <2>5, <2>6, <2>7 DEF PassMoves, OtherStep
  <2>. QED BY <2>8
<1>5. ASSUME NEW i \in Item, Send(p, i) PROVE \E x : PassMoves(p, x)
  <2>. DEFINE r == pass[p]
              x == [r EXCEPT !.pc = "wait", !.row = i, !.cookie = session]
  <2>1. r # Resting /\ ~Out(p) /\ i \in r.todo
    BY <1>5 DEF Send, Out, Resting
  <2>2. r \in Pushing /\ ~r.landed /\ session \in Worker \cup {None}
    BY <2>1, RunningPass DEF Inv, PhoneInv, OutboxTypeOK
  <2>3. /\ x \in Pushing /\ ~x.landed /\ x.todo = r.todo /\ x.as = r.as /\ x.row = i
    BY <2>2 DEF Pushing
  <2>4. pass' = [pass EXCEPT ![p] = x] /\ UNCHANGED <<serverVars, session, outbox, late, typed,
                                                       inDoubt, dropped>>
    BY <1>5 DEF Send
  <2>5. \A j \in x.todo : [item |-> j, worker |-> x.as] \in authors
    BY <2>1, <2>3, RunningPass
  <2>. HIDE DEF x
  <2>6. PassMoves(p, x)
    BY <1>1, <2>1, <2>3, <2>4, <2>5 DEF PassMoves, OtherStep
  <2>. QED BY <2>6
<1>6. ASSUME Out(p), pass' = Moved(p), UNCHANGED <<session, typed, dropped, serverVars>>,
             DOMAIN outbox' \subseteq DOMAIN outbox, outbox' \in [DOMAIN outbox' -> Row],
             \A i \in DOMAIN outbox' : outbox'[i].worker = outbox[i].worker,
             \A i \in DOMAIN outbox \ DOMAIN outbox' : Copies(i) # {},
             UNCHANGED <<late, inDoubt>> \/ Doubt(p),
             pass[p].landed => Doubt(p) \/ pass[p].row \notin DOMAIN outbox'
      PROVE  \E x : PassMoves(p, x)
  <2>1. pass[p] # Resting
    BY <1>6 DEF Out, Resting
  <2>2. PICK x \in Pushing :
             /\ pass' = [pass EXCEPT ![p] = x] /\ x # Resting /\ ~x.landed
             /\ x.as = pass[p].as /\ x.pc = "send" /\ x.todo = pass[p].todo \ {pass[p].row}
    BY <1>6, <2>1, MovedPass
  <2>3. \A i \in x.todo : [item |-> i, worker |-> x.as] \in authors
    BY <2>1, <2>2, RunningPass
  <2>4. PassMoves(p, x)
    BY <1>6, <2>1, <2>2, <2>3 DEF PassMoves, OtherStep
  <2>. QED BY <2>4
<1>7. CASE Heard(p)
  <2>1. Copies(pass[p].row) # {}
    BY <1>7, RunningPass DEF Heard, Out, Resting
  <2>. QED BY <1>6, <1>7, <2>1, RowLeaves DEF Heard
<1>8. CASE StopPass(p)
  BY <1>2, <1>8, MarkedRows DEF StopPass, NotHeard
<1>9. CASE RetryLater(p)
  BY <1>6, <1>9, MarkedRows DEF RetryLater, NotHeard
<1>10. CASE Block(p)
  BY <1>6, <1>10, MarkedRows DEF Block
<1>11. CASE Unavailable(p)
  BY <1>1, <1>2, <1>11 DEF Unavailable
<1>12. CASE Finish(p)
  BY <1>1, <1>2, <1>12 DEF Finish, Out
<1>13. CASE Killed(p)
  BY <1>1, <1>2, <1>13 DEF Killed, Cut, NotHeard
<1>. QED BY <1>3, <1>4, <1>5, <1>7, <1>8, <1>9, <1>10, <1>11, <1>12, <1>13 DEF PassStep

\* Steps that move no pass and no row of the phone.
LEMMA QuietKeeps ==
    ASSUME Inv, OtherStep, UNCHANGED <<outbox, pass, late, typed, inDoubt, dropped>>,
           session' \in Worker \cup {None}
    PROVE  Inv'
<1>1. /\ authors' = authors /\ ServerInv'
      /\ \A j \in Item : Copies(j)' = Copies(j) /\ (Known(j) <=> Known(j)')
  BY CopiesGrow DEF authors, Known
<1>2. OutboxTypeOK'
  BY <1>1 DEF Inv, PhoneInv, OutboxTypeOK, ServerInv
<1>3. \A q \in Pass : PassIsSound(q)'
  BY <1>1, RunningPass DEF PassIsSound, Out
<1>4. \A m \in late' : Known(m.item)'
  BY <1>1 DEF Inv, PhoneInv, Known
<1>5. \A i \in Item : Copies(i)' # {} => Known(i)'
  BY <1>1 DEF Inv, PhoneInv
<1>6. NothingWrittenIsLost'
  BY <1>1, AuthorsType DEF NothingWrittenIsLost, Inv, PhoneInv
<1>7. PhoneInv'
  BY <1>1, <1>2, <1>3, <1>4, <1>5, <1>6 DEF Inv, PhoneInv, OneRuns
<1>8. \A i \in Item : Accounted(i)'
  BY <1>1 DEF Inv, Accounted, Settled, Queued, Out
<1>. QED BY <1>1, <1>7, <1>8 DEF Inv

LEMMA AdoptKeeps ==
    ASSUME Inv, NEW w \in Worker, Adopt(w)
    PROVE  Inv'
<1>. DEFINE own == {i \in DOMAIN outbox : outbox[i].worker = w}
<1>1. /\ outbox' = [i \in own |-> outbox[i]]
      /\ dropped' = dropped \cup (DOMAIN outbox \ own)
      /\ UNCHANGED <<serverVars, session, pass, late, typed, inDoubt>>
  BY DEF Adopt
<1>2. own \subseteq DOMAIN outbox
  OBVIOUS
<1>. HIDE DEF own
<1>3. OtherStep
  BY <1>1 DEF OtherStep
<1>4. /\ authors' = authors /\ ServerInv'
      /\ \A j \in Item : Copies(j)' = Copies(j) /\ (Known(j) <=> Known(j)')
  BY <1>1, <1>3, CopiesGrow DEF authors, Known
<1>5. OutboxTypeOK'
  BY <1>1, <1>2, <1>4 DEF Inv, PhoneInv, OutboxTypeOK, ServerInv
<1>6. \A q \in Pass : PassIsSound(q)'
  BY <1>1, <1>4, RunningPass DEF PassIsSound, Out
<1>7. \A m \in late' : Known(m.item)'
  BY <1>1, <1>4 DEF Inv, PhoneInv, Known
<1>8. \A i \in Item : Copies(i)' # {} => Known(i)'
  BY <1>4 DEF Inv, PhoneInv
<1>9. NothingWrittenIsLost'
  BY <1>1, <1>4, AuthorsType DEF NothingWrittenIsLost, Inv, PhoneInv
<1>10. PhoneInv'
  BY <1>1, <1>2, <1>4, <1>5, <1>6, <1>7, <1>8, <1>9 DEF Inv, PhoneInv, OneRuns
<1>11. \A i \in Item : Settled(i) => Settled(i)'
  BY <1>1, <1>2 DEF Settled, Out
<1>12. ASSUME NEW i \in Item PROVE Accounted(i)'
  <2>1. /\ Copies(i)' = Copies(i) /\ Queued(i)' = Queued(i) /\ inDoubt' = inDoubt
        /\ Settled(i) => Settled(i)'
    BY <1>1, <1>4, <1>11 DEF Queued
  <2>2. /\ Accounted(i) /\ inDoubt[i] \in Nat
        /\ Cardinality(Copies(i)) \in Nat /\ Cardinality(Queued(i)) \in Nat
    BY CopiesGrow DEF Inv, PhoneInv, OutboxTypeOK
  <2>. QED BY <2>1, <2>2 DEF Accounted
<1>. QED BY <1>4, <1>10, <1>12 DEF Inv

\* A new entry was never sent: it has no copy and no POST under way.
LEMMA EnqueueKeeps ==
    ASSUME Inv, NEW w \in Worker, NEW i \in Item, Enqueue(w, i)
    PROVE  Inv'
<1>. DEFINE t == [item |-> i, worker |-> w]
<1>1. /\ ~Known(i)
      /\ outbox' = [j \in DOMAIN outbox \cup {i} |->
                    IF j = i THEN [worker |-> w, blocked |-> FALSE] ELSE outbox[j]]
      /\ typed' = Append(typed, t)
      /\ UNCHANGED <<serverVars, session, pass, late, inDoubt, dropped>>
  BY DEF Enqueue, Unused, Known, Inv, PhoneInv, OutboxTypeOK
<1>2. typed' \in Seq([item : Item, worker : Worker]) /\ authors' = authors \cup {t}
  BY <1>1, Typing DEF Inv, PhoneInv
<1>3. t.item = i /\ t.worker = w
  OBVIOUS
<1>. HIDE DEF t
<1>4. OtherStep
  BY <1>1 DEF OtherStep
<1>5. /\ ServerInv' /\ \A j \in Item : Copies(j)' = Copies(j)
  BY <1>4, CopiesGrow
<1>6. \A j : Known(j) => Known(j)'
  BY <1>2 DEF Known
<1>7. /\ DOMAIN outbox' = DOMAIN outbox \cup {i}
      /\ outbox' \in [DOMAIN outbox' -> [worker : Worker, blocked : BOOLEAN]]
      /\ outbox'[i].worker = w
      /\ \A j \in DOMAIN outbox \ {i} : outbox'[j] = outbox[j]
  BY <1>1 DEF Inv, PhoneInv, OutboxTypeOK
<1>8. OutboxTypeOK'
  BY <1>1, <1>2, <1>5, <1>7 DEF Inv, PhoneInv, OutboxTypeOK, ServerInv
<1>9. \A q \in Pass : PassIsSound(q)'
  BY <1>1, <1>2, <1>5, RunningPass DEF PassIsSound, Out
<1>10. \A m \in late' : Known(m.item)'
  BY <1>1, <1>6 DEF Inv, PhoneInv
<1>11. \A j \in Item : Copies(j)' # {} => Known(j)'
  BY <1>5, <1>6 DEF Inv, PhoneInv
<1>12. \A j \in DOMAIN outbox' : [item |-> j, worker |-> outbox'[j].worker] \in authors'
  <2>1. [item |-> i, worker |-> outbox'[i].worker] = t
    BY <1>7 DEF t
  <2>. QED BY <2>1, <1>2, <1>7 DEF Inv, PhoneInv
<1>13. NothingWrittenIsLost'
  BY <1>1, <1>2, <1>3, <1>5, <1>7, AuthorsType DEF NothingWrittenIsLost, Inv, PhoneInv
<1>14. PhoneInv'
  BY <1>1, <1>8, <1>9, <1>10, <1>11, <1>12, <1>13 DEF Inv, PhoneInv, OneRuns
<1>15. ASSUME NEW j \in Item PROVE Accounted(j)'
  <2>1. CASE j = i
    <3>1. Copies(j)' = {} /\ Queued(j)' = {}
      BY <1>1, <1>5, <2>1 DEF Queued, Inv, PhoneInv
    <3>2. inDoubt'[j] \in Nat
      BY <1>1 DEF Inv, PhoneInv, OutboxTypeOK
    <3>. QED BY <3>1, <3>2, FS_EmptySet DEF Accounted
  <2>2. CASE j # i
    <3>1. Settled(j) => Settled(j)'
      BY <1>1, <1>7, <2>2 DEF Settled, Out
    <3>2. Queued(j)' = Queued(j) /\ Copies(j)' = Copies(j) /\ inDoubt' = inDoubt
      BY <1>1, <1>5 DEF Queued
    <3>3. Accounted(j) /\ inDoubt[j] \in Nat
      BY DEF Inv, PhoneInv, OutboxTypeOK
    <3>. QED BY <3>1, <3>2, <3>3, CopiesGrow DEF Accounted
  <2>. QED BY <2>1, <2>2
<1>. QED BY <1>5, <1>14, <1>15 DEF Inv

\* The POST of a pass lands: the entry has one copy more, and is settled.
LEMMA LandKeeps ==
    ASSUME Inv, NEW p \in Pass, Land(p)
    PROVE  Inv'
<1>. DEFINE r == pass[p]
            x == [r EXCEPT !.landed = TRUE]
<1>1. PICK i \in Item : i = r.row /\ r \in Pushing /\ i \in r.todo /\ r # Resting
  <2>1. r \in Pushing /\ r # Resting
    BY Restless DEF Land, Out, Inv, PhoneInv, OutboxTypeOK
  <2>. QED BY <2>1, RunningPass DEF Land
<1>2. /\ r.pc = "wait" /\ ~r.landed /\ r.cookie \in Worker /\ File(r.cookie, i)
      /\ pass' = [pass EXCEPT ![p] = x]
      /\ UNCHANGED <<session, outbox, late, typed, inDoubt, dropped>>
  BY <1>1 DEF Land, Out, Pushing
<1>3. /\ x \in Pushing /\ x.landed /\ x.pc = "wait" /\ x.todo = r.todo /\ x.as = r.as
      /\ x.row = i /\ x.cookie = r.cookie
  BY <1>1, <1>2 DEF Pushing
<1>4. x # Resting
  BY <1>3 DEF Resting
<1>. HIDE DEF x
<1>5. /\ ServerInv' /\ authors' = authors
      /\ \A j \in Item \ {i} : Copies(j)' = Copies(j)
      /\ Copies(i)' # {} /\ Cardinality(Copies(i)') = Cardinality(Copies(i)) + 1
      /\ \A j : Known(j) <=> Known(j)'
  BY <1>1, <1>2, CopiesGrow DEF authors, Known
<1>6. /\ pass' \in [Pass -> {Resting} \cup Pushing]
      /\ \A q \in Pass : pass'[q] = IF q = p THEN x ELSE pass[q]
  BY <1>2, <1>3 DEF Inv, PhoneInv, OutboxTypeOK
<1>7. OutboxTypeOK'
  BY <1>2, <1>5, <1>6 DEF Inv, PhoneInv, OutboxTypeOK, ServerInv
<1>8. OneRuns'
  BY <1>1, <1>6 DEF Inv, PhoneInv, OneRuns
<1>9. \A q \in Pass \ {p} : pass[q] = Resting
  BY <1>1 DEF Inv, PhoneInv, OneRuns
<1>10. \A q \in Pass : PassIsSound(q)'
  BY <1>1, <1>2, <1>3, <1>5, <1>6, <1>9, RunningPass, MaterialAssumption DEF PassIsSound, Out
<1>11. Known(i)
  <2>. DEFINE t == [item |-> i, worker |-> r.as]
  <2>1. t \in authors /\ t.item = i
    BY <1>1, RunningPass
  <2>. QED BY <2>1 DEF Known
<1>12. \A j \in Item : Copies(j)' # {} => Known(j)'
  BY <1>5, <1>11 DEF Inv, PhoneInv
<1>13. NothingWrittenIsLost'
  BY <1>2, <1>5, AuthorsType DEF NothingWrittenIsLost, Inv, PhoneInv
<1>14. PhoneInv'
  BY <1>2, <1>5, <1>7, <1>8, <1>10, <1>12, <1>13 DEF Inv, PhoneInv
<1>15. ASSUME NEW j \in Item PROVE Accounted(j)'
  <2>1. /\ Queued(j)' = Queued(j) /\ inDoubt' = inDoubt /\ inDoubt[j] \in Nat /\ Accounted(j)
        /\ Cardinality(Queued(j)) \in Nat /\ Cardinality(Copies(j)) \in Nat
    BY <1>2, CopiesGrow DEF Queued, Inv, PhoneInv, OutboxTypeOK
  <2>2. CASE j = i
    <3>1. ~Settled(j)
      BY <1>1, <1>2, <1>9, <2>2 DEF Settled, Out, Resting
    <3>2. Settled(j)'
      BY <1>3, <1>6, <2>2 DEF Settled, Out
    <3>. QED BY <1>5, <2>1, <2>2, <3>1, <3>2 DEF Accounted
  <2>3. CASE j # i
    <3>1. Settled(j) => Settled(j)'
      BY <1>1, <1>2, <1>3, <1>6, <1>9 DEF Settled, Out
    <3>. QED BY <1>5, <2>1, <2>3, <3>1 DEF Accounted
  <2>. QED BY <2>2, <2>3
<1>. QED BY <1>5, <1>14, <1>15 DEF Inv

\* A POST that was given up lands: a copy more, and a POST under way less.
LEMMA LandLateKeeps ==
    ASSUME Inv, NEW m \in late, LandLate(m)
    PROVE  Inv'
<1>. DEFINE i == m.item
<1>1. m.worker \in Worker /\ i \in Item /\ Known(i)
  BY DEF Inv, PhoneInv, OutboxTypeOK
<1>2. /\ File(m.worker, i) /\ late' = late \ {m}
      /\ UNCHANGED <<session, outbox, pass, typed, inDoubt, dropped>>
  BY DEF LandLate
<1>3. /\ ServerInv' /\ authors' = authors
      /\ \A j \in Item \ {i} : Copies(j)' = Copies(j)
      /\ Copies(i)' # {} /\ Cardinality(Copies(i)') = Cardinality(Copies(i)) + 1
      /\ \A j : Known(j) <=> Known(j)'
  BY <1>1, <1>2, CopiesGrow DEF authors, Known
<1>4. OutboxTypeOK' /\ IsFiniteSet(late')
  BY <1>2, <1>3, FS_Subset DEF Inv, PhoneInv, OutboxTypeOK, ServerInv
<1>5. \A q \in Pass : PassIsSound(q)'
  <2>1. ASSUME NEW j \in Item, Copies(j) # {} PROVE Copies(j)' # {}
    BY <2>1, <1>3
  <2>. QED BY <1>2, <1>3, <2>1, RunningPass DEF PassIsSound, Out
<1>6. \A j \in Item : Copies(j)' # {} => Known(j)'
  BY <1>1, <1>3 DEF Inv, PhoneInv
<1>7. NothingWrittenIsLost'
  BY <1>2, <1>3, AuthorsType DEF NothingWrittenIsLost, Inv, PhoneInv
<1>8. PhoneInv'
  BY <1>2, <1>3, <1>4, <1>5, <1>6, <1>7 DEF Inv, PhoneInv, OneRuns
<1>9. ASSUME NEW j \in Item PROVE Accounted(j)'
  <2>1. /\ Settled(j)' <=> Settled(j)
        /\ inDoubt' = inDoubt /\ inDoubt[j] \in Nat /\ Accounted(j)
        /\ Cardinality(Copies(j)) \in Nat
    BY <1>2, CopiesGrow DEF Settled, Out, Inv, PhoneInv, OutboxTypeOK
  <2>. DEFINE Q == Queued(j)
  <2>2. IsFiniteSet(Q) /\ Cardinality(Q) \in Nat
    BY CopiesGrow
  <2>3. CASE j = i
    <3>1. Queued(j)' = Q \ {m} /\ m \in Q
      BY <1>2, <2>3 DEF Queued
    <3>. HIDE DEF Q
    <3>2. Cardinality(Q \ {m}) = Cardinality(Q) - 1
      BY <2>2, <3>1, FS_RemoveElement
    <3>. USE DEF Q
    <3>. QED BY <1>3, <2>1, <2>2, <2>3, <3>1, <3>2 DEF Accounted
  <2>4. CASE j # i
    <3>1. Queued(j)' = Q
      BY <1>2, <2>4 DEF Queued
    <3>. QED BY <1>3, <2>1, <2>2, <2>4, <3>1 DEF Accounted
  <2>. QED BY <2>3, <2>4
<1>. QED BY <1>3, <1>8, <1>9 DEF Inv

LEMMA InitHolds == Init => Inv
<1>. SUFFICES ASSUME Init PROVE Inv
  OBVIOUS
<1>1. /\ ServerInv /\ requests = <<>> /\ session = None /\ outbox = [i \in {} |-> None]
      /\ pass = [p \in Pass |-> Resting] /\ late = {} /\ typed = <<>>
      /\ inDoubt = [i \in Item |-> 0] /\ dropped = {}
  BY ServerInitHolds DEF Init, ServerInit
<1>2. authors = {} /\ \A i : Copies(i) = {} /\ Queued(i) = {}
  BY <1>1 DEF authors, Copies, Queued, ids
<1>3. OutboxTypeOK
  BY <1>1 DEF OutboxTypeOK, ServerInv
<1>4. PhoneInv
  BY <1>1, <1>2, <1>3, FS_EmptySet
     DEF PhoneInv, OneRuns, PassIsSound, Known, NothingWrittenIsLost
<1>5. ASSUME NEW i \in Item PROVE Accounted(i)
  <2>1. Cardinality(Copies(i)) = 0 /\ Cardinality(Queued(i)) = 0
    BY <1>2, FS_EmptySet
  <2>. QED BY <1>1, <2>1 DEF Accounted
<1>. QED BY <1>1, <1>4, <1>5 DEF Inv

LEMMA StepKeeps == Inv /\ [Next]_vars => Inv'
<1>. SUFFICES ASSUME Inv, [Next]_vars PROVE Inv'
  OBVIOUS
<1>1. session \in Worker \cup {None}
  BY DEF Inv, PhoneInv, OutboxTypeOK
<1>2. ASSUME NEW w \in Worker, SignIn(w) PROVE Inv'
  BY <1>2, QuietKeeps DEF SignIn, OtherStep
<1>3. CASE SignOut \/ StartMaterials \/ Submit
  BY <1>1, <1>3, QuietKeeps DEF SignOut, StartMaterials, Submit, OtherStep
<1>4. ASSUME NEW w \in Worker, Adopt(w) PROVE Inv'
  BY <1>4, AdoptKeeps
<1>5. ASSUME NEW w \in Worker, NEW i \in Item, Enqueue(w, i) PROVE Inv'
  BY <1>5, EnqueueKeeps
<1>6. ASSUME NEW id \in ids, Acknowledge(id) PROVE Inv'
  BY <1>1, <1>6, QuietKeeps DEF Acknowledge, OtherStep, phoneVars
<1>7. ASSUME NEW p \in Pass, PassStep(p) PROVE Inv'
  <2>1. CASE Land(p)
    BY <2>1, LandKeeps
  <2>2. CASE ~Land(p)
    BY <1>7, <2>2, StepsAreMoves, MovesKeepInv
  <2>. QED BY <2>1, <2>2
<1>8. ASSUME NEW m \in late, LandLate(m) PROVE Inv'
  BY <1>8, LandLateKeeps
<1>9. CASE OfficeStep /\ UNCHANGED phoneVars
  BY <1>1, <1>9, QuietKeeps DEF OtherStep, phoneVars
<1>10. CASE UNCHANGED vars
  BY <1>1, <1>10, QuietKeeps DEF OtherStep, vars, phoneVars
<1>11. CASE Die
  <2>1. ASSUME NEW p \in Pass, Killed(p) PROVE Inv'
    BY <2>1, StepsAreMoves, MovesKeepInv
  <2>2. CASE UNCHANGED <<pass, inDoubt, late>>
    BY <1>1, <1>11, <2>2, QuietKeeps DEF Die, OtherStep
  <2>. QED BY <1>11, <2>1, <2>2 DEF Die, Killed
<1>. QED BY <1>2, <1>3, <1>4, <1>5, <1>6, <1>7, <1>8, <1>9, <1>10, <1>11 DEF Next

-----------------------------------------------------------------------------
(* Whose request it is                                                     *)

By(i, w) == [item |-> i, worker |-> w] \in authors

\* What is at the server, what is out, and what may still land.
Attributed ==
    /\ typing \subseteq Worker /\ adopting \subseteq Worker /\ astray \subseteq Item
    /\ FiledUnderItsAuthor
    /\ \A p \in Pass : Out(p) /\ pass[p].cookie # None =>
         pass[p].row \in astray \/ By(pass[p].row, pass[p].cookie)
    /\ \A m \in late : m.item \in astray \/ By(m.item, m.worker)

\* A name once right stays right.
LEMMA NamesStay ==
    ASSUME Inv, [Next]_vars
    PROVE  authors \subseteq authors' /\ astray \subseteq astray'
<1>1. CASE UNCHANGED typed
  BY <1>1 DEF authors, Next, SignIn, SignOut, StartMaterials, Submit, Die, Adopt, Enqueue,
     Acknowledge, PassStep, Begin, Plan, Land, Heard, Finish, Send, StopPass, RetryLater,
     Block, Unavailable, LandLate, vars, phoneVars, captured
<1>2. ASSUME NEW w \in Worker, NEW i \in Item, Enqueue(w, i)
      PROVE  authors \subseteq authors' /\ astray \subseteq astray'
  <2>. DEFINE t == [item |-> i, worker |-> w]
  <2>1. typed' = Append(typed, t) /\ t \in [item : Item, worker : Worker] /\ astray' = astray
    BY <1>2 DEF Enqueue
  <2>. HIDE DEF t
  <2>. QED BY <2>1, Typing DEF Inv, PhoneInv
<1>3. CASE ~(\E w \in Worker, i \in Item : Enqueue(w, i))
  <2>1. UNCHANGED typed
    BY <1>3 DEF Next, SignIn, SignOut, StartMaterials, Submit, Die, Adopt,
       Acknowledge, PassStep, Begin, Plan, Land, Heard, Finish, Send, StopPass, RetryLater,
       Block, Unavailable, LandLate, vars, phoneVars
  <2>. QED BY <1>1, <2>1
<1>. QED BY <1>2, <1>3

\* What is filed for the right name keeps the server's rows right.
LEMMA FilingIsRight ==
    ASSUME Inv, Attributed, authors \subseteq authors', astray \subseteq astray',
           NEW w \in Worker, NEW i \in Item, File(w, i), i \in astray \/ By(i, w)
    PROVE  FiledUnderItsAuthor'
<1>. DEFINE n == Len(requests) + 1
<1>1. /\ ids' = ids \cup {n} /\ \A id \in ids : requests'[id] = requests[id]
      /\ requests'[n].item = i /\ requests'[n].worker = w
  BY FileKeeps DEF Inv
<1>. HIDE DEF n
<1>. QED BY <1>1 DEF Attributed, FiledUnderItsAuthor, By

LEMMA OthersStayRight ==
    ASSUME Inv, Attributed, authors \subseteq authors', astray \subseteq astray', OtherStep
    PROVE  FiledUnderItsAuthor'
<1>1. /\ ids' = ids
      /\ \A id \in ids : /\ requests'[id].item = requests[id].item
                         /\ requests'[id].worker = requests[id].worker
  BY OtherKeeps DEF Inv
<1>. QED BY <1>1 DEF Attributed, FiledUnderItsAuthor

LEMMA RowsStayRight ==
    ASSUME Inv, Attributed, [Next]_vars
    PROVE  FiledUnderItsAuthor'
<1>0. authors \subseteq authors' /\ astray \subseteq astray'
  BY NamesStay
<1>1. ASSUME NEW p \in Pass, Land(p) PROVE FiledUnderItsAuthor'
  <2>1. pass[p] # Resting /\ pass[p] \in Pushing /\ pass[p].row \in Item
    BY <1>1, Restless DEF Land, Out, Inv, PhoneInv, OutboxTypeOK, PassIsSound, Pushing
  <2>2. pass[p].cookie \in Worker
    BY <1>1, <2>1 DEF Land, Pushing
  <2>. QED BY <1>0, <1>1, <2>1, <2>2, FilingIsRight DEF Land, Attributed
<1>2. ASSUME NEW m \in late, LandLate(m) PROVE FiledUnderItsAuthor'
  <2>1. m.worker \in Worker /\ m.item \in Item
    BY DEF Inv, PhoneInv, OutboxTypeOK
  <2>. QED BY <1>0, <1>2, <2>1, FilingIsRight DEF LandLate, Attributed
<1>3. CASE OtherStep
  BY <1>0, <1>3, OthersStayRight
<1>4. CASE ~OtherStep /\ ~(\E p \in Pass : Land(p)) /\ ~(\E m \in late : LandLate(m))
  <2>1. ASSUME NEW id \in ids, Acknowledge(id) PROVE OtherStep
    BY <2>1 DEF Acknowledge, OtherStep, Inv, PhoneInv, OutboxTypeOK
  <2>. QED BY <1>4, <2>1 DEF OtherStep, Next, SignIn, SignOut, StartMaterials, Submit, Die,
       Adopt, Enqueue, PassStep, Begin, Plan, Heard, Finish, Send, StopPass, RetryLater,
       Block, Unavailable, vars
<1>. QED BY <1>1, <1>2, <1>3, <1>4

LEMMA CapturesTyped ==
    ASSUME Inv, Attributed, [Next]_vars
    PROVE  typing' \subseteq Worker /\ adopting' \subseteq Worker /\ astray' \subseteq Item
<1>1. session \in Worker \cup {None}
  BY DEF Inv, PhoneInv, OutboxTypeOK
<1>. QED BY <1>1 DEF Attributed, MayCapture, Next, SignIn, SignOut, StartMaterials, Submit,
     Die, Adopt, Enqueue, Acknowledge, PassStep, Begin, Plan, Land, Heard, Finish, Send,
     StopPass, RetryLater, Block, Unavailable, LandLate, vars, phoneVars, captured

\* A POST goes out for the pass's own worker, or its entry is astray from then on.
LEMMA PostsStayRight ==
    ASSUME Inv, Attributed, [Next]_vars, NEW q \in Pass, Out(q)', pass'[q].cookie # None
    PROVE  pass'[q].row \in astray' \/ [item |-> pass'[q].row, worker |-> pass'[q].cookie] \in authors'
<1>0. authors \subseteq authors' /\ astray \subseteq astray'
  BY NamesStay
<1>1. CASE Out(q) /\ pass'[q].row = pass[q].row /\ pass'[q].cookie = pass[q].cookie
  BY <1>0, <1>1 DEF Attributed, By
<1>2. ASSUME NEW i \in Item, Send(q, i)
      PROVE  pass'[q].row \in astray' \/ [item |-> pass'[q].row, worker |-> pass'[q].cookie] \in authors'
  <2>1. pass[q] # Resting /\ pass[q].pc = "send" /\ i \in pass[q].todo
    BY <1>2 DEF Send, Resting
  <2>2. pass'[q].row = i /\ pass'[q].cookie = session
    BY <1>2 DEF Send, Inv, PhoneInv, OutboxTypeOK
  <2>3. [item |-> i, worker |-> pass[q].as] \in authors
    BY <2>1, RunningPass
  <2>. QED BY <1>0, <1>2, <2>2, <2>3 DEF Send, By
<1>3. ASSUME ~(\E i \in Item : Send(q, i))
      PROVE  Out(q) /\ pass'[q].row = pass[q].row /\ pass'[q].cookie = pass[q].cookie
  <2>1. pass \in [Pass -> {Resting} \cup Pushing]
    BY DEF Inv, PhoneInv, OutboxTypeOK
  <2>2. CASE UNCHANGED pass
    BY <2>2 DEF Out
  <2>3. ASSUME NEW p \in Pass, NEW x, pass' = [pass EXCEPT ![p] = x], x.pc # "wait"
        PROVE  Out(q) /\ pass'[q].row = pass[q].row /\ pass'[q].cookie = pass[q].cookie
    BY <2>1, <2>3 DEF Out
  <2>4. ASSUME NEW p \in Pass, NEW i \in Item, Send(p, i)
        PROVE  Out(q) /\ pass'[q].row = pass[q].row /\ pass'[q].cookie = pass[q].cookie
    BY <1>3, <2>1, <2>4 DEF Out, Send
  <2>5. ASSUME NEW p \in Pass, Land(p)
        PROVE  Out(q) /\ pass'[q].row = pass[q].row /\ pass'[q].cookie = pass[q].cookie
    <3>1. pass[p] \in Pushing
      BY <2>1, <2>5, Restless DEF Land, Out
    <3>. QED BY <2>1, <2>5, <3>1 DEF Out, Land, Pushing
  <2>6. ASSUME NEW p \in Pass, pass[p] # Resting, pass' = Moved(p)
        PROVE  Out(q) /\ pass'[q].row = pass[q].row /\ pass'[q].cookie = pass[q].cookie
    BY <2>3, <2>6, MovedPass
  <2>7. ASSUME NEW p \in Pass, pass' = Stopped(p)
        PROVE  Out(q) /\ pass'[q].row = pass[q].row /\ pass'[q].cookie = pass[q].cookie
    <3>1. Resting.pc # "wait"
      BY DEF Resting
    <3>. QED BY <2>3, <2>7, <3>1 DEF Stopped
  <2>8. ASSUME NEW p \in Pass, Begin(p) \/ Plan(p)
        PROVE  Out(q) /\ pass'[q].row = pass[q].row /\ pass'[q].cookie = pass[q].cookie
    <3>1. CASE Begin(p)
      <4>. DEFINE x == [pc |-> "plan", as |-> session, todo |-> {},
                        row |-> None, cookie |-> None, landed |-> FALSE]
      <4>1. pass' = [pass EXCEPT ![p] = x] /\ x.pc # "wait"
        BY <3>1 DEF Begin
      <4>. HIDE DEF x
      <4>. QED BY <2>3, <4>1
    <3>2. CASE Plan(p)
      <4>1. pass[p] \in Pushing /\ p \in DOMAIN pass
        BY <2>1, <3>2, Restless DEF Plan
      <4>2. pass'[p].pc = "send" /\ \A r \in Pass \ {p} : pass'[r] = pass[r]
        BY <2>1, <3>2, <4>1 DEF Plan, Pushing
      <4>. QED BY <4>2 DEF Out
    <3>. QED BY <2>8, <3>1, <3>2
  <2>9. \A p \in Pass : Out(p) => pass[p] # Resting
    BY DEF Out, Resting
  <2>10. ASSUME NEW p \in Pass, PassStep(p)
        PROVE  Out(q) /\ pass'[q].row = pass[q].row /\ pass'[q].cookie = pass[q].cookie
    BY <2>4, <2>5, <2>6, <2>7, <2>8, <2>9, <2>10
       DEF PassStep, Heard, Finish, StopPass, RetryLater, Block, Unavailable
  <2>11. CASE UNCHANGED vars
    BY <2>2, <2>11 DEF vars, phoneVars
  <2>. QED BY <2>2, <2>7, <2>10, <2>11
     DEF Next, SignIn, SignOut, StartMaterials, Submit, Die, Cut, Adopt, Enqueue, Acknowledge,
         LandLate, phoneVars
<1>. QED BY <1>1, <1>2, <1>3

\* A POST given up keeps the name it went out with.
LEMMA LateStaysRight ==
    ASSUME Inv, Attributed, [Next]_vars, NEW m \in late'
    PROVE  m.item \in astray' \/ By(m.item, m.worker)'
<1>0. authors \subseteq authors' /\ astray \subseteq astray'
  BY NamesStay
<1>1. CASE m \in late
  BY <1>0, <1>1 DEF Attributed, By
<1>2. CASE m \notin late
  <2>1. PICK p \in Pass : Out(p) /\ Doubt(p)
    BY <1>2 DEF NotHeard, Cut, Next, SignIn, SignOut, StartMaterials, Submit, Die, Adopt, Enqueue,
       Acknowledge, PassStep, Begin, Plan, Land, Heard, Finish, Send, StopPass, RetryLater,
       Block, Unavailable, LandLate, vars, phoneVars
  <2>2. pass[p].cookie # None /\ m.item = pass[p].row /\ m.worker = pass[p].cookie
    BY <1>2, <2>1 DEF Doubt
  <2>. QED BY <1>0, <2>1, <2>2 DEF Attributed, By
<1>. QED BY <1>1, <1>2

LEMMA InvHolds == Spec => [](Inv /\ Attributed)
<1>1. Init => Inv /\ Attributed
  <2>1. ASSUME Init PROVE Attributed
    <3>1. ids = {} /\ late = {} /\ typing = {} /\ adopting = {} /\ astray = {}
          /\ \A p \in Pass : pass[p] = Resting
      BY <2>1 DEF Init, ServerInit, ids
    <3>. QED BY <3>1 DEF Attributed, FiledUnderItsAuthor, Out, Resting
  <2>. QED BY <2>1, InitHolds
<1>2. Inv /\ Attributed /\ [Next]_vars => Inv' /\ Attributed'
  <2>. SUFFICES ASSUME Inv, Attributed, [Next]_vars PROVE Inv' /\ Attributed'
    OBVIOUS
  <2>1. \A q \in Pass : Out(q)' /\ pass'[q].cookie # None =>
          pass'[q].row \in astray'
          \/ [item |-> pass'[q].row, worker |-> pass'[q].cookie] \in authors'
    BY PostsStayRight
  <2>2. \A m \in late' : m.item \in astray' \/ [item |-> m.item, worker |-> m.worker] \in authors'
    BY LateStaysRight DEF By
  <2>. QED BY <2>1, <2>2, StepKeeps, CapturesTyped, RowsStayRight DEF Attributed, By
<1>. QED BY <1>1, <1>2, PTL DEF Spec

-----------------------------------------------------------------------------
(* Theorems                                                                *)

\* The types of the server's and the phone's state, a PATCH under way included.
THEOREM TypeCorrect == Spec => []TypeOK
<1>1. Inv /\ Attributed => TypeOK
  BY DEF Inv, PhoneInv, Attributed, TypeOK
<1>. QED BY <1>1, InvHolds, PTL

\* What a worker wrote is on the phone or at the server, unless another sign-in's adopt
\* deleted it.
THEOREM NothingLost == Spec => []NothingWrittenIsLost
<1>1. Inv => NothingWrittenIsLost
  BY DEF Inv, PhoneInv
<1>. QED BY <1>1, InvHolds, PTL

\* However often an entry is retried, its copies are the answers that were lost.
THEOREM CopiesCovered == Spec => []CopiesAreLostAnswers
<1>1. Inv => CopiesAreLostAnswers
  <2>. SUFFICES ASSUME Inv, NEW i \in Item
                PROVE  Cardinality(Copies(i)) <= inDoubt[i] +
                         (IF i \in DOMAIN outbox /\ \A p \in Pass : ~(Out(p) /\ pass[p].row = i)
                            THEN 0 ELSE 1)
    BY DEF CopiesAreLostAnswers
  <2>1. /\ Accounted(i) /\ inDoubt[i] \in Nat
        /\ Cardinality(Copies(i)) \in Nat /\ Cardinality(Queued(i)) \in Nat
    BY CopiesGrow DEF Inv, PhoneInv, OutboxTypeOK
  <2>2. i \in DOMAIN outbox /\ (\A p \in Pass : ~(Out(p) /\ pass[p].row = i)) => ~Settled(i)
    BY DEF Settled
  <2>. QED BY <2>1, <2>2 DEF Accounted
<1>. QED BY <1>1, InvHolds, PTL

\* A request is filed under the name of whoever wrote it, through every change of hands,
\* unless its POST took the cookie of somebody its pass was not for.
THEOREM FiledForTheAuthor == Spec => []FiledUnderItsAuthor
<1>1. Attributed => FiledUnderItsAuthor
  BY DEF Attributed
<1>. QED BY <1>1, InvHolds, PTL

\* Whoever overwrites whom, a request that costs something is in the pool of a month.
THEOREM SpendsHaveMonths == Spec => []SpendHasItsMonth
<1>1. Inv => SpendHasItsMonth
  <2>. SUFFICES ASSUME Inv PROVE SpendHasItsMonth
    OBVIOUS
  <2>1. ASSUME NEW id \in ids, requests[id].status \in Spend
        PROVE  \E m \in Month : id \in Pool(m)
    <3>1. requests[id].ordered # None
      BY <2>1 DEF Inv, ServerInv, RowIsSound
    <3>2. requests[id] \in Request
      BY DEF Inv, ServerInv, ServerTypeOK, ids
    <3>3. requests[id].ordered \in Month
      BY <3>1, <3>2 DEF Request
    <3>. QED BY <2>1, <3>3 DEF Pool
  <2>2. ASSUME NEW a \in Admin, edit[a] # Idle, edit[a].status = "arrived"
        PROVE  requests[edit[a].id].ordered # None
    <3>1. edit[a].from \in Status /\ edit[a].status \in {edit[a].from} \cup Transitions[edit[a].from]
      BY <2>2 DEF Inv, ServerInv, EditIsSound, Edit
    <3>2. edit[a].from \in Spend
      BY <2>2, <3>1, ArrivedWasOrdered
    <3>. QED BY <2>2, <3>2 DEF Inv, ServerInv, EditIsSound
  <2>. QED BY <2>1, <2>2 DEF SpendHasItsMonth
<1>. QED BY <1>1, InvHolds, PTL

\* An acknowledgement comes after an arrival, and an arrival after an order.
THEOREM SeenAfterwards == Spec => []SeenAfterArrival
<1>1. Inv => SeenAfterArrival
  BY DEF Inv, ServerInv, RowIsSound, SeenAfterArrival
<1>. QED BY <1>1, InvHolds, PTL

LEMMA RowsMove ==
    ASSUME Inv, [Next]_vars
    PROVE  \A id \in ids :
             /\ requests[id].ordered # None => requests'[id].ordered = requests[id].ordered
             /\ \/ requests'[id].status \in
                     {requests[id].status} \cup Transitions[requests[id].status]
                \/ \E a \in Admin : /\ edit[a].id = id /\ edit'[a] = Idle
                                    /\ edit[a].from # requests[id].status
<1>1. CASE FileStep
  BY <1>1, FileKeeps DEF FileStep, Inv
<1>2. CASE OtherStep
  BY <1>2, OtherKeeps DEF Inv
<1>. QED BY <1>1, <1>2, ServerPart

\* The month of a spend is pinned once.
THEOREM MonthsStay == Spec => MonthNeverMoves
<1>1. Inv /\ [Next]_vars =>
        [\A id \in ids : requests[id].ordered # None =>
           requests'[id].ordered = requests[id].ordered]_serverVars
  BY RowsMove
<1>. QED BY <1>1, InvHolds, PTL DEF Spec, MonthNeverMoves

\* A status leaves the table only by the write of a stale PATCH.
THEOREM StaleWritesOnly == Spec => OnlyStaleWritesLeaveTheTable
<1>1. Inv /\ [Next]_vars =>
        [\A id \in ids :
           LET old == requests[id].status IN
           requests'[id].status \in {old} \cup Transitions[old]
           \/ \E a \in Admin : edit[a].id = id /\ edit'[a] = Idle /\ edit[a].from # old]_serverVars
  BY RowsMove
<1>. QED BY <1>1, InvHolds, PTL DEF Spec, OnlyStaleWritesLeaveTheTable

=============================================================================
