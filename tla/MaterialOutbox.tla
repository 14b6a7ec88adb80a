---------------------------- MODULE MaterialOutbox ----------------------------
(***************************************************************************)
(* Material requests on the phone (data/MaterialSync.kt, MaterialStore,    *)
(* MaterialQueue) over the server's rows.  An entry is written to disk     *)
(* first and posted by a pass that plans once and sends row by row.        *)
(*                                                                         *)
(* A POST may land without its answer being heard, or land after the phone *)
(* has given it up; the process may die; the phone may change hands while  *)
(* a pass runs.                                                            *)
(***************************************************************************)
EXTENDS MaterialRequests, FiniteSets

CONSTANTS
    Pass,       \* as many as may be started; the code lets one run at a time
    MaxInDoubt, \* bound on the POSTs of one entry that nobody heard the answer of
    MaxCaptured \* bound on the calls of the screen whose block has not run yet

ASSUME OutboxAssumption == MaxInDoubt \in Nat /\ MaxCaptured \in Nat

VARIABLES
    session,  \* whose cookie the phone has, or None
    outbox,   \* material_outbox: from the entries on disk to who wrote them and `blocked`
    typing,   \* who was signed in at a submitMaterial whose row is not on disk yet
    adopting, \* who was signed in at a startMaterials whose adopt is still to come
    pass,     \* Pass -> what MaterialSync.push has in memory
    late,     \* POSTs given up by the phone that may still land
    typed,    \* the entries written so far, oldest first, with their authors (history)
    inDoubt,  \* Item -> POSTs of it whose fate the phone never learned (history)
    dropped,  \* entries that adopt deleted (history)
    astray    \* entries posted with a cookie of somebody the pass was not for (history)

captured == <<typing, adopting>>
phoneVars == <<session, outbox, captured, pass, late, typed, inDoubt, dropped, astray>>
vars == <<serverVars, phoneVars>>

Resting == [pc |-> "rest"]
\* `todo` is what is left of the plan, `row` the one at hand, `cookie` what its POST
\* carried, `landed` whether the server has it.
Pushing == [pc : {"plan", "send", "wait"}, as : Worker, todo : SUBSET Item,
            row : Item \cup {None}, cookie : Worker \cup {None}, landed : BOOLEAN]

authors == {typed[n] : n \in DOMAIN typed}
OutboxTypeOK ==
    /\ ServerTypeOK
    /\ session \in Worker \cup {None}
    /\ DOMAIN outbox \subseteq Item
    /\ outbox \in [DOMAIN outbox -> [worker : Worker, blocked : BOOLEAN]]
    /\ pass \in [Pass -> {Resting} \cup Pushing]
    /\ late \subseteq [item : Item, worker : Worker, nth : Nat]
    /\ typed \in Seq([item : Item, worker : Worker])
    /\ inDoubt \in [Item -> Nat]
    /\ dropped \subseteq Item
TypeOK ==
    /\ OutboxTypeOK
    /\ typing \subseteq Worker /\ adopting \subseteq Worker
    /\ astray \subseteq Item

Init ==
    /\ ServerInit
    /\ session = None
    /\ outbox = [i \in {} |-> None]
    /\ pass = [p \in Pass |-> Resting]
    /\ late = {}
    /\ typed = <<>>
    /\ inDoubt = [i \in Item |-> 0]
    /\ dropped = {}
    /\ typing = {} /\ adopting = {} /\ astray = {}

-----------------------------------------------------------------------------
(* The worker                                                              *)

SignIn(w) ==
    /\ session = None /\ session' = w
    /\ UNCHANGED <<serverVars, outbox, captured, pass, late, typed, inDoubt, dropped, astray>>

\* The store is kept; what is running is not stopped.
SignOut ==
    /\ session # None /\ session' = None
    /\ UNCHANGED <<serverVars, outbox, captured, pass, late, typed, inDoubt, dropped, astray>>

MayCapture ==
    session # None /\ Cardinality(typing) + Cardinality(adopting) < MaxCaptured

\* startMaterials: the worker is read now, the store is changed by a block that runs later.
StartMaterials ==
    /\ MayCapture /\ adopting' = adopting \cup {session}
    /\ UNCHANGED <<serverVars, session, outbox, typing, pass, late, typed, inDoubt, dropped, astray>>

\* adopt.  The entries of anybody else are deleted.
Adopt(w) ==
    /\ w \in adopting /\ adopting' = adopting \ {w}
    /\ LET own == {i \in DOMAIN outbox : outbox[i].worker = w} IN
         /\ outbox' = [i \in own |-> outbox[i]]
         /\ dropped' = dropped \cup (DOMAIN outbox \ own)
    /\ UNCHANGED <<serverVars, session, typing, pass, late, typed, inDoubt, astray>>

Unused(i) == \A t \in authors : t.item # i

\* submitMaterial: the worker is read now, and the row written later under that name.
Submit ==
    /\ MayCapture /\ \E i \in Item : Unused(i)
    /\ typing' = typing \cup {session}
    /\ UNCHANGED <<serverVars, session, outbox, adopting, pass, late, typed, inDoubt, dropped, astray>>

\* Mutant: the row is written under the name of whoever is signed in by then.
EnqueueNow(w, i) ==
    /\ w \in typing /\ typing' = typing \ {w} /\ session # None
    /\ Unused(i)
    /\ outbox' = [j \in DOMAIN outbox \cup {i} |->
                    IF j = i THEN [worker |-> session, blocked |-> FALSE] ELSE outbox[j]]
    /\ typed' = Append(typed, [item |-> i, worker |-> w])
    /\ UNCHANGED <<serverVars, session, adopting, pass, late, inDoubt, dropped, astray>>

\* enqueue: a fresh id.
Enqueue(w, i) ==
    /\ w \in typing /\ typing' = typing \ {w}
    /\ Unused(i)
    /\ outbox' = [j \in DOMAIN outbox \cup {i} |->
                    IF j = i THEN [worker |-> w, blocked |-> FALSE] ELSE outbox[j]]
    /\ typed' = Append(typed, [item |-> i, worker |-> w])
    /\ UNCHANGED <<serverVars, session, adopting, pass, late, inDoubt, dropped, astray>>

Acknowledge(id) ==
    /\ session # None /\ MarkSeen(session, id)
    /\ UNCHANGED phoneVars

-----------------------------------------------------------------------------
(* A pass                                                                  *)

\* Mutant: no materialPassRunning.
BeginBeside(p) ==
    /\ session # None /\ pass[p] = Resting
    /\ pass' = [pass EXCEPT ![p] = [pc |-> "plan", as |-> session, todo |-> {},
                                    row |-> None, cookie |-> None, landed |-> FALSE]]
    /\ UNCHANGED <<serverVars, session, outbox, late, typed, inDoubt, dropped, captured, astray>>

\* syncMaterials
Begin(p) ==
    /\ session # None /\ \A q \in Pass : pass[q] = Resting
    /\ pass' = [pass EXCEPT ![p] = [pc |-> "plan", as |-> session, todo |-> {},
                                    row |-> None, cookie |-> None, landed |-> FALSE]]
    /\ UNCHANGED <<serverVars, session, outbox, late, typed, inDoubt, dropped, captured, astray>>

Live(i) == i \in DOMAIN outbox /\ ~outbox[i].blocked

Sends(w) == {i \in DOMAIN outbox : Live(i) /\ outbox[i].worker = w}

WrongAccount(w) == {i \in DOMAIN outbox : Live(i) /\ outbox[i].worker # w}

Marked(items, blocked) ==
    [i \in DOMAIN outbox |-> IF i \in items THEN [outbox[i] EXCEPT !.blocked = blocked]
                                            ELSE outbox[i]]

\* MaterialQueue.plan; the rows of another account are blocked.
Plan(p) ==
    /\ pass[p].pc = "plan"
    /\ outbox' = Marked(WrongAccount(pass[p].as), TRUE)
    /\ pass' = [pass EXCEPT ![p].pc = "send", ![p].todo = Sends(pass[p].as)]
    /\ UNCHANGED <<serverVars, session, late, typed, inDoubt, dropped, captured, astray>>

\* sortedBy { it.createdAt }
Before(i, j) ==
    \E m, n \in DOMAIN typed : m < n /\ typed[m].item = i /\ typed[n].item = j

\* POST /material-requests of the oldest row left, with the cookie of this moment.
Send(p, i) ==
    /\ pass[p].pc = "send" /\ i \in pass[p].todo
    /\ \A j \in pass[p].todo : ~Before(j, i)
    /\ pass' = [pass EXCEPT ![p].pc = "wait", ![p].row = i, ![p].cookie = session]
    /\ astray' = IF session = pass[p].as THEN astray ELSE astray \cup {i}
    /\ UNCHANGED <<serverVars, session, outbox, captured, late, typed, inDoubt, dropped>>

Out(p) == pass[p].pc = "wait"

Land(p) ==
    /\ Out(p) /\ ~pass[p].landed /\ pass[p].cookie # None
    /\ File(pass[p].cookie, pass[p].row)
    /\ pass' = [pass EXCEPT ![p].landed = TRUE]
    /\ UNCHANGED <<session, outbox, late, typed, inDoubt, dropped, captured, astray>>

LandLate(m) ==
    /\ File(m.worker, m.item)
    /\ late' = late \ {m}
    /\ UNCHANGED <<session, outbox, pass, typed, inDoubt, dropped, captured, astray>>

Moved(p) == [pass EXCEPT ![p].pc = "send", ![p].todo = @ \ {pass[p].row},
                         ![p].row = None, ![p].cookie = None, ![p].landed = FALSE]
Stopped(p) == [pass EXCEPT ![p] = Resting]

\* 201: upsertServer, dequeue.
Heard(p) ==
    /\ Out(p) /\ pass[p].landed
    /\ outbox' = [i \in DOMAIN outbox \ {pass[p].row} |-> outbox[i]]
    /\ pass' = Moved(p)
    /\ UNCHANGED <<serverVars, session, late, typed, inDoubt, dropped, captured, astray>>

\* The phone will not learn what became of the POST that is out: with a cookie it may
\* have landed, or land later.
Doubt(p) ==
    LET i == pass[p].row IN
    /\ pass[p].cookie # None /\ inDoubt[i] < MaxInDoubt
    /\ inDoubt' = [inDoubt EXCEPT ![i] = @ + 1]
    /\ late' = IF pass[p].landed THEN late
               ELSE late \cup {[item |-> i, worker |-> pass[p].cookie, nth |-> inDoubt[i]]}

\* The POST that is out was refused, or its fate stays unknown.
NotHeard(p) ==
    \/ Doubt(p)
    \/ ~pass[p].landed /\ UNCHANGED <<inDoubt, late>>

\* No answer (status 0): STOP_PASS marks this row and those behind it, unblocked.
StopPass(p) ==
    /\ Out(p) /\ NotHeard(p)
    /\ outbox' = Marked(pass[p].todo, FALSE)
    /\ pass' = Stopped(p)
    /\ UNCHANGED <<serverVars, session, typed, dropped, captured, astray>>

\* 5xx, 408, 429, 401: RETRY_LATER and on with the next row.
RetryLater(p) ==
    /\ Out(p) /\ NotHeard(p)
    /\ outbox' = Marked({pass[p].row}, FALSE)
    /\ pass' = Moved(p)
    /\ UNCHANGED <<serverVars, session, typed, dropped, captured, astray>>

\* Mutant: a row nobody is retrying is deleted.
BlockDrops(p) ==
    /\ Out(p) /\ ~pass[p].landed
    /\ outbox' = [i \in DOMAIN outbox \ {pass[p].row} |-> outbox[i]]
    /\ pass' = Moved(p)
    /\ UNCHANGED <<serverVars, session, late, typed, inDoubt, dropped, captured, astray>>

\* 4xx: BLOCKED.
Block(p) ==
    /\ Out(p) /\ ~pass[p].landed
    /\ outbox' = Marked({pass[p].row}, TRUE)
    /\ pass' = Moved(p)
    /\ UNCHANGED <<serverVars, session, late, typed, inDoubt, dropped, captured, astray>>

\* 404 not_found: the server has no such route; every row stays as it is.
Unavailable(p) ==
    /\ Out(p) /\ ~pass[p].landed
    /\ pass' = Stopped(p)
    /\ UNCHANGED <<serverVars, session, outbox, late, typed, inDoubt, dropped, captured, astray>>

Finish(p) ==
    /\ pass[p].pc = "send" /\ pass[p].todo = {}
    /\ pass' = Stopped(p)
    /\ UNCHANGED <<serverVars, session, outbox, late, typed, inDoubt, dropped, captured, astray>>

Cut(p) ==
    /\ pass[p] # Resting /\ pass' = Stopped(p)
    /\ IF Out(p) THEN NotHeard(p) ELSE UNCHANGED <<inDoubt, late>>

\* The process is killed; the disk and the cookie stay.
Die ==
    /\ \/ \E p \in Pass : Cut(p)
       \/ (\A p \in Pass : pass[p] = Resting) /\ UNCHANGED <<pass, inDoubt, late>>
    /\ typing' = {} /\ adopting' = {}
    /\ UNCHANGED <<serverVars, session, outbox, typed, dropped, astray>>

PassStep(p) ==
    \/ Begin(p) \/ Plan(p) \/ Land(p) \/ Heard(p) \/ Finish(p)
    \/ \E i \in Item : Send(p, i)
    \/ StopPass(p) \/ RetryLater(p) \/ Block(p) \/ Unavailable(p)

Next ==
    \/ \E w \in Worker : SignIn(w)
    \/ SignOut \/ StartMaterials \/ Submit \/ Die
    \/ \E w \in Worker : Adopt(w)
    \/ \E w \in Worker, i \in Item : Enqueue(w, i)
    \/ \E id \in ids : Acknowledge(id)
    \/ \E p \in Pass : PassStep(p)
    \/ \E m \in late : LandLate(m)
    \/ OfficeStep /\ UNCHANGED phoneVars

Spec == Init /\ [][Next]_vars

-----------------------------------------------------------------------------
(* Properties                                                              *)

Copies(i) == {id \in ids : requests[id].item = i}

\* "The row is written to disk FIRST": what a worker wrote is on the phone or at the
\* server, whatever is lost or killed, unless somebody else's sign-in deleted it.
NothingWrittenIsLost ==
    \A t \in authors : t.item \in DOMAIN outbox \cup dropped \/ Copies(t.item) # {}

\* The POST has no key, so a retry can file a request twice; but only one whose answer
\* was lost: an entry that waits in the outbox is at the server no more often than the
\* phone was left in doubt, and any entry once more at most.
CopiesAreLostAnswers ==
    \A i \in Item :
      Cardinality(Copies(i)) <=
        inDoubt[i] + (IF i \in DOMAIN outbox /\ \A p \in Pass : ~(Out(p) /\ pass[p].row = i)
                        THEN 0 ELSE 1)

\* The server files a request under the name of whoever wrote it, whenever the phone
\* changes hands between typing, the write to disk, the plan and the POST, and however
\* late a POST lands; with one exception, that Api.send takes the cookie of the moment: an
\* entry is in `astray` once it was posted for a worker who had signed out since the pass
\* began.  MaterialSync.kt:30 and MaterialQueue.kt:109 promise it without the exception.
FiledUnderItsAuthor ==
    \A id \in ids : LET r == requests[id] IN
      r.item \in astray \/ [item |-> r.item, worker |-> r.worker] \in authors

=============================================================================
