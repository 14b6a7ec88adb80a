--------------------------- MODULE MaterialRequests ---------------------------
(***************************************************************************)
(* Material requests at the server.  A worker files a request, which is    *)
(* not idempotent by design; administrators approve, order, price and      *)
(* refuse it; the worker acknowledges the arrival.  PATCH reads the status *)
(* in one transaction and writes it back in another, with no lock and no   *)
(* condition on what it read.                                              *)
(***************************************************************************)
EXTENDS Integers, Sequences

CONSTANTS
    Worker,
    Item,         \* what is asked for, once per entry of the phone's outbox
    Admin,        \* sessions that PATCH, one request each at a time
    MaxRequests,  \* bound on rows
    MaxHandled,   \* bound on the rows the office works on
    MaxMonth,     \* bound on the clock
    None

Month == 0 .. MaxMonth

ASSUME MaterialAssumption ==
    /\ MaxRequests \in Nat /\ MaxHandled \in Nat /\ MaxMonth \in Nat
    /\ None \notin Month \cup Worker

\* The lifecycle: arrived and rejected are terminal.
Transitions ==
    [submitted |-> {"approved", "rejected"}, approved |-> {"ordered", "rejected"},
     ordered |-> {"arrived"}, arrived |-> {}, rejected |-> {}]

Status == {"submitted", "approved", "ordered", "arrived", "rejected"}
Spend == {"ordered", "arrived"}

\* `ordered` pins the cost to a month; arrived_at and seen_at by whether they are set.
\* The cost, the note and the product are left out: no step reads them.
Request == [worker : Worker, item : Item, status : Status,
            ordered : Month \cup {None}, arrived : BOOLEAN, seen : BOOLEAN]

\* What PATCH carries from its read to its write; `from` is the status it read.
Edit == [id : 1 .. MaxRequests, from : Status, status : Status]
Idle == [id |-> 0]

VARIABLES
    month,     \* of the server's clock
    requests,  \* material_requests, by id
    edit       \* Admin -> the PATCH it has under way

serverVars == <<month, requests, edit>>

ids == DOMAIN requests

ServerTypeOK ==
    /\ month \in Month
    /\ requests \in Seq(Request) /\ Len(requests) <= MaxRequests
    /\ edit \in [Admin -> {Idle} \cup Edit]

ServerInit ==
    /\ month = 0
    /\ requests = <<>>
    /\ edit = [a \in Admin |-> Idle]

-----------------------------------------------------------------------------

Filed(w, item) ==
    [worker |-> w, item |-> item, status |-> "submitted",
     ordered |-> None, arrived |-> FALSE, seen |-> FALSE]

\* POST /material-requests
File(w, item) ==
    /\ Len(requests) < MaxRequests
    /\ requests' = Append(requests, Filed(w, item))
    /\ UNCHANGED <<month, edit>>

\* Mutant: a decision may be taken back.
LegalUndecided(from, next) ==
    /\ from # "rejected"
    /\ next \in {None, from, "submitted"} \cup Transitions[from]

\* assertTransition, and a refused request takes no further edit.
Legal(from, next) ==
    /\ from # "rejected"
    /\ next \in {None, from} \cup Transitions[from]

\* PATCH /admin/material-requests/:id, up to the reads.  `next` is None where the
\* body has no status: somebody types a cost or a note.
PatchRead(a, id, next) ==
    /\ edit[a] = Idle /\ id <= MaxHandled
    /\ LET from == requests[id].status IN
         /\ Legal(from, next)
         /\ edit' = [edit EXCEPT ![a] = [id |-> id, from |-> from,
                                          status |-> IF next = None THEN from ELSE next]]
    /\ UNCHANGED <<month, requests>>

\* Mutants: ordered_at = now() with every write of 'ordered'; not stamped at all when
\* the row had been ordered once and is 'approved' again.
PatchedStampsAgain(r, e) ==
    [r EXCEPT !.status = e.status,
              !.ordered = IF e.status = "ordered" THEN month ELSE @,
              !.arrived = @ \/ e.status = "arrived"]

PatchedUnstamped(r, e) ==
    [r EXCEPT !.status = e.status,
              !.ordered = IF e.status = "ordered" /\ r.status = e.from /\ @ = None THEN month ELSE @,
              !.arrived = @ \/ e.status = "arrived"]

\* The UPDATE.
Patched(r, e) ==
    [r EXCEPT !.status = e.status,
              !.ordered = IF e.status = "ordered" /\ @ = None THEN month ELSE @,
              !.arrived = @ \/ e.status = "arrived"]

PatchWrite(a) ==
    /\ edit[a] # Idle
    /\ requests' = [requests EXCEPT ![edit[a].id] = Patched(@, edit[a])]
    /\ edit' = [edit EXCEPT ![a] = Idle]
    /\ UNCHANGED month

\* POST /material-requests/:id/seen
MarkSeen(w, id) ==
    /\ requests[id].worker = w /\ requests[id].status = "arrived"
    /\ requests' = [requests EXCEPT ![id].seen = TRUE]
    /\ UNCHANGED <<month, edit>>

\* The server restarts: PATCHes between read and write are lost.
Restart ==
    /\ edit' = [a \in Admin |-> Idle]
    /\ UNCHANGED <<month, requests>>

NextMonth == month < MaxMonth /\ month' = month + 1 /\ UNCHANGED <<requests, edit>>

OfficeStep ==
    \/ \E a \in Admin, id \in ids, next \in Status \cup {None} : PatchRead(a, id, next)
    \/ \E a \in Admin : PatchWrite(a)
    \/ Restart
    \/ NextMonth

-----------------------------------------------------------------------------
(* What the books say                                                      *)

\* materialPool: the requests that are paid for in a month.
Pool(m) == {id \in ids : requests[id].status \in Spend /\ requests[id].ordered = m}

\* Whatever two administrators overwrite of each other, a request that is ordered or
\* has arrived has the month its cost belongs to, so the pool of some month holds it
\* (materialPool); a PATCH on its way to such a status will find it or set it.
SpendHasItsMonth ==
    /\ \A id \in ids : requests[id].status \in Spend => \E m \in Month : id \in Pool(m)
    /\ \A a \in Admin :
         edit[a] # Idle /\ edit[a].status = "arrived" => requests[edit[a].id].ordered # None

\* An arrival is acknowledged after it happened, and not before the order
\* (markMaterialRequestSeen), although a stale PATCH may take the status back.
SeenAfterArrival ==
    \A id \in ids : /\ requests[id].seen => requests[id].arrived
                    /\ requests[id].arrived => requests[id].ordered # None

\* ordered_at is the period pin: a spend never moves to another month, also when its
\* status was taken back and it is ordered a second time (005_v2_features.sql:53).
MonthNeverMoves ==
    [][\A id \in ids : requests[id].ordered # None =>
         requests'[id].ordered = requests[id].ordered]_serverVars

\* The status leaves the table of lifecycle moves in one way only: by the write of a
\* PATCH that had read the row before somebody else's PATCH changed it.
OnlyStaleWritesLeaveTheTable ==
    [][\A id \in ids :
         LET old == requests[id].status IN
         requests'[id].status \in {old} \cup Transitions[old]
         \/ \E a \in Admin : edit[a].id = id /\ edit'[a] = Idle /\ edit[a].from # old]_serverVars

=============================================================================
