------------------------------ MODULE PhoneSync ------------------------------
(***************************************************************************)
(* An Android phone on top of the server's shift ledger: the local queue   *)
(* (data/ShiftStore.kt), the taps that write it (TimeSheetViewModel.kt),   *)
(* the passes that deliver it (core/SyncPlan.kt, data/ShiftSync.kt,        *)
(* sync/ShiftSyncJob.kt) and the requests that cross the network.          *)
(*                                                                         *)
(* Everything concurrent on the phone is a thread: a refresh, the platform *)
(* job, or a flow the worker started that waits for the network.  Nothing  *)
(* orders them against one another: each has at most one request in        *)
(* flight, its answer may be lost, and rows change under it meanwhile.     *)
(***************************************************************************)
EXTENDS ShiftLedger

CONSTANTS
    Owner,        \* Key -> the worker on whose phone that key was generated
    Refresh,      \* coroutines of TimeSheetViewModel.refresh
    Job,          \* runs of ShiftSyncJob
    Flow,         \* online flows: a tap-out, Stop, "start without a tag", a resolution
    Strict,       \* keys whose shift opens while the company asks for a photo
    PlaceState,   \* what can become of a building's tag: live, unverified, gone
    Drift         \* how far the phone's clock can be from the server's

Thread == Refresh \cup Job \cup Flow

VARIABLES
    rows,      \* ShiftStore: the keys on this phone -> LocalRow
    session,   \* the worker whose cookie the jar holds, or None
    thread,    \* Thread -> what a coroutine has in memory
    drift,     \* the phone's clock less the server's
    place,     \* Building -> PlaceState: the tag as the server resolves it now
    tapping,   \* what the handler of a tap has in memory, or None
    tapped,    \* history: Key -> the instants at which the worker ended the shift
    confirmed, \* history: those of them where the worker said so: at its own building,
               \* or with Stop
    overwritten  \* history: keys whose local auto_closed an older answer has cleared

taps == <<tapping, tapped, confirmed, overwritten>>
phone == <<rows, session, thread, drift, place, taps>>
allVars == <<vars, phone>>

Code == {"network", "unauthorized", "shift_already_open", "zone_unverified",
         "conflict", "unknown_location", "unknown_shift", "timestamp_in_future",
         "end_before_start", "already_resolved"}

LocalRow == [worker : Worker, building : Building,
             start : Time, end : Time \cup {NoTime},
             auto : BOOLEAN, corrected : BOOLEAN,
             opened : BOOLEAN, closed : BOOLEAN,      \* open_synced_at, close_synced_at
             blocked : Code \cup {"wrong_account", None},   \* sync_error where sync_blocked
             proof : {"unknown", "required", "not_required"}]

\* A request to make; `since` is the start of its row, which orders a pass.
Step == [half : {"open", "close", "resolve"}, key : Key, building : Building,
         at : Time, since : Time, how : {"tap", "switch", "stop"}]
Goal == [key : Key, building : Building, how : {"tap", "stop", "start", "resolve"}]
Answer == [code : Code \cup {"ok"}, row : Row \cup {None}]

\* What a coroutine holds: the worker it began for, the steps of its plan that are left,
\* the one in flight, the cookie it carries and the answer it got, and what the worker
\* wants of an online flow; `final` once that is what is being sent.
Memory == [pc : {"idle", "ask", "asked", "plan", "push", "confirm", "sent", "looking",
                 "answered", "applied"},
           worker : Worker \cup {None}, steps : SUBSET Step, step : Step \cup {None},
           cookie : Worker \cup {None}, answer : Answer \cup {None},
           goal : Goal \cup {None}, final : BOOLEAN]

Resting == [pc |-> "idle", worker |-> None, steps |-> {}, step |-> None, cookie |-> None,
            answer |-> None, goal |-> None, final |-> FALSE]

\* handleTap has looked for an open row ("write"), writeTap has ended it ("start").
Tap == [worker : Worker, building : Building, pc : {"write", "start"}]

Ok(row) == [code |-> "ok", row |-> row]
Refused(code) == [code |-> code, row |-> None]

ASSUME PhoneAssumption ==
    /\ Thread = Request /\ Admin = {}
    /\ Owner \in [Key -> Worker]
    /\ Strict \subseteq Key
    /\ PlaceState \subseteq {"live", "zone_unverified", "unknown_location"}
    /\ "live" \in PlaceState
    /\ None \notin Worker \cup Row \cup Step \cup Goal \cup Answer
    /\ Drift \subseteq Int /\ Drift # {}

PhoneTypeOK ==
    /\ DOMAIN rows \subseteq Key /\ rows \in [DOMAIN rows -> LocalRow]
    /\ session \in Worker \cup {None}
    /\ drift \in Drift /\ place \in [Building -> PlaceState]
    /\ tapped \in [Key -> SUBSET Time] /\ confirmed \in [Key -> SUBSET Time]
    /\ overwritten \subseteq Key
    /\ tapping \in Tap \cup {None}
    /\ thread \in [Thread -> Memory]

\* Instant.now() on the phone.
phoneNow == now + drift

PhoneInit ==
    /\ Init
    /\ rows = [k \in {} |-> None]
    /\ session \in Worker
    /\ thread = [p \in Thread |-> Resting]
    /\ drift \in Drift /\ phoneNow \in Time
    /\ place = [b \in Building |-> "live"]
    /\ tapping = None
    /\ tapped = [k \in Key |-> {}] /\ confirmed = [k \in Key |-> {}] /\ overwritten = {}

-----------------------------------------------------------------------------
(* ShiftStore.                                                             *)

OnPhone(k) == k \in DOMAIN rows
LocallyOpen(k) == OnPhone(k) /\ rows[k].end = NoTime
FullySynced(k) == rows[k].opened /\ (LocallyOpen(k) \/ rows[k].closed)

\* PendingWork: rows that will go out on their own.
Waiting == {k \in DOMAIN rows : ~FullySynced(k) /\ rows[k].blocked = None}

\* openShift(worker): the newest row without an end.
Running(w) ==
    {k \in DOMAIN rows : /\ LocallyOpen(k) /\ rows[k].worker = w
                         /\ \A j \in DOMAIN rows :
                              LocallyOpen(j) /\ rows[j].worker = w
                                => rows[j].start <= rows[k].start}

\* UUID.randomUUID: which unused key a tap takes makes no difference.
FreshKeys(w) == {k \in Key : /\ Owner[k] = w /\ ~OnPhone(k) /\ k \notin stored
                             /\ \A p \in Thread : thread[p].goal = None
                                                    \/ thread[p].goal.key # k}
FreshKey(w) == CHOOSE k \in FreshKeys(w) : TRUE

Started(rs, k, w, b, t) ==
    [j \in DOMAIN rs \cup {k} |->
       IF j = k THEN [worker |-> w, building |-> b, start |-> t, end |-> NoTime,
                      auto |-> FALSE, corrected |-> FALSE, opened |-> FALSE,
                      closed |-> FALSE, blocked |-> None, proof |-> "unknown"]
                ELSE rs[j]]

\* Mutant: writeTap forgets that the end is a guess.
ClosedPlainly(rs, k, e, auto) == [rs EXCEPT ![k].end = e, ![k].closed = FALSE]

Closed(rs, k, e, auto) ==
    [rs EXCEPT ![k].end = e, ![k].auto = @ \/ auto, ![k].closed = FALSE]

ProofOf(k) == IF k \in Strict THEN "required" ELSE "not_required"

\* applyServer: the server's row wins, except that an end is never taken away.
Applied(rs, k, row) ==
    IF k \notin DOMAIN rs THEN rs
    ELSE [rs EXCEPT ![k].auto = row.auto, ![k].corrected = row.corrected,
                    ![k].proof = ProofOf(k),
                    ![k].end = IF row.end = NoTime THEN @ ELSE row.end]

Adopted(rs, k, row) ==
    IF k \in DOMAIN rs THEN rs
    ELSE [j \in DOMAIN rs \cup {k} |->
            IF j = k THEN [worker |-> row.worker, building |-> row.building,
                           start |-> row.start, end |-> row.end, auto |-> row.auto,
                           corrected |-> row.corrected, opened |-> TRUE,
                           closed |-> FALSE, blocked |-> None, proof |-> ProofOf(k)]
                     ELSE rs[j]]

\* The local flag of a building switch goes where that row is open and unflagged: the
\* answer is from before the switch.
Clears(k, row) == OnPhone(k) /\ rows[k].auto /\ row.end = NoTime /\ ~row.auto

OpenSynced(rs, k) == [rs EXCEPT ![k].opened = TRUE, ![k].blocked = None]
CloseSynced(rs, k) == [rs EXCEPT ![k].closed = TRUE, ![k].blocked = None]

\* Mutants: every 4xx but 401 is terminal; every 422 is.
RetryableAuthOnly(code) == code \in {"network", "unauthorized"}
RetryableNoZone(code) == code \in {"network", "unauthorized", "shift_already_open"}

\* ApiFailure.isRetryable
Retryable(code) ==
    code \in {"network", "unauthorized", "shift_already_open", "zone_unverified"}

\* markFailed
Failed(rs, k, code) ==
    IF k \in DOMAIN rs
      THEN [rs EXCEPT ![k].blocked = IF Retryable(code) THEN None ELSE code] ELSE rs

-----------------------------------------------------------------------------
(* The worker.  A tap is one toggle on the row that is open on this phone: *)
(* handleTap takes the account and looks, writeTap looks again and writes. *)
(* No two taps carry the same millisecond, whatever happens to the clock.  *)

EvidenceBusy ==
    tapping # None \/ \E p \in Flow : thread[p].goal # None /\ thread[p].goal.how # "start"

CanTap == session # None /\ ~EvidenceBusy

\* The offline path: nothing runs, or what runs needs no photo.
BeginTap(b) ==
    /\ CanTap
    /\ IF Running(session) = {} THEN FreshKeys(session) # {}
       ELSE \E k \in Running(session) : rows[k].proof = "not_required"
    /\ tapping' = [worker |-> session, building |-> b, pc |-> "write"]
    /\ UNCHANGED <<vars, rows, session, thread, drift, place, tapped, confirmed, overwritten>>

Writes(pc) == tapping # None /\ tapping.pc = pc

StartsNow == Started(rows, FreshKey(tapping.worker), tapping.worker, tapping.building, phoneNow)

TapIn ==
    /\ Writes("write") /\ Running(tapping.worker) = {} /\ FreshKeys(tapping.worker) # {}
    /\ rows' = StartsNow
    /\ tapping' = None
    /\ UNCHANGED <<vars, session, thread, drift, place, tapped, confirmed, overwritten>>

TapOut ==
    /\ Writes("write")
    /\ \E k \in Running(tapping.worker) :
         /\ rows[k].building = tapping.building /\ rows[k].start # phoneNow
         /\ rows' = Closed(rows, k, phoneNow, FALSE)
         /\ tapped' = [tapped EXCEPT ![k] = @ \cup {phoneNow}]
         /\ confirmed' = [confirmed EXCEPT ![k] = @ \cup {phoneNow}]
    /\ tapping' = None
    /\ UNCHANGED <<vars, session, thread, drift, place, overwritten>>

\* At another building: the old row is ended, and then, in a statement of its own, the
\* new one is written.
TapElsewhere ==
    /\ Writes("write")
    /\ \E k \in Running(tapping.worker) :
         /\ rows[k].building # tapping.building /\ rows[k].start # phoneNow
         /\ rows' = Closed(rows, k, phoneNow, TRUE)
         /\ tapped' = [tapped EXCEPT ![k] = @ \cup {phoneNow}]
    /\ tapping' = [tapping EXCEPT !.pc = "start"]
    /\ UNCHANGED <<vars, session, thread, drift, place, confirmed, overwritten>>

Arrive ==
    /\ Writes("start") /\ FreshKeys(tapping.worker) # {}
    /\ rows' = StartsNow
    /\ tapping' = None
    /\ UNCHANGED <<vars, session, thread, drift, place, tapped, confirmed, overwritten>>

\* A tap, or Stop, on a row whose photo policy is unknown or requires a photo goes
\* online: confirmedShift first pushes and adopts when the policy is unknown.
EndOnline(p, b, how) ==
    /\ CanTap /\ thread[p] = Resting
    /\ \E k \in Running(session) :
         /\ how = "tap" => rows[k].proof # "not_required"
         /\ rows[k].start # phoneNow
         /\ thread' = [thread EXCEPT ![p] =
              [Resting EXCEPT !.pc = IF rows[k].proof = "unknown" THEN "plan" ELSE "confirm",
                              !.worker = session,
                              !.goal = [key |-> k, how |-> how, building |->
                                          IF how = "stop" THEN rows[k].building ELSE b]]]
    /\ UNCHANGED <<vars, rows, session, drift, place, taps>>

\* manualOpen: "start without a tag", online, before any local row exists.
StartOnline(p, b) ==
    /\ session # None /\ thread[p] = Resting
    /\ Running(session) = {} /\ FreshKeys(session) # {}
    /\ thread' = [thread EXCEPT ![p] =
         [Resting EXCEPT !.pc = "confirm", !.worker = session,
                         !.goal = [key |-> FreshKey(session), how |-> "start", building |-> b]]]
    /\ UNCHANGED <<vars, rows, session, drift, place, taps>>

\* resolve: the worker confirms the end of a shift GET /shifts/unresolved listed, now
\* or when it was last asked: a flagged shift keeps its auto_closed.
ResolveOnline(p, k) ==
    /\ CanTap /\ thread[p] = Resting
    /\ Ended(k) /\ shift[k].auto /\ shift[k].worker = session
    /\ thread' = [thread EXCEPT ![p] =
         [Resting EXCEPT !.pc = "confirm", !.worker = session,
                         !.goal = [key |-> k, how |-> "resolve",
                                   building |-> shift[k].building]]]
    /\ UNCHANGED <<vars, rows, session, drift, place, taps>>

\* Signing out keeps the queue, and stops no coroutine that is already running.
SignOut ==
    /\ session # None
    /\ session' = None
    /\ UNCHANGED <<vars, rows, thread, drift, place, taps>>

SignIn(w) ==
    /\ session = None
    /\ session' = w
    /\ UNCHANGED <<vars, rows, thread, drift, place, taps>>

-----------------------------------------------------------------------------
(* A pass: adopt the server's open shift (a refresh), then plan and push.  *)

BeginRefresh(p) ==
    /\ session # None /\ thread[p] = Resting
    /\ thread' = [thread EXCEPT ![p] = [Resting EXCEPT !.pc = "ask", !.worker = session]]
    /\ UNCHANGED <<vars, rows, session, drift, place, taps>>

BeginJob(p) ==
    /\ session # None /\ thread[p] = Resting /\ Waiting # {}
    /\ thread' = [thread EXCEPT ![p] = [Resting EXCEPT !.pc = "plan", !.worker = session]]
    /\ UNCHANGED <<vars, rows, session, drift, place, taps>>

StepFor(k, row) == [half |-> "open", key |-> k, building |-> row.building,
                    at |-> row.start, since |-> row.start, how |-> "tap"]

AfterAsk(p) == IF thread[p].goal = None THEN "plan" ELSE "confirm"

\* GET /shifts/open: the row it names is held, its key in a step, until it is applied.
Ask(p) ==
    /\ thread[p].pc = "ask" /\ session # None
    /\ \/ \E k \in stored : /\ Open(k) /\ shift[k].worker = session
                            /\ thread' = [thread EXCEPT ![p].pc = "asked",
                                            ![p].step = StepFor(k, shift[k]),
                                            ![p].answer = Ok(shift[k])]
       \/ ~HasOpen(session) /\ thread' = [thread EXCEPT ![p].pc = AfterAsk(p)]
    /\ UNCHANGED <<vars, rows, session, drift, place, taps>>

AskFails(p) ==
    /\ thread[p].pc = "ask"
    /\ thread' = [thread EXCEPT ![p].pc = AfterAsk(p)]
    /\ UNCHANGED <<vars, rows, session, drift, place, taps>>

Adopt(p) ==
    /\ thread[p].pc = "asked"
    /\ LET k == thread[p].step.key
           row == thread[p].answer.row
       IN /\ rows' = Applied(Adopted(rows, k, row), k, row)
          /\ overwritten' = overwritten \cup {j \in {k} : Clears(j, row)}
    /\ thread' = [thread EXCEPT ![p].pc = AfterAsk(p), ![p].step = None, ![p].answer = None]
    /\ UNCHANGED <<vars, session, drift, place, tapping, tapped, confirmed>>

\* Mutants: a half carries the instant of its delivery.
OpenStepNow(k) == [StepFor(k, rows[k]) EXCEPT !.at = phoneNow]
CloseStepNow(k) ==
    [StepFor(k, rows[k]) EXCEPT !.half = "close", !.at = phoneNow,
                                !.how = IF rows[k].auto THEN "switch" ELSE "tap"]

OpenStep(k) == StepFor(k, rows[k])

CloseStep(k) ==
    [StepFor(k, rows[k]) EXCEPT !.half = "close", !.at = rows[k].end,
                                !.how = IF rows[k].auto THEN "switch" ELSE "tap"]

StepsOf(k) ==
    (IF rows[k].opened THEN {} ELSE {OpenStep(k)})
      \cup (IF LocallyOpen(k) \/ rows[k].closed THEN {} ELSE {CloseStep(k)})

\* Mutant: rows are not checked against the account.
WrongAccountNever(k, w) == FALSE

WrongAccount(k, w) == ~rows[k].opened /\ rows[k].worker # w

\* SyncPlan.plan.
Plan(p) ==
    /\ thread[p].pc = "plan"
    /\ LET w == thread[p].worker
           due == {k \in Waiting : ~WrongAccount(k, w)}
       IN /\ thread' = [thread EXCEPT ![p].pc = "push",
                                      ![p].steps = UNION {StepsOf(k) : k \in due}]
          /\ rows' = [k \in DOMAIN rows |->
                        IF k \in Waiting /\ WrongAccount(k, w)
                          THEN [rows[k] EXCEPT !.blocked = "wrong_account"] ELSE rows[k]]
    /\ UNCHANGED <<vars, session, drift, place, taps>>

\* Oldest first, the open before the close.
Before(st, other) ==
    \/ st.since < other.since
    \/ st.key = other.key /\ st.half = "open" /\ other.half = "close"

First(steps) == {st \in steps : \A other \in steps : ~Before(other, st)}

\* The cookie is read from the jar for each request.
Send(p) ==
    /\ thread[p].pc = "push"
    /\ \E st \in First(thread[p].steps) :
         thread' = [thread EXCEPT ![p].pc = "sent", ![p].cookie = session, ![p].step = st]
    /\ UNCHANGED <<vars, rows, session, drift, place, taps>>

EndPass(p) ==
    /\ thread[p].pc = "push" /\ thread[p].steps = {}
    /\ thread' = [thread EXCEPT ![p] =
                    IF @.goal = None THEN Resting ELSE [@ EXCEPT !.pc = "ask"]]
    /\ UNCHANGED <<vars, rows, session, drift, place, taps>>

\* The last request of an online flow: stamped now, not when the flow began.
FinalStep(g) ==
    [half |-> IF g.how \in {"tap", "stop"} THEN "close"
              ELSE IF g.how = "start" THEN "open" ELSE "resolve",
     key |-> g.key, building |-> g.building, at |-> phoneNow, since |-> phoneNow,
     how |-> IF g.how = "stop" THEN "stop"
             ELSE IF g.how = "tap" /\ g.building # rows[g.key].building THEN "switch"
             ELSE "tap"]

Confirm(p) ==
    /\ thread[p].pc = "confirm"
    /\ LET g == thread[p].goal IN
       IF g.how \in {"tap", "stop"} /\ rows[g.key].proof = "unknown"
         THEN thread' = [thread EXCEPT ![p] = Resting] /\ UNCHANGED <<tapped, confirmed>>
         ELSE /\ \E e \in IF g.how = "resolve" THEN Time ELSE {phoneNow} :
                   /\ g.how = "resolve" => SaneWindow(shift[g.key].start, e)
                   /\ thread' = [thread EXCEPT ![p].pc = "sent", ![p].cookie = session,
                                   ![p].final = TRUE,
                                   ![p].step = [FinalStep(g) EXCEPT !.at = e]]
              /\ tapped' = IF g.how \in {"tap", "stop"}
                             THEN [tapped EXCEPT ![g.key] = @ \cup {phoneNow}] ELSE tapped
              /\ confirmed' =
                   IF g.how = "stop" \/ (g.how = "tap" /\ g.building = rows[g.key].building)
                     THEN [confirmed EXCEPT ![g.key] = @ \cup {phoneNow}] ELSE confirmed
    /\ UNCHANGED <<vars, rows, session, drift, place, tapping, overwritten>>

-----------------------------------------------------------------------------
(* The request in flight reaches the server, or does not.                  *)

Answered(p, answer) ==
    thread' = [thread EXCEPT ![p].pc = "answered", ![p].answer = answer]

LandOpen(p, st, w) ==
    \/ /\ place[st.building] # "live"
       /\ Answered(p, Refused(place[st.building]))
       /\ UNCHANGED vars
    \/ /\ place[st.building] = "live" /\ ~Acceptable(st.at)
       /\ Answered(p, Refused("timestamp_in_future"))
       /\ UNCHANGED vars
    \/ /\ place[st.building] = "live"
       /\ InsertOpen(st.key, w, st.building, st.at)
       /\ Answered(p, Ok(FreshShift(w, st.building, st.at)))
       /\ UNCHANGED <<now, req>>
    \/ /\ place[st.building] = "live"
       /\ OpenConflict(p, st.key, w, st.at)
       /\ thread' = [thread EXCEPT ![p].pc = "looking"]

LookUp(p) ==
    /\ thread[p].pc = "looking"
    /\ \/ /\ OpenFindKey(p)
          /\ IF req'[p] = Idle THEN Answered(p, Ok(shift[req[p].key])) ELSE UNCHANGED thread
       \/ /\ OpenFindOpen(p)
          /\ IF req'[p] = Idle THEN Answered(p, Refused("shift_already_open"))
                               ELSE UNCHANGED thread
       \/ ConflictAnswered(p) /\ Answered(p, Refused("conflict"))
    /\ UNCHANGED <<rows, session, drift, place, taps>>

LandClose(p, st, w) ==
    LET k == st.key
        mine == k \in stored /\ shift[k].worker = w
    IN \/ ~mine /\ Answered(p, Refused("unknown_shift")) /\ UNCHANGED vars
       \/ mine /\ Ended(k) /\ Answered(p, Ok(shift[k])) /\ UNCHANGED vars
       \/ /\ mine /\ Open(k) /\ ~SaneWindow(shift[k].start, st.at)
          /\ Answered(p, Refused(IF Acceptable(st.at) THEN "end_before_start"
                                                  ELSE "timestamp_in_future"))
          /\ UNCHANGED vars
       \/ /\ CloseRow(k, w, st.at, st.how, None)
          /\ Answered(p, Ok(ClosedRow(shift[k], st.at, st.how)))
          /\ UNCHANGED <<now, req>>

LandResolve(p, st, w) ==
    LET k == st.key
        mine == k \in stored /\ shift[k].worker = w
    IN \/ ~mine /\ Answered(p, Refused("unknown_shift")) /\ UNCHANGED vars
       \/ mine /\ ~Flagged(k) /\ Answered(p, Refused("already_resolved")) /\ UNCHANGED vars
       \/ /\ ResolveRow(k, w, st.at)
          /\ Answered(p, Ok(ResolvedRow(shift[k], st.at)))
          /\ UNCHANGED <<now, req>>

\* A cookie that is no longer the phone's may or may not have been revoked by now.
Land(p) ==
    /\ thread[p].pc = "sent"
    /\ LET st == thread[p].step
           w == thread[p].cookie
       IN \/ /\ w # session \/ w = None
             /\ Answered(p, Refused("unauthorized")) /\ UNCHANGED vars
          \/ /\ w # None
             /\ CASE st.half = "open" -> LandOpen(p, st, w)
                  [] st.half = "close" -> LandClose(p, st, w)
                  [] st.half = "resolve" -> LandResolve(p, st, w)
    /\ UNCHANGED <<rows, session, drift, place, taps>>

-----------------------------------------------------------------------------
(* The answer, or the lack of one, comes back to the phone.                *)

\* A shift whose open failed must not have its close attempted in this pass.
GiveUpOn(steps, k) == {st \in steps : st.key # k}

NextStep(p, steps) ==
    [thread EXCEPT ![p].pc = "push", ![p].step = None, ![p].cookie = None,
                   ![p].answer = None, ![p].steps = steps]

\* applyServer, or adopt where "start without a tag" has no row yet.
Apply(p) ==
    /\ thread[p].pc = "answered" /\ thread[p].answer.code = "ok"
    /\ LET st == thread[p].step
           row == thread[p].answer.row
       IN IF thread[p].final /\ st.half = "open"
            THEN rows' = Adopted(rows, st.key, row) /\ UNCHANGED overwritten
            ELSE /\ rows' = Applied(rows, st.key, row)
                 /\ overwritten' = overwritten \cup {j \in {st.key} : Clears(j, row)}
    /\ thread' = [thread EXCEPT ![p].pc = "applied"]
    /\ UNCHANGED <<vars, session, drift, place, tapping, tapped, confirmed>>

\* Mutant: one answer marks both halves.
MarkedBoth(rs, st, final) ==
    IF st.key \notin DOMAIN rs THEN rs ELSE CloseSynced(OpenSynced(rs, st.key), st.key)

\* markOpenSynced or markCloseSynced, a write of its own; a resolution marks nothing.
Marked(rs, st, final) ==
    IF st.key \notin DOMAIN rs \/ st.half = "resolve" \/ (final /\ st.half = "open") THEN rs
    ELSE IF st.half = "open" THEN OpenSynced(rs, st.key) ELSE CloseSynced(rs, st.key)

\* After an online tap at another building the new shift starts.
Mark(p) ==
    /\ thread[p].pc = "applied"
    /\ LET st == thread[p].step
           g == thread[p].goal
       IN /\ rows' = Marked(rows, st, thread[p].final)
          /\ IF thread[p].final THEN thread' = [thread EXCEPT ![p] = Resting]
                                ELSE thread' = NextStep(p, thread[p].steps \ {st})
          /\ IF thread[p].final /\ st.half = "close" /\ st.how = "switch"
               THEN tapping' = [worker |-> rows[g.key].worker, building |-> g.building,
                                pc |-> "start"]
               ELSE UNCHANGED tapping
    /\ UNCHANGED <<vars, session, drift, place, tapped, confirmed, overwritten>>

\* A failure is marked on the row of a pass, and only shown by an online flow.
Fails(p, code) ==
    /\ IF thread[p].final
         THEN UNCHANGED rows /\ thread' = [thread EXCEPT ![p] = Resting]
         ELSE LET k == thread[p].step.key IN
              /\ rows' = Failed(rows, k, code)
              /\ thread' = NextStep(p, GiveUpOn(thread[p].steps, k))
    /\ UNCHANGED <<session, drift, place, taps>>

Deliver(p) ==
    \/ Apply(p)
    \/ /\ thread[p].pc = "answered" /\ thread[p].answer.code # "ok"
       /\ Fails(p, thread[p].answer.code)
       /\ UNCHANGED vars

\* No signal, a timeout, a dropped connection: the request may have landed or not.
Lose(p) ==
    /\ thread[p].pc \in {"sent", "looking", "answered"}
    /\ Fails(p, "network")
    /\ req' = [req EXCEPT ![p] = Idle]
    /\ UNCHANGED <<now, table>>

\* The process is killed: the queue is on disk, everything else is gone.
PhoneDies ==
    /\ tapping # None \/ \E p \in Thread : thread[p] # Resting
    /\ thread' = [p \in Thread |-> Resting] /\ tapping' = None
    /\ req' = [p \in Request |-> Idle]
    /\ UNCHANGED <<now, table, rows, session, drift, place, tapped, confirmed, overwritten>>

-----------------------------------------------------------------------------
SetPlace(b, s) ==
    /\ place[b] # s
    /\ place' = [place EXCEPT ![b] = s]
    /\ UNCHANGED <<vars, rows, session, thread, drift, taps>>

\* The phone's clock is set; both clocks stay within the bound.
SetClock(d) ==
    /\ drift # d /\ now + d \in Time
    /\ drift' = d
    /\ UNCHANGED <<vars, rows, session, thread, place, taps>>

ServerStep == (AutoClose \/ Tick) /\ now' + drift \in Time /\ UNCHANGED phone

WorkerActs ==
    \/ \E b \in Building : BeginTap(b)
    \/ TapIn \/ TapOut \/ TapElsewhere \/ Arrive
    \/ \E p \in Flow, b \in Building : StartOnline(p, b) \/ EndOnline(p, b, "tap")
    \/ \E p \in Flow : EndOnline(p, CHOOSE b \in Building : TRUE, "stop")
    \/ \E p \in Flow, k \in Key : ResolveOnline(p, k)
    \/ SignOut \/ \E w \in Worker : SignIn(w)

ThreadStep(p) ==
    \/ Ask(p) \/ AskFails(p) \/ Adopt(p) \/ Plan(p) \/ Send(p) \/ EndPass(p)
    \/ Confirm(p) \/ Land(p) \/ LookUp(p) \/ Deliver(p) \/ Mark(p)
    \/ Lose(p)

PhoneNext ==
    \/ ServerStep \/ WorkerActs \/ PhoneDies
    \/ \E p \in Refresh : BeginRefresh(p)
    \/ \E p \in Job : BeginJob(p)
    \/ \E p \in Thread : ThreadStep(p)
    \/ \E b \in Building, s \in PlaceState : SetPlace(b, s)
    \/ \E d \in Drift : SetClock(d)

PhoneSpec == PhoneInit /\ [][PhoneNext]_allVars

\* Delivery is fair when the worker's phone is: the platform re-arms the job while
\* something waits (SyncScheduler.ensure), a pass goes on to its end, and again and
\* again there is a signal for long enough to answer a request about each row.  The
\* server's timer is fair too (systemd), and its clock goes on.
About(p, k) == thread[p].step # None /\ thread[p].step.key = k

Signal(p) ==
    /\ \A k \in Key : SF_allVars(About(p, k) /\ Land(p)) /\ SF_allVars(About(p, k) /\ Deliver(p))
    /\ \A pc \in {"find_key", "find_open", "conflict"} :
         SF_allVars(req[p].pc = pc /\ LookUp(p))

FairPhoneSpec ==
    /\ PhoneSpec /\ WF_allVars(ServerStep)
    /\ \A p \in Job :
         /\ WF_allVars(BeginJob(p) \/ Plan(p) \/ Send(p) \/ Mark(p) \/ EndPass(p))
         /\ Signal(p)

-----------------------------------------------------------------------------
(* What the phone promises.                                                *)

\* The hours paid are those of the taps, whenever and however often they were
\* delivered: a shift a tap ended has the tap's instant as its end, and it starts
\* when and where the phone's own row says (SyncScheduler: a row that arrives five
\* hours late is still paid for the right hours).
PaidAsTapped ==
    \A k \in stored :
      /\ Ended(k) /\ endBy[k] \in {"tap", "switch"} => shift[k].end \in tapped[k]
      /\ OnPhone(k) => /\ shift[k].start = rows[k].start
                       /\ shift[k].building = rows[k].building

\* What the phone counts as delivered is on the server: PendingWork stays quiet
\* about a row only when nothing of it is left to send.
DeliveredIsStored ==
    \A k \in DOMAIN rows :
      /\ rows[k].opened => k \in stored
      /\ rows[k].closed => Ended(k) /\ rows[k].end # NoTime

\* No shift reaches payroll with an end time nobody confirmed (app.js, writeTap): the end
\* of a payable shift is an instant at which the worker tapped out of that building or
\* pressed Stop, or one the worker gave in a resolution.
NoEndIsAGuess ==
    \A k \in stored : Payable(k) => endBy[k] = "resolve" \/ shift[k].end \in confirmed[k]

VouchedFor(k, t) == t \in confirmed[k] \/ k \in overwritten

\* The code breaks NoEndIsAGuess in one way, set aside here by name: an answer from before
\* a building switch clears the switch's flag on the phone (applyServer), and the close
\* goes out as a plain tap.  Every other payable end is one the worker confirmed.
OnlyOverwrittenIsAGuess ==
    \A k \in stored : Payable(k) => endBy[k] = "resolve" \/ VouchedFor(k, shift[k].end)

\* Both halves are idempotent on client_uuid (app.js): a half that has already landed
\* is not answered, to its own worker, with a refusal that makes the phone give the row
\* up.  Two refusals of an open are set aside by name, both terminal on the phone: 409
\* conflict, although app.js says of it that retrying works, and 422 unknown_location
\* where the tag has been deleted since, because the route checks the place before it
\* looks for the row.
SetAside(st, code) ==
    st.half = "open" /\ \/ code = "conflict"
                        \/ code = "unknown_location" /\ place[st.building] = code

AcceptsLanded(p) ==
    thread'[p].pc = "answered" /\ thread[p].pc # "answered" =>
      LET st == thread[p].step
          landed == /\ st.key \in stored /\ shift[st.key].worker = thread[p].cookie
                    /\ st.half = "close" => Ended(st.key)
          code == thread'[p].answer.code
      IN landed /\ st.half # "resolve"
           => code = "ok" \/ Retryable(code) \/ SetAside(st, code)

LandedHalfIsAccepted == [][\A p \in Thread : AcceptsLanded(p)]_allVars

\* A pass that has kept its account opens no shift queued under another one
\* (SyncPlan: WRONG_ACCOUNT).
OpensItsOwnRows ==
    \A p \in Thread :
      thread[p].pc = "sent" /\ ~thread[p].final /\ thread[p].cookie = thread[p].worker
        => (thread[p].step.half = "open" => Owner[thread[p].step.key] = thread[p].cookie)

\* The refusals no retry follows: the queue was planned under another account; the tag was
\* deleted; the phone's clock was ahead by more than the skew; or the timer ended the
\* worker's older shift between the INSERT and the look-up (409 conflict, of which app.js
\* says that retrying works).
Stranded(k) ==
    OnPhone(k) /\ rows[k].blocked \in {"wrong_account", "unknown_location",
                                      "timestamp_in_future", "conflict"}

\* The worker stays signed in, on a phone whose clock is right, at places whose tags stay
\* verified; and the bounded clock has room for the timer to end every open shift.
LeftAlone(k) ==
    /\ session = Owner[k] /\ drift = 0 /\ \A b \in Building : place[b] = "live"
    /\ \A j \in stored : Open(j) => shift[j].start + Window < MaxTime

\* A tap-in reaches the server, or its row is stranded by one of those four refusals, once
\* the phone is left alone and its process lives: whatever was lost, refused or killed
\* before, no other failure gives a row up.
EveryTapIsDelivered ==
    \A k \in Key :
      <>[]LeftAlone(k) /\ <>[][~PhoneDies]_allVars
        => (OnPhone(k) ~> (k \in stored \/ Stranded(k)))

=============================================================================
