---------------------------- MODULE ShiftEvidence ----------------------------
(***************************************************************************)
(* The camera proof of a shift: challenge, photograph and the close or     *)
(* resolution that consumes it (lib/shift-evidence.js,                     *)
(* routes/shift-evidence.js, app.js), and the phone that walks through     *)
(* them (TimeSheetViewModel.captureProof, closeWithEvidence, resolve).     *)
(*                                                                         *)
(* Of the shift only what the proof depends on is kept: whether it has     *)
(* ended, the two flags of its end and the proof columns; ShiftLedger has  *)
(* the rest.  Challenge, upload, close and resolve are one transaction     *)
(* each under the shift's row lock, hence one action; opening a shift and  *)
(* the administrator's PATCH are two.                                      *)
(*                                                                         *)
(* A definition introduced as a mutant is part of no behaviour.            *)
(***************************************************************************)
EXTENDS Integers, FiniteSets

CONSTANTS
    Shift,        \* client_uuid values
    Phone,        \* phones of the one worker these shifts belong to
    Ending,       \* ways a worker ends a shift: at its tag, at another building's, with Stop
    Office,       \* the PATCH requests of administrators: one of each
    Challenge,    \* UUIDs that stand for challenges, and for the photographs they lead to
    None,
    TTL,          \* EVIDENCE_TTL_MS, in clock units
    ClockSkew,    \* the five seconds captureTime allows
    Drift,        \* how far a phone's clock may be off
    Window,       \* the timer's eight hours
    MaxTime       \* bound on the clock

Time == 0 .. MaxTime
NoTime == -1      \* SQL NULL in proof_challenged_at
ASSUME EvidenceAssumption ==
    /\ TTL \in Nat /\ ClockSkew \in Nat /\ Drift \in Nat
    /\ Window \in Nat /\ MaxTime \in Nat
    /\ None \notin Challenge \cup Shift
    /\ Ending \subseteq {"close", "switch", "stop"}

Row == [start : Time, required : BOOLEAN, ended : BOOLEAN,
        auto : BOOLEAN, corrected : BOOLEAN, proof : Challenge \cup {None},
        challenge : Challenge \cup {None}, challengedAt : Time \cup {NoTime}]

\* shift_proofs has at most one row a shift (shift_id is UNIQUE).  A challenge is
\* answered by one INSERT at most, so a photograph's id is named after its challenge.
\* `asked` is history: when the challenge it answers was issued.
Photo == [id : Challenge, captured : Int, asked : Time]
NoPhoto == [id |-> None, captured |-> NoTime, asked |-> NoTime]

\* What the worker's flow on a phone has in memory: the request or the camera it
\* waits for, what it wants, and what it has obtained.
Flow == [pc : {"rest", "insert", "replay", "challenge", "camera", "upload", "finish"},
         shift : Shift \cup {None}, want : Ending \cup {None, "resolve"},
         policy : BOOLEAN, challenge : Challenge \cup {None}, captured : Int]
Resting == [pc |-> "rest", shift |-> None, want |-> None, policy |-> FALSE,
            challenge |-> None, captured |-> NoTime]

Patching == [shift : Shift, done : {FALSE}, ended : BOOLEAN, corrected : BOOLEAN]
NoPatch == [shift |-> None, done |-> FALSE]
Patched == [shift |-> None, done |-> TRUE]

VARIABLES
    now,       \* the server's clock
    policy,    \* shift_policies.proof_of_work_required
    shift,     \* table shifts: from the ids it holds to rows
    photo,     \* table shift_proofs: Shift -> its photo
    patch,     \* Office -> what PATCH has read
    flow,      \* Phone -> the coroutine under _evidenceBusy
    row,       \* Phone -> Shift -> the local row: none, open, ended
    saved,     \* Phone -> Shift -> shifts.proof_id on the phone, which is also the
               \* proof a flow has in hand: it is saved before it is used
    endBy      \* history: who ended the shift last

server == <<policy, shift, photo, patch, endBy>>
device == <<flow, row, saved>>
vars == <<now, server, device>>

stored == DOMAIN shift
Flagged(s) == shift[s].auto /\ ~shift[s].corrected

RowsOK ==
    /\ stored \subseteq Shift /\ shift \in [stored -> Row]
    /\ \A s \in stored : shift[s].challenge # None => shift[s].challengedAt # NoTime

FlowsOK ==
    /\ flow \in [Phone -> Flow]
    /\ \A p \in Phone :
         /\ flow[p].pc # "rest" => flow[p].shift \in Shift
         /\ flow[p].pc \notin {"rest", "insert"} => flow[p].shift \in stored
         /\ flow[p].pc \in {"camera", "upload"} => flow[p].challenge # None

TypeOK ==
    /\ now \in Time /\ policy \in BOOLEAN
    /\ RowsOK /\ FlowsOK
    /\ photo \in [Shift -> Photo \cup {NoPhoto}]
    /\ patch \in [Office -> Patching \cup {NoPatch, Patched}]
    /\ row \in [Phone -> [Shift -> {"none", "open", "ended"}]]
    /\ saved \in [Phone -> [Shift -> Challenge \cup {None}]]
    /\ endBy \in [Shift -> {None, "worker", "timer", "office"}]

Init ==
    /\ now = 0 /\ policy \in BOOLEAN
    /\ shift = << >>
    /\ photo = [s \in Shift |-> NoPhoto]
    /\ patch = [o \in Office |-> NoPatch]
    /\ flow = [p \in Phone |-> Resting]
    /\ row = [p \in Phone |-> [s \in Shift |-> "none"]]
    /\ saved = [p \in Phone |-> [s \in Shift |-> None]]
    /\ endBy = [s \in Shift |-> None]

\* randomUUID: an id nothing refers to.  An id that is referred to nowhere any
\* more is as good as a new one, which keeps the set finite.
Referred ==
    UNION {{shift[s].proof, shift[s].challenge} : s \in stored}
      \cup {photo[s].id : s \in Shift} \cup {flow[p].challenge : p \in Phone}
      \cup {saved[p][s] : p \in Phone, s \in Shift}
FreshChallenge == Challenge \ Referred

Goes(p, state) == flow' = [flow EXCEPT ![p] = state]
Rests(p) == Goes(p, Resting)

\* An answer that is not heard leaves the request where it is: the platform's HTTP
\* stack may send it again, or the flow gives up (GiveUp).
Answer(p, heard, state) == IF heard THEN Goes(p, state) ELSE UNCHANGED flow

-----------------------------------------------------------------------------
(* The server's part of each request.                                      *)

\* setPolicy: an upsert; open shifts keep what they were opened under.
SetPolicy ==
    /\ policy' = ~policy
    /\ UNCHANGED <<now, shift, photo, patch, endBy, device>>

\* Mutant: a settled shift may be photographed again.
CanPhotographAny(s) == shift[s].required

CanPhotograph(s) ==
    /\ shift[s].ended => Flagged(s)
    /\ shift[s].required

\* captureTime against proof_challenged_at.
CaptureTime(s, at) ==
    /\ at <= now + ClockSkew
    /\ at >= now - TTL
    /\ at >= shift[s].challengedAt

\* Mutant: a challenge does not run out.
ChallengeForEver(s, c) == shift[s].challenge = c /\ shift[s].challengedAt # NoTime

ChallengeCurrent(s, c) ==
    /\ shift[s].challenge = c
    /\ shift[s].challengedAt # NoTime
    /\ now - shift[s].challengedAt <= TTL

\* Mutant: any photograph of the shift will do, however old.
AnyPhotoOf(s, id) == shift[s].required => photo[s].id # None /\ photo[s].id = id

\* requireShiftProof: the photograph of this shift with this id, not older than TTL.
ProofAccepted(s, id) ==
    shift[s].required =>
        /\ photo[s].id # None /\ photo[s].id = id
        /\ now - photo[s].captured <= TTL

EndedRow(r, id, auto, confirmed) ==
    [r EXCEPT !.ended = TRUE, !.auto = @ \/ auto, !.corrected = @ \/ confirmed,
              !.proof = IF r.required THEN id ELSE @]

EndsByWorker(s, id, auto, confirmed) ==
    /\ shift' = [shift EXCEPT ![s] = EndedRow(@, id, auto, confirmed)]
    /\ endBy' = [endBy EXCEPT ![s] = "worker"]

TimedOutRow(r) == [r EXCEPT !.ended = TRUE, !.auto = TRUE]

AutoClose(s) ==
    /\ s \in stored /\ ~shift[s].ended /\ shift[s].start < now - Window
    /\ shift' = [shift EXCEPT ![s] = TimedOutRow(@)]
    /\ endBy' = [endBy EXCEPT ![s] = "timer"]
    /\ UNCHANGED <<now, policy, photo, patch, device>>

\* patchShift: the row as it is read, merged with the end the body names ...
PatchRead(o, s, ended) ==
    /\ patch[o] = NoPatch /\ s \in stored
    /\ patch' = [patch EXCEPT ![o] = [shift |-> s, done |-> FALSE, ended |-> ended,
                  corrected |-> shift[s].corrected \/ (Flagged(s) /\ ended)]]
    /\ UNCHANGED <<now, policy, shift, photo, endBy, device>>

PatchedRow(r, q) == [r EXCEPT !.ended = q.ended, !.corrected = q.corrected]

\* ... and written back.
PatchWrite(o) ==
    /\ patch[o].shift # None
    /\ LET q == patch[o] IN
         /\ shift' = [shift EXCEPT ![q.shift] = PatchedRow(@, q)]
         /\ endBy' = [endBy EXCEPT ![q.shift] = "office"]
    /\ patch' = [patch EXCEPT ![o] = Patched]
    /\ UNCHANGED <<now, policy, photo, device>>

-----------------------------------------------------------------------------
(* The worker's flow.  One runs at a time on a phone (_evidenceBusy).      *)
(* `heard` says whether the answer reached the phone.                      *)

\* openShift reads the policy in a query of its own ...
OpenRead(p, s) ==
    /\ flow[p] = Resting /\ row[p][s] = "none" /\ s \notin stored
    /\ Goes(p, [Resting EXCEPT !.pc = "insert", !.shift = s, !.policy = policy])
    /\ UNCHANGED <<now, server, row, saved>>

NewRow(required) ==
    [start |-> now, required |-> required, ended |-> FALSE, auto |-> FALSE,
     corrected |-> FALSE, proof |-> None, challenge |-> None, challengedAt |-> NoTime]

\* ... and then inserts the row with it; a row that is there already wins.
OpenInsert(p, heard) ==
    LET s == flow[p].shift IN
    /\ flow[p].pc = "insert"
    /\ shift' = IF s \in stored THEN shift
                ELSE [t \in stored \cup {s} |-> IF t = s THEN NewRow(flow[p].policy) ELSE shift[t]]
    /\ row' = IF heard THEN [row EXCEPT ![p][s] = IF shift'[s].ended THEN "ended" ELSE "open"]
              ELSE row
    /\ Answer(p, heard, Resting)
    /\ UNCHANGED <<now, policy, photo, patch, endBy, saved>>

\* adoptServerOpenShift: an open shift the phone has no row for.  The new row holds
\* no proof; one that a flow has in hand stays there.
Adopt(p, s) ==
    /\ row[p][s] = "none" /\ s \in stored /\ ~shift[s].ended
    /\ row' = [row EXCEPT ![p][s] = "open"]
    /\ saved' = IF flow[p].shift = s THEN saved ELSE [saved EXCEPT ![p][s] = None]
    /\ UNCHANGED <<now, server, flow>>

\* A tap, a tap elsewhere or Stop on a running shift: closeWithEvidence replays a
\* proof it saved, asks for a challenge, or needs no proof at all.
BeginEnd(p, s, want) ==
    /\ flow[p] = Resting /\ row[p][s] = "open" /\ s \in stored
    /\ Goes(p, [Resting EXCEPT !.shift = s, !.want = want,
                !.pc = IF ~shift[s].required THEN "finish"
                       ELSE IF saved[p][s] # None THEN "replay" ELSE "challenge"])
    /\ UNCHANGED <<now, server, row, saved>>

\* The resolution sheet, over the server's list of unresolved shifts.
BeginResolve(p, s) ==
    /\ flow[p] = Resting /\ s \in stored /\ shift[s].ended /\ Flagged(s)
    /\ Goes(p, [Resting EXCEPT !.shift = s, !.want = "resolve",
                !.pc = IF shift[s].required THEN "challenge" ELSE "finish"])
    /\ UNCHANGED <<now, server, row, saved>>

Challenged(r, c) == [r EXCEPT !.challenge = c, !.challengedAt = now]

\* challenge: 409 ends the flow.
AskChallenge(p, heard) ==
    LET s == flow[p].shift
        c == CHOOSE c \in FreshChallenge : TRUE IN
    /\ flow[p].pc = "challenge"
    /\ IF CanPhotograph(s)
         THEN /\ FreshChallenge # {}
              /\ shift' = [shift EXCEPT ![s] = Challenged(@, c)]
              /\ Answer(p, heard, [flow[p] EXCEPT !.pc = "camera", !.challenge = c])
         ELSE Answer(p, heard, Resting) /\ UNCHANGED shift
    /\ UNCHANGED <<now, policy, photo, patch, endBy, row, saved>>

\* deliverEvidencePhoto: the instant is the phone's, which may be off.
Shoot(p, at) ==
    /\ flow[p].pc = "camera"
    /\ at \in (now - Drift) .. (now + Drift)
    /\ Goes(p, [flow[p] EXCEPT !.pc = "upload", !.captured = at])
    /\ UNCHANGED <<now, server, row, saved>>

PhotoOf(s, c, at) == [id |-> c, captured |-> at, asked |-> shift[s].challengedAt]

\* upload: a challenge that was answered already gets the same proof again, a
\* current one stores the photograph in place of the one before.
Upload(p, heard) ==
    LET s == flow[p].shift
        c == flow[p].challenge
        again == photo[s].id = c
        first == photo[s].id # c /\ ChallengeCurrent(s, c) /\ CaptureTime(s, flow[p].captured)
        kept == CanPhotograph(s) /\ (again \/ first)
    IN
    /\ flow[p].pc = "upload"
    /\ photo' = IF kept /\ first
                  THEN [photo EXCEPT ![s] = PhotoOf(s, c, flow[p].captured)]
                  ELSE photo
    /\ saved' = IF kept /\ heard THEN [saved EXCEPT ![p][s] = c] ELSE saved
    /\ Answer(p, heard, IF kept THEN [flow[p] EXCEPT !.pc = "finish"] ELSE Resting)
    /\ UNCHANGED <<now, policy, shift, patch, endBy, row>>

\* Mutant: a refused replay is shown to the worker and ends the flow.
AfterRefusalShown(p) == Resting

\* closeWithEvidence: proof_required and proof_expired on the replay lead to the camera.
AfterRefusal(p) ==
    IF flow[p].pc = "replay" THEN [flow[p] EXCEPT !.pc = "challenge"] ELSE Resting

\* POST /shifts/close: an ended shift is answered as it is.
PostClose(p, heard) ==
    LET s == flow[p].shift
        ok == shift[s].ended \/ ProofAccepted(s, saved[p][s])
    IN
    /\ flow[p].pc \in {"replay", "finish"} /\ flow[p].want # "resolve"
    /\ IF ok /\ ~shift[s].ended
         THEN EndsByWorker(s, saved[p][s], flow[p].want = "switch", flow[p].want = "stop")
         ELSE UNCHANGED <<shift, endBy>>
    /\ row' = IF ok /\ heard THEN [row EXCEPT ![p][s] = "ended"] ELSE row
    /\ Answer(p, heard, IF ok THEN Resting ELSE AfterRefusal(p))
    /\ UNCHANGED <<now, policy, photo, patch, saved>>

\* POST /shifts/:id/resolve: only a flagged shift; 409 and 422 end the flow.
PostResolve(p, heard) ==
    LET s == flow[p].shift
        ok == Flagged(s) /\ ProofAccepted(s, saved[p][s])
    IN
    /\ flow[p].pc = "finish" /\ flow[p].want = "resolve"
    /\ IF ok THEN EndsByWorker(s, saved[p][s], FALSE, TRUE) ELSE UNCHANGED <<shift, endBy>>
    /\ row' = IF ok /\ heard /\ row[p][s] # "none" THEN [row EXCEPT ![p][s] = "ended"] ELSE row
    /\ Answer(p, heard, Resting)
    /\ UNCHANGED <<now, policy, photo, patch, saved>>

\* No signal, a cancelled camera, a sign-out, or the process is killed.
GiveUp(p) ==
    /\ flow[p] # Resting /\ Rests(p)
    /\ UNCHANGED <<now, server, row, saved>>

Tick ==
    /\ now < MaxTime /\ now' = now + 1
    /\ UNCHANGED <<server, device>>

-----------------------------------------------------------------------------
Acts(p, heard) ==
    \/ OpenInsert(p, heard) \/ AskChallenge(p, heard) \/ Upload(p, heard)
    \/ PostClose(p, heard) \/ PostResolve(p, heard)

PhoneStep(p) ==
    \/ \E heard \in BOOLEAN : Acts(p, heard)
    \/ \E s \in Shift :
         \/ OpenRead(p, s) \/ Adopt(p, s) \/ BeginResolve(p, s)
         \/ \E want \in Ending : BeginEnd(p, s, want)
    \/ \E at \in -Drift .. MaxTime + Drift : Shoot(p, at)
    \/ GiveUp(p)

OfficeStep(o) ==
    \/ \E s \in Shift, ended \in BOOLEAN : PatchRead(o, s, ended)
    \/ PatchWrite(o)

Next ==
    \/ \E p \in Phone : PhoneStep(p)
    \/ \E o \in Office : OfficeStep(o)
    \/ \E s \in Shift : AutoClose(s)
    \/ SetPolicy \/ Tick

Spec == Init /\ [][Next]_vars

\* A worker who taps again and again and takes the photograph the app asks for at
\* once, a signal that is there again and again, and a clock that is right.
Persistent(p) ==
    /\ \A s \in Shift : SF_vars(\E want \in Ending : BeginEnd(p, s, want))
    /\ SF_vars(Shoot(p, now))
    /\ WF_vars(OpenInsert(p, TRUE)) /\ SF_vars(AskChallenge(p, TRUE))
    /\ SF_vars(Upload(p, TRUE))
    /\ SF_vars(PostClose(p, TRUE)) /\ WF_vars(PostResolve(p, TRUE))
FairSpec == Spec /\ \A p \in Phone : Persistent(p)

-----------------------------------------------------------------------------
\* While a shift that its worker ended stands as it was ended, the photograph the
\* office is shown for it is the one its proof_id names (evidence, photo): neither
\* a second phone, a retry nor a retake takes it away.
SettledShowsItsProof ==
    \A s \in stored :
      shift[s].required /\ shift[s].ended /\ endBy[s] = "worker" /\ ~Flagged(s)
        => photo[s].id # None /\ photo[s].id = shift[s].proof

\* A stored photograph was taken after its challenge, and not longer after it than
\* a challenge lasts and the clocks may differ, whatever the phone's clock says.
PhotoAnswersItsChallenge ==
    \A s \in Shift :
      photo[s].id # None => /\ photo[s].asked <= photo[s].captured
                            /\ photo[s].captured <= photo[s].asked + TTL + ClockSkew

\* What a close or a resolution consumes is at that instant the photograph of that
\* shift, not older than TTL, taken for a challenge issued for the same shift, not
\* before that challenge, which itself is at most two TTLs and the skew old.
ConsumedProofIsFresh ==
    [][\A s \in stored :
         s \in stored' /\ shift'[s].proof # shift[s].proof =>
           /\ photo[s].id = shift'[s].proof
           /\ now - photo[s].captured <= TTL
           /\ photo[s].asked <= photo[s].captured
           /\ now - photo[s].asked <= 2 * TTL + ClockSkew]_vars

\* A worker who keeps trying gets a running shift off the phone: the lock does not
\* stand for ever, although answers are lost and photographs expire.
ShiftEndsOnThePhone ==
    \A p \in Phone, s \in Shift : row[p][s] = "open" ~> row[p][s] = "ended"

=============================================================================
