------------------------- MODULE ShiftEvidenceProofs -------------------------
(***************************************************************************)
(* Proofs about ShiftEvidence, for every set of shifts, phones, requests   *)
(* and ids and every value of the time constants.                          *)
(***************************************************************************)
EXTENDS ShiftEvidence, TLAPS

-----------------------------------------------------------------------------
(* Rows and flows, one at a time.                                          *)

\* Replacing one row by a row keeps the table a table and the other rows.
LEMMA SetRow ==
    ASSUME NEW s \in stored, shift \in [stored -> Row], NEW r \in Row,
           shift' = [shift EXCEPT ![s] = r]
    PROVE  /\ stored' = stored /\ shift' \in [stored' -> Row]
           /\ \A t \in stored : shift'[t] = IF t = s THEN r ELSE shift[t]
  BY DEF stored

\* What each handler makes of a row is a row, and which columns it leaves alone.
LEMMA EndedRowMade ==
    ASSUME NEW r \in Row, NEW id \in Challenge \cup {None}, NEW a \in BOOLEAN, NEW c \in BOOLEAN
    PROVE  LET e == EndedRow(r, id, a, c) IN
           /\ e \in Row /\ e.challenge = r.challenge /\ e.challengedAt = r.challengedAt
           /\ e.required = r.required
           /\ e.proof = IF r.required THEN id ELSE r.proof
  BY DEF Row, EndedRow

\* The timer touches neither the challenge nor the proof.
LEMMA TimedOutRowMade ==
    ASSUME NEW r \in Row
    PROVE  LET e == TimedOutRow(r) IN
           /\ e \in Row /\ e.challenge = r.challenge /\ e.challengedAt = r.challengedAt
           /\ e.required = r.required /\ e.proof = r.proof
  BY DEF Row, TimedOutRow

\* Nor does the administrator's PATCH.
LEMMA PatchedRowMade ==
    ASSUME NEW r \in Row, NEW q \in Patching
    PROVE  LET e == PatchedRow(r, q) IN
           /\ e \in Row /\ e.challenge = r.challenge /\ e.challengedAt = r.challengedAt
           /\ e.required = r.required /\ e.proof = r.proof
  BY DEF Row, PatchedRow, Patching

\* A challenge is recorded with its instant, and leaves the end and the proof alone.
LEMMA ChallengedRowMade ==
    ASSUME NEW r \in Row, NEW ch \in Challenge, now \in Time
    PROVE  LET e == Challenged(r, ch) IN
           /\ e \in Row /\ e.challengedAt = now /\ e.proof = r.proof
           /\ e.required = r.required /\ e.ended = r.ended
           /\ e.auto = r.auto /\ e.corrected = r.corrected
  BY DEF Row, Challenged

\* A shift is opened running and without a challenge.
LEMMA NewRowMade ==
    ASSUME NEW a \in BOOLEAN, now \in Time
    PROVE  NewRow(a) \in Row /\ NewRow(a).challenge = None /\ NewRow(a).ended = FALSE
  BY DEF Row, NewRow, NoTime

\* A row that keeps its challenge, or names the instant of a new one, keeps RowsOK;
\* the flows still refer to stored shifts.
LEMMA SetRowOK ==
    ASSUME RowsOK, NEW s \in stored, NEW r \in Row, shift' = [shift EXCEPT ![s] = r],
           r.challenge # None => r.challengedAt # NoTime
    PROVE  RowsOK' /\ stored' = stored
<1>1. /\ stored' = stored /\ shift' \in [stored' -> Row]
      /\ \A t \in stored : shift'[t] = IF t = s THEN r ELSE shift[t]
  BY SetRow DEF RowsOK
<1> QED BY <1>1 DEF RowsOK

\* A phone whose flow goes to a legal state keeps FlowsOK when no row is lost.
LEMMA SetFlowOK ==
    ASSUME FlowsOK, stored \subseteq stored', NEW p \in Phone, NEW f \in Flow,
           flow' = [flow EXCEPT ![p] = f],
           f.pc # "rest" => f.shift \in Shift,
           f.pc \notin {"rest", "insert"} => f.shift \in stored',
           f.pc \in {"camera", "upload"} => f.challenge # None
    PROVE  FlowsOK'
  BY DEF FlowsOK

\* The resting flow is a flow, ...
LEMMA RestingIsAFlow == Resting \in Flow /\ Resting.pc = "rest"
  BY DEF Flow, Resting, NoTime

\* ... and a flow that only moves on to another request stays a flow for its shift.
LEMMA FlowMoves ==
    ASSUME NEW f \in Flow, NEW pc \in {"rest", "insert", "replay", "challenge", "camera",
                                       "upload", "finish"}
    PROVE  /\ [f EXCEPT !.pc = pc] \in Flow /\ [f EXCEPT !.pc = pc].pc = pc
           /\ [f EXCEPT !.pc = pc].shift = f.shift
           /\ [f EXCEPT !.pc = pc].challenge = f.challenge
  BY DEF Flow

\* An answer that was heard moves the flow, one that was not leaves it.
LEMMA AnswerOK ==
    ASSUME FlowsOK, stored \subseteq stored', NEW p \in Phone, NEW f \in Flow, NEW heard \in BOOLEAN,
           Answer(p, heard, f),
           f.pc # "rest" => f.shift \in Shift,
           f.pc \notin {"rest", "insert"} => f.shift \in stored',
           f.pc \in {"camera", "upload"} => f.challenge # None
    PROVE  FlowsOK'
<1>1. CASE heard
  <2>1. flow' = [flow EXCEPT ![p] = f]
    BY <1>1 DEF Answer, Goes
  <2> QED BY <2>1, SetFlowOK
<1>2. CASE ~heard
  <2>1. flow' = flow
    BY <1>2 DEF Answer
  <2> QED BY <2>1 DEF FlowsOK
<1> QED BY <1>1, <1>2

-----------------------------------------------------------------------------
(* Types.                                                                  *)

\* The initial state has the right types.
LEMMA InitTypeOK == ASSUME Init, EvidenceAssumption PROVE TypeOK
  BY DEF Init, TypeOK, RowsOK, FlowsOK, EvidenceAssumption, Time, NoTime, Flow,
     Photo, NoPhoto, Resting, NoPatch, stored

\* A step of the office, the timer, the policy or the clock keeps the types.
LEMMA OfficeTypeOK ==
    ASSUME TypeOK, EvidenceAssumption,
           \/ SetPolicy \/ Tick \/ \E s \in Shift : AutoClose(s)
           \/ \E o \in Office : OfficeStep(o)
    PROVE  TypeOK'
<1>1. CASE SetPolicy
  BY <1>1 DEF SetPolicy, TypeOK, RowsOK, FlowsOK, stored, device
<1>2. CASE Tick
  <2>1. now' \in Time
    BY <1>2 DEF Tick, TypeOK, Time, EvidenceAssumption
  <2> QED BY <1>2, <2>1 DEF Tick, TypeOK, RowsOK, FlowsOK, stored, server, device
<1>3. ASSUME NEW s \in Shift, AutoClose(s) PROVE TypeOK'
  <2>1. RowsOK' /\ stored' = stored
    <3>1. shift[s] \in Row /\ (shift[s].challenge # None => shift[s].challengedAt # NoTime)
      BY <1>3 DEF AutoClose, TypeOK, RowsOK
    <3> DEFINE e == TimedOutRow(shift[s])
    <3>2. shift' = [shift EXCEPT ![s] = e]
      BY <1>3 DEF AutoClose
    <3>3. e \in Row /\ (e.challenge # None => e.challengedAt # NoTime)
      BY <3>1, TimedOutRowMade
    <3>4. s \in stored /\ RowsOK
      BY <1>3 DEF AutoClose, TypeOK
    <3> HIDE DEF e
    <3> QED BY <3>2, <3>3, <3>4, SetRowOK
  <2> QED BY <1>3, <2>1 DEF AutoClose, TypeOK, FlowsOK, device
<1>4. ASSUME NEW o \in Office, NEW s \in Shift, NEW ended \in BOOLEAN, PatchRead(o, s, ended)
      PROVE  TypeOK'
  <2>1. [shift |-> s, done |-> FALSE, ended |-> ended,
         corrected |-> shift[s].corrected \/ (Flagged(s) /\ ended)] \in Patching
    BY <1>4 DEF PatchRead, TypeOK, RowsOK, Row, Patching, Flagged
  <2> QED BY <1>4, <2>1 DEF PatchRead, TypeOK, RowsOK, FlowsOK, stored, device
<1>5. ASSUME NEW o \in Office, PatchWrite(o) PROVE TypeOK'
  <2>1. patch[o] \in Patching
    BY <1>5 DEF PatchWrite, TypeOK, NoPatch, Patched
  <2>2. CASE patch[o].shift \in stored
    <3>1. RowsOK' /\ stored' = stored
      <4> DEFINE s == patch[o].shift
                 e == PatchedRow(shift[s], patch[o])
      <4>1. shift[s] \in Row /\ (shift[s].challenge # None => shift[s].challengedAt # NoTime)
        BY <2>2 DEF TypeOK, RowsOK
      <4>2. shift' = [shift EXCEPT ![s] = e]
        BY <1>5 DEF PatchWrite
      <4>3. e \in Row /\ (e.challenge # None => e.challengedAt # NoTime)
        BY <2>1, <4>1, PatchedRowMade
      <4>4. RowsOK
        BY DEF TypeOK
      <4> HIDE DEF e
      <4> QED BY <2>2, <4>2, <4>3, <4>4, SetRowOK
    <3> QED BY <1>5, <2>1, <3>1 DEF PatchWrite, TypeOK, FlowsOK, device, Patching
  <2>3. CASE patch[o].shift \notin stored
    <3>1. shift' = shift
      BY <1>5, <2>3 DEF PatchWrite, TypeOK, RowsOK, stored
    <3> QED BY <1>5, <2>1, <3>1 DEF PatchWrite, TypeOK, RowsOK, FlowsOK, stored, device, Patching
  <2> QED BY <2>2, <2>3
<1> QED BY <1>1, <1>2, <1>3, <1>4, <1>5 DEF OfficeStep

\* A step of the worker's flow that the table of shifts does not notice.
LEMMA LocalTypeOK ==
    ASSUME TypeOK, EvidenceAssumption, NEW p \in Phone, NEW s \in Shift,
           \/ OpenRead(p, s) \/ Adopt(p, s) \/ BeginResolve(p, s)
           \/ \E want \in Ending : BeginEnd(p, s, want)
           \/ \E at \in -Drift .. MaxTime + Drift : Shoot(p, at)
    PROVE  TypeOK'
<1>0. FlowsOK /\ RowsOK /\ flow[p] \in Flow /\ stored \subseteq Shift /\ policy \in BOOLEAN
  BY DEF TypeOK, FlowsOK, RowsOK
<1>1. CASE OpenRead(p, s)
  <2> DEFINE f == [Resting EXCEPT !.pc = "insert", !.shift = s, !.policy = policy]
  <2>1. f \in Flow /\ f.pc = "insert" /\ f.shift = s
    BY <1>0, RestingIsAFlow DEF Flow
  <2>2. flow' = [flow EXCEPT ![p] = f] /\ stored' = stored
    BY <1>1 DEF OpenRead, Goes, server, stored
  <2> HIDE DEF f
  <2>3. FlowsOK'
    BY <1>0, <2>1, <2>2, SetFlowOK
  <2> QED BY <1>1, <2>2, <2>3 DEF OpenRead, TypeOK, RowsOK, server
<1>2. CASE Adopt(p, s)
  <2>1. row' \in [Phone -> [Shift -> {"none", "open", "ended"}]]
    BY <1>2 DEF Adopt, TypeOK
  <2>2. saved' \in [Phone -> [Shift -> Challenge \cup {None}]]
    BY <1>2 DEF Adopt, TypeOK
  <2> QED BY <1>2, <2>1, <2>2 DEF Adopt, TypeOK, RowsOK, FlowsOK, server, stored
<1>3. CASE BeginResolve(p, s)
  <2> DEFINE f == [Resting EXCEPT !.shift = s, !.want = "resolve",
                     !.pc = IF shift[s].required THEN "challenge" ELSE "finish"]
  <2>1. f \in Flow /\ f.pc \in {"challenge", "finish"} /\ f.shift = s /\ s \in stored
    BY <1>3, RestingIsAFlow DEF BeginResolve, Flow
  <2>2. flow' = [flow EXCEPT ![p] = f] /\ stored' = stored
    BY <1>3 DEF BeginResolve, Goes, server, stored
  <2> HIDE DEF f
  <2>3. FlowsOK'
    BY <1>0, <2>1, <2>2, SetFlowOK
  <2> QED BY <1>3, <2>2, <2>3 DEF BeginResolve, TypeOK, RowsOK, server
<1>4. ASSUME NEW want \in Ending, BeginEnd(p, s, want) PROVE TypeOK'
  <2> DEFINE f == [Resting EXCEPT !.shift = s, !.want = want,
                     !.pc = IF ~shift[s].required THEN "finish"
                            ELSE IF saved[p][s] # None THEN "replay" ELSE "challenge"]
  <2>1. f \in Flow /\ f.pc \in {"finish", "replay", "challenge"} /\ f.shift = s /\ s \in stored
    BY <1>4, RestingIsAFlow DEF BeginEnd, Flow
  <2>2. flow' = [flow EXCEPT ![p] = f] /\ stored' = stored
    BY <1>4 DEF BeginEnd, Goes, server, stored
  <2> HIDE DEF f
  <2>3. FlowsOK'
    BY <1>0, <2>1, <2>2, SetFlowOK
  <2> QED BY <1>4, <2>2, <2>3 DEF BeginEnd, TypeOK, RowsOK, server
<1>5. ASSUME NEW at \in -Drift .. MaxTime + Drift, Shoot(p, at) PROVE TypeOK'
  <2> DEFINE f == [flow[p] EXCEPT !.pc = "upload", !.captured = at]
  <2>0. at \in Int
    BY DEF EvidenceAssumption
  <2>1. f \in Flow /\ f.pc = "upload" /\ f.shift = flow[p].shift
        /\ f.challenge = flow[p].challenge
    BY <1>0, <2>0 DEF Flow
  <2>2. flow[p].shift \in stored /\ flow[p].challenge # None
    BY <1>0, <1>5 DEF Shoot, FlowsOK
  <2>3. flow' = [flow EXCEPT ![p] = f] /\ stored' = stored
    BY <1>5 DEF Shoot, Goes, server, stored
  <2> HIDE DEF f
  <2>4. FlowsOK'
    BY <1>0, <2>1, <2>2, <2>3, SetFlowOK
  <2> QED BY <1>5, <2>3, <2>4 DEF Shoot, TypeOK, RowsOK, server
<1> QED BY <1>1, <1>2, <1>3, <1>4, <1>5

\* Opening a shift, with or without the answer heard.
LEMMA OpenInsertTypeOK ==
    ASSUME TypeOK, EvidenceAssumption, NEW p \in Phone, NEW heard \in BOOLEAN, OpenInsert(p, heard)
    PROVE  TypeOK'
<1> DEFINE s == flow[p].shift
<1>1. FlowsOK /\ RowsOK /\ flow[p] \in Flow /\ s \in Shift /\ now \in Time
  BY DEF TypeOK, FlowsOK, RowsOK, OpenInsert
<1>2. /\ RowsOK' /\ stored \subseteq stored' /\ s \in stored'
      /\ \A t \in stored : shift'[t] = shift[t]
  <2>1. CASE s \in stored
    <3>1. shift' = shift
      BY <2>1 DEF OpenInsert
    <3> QED BY <1>1, <2>1, <3>1 DEF RowsOK, stored
  <2>2. CASE s \notin stored
    <3> DEFINE e == NewRow(flow[p].policy)
    <3>1. flow[p].policy \in BOOLEAN
      BY <1>1 DEF Flow
    <3>2. e \in Row /\ e.challenge = None
      BY <1>1, <3>1, NewRowMade
    <3>3. shift' = [t \in stored \cup {s} |-> IF t = s THEN e ELSE shift[t]]
      BY <2>2 DEF OpenInsert
    <3> HIDE DEF e
    <3>4. stored' = stored \cup {s}
      BY <3>3 DEF stored
    <3> QED BY <1>1, <2>2, <3>2, <3>3, <3>4 DEF RowsOK
  <2> QED BY <2>1, <2>2
<1>3. FlowsOK'
  <2>1. Answer(p, heard, Resting)
    BY DEF OpenInsert
  <2> QED BY <1>1, <1>2, <2>1, RestingIsAFlow, AnswerOK
<1>4. row' \in [Phone -> [Shift -> {"none", "open", "ended"}]]
  BY <1>1 DEF OpenInsert, TypeOK
<1> QED BY <1>2, <1>3, <1>4 DEF OpenInsert, TypeOK

\* Asking for a challenge, granted or refused.
LEMMA AskChallengeTypeOK ==
    ASSUME TypeOK, EvidenceAssumption, NEW p \in Phone, NEW heard \in BOOLEAN, AskChallenge(p, heard)
    PROVE  TypeOK'
<1> DEFINE s == flow[p].shift
           c == CHOOSE c \in FreshChallenge : TRUE
<1>1. FlowsOK /\ RowsOK /\ flow[p] \in Flow /\ now \in Time
  BY DEF TypeOK, FlowsOK, RowsOK
<1>2. s \in stored /\ stored \subseteq Shift
  BY <1>1 DEF AskChallenge, FlowsOK, RowsOK
<1>3. CASE CanPhotograph(s)
  <2> DEFINE e == Challenged(shift[s], c)
             f == [flow[p] EXCEPT !.pc = "camera", !.challenge = c]
  <2>1. FreshChallenge # {}
    BY <1>3 DEF AskChallenge
  <2>2. c \in FreshChallenge
    BY <2>1
  <2>3. c \in Challenge
    BY <2>2 DEF FreshChallenge
  <2>4. shift' = [shift EXCEPT ![s] = e] /\ Answer(p, heard, f)
    BY <1>3 DEF AskChallenge
  <2> HIDE DEF c
  <2>5. shift[s] \in Row
    BY <1>1, <1>2 DEF RowsOK
  <2>6. e \in Row /\ e.challengedAt # NoTime
    <3>1. e \in Row /\ e.challengedAt = now
      BY <1>1, <2>3, <2>5, ChallengedRowMade
    <3> QED BY <1>1, <3>1 DEF Time, NoTime, EvidenceAssumption
  <2>7. f \in Flow /\ f.pc = "camera" /\ f.shift = s /\ f.challenge # None
    BY <1>1, <2>3 DEF Flow, EvidenceAssumption
  <2> HIDE DEF e, f
  <2>8. RowsOK' /\ stored' = stored
    BY <1>1, <1>2, <2>4, <2>6, SetRowOK
  <2>9. FlowsOK'
    <3>1. f.shift \in Shift /\ f.shift \in stored'
      BY <1>2, <2>7, <2>8
    <3> QED BY <1>1, <2>4, <2>7, <2>8, <3>1, AnswerOK
  <2> QED BY <2>8, <2>9 DEF AskChallenge, TypeOK
<1>4. CASE ~CanPhotograph(s)
  <2>1. shift' = shift /\ Answer(p, heard, Resting)
    BY <1>4 DEF AskChallenge
  <2>2. stored' = stored /\ RowsOK'
    BY <1>1, <2>1 DEF RowsOK, stored
  <2>3. FlowsOK'
    BY <1>1, <2>1, <2>2, RestingIsAFlow, AnswerOK
  <2> QED BY <2>2, <2>3 DEF AskChallenge, TypeOK
<1> QED BY <1>3, <1>4

\* An upload, stored, repeated or refused.
LEMMA UploadTypeOK ==
    ASSUME TypeOK, EvidenceAssumption, NEW p \in Phone, NEW heard \in BOOLEAN, Upload(p, heard)
    PROVE  TypeOK'
<1> DEFINE s == flow[p].shift
           c == flow[p].challenge
           kept == /\ CanPhotograph(s)
                   /\ \/ photo[s].id = c
                      \/ photo[s].id # c /\ ChallengeCurrent(s, c) /\ CaptureTime(s, flow[p].captured)
           f == IF kept THEN [flow[p] EXCEPT !.pc = "finish"] ELSE Resting
<1>1. FlowsOK /\ RowsOK /\ flow[p] \in Flow
  BY DEF TypeOK, FlowsOK, RowsOK
<1>2. s \in stored /\ s \in Shift /\ c \in Challenge /\ stored' = stored
  BY <1>1 DEF Upload, FlowsOK, RowsOK, Flow, stored
<1>3. photo' \in [Shift -> Photo \cup {NoPhoto}]
  <2>1. ChallengeCurrent(s, c) => PhotoOf(s, c, flow[p].captured) \in Photo
    BY <1>1, <1>2 DEF ChallengeCurrent, PhotoOf, Photo, RowsOK, Row, Flow, NoTime
  <2> QED BY <1>2, <2>1 DEF Upload, TypeOK
<1>4. saved' \in [Phone -> [Shift -> Challenge \cup {None}]]
  BY <1>2 DEF Upload, TypeOK
<1>5. FlowsOK'
  <2>1. f \in Flow /\ f.pc \in {"rest", "finish"} /\ (f.pc # "rest" => f.shift = s)
    <3>1. CASE kept
      <4> HIDE DEF kept
      <4> QED BY <1>1, <3>1, FlowMoves
    <3>2. CASE ~kept
      <4> HIDE DEF kept
      <4> QED BY <3>2, RestingIsAFlow
    <3> QED BY <3>1, <3>2
  <2>2. Answer(p, heard, f)
    BY DEF Upload
  <2> HIDE DEF f, kept
  <2> QED BY <1>1, <1>2, <2>1, <2>2, AnswerOK
<1> QED BY <1>1, <1>2, <1>3, <1>4, <1>5 DEF Upload, TypeOK, RowsOK

\* A close or a resolution that ends the shift keeps the table.
LEMMA EndsByWorkerOK ==
    ASSUME TypeOK, NEW s \in stored, NEW id \in Challenge \cup {None},
           NEW a \in BOOLEAN, NEW b \in BOOLEAN, EndsByWorker(s, id, a, b)
    PROVE  /\ RowsOK' /\ stored' = stored
           /\ endBy' \in [Shift -> {None, "worker", "timer", "office"}]
<1> DEFINE e == EndedRow(shift[s], id, a, b)
<1>1. RowsOK /\ shift[s] \in Row /\ (shift[s].challenge # None => shift[s].challengedAt # NoTime)
  BY DEF TypeOK, RowsOK
<1>2. e \in Row /\ (e.challenge # None => e.challengedAt # NoTime)
  BY <1>1, EndedRowMade
<1>3. shift' = [shift EXCEPT ![s] = e]
  BY DEF EndsByWorker
<1> HIDE DEF e
<1>4. RowsOK' /\ stored' = stored
  BY <1>1, <1>2, <1>3, SetRowOK
<1> QED BY <1>4 DEF EndsByWorker, TypeOK

\* Where the flow goes after a refused close is a legal place.
LEMMA AfterRefusalOK ==
    ASSUME NEW p \in Phone, flow[p] \in Flow
    PROVE  /\ AfterRefusal(p) \in Flow /\ AfterRefusal(p).pc \in {"rest", "challenge"}
           /\ AfterRefusal(p).pc # "rest" => AfterRefusal(p).shift = flow[p].shift
<1>1. CASE flow[p].pc = "replay"
  BY <1>1, FlowMoves DEF AfterRefusal
<1>2. CASE flow[p].pc # "replay"
  BY <1>2, RestingIsAFlow DEF AfterRefusal
<1> QED BY <1>1, <1>2

\* A close, accepted, already done or refused.
LEMMA PostCloseTypeOK ==
    ASSUME TypeOK, NEW p \in Phone, NEW heard \in BOOLEAN, PostClose(p, heard)
    PROVE  TypeOK'
<1> DEFINE s == flow[p].shift
           ok == shift[s].ended \/ ProofAccepted(s, saved[p][s])
           f == IF ok THEN Resting ELSE AfterRefusal(p)
<1>1. FlowsOK /\ RowsOK /\ flow[p] \in Flow
  BY DEF TypeOK, FlowsOK, RowsOK
<1>2. s \in stored /\ s \in Shift /\ saved[p][s] \in Challenge \cup {None}
  BY <1>1 DEF PostClose, FlowsOK, RowsOK, TypeOK
<1>3. /\ RowsOK' /\ stored' = stored
      /\ endBy' \in [Shift -> {None, "worker", "timer", "office"}]
  <2>1. CASE ok /\ ~shift[s].ended
    <3>1. EndsByWorker(s, saved[p][s], flow[p].want = "switch", flow[p].want = "stop")
      BY <2>1 DEF PostClose
    <3> HIDE DEF s
    <3> QED BY <1>2, <3>1, EndsByWorkerOK
  <2>2. CASE ~(ok /\ ~shift[s].ended)
    <3>1. shift' = shift /\ endBy' = endBy
      BY <2>2 DEF PostClose
    <3> QED BY <1>1, <3>1 DEF RowsOK, stored, TypeOK
  <2> QED BY <2>1, <2>2
<1>4. row' \in [Phone -> [Shift -> {"none", "open", "ended"}]]
  BY <1>2 DEF PostClose, TypeOK
<1>5. FlowsOK'
  <2>1. f \in Flow /\ f.pc \in {"rest", "challenge"} /\ (f.pc # "rest" => f.shift = s)
    BY <1>1, RestingIsAFlow, AfterRefusalOK
  <2>2. Answer(p, heard, f)
    BY DEF PostClose
  <2> HIDE DEF f
  <2> QED BY <1>1, <1>2, <1>3, <2>1, <2>2, AnswerOK
<1> QED BY <1>3, <1>4, <1>5 DEF PostClose, TypeOK

\* A resolution, accepted or refused.
LEMMA PostResolveTypeOK ==
    ASSUME TypeOK, NEW p \in Phone, NEW heard \in BOOLEAN, PostResolve(p, heard)
    PROVE  TypeOK'
<1> DEFINE s == flow[p].shift
           ok == Flagged(s) /\ ProofAccepted(s, saved[p][s])
<1>1. FlowsOK /\ RowsOK /\ flow[p] \in Flow
  BY DEF TypeOK, FlowsOK, RowsOK
<1>2. s \in stored /\ s \in Shift /\ saved[p][s] \in Challenge \cup {None}
  BY <1>1 DEF PostResolve, FlowsOK, RowsOK, TypeOK
<1>3. /\ RowsOK' /\ stored' = stored
      /\ endBy' \in [Shift -> {None, "worker", "timer", "office"}]
  <2>1. CASE ok
    <3>1. EndsByWorker(s, saved[p][s], FALSE, TRUE)
      BY <2>1 DEF PostResolve
    <3> HIDE DEF s
    <3> QED BY <1>2, <3>1, EndsByWorkerOK
  <2>2. CASE ~ok
    <3>1. shift' = shift /\ endBy' = endBy
      BY <2>2 DEF PostResolve
    <3> QED BY <1>1, <3>1 DEF RowsOK, stored, TypeOK
  <2> QED BY <2>1, <2>2
<1>4. row' \in [Phone -> [Shift -> {"none", "open", "ended"}]]
  BY <1>2 DEF PostResolve, TypeOK
<1>5. FlowsOK'
  <2>1. Answer(p, heard, Resting)
    BY DEF PostResolve
  <2> QED BY <1>1, <1>3, <2>1, RestingIsAFlow, AnswerOK
<1> QED BY <1>3, <1>4, <1>5 DEF PostResolve, TypeOK

\* Every step keeps the types.
LEMMA StepTypeOK == ASSUME TypeOK, EvidenceAssumption, [Next]_vars PROVE TypeOK'
<1>1. CASE UNCHANGED vars
  BY <1>1 DEF TypeOK, RowsOK, FlowsOK, stored, vars, server, device
<1>2. ASSUME NEW p \in Phone, PhoneStep(p) PROVE TypeOK'
  <2>1. ASSUME NEW heard \in BOOLEAN, Acts(p, heard) PROVE TypeOK'
    BY <2>1, OpenInsertTypeOK, AskChallengeTypeOK, UploadTypeOK, PostCloseTypeOK,
       PostResolveTypeOK DEF Acts
  <2>2. ASSUME NEW s \in Shift,
               \/ OpenRead(p, s) \/ Adopt(p, s) \/ BeginResolve(p, s)
               \/ \E want \in Ending : BeginEnd(p, s, want)
        PROVE  TypeOK'
    BY <2>2, LocalTypeOK
  <2>3. ASSUME NEW at \in -Drift .. MaxTime + Drift, Shoot(p, at) PROVE TypeOK'
    <3>1. flow[p].shift \in Shift
      BY <2>3 DEF Shoot, TypeOK, FlowsOK
    <3> QED BY <2>3, <3>1, LocalTypeOK
  <2>4. CASE GiveUp(p)
    <3>1. flow' = [flow EXCEPT ![p] = Resting] /\ stored' = stored
      BY <2>4 DEF GiveUp, Rests, Goes, server, stored
    <3>2. FlowsOK'
      BY <3>1, RestingIsAFlow, SetFlowOK DEF TypeOK
    <3> QED BY <2>4, <3>1, <3>2 DEF GiveUp, TypeOK, RowsOK, server
  <2> QED BY <1>2, <2>1, <2>2, <2>3, <2>4 DEF PhoneStep
<1>3. CASE \/ SetPolicy \/ Tick \/ \E s \in Shift : AutoClose(s)
           \/ \E o \in Office : OfficeStep(o)
  BY <1>3, OfficeTypeOK
<1> QED BY <1>1, <1>2, <1>3 DEF Next

\* Every variable keeps its type, and a flow in the middle of a request refers to
\* a shift the server holds and to the challenge it was given.
THEOREM TypesHold == Spec => []TypeOK
<1>1. Init => TypeOK
  BY InitTypeOK, EvidenceAssumption
<1>2. TypeOK /\ [Next]_vars => TypeOK'
  BY StepTypeOK, EvidenceAssumption
<1> QED BY <1>1, <1>2, PTL DEF Spec

-----------------------------------------------------------------------------
(* The photograph.                                                         *)

\* Nothing but an upload writes to shift_proofs.
LEMMA WhoStores ==
    ASSUME [Next]_vars
    PROVE  photo' = photo \/ \E p \in Phone, heard \in BOOLEAN : Upload(p, heard)
<1>1. ASSUME NEW p \in Phone, PhoneStep(p)
      PROVE  photo' = photo \/ \E heard \in BOOLEAN : Upload(p, heard)
  <2>1. ASSUME NEW heard \in BOOLEAN, Acts(p, heard) PROVE photo' = photo \/ Upload(p, heard)
    BY <2>1 DEF Acts, OpenInsert, AskChallenge, PostClose, PostResolve
  <2>2. ASSUME NEW s \in Shift, OpenRead(p, s) \/ Adopt(p, s) \/ BeginResolve(p, s)
        PROVE  photo' = photo
    BY <2>2 DEF OpenRead, Adopt, BeginResolve, server
  <2>3. ASSUME NEW s \in Shift, NEW want \in Ending, BeginEnd(p, s, want) PROVE photo' = photo
    BY <2>3 DEF BeginEnd, server
  <2>4. ASSUME NEW at \in -Drift .. MaxTime + Drift, Shoot(p, at) PROVE photo' = photo
    BY <2>4 DEF Shoot, server
  <2>5. CASE GiveUp(p)
    BY <2>5 DEF GiveUp, server
  <2> QED BY <1>1, <2>1, <2>2, <2>3, <2>4, <2>5 DEF PhoneStep
<1>2. ASSUME NEW o \in Office, OfficeStep(o) PROVE photo' = photo
  BY <1>2 DEF OfficeStep, PatchRead, PatchWrite
<1>3. ASSUME NEW s \in Shift, AutoClose(s) PROVE photo' = photo
  BY <1>3 DEF AutoClose
<1>4. SetPolicy \/ Tick \/ UNCHANGED vars => photo' = photo
  BY DEF SetPolicy, Tick, vars, server
<1> QED BY <1>1, <1>2, <1>3, <1>4 DEF Next

\* Only an upload changes a photograph, and then to one that answers a challenge
\* of the same shift within its time.
LEMMA StepPhoto ==
    ASSUME TypeOK, EvidenceAssumption, [Next]_vars, NEW s \in Shift, photo'[s] # photo[s]
    PROVE  /\ s \in stored /\ CanPhotograph(s) /\ shift' = shift
           /\ photo'[s].asked <= photo'[s].captured
           /\ photo'[s].captured <= photo'[s].asked + TTL + ClockSkew
<1>1. PICK p \in Phone, heard \in BOOLEAN : Upload(p, heard)
  BY WhoStores
<1> DEFINE t == flow[p].shift
           c == flow[p].challenge
<1>2. t \in stored /\ t \in Shift /\ flow[p] \in Flow /\ shift[t] \in Row /\ now \in Time
  BY <1>1 DEF Upload, TypeOK, FlowsOK, RowsOK
<1>3. /\ CanPhotograph(t) /\ ChallengeCurrent(t, c) /\ CaptureTime(t, flow[p].captured)
      /\ photo' = [photo EXCEPT ![t] = PhotoOf(t, c, flow[p].captured)]
  BY <1>1 DEF Upload
<1>4. s = t /\ photo'[s] = PhotoOf(t, c, flow[p].captured)
  BY <1>2, <1>3 DEF TypeOK
<1>5. /\ flow[p].captured \in Int /\ shift[t].challengedAt \in Int /\ now \in Int
      /\ shift[t].challengedAt <= flow[p].captured
      /\ flow[p].captured <= now + ClockSkew /\ now - shift[t].challengedAt <= TTL
  BY <1>2, <1>3 DEF CaptureTime, ChallengeCurrent, Flow, Row, Time, NoTime, EvidenceAssumption
<1>6. flow[p].captured <= shift[t].challengedAt + TTL + ClockSkew
  BY <1>5 DEF EvidenceAssumption
<1> QED BY <1>1, <1>2, <1>3, <1>4, <1>5, <1>6 DEF Upload, PhotoOf

\* Whatever a phone's clock says, a photograph that is kept was taken after its
\* challenge and within a challenge's life and the skew of it.
THEOREM PhotoTimesHold == Spec => []PhotoAnswersItsChallenge
<1>1. Init => PhotoAnswersItsChallenge
  BY DEF Init, PhotoAnswersItsChallenge, NoPhoto
<1>2. TypeOK /\ PhotoAnswersItsChallenge /\ [Next]_vars => PhotoAnswersItsChallenge'
  <2> SUFFICES ASSUME TypeOK, PhotoAnswersItsChallenge, [Next]_vars, NEW s \in Shift,
                      photo'[s].id # None
               PROVE  /\ photo'[s].asked <= photo'[s].captured
                      /\ photo'[s].captured <= photo'[s].asked + TTL + ClockSkew
    BY DEF PhotoAnswersItsChallenge
  <2>1. CASE photo'[s] = photo[s]
    BY <2>1 DEF PhotoAnswersItsChallenge
  <2>2. CASE photo'[s] # photo[s]
    BY <2>2, StepPhoto, EvidenceAssumption
  <2> QED BY <2>1, <2>2
<1> QED BY <1>1, <1>2, TypesHold, PTL DEF Spec

-----------------------------------------------------------------------------
(* The proof a shift was ended with.                                       *)

SameEnd(r, q) ==
    /\ q.proof = r.proof /\ q.ended = r.ended
    /\ q.auto = r.auto /\ q.corrected = r.corrected

\* What a step does to a row that is there: it leaves the end alone, or it is the
\* timer's or the office's and leaves the proof alone, or a worker ends the shift
\* with a proof that was accepted.
RowStep(s) ==
    /\ s \in stored' /\ shift'[s].required = shift[s].required
    /\ \/ SameEnd(shift[s], shift'[s]) /\ endBy'[s] = endBy[s]
       \/ shift'[s].proof = shift[s].proof /\ endBy'[s] # "worker"
       \/ /\ photo' = photo
          /\ \E id \in Challenge \cup {None} :
               /\ ProofAccepted(s, id)
               /\ shift'[s].proof = IF shift[s].required THEN id ELSE shift[s].proof

\* A close or a resolution of shift s, seen from the row of shift t.
LEMMA EndingRowStep ==
    ASSUME TypeOK, NEW s \in stored, NEW t \in stored, NEW id \in Challenge \cup {None},
           NEW a \in BOOLEAN, NEW b \in BOOLEAN, ProofAccepted(s, id),
           EndsByWorker(s, id, a, b), photo' = photo
    PROVE  RowStep(t)
<1> DEFINE e == EndedRow(shift[s], id, a, b)
<1>1. shift[s] \in Row /\ RowsOK /\ t \in Shift
  BY DEF TypeOK, RowsOK
<1>2. e \in Row /\ e.required = shift[s].required
      /\ e.proof = IF shift[s].required THEN id ELSE shift[s].proof
  BY <1>1, EndedRowMade
<1>3. shift' = [shift EXCEPT ![s] = e] /\ endBy' = [endBy EXCEPT ![s] = "worker"]
  BY DEF EndsByWorker
<1> HIDE DEF e
<1>4. stored' = stored /\ shift'[t] = IF t = s THEN e ELSE shift[t]
  BY <1>1, <1>2, <1>3, SetRow DEF RowsOK
<1>5. CASE t = s
  BY <1>2, <1>4, <1>5 DEF RowStep
<1>6. CASE t # s
  <2>1. endBy'[t] = endBy[t]
    BY <1>1, <1>3, <1>6 DEF TypeOK
  <2> QED BY <1>4, <1>6, <2>1 DEF RowStep, SameEnd
<1> QED BY <1>5, <1>6

\* A request of a phone keeps every row but its own, which it may end.
LEMMA RequestRowStep ==
    ASSUME TypeOK, EvidenceAssumption, NEW p \in Phone, NEW heard \in BOOLEAN, Acts(p, heard),
           NEW t \in stored
    PROVE  RowStep(t)
<1> DEFINE s == flow[p].shift
<1>1. RowsOK /\ FlowsOK /\ flow[p] \in Flow /\ now \in Time /\ t \in Shift
  BY DEF TypeOK, FlowsOK, RowsOK
<1>2. shift' = shift /\ endBy' = endBy => RowStep(t)
  BY DEF RowStep, SameEnd, stored
<1>3. CASE OpenInsert(p, heard)
  <2>1. t \in stored' /\ shift'[t] = shift[t] /\ endBy' = endBy
    BY <1>1, <1>3 DEF OpenInsert, RowsOK, stored
  <2> QED BY <2>1 DEF RowStep, SameEnd
<1>4. CASE AskChallenge(p, heard)
  <2> DEFINE c == CHOOSE c \in FreshChallenge : TRUE
             e == Challenged(shift[s], c)
  <2>1. CASE CanPhotograph(s)
    <3>1. FreshChallenge # {} /\ shift' = [shift EXCEPT ![s] = e] /\ endBy' = endBy
      BY <1>4, <2>1 DEF AskChallenge
    <3>2. c \in Challenge
      BY <3>1 DEF FreshChallenge
    <3>3. s \in stored /\ shift[s] \in Row /\ shift \in [stored -> Row]
      BY <1>1, <1>4 DEF AskChallenge, FlowsOK, RowsOK
    <3> HIDE DEF c
    <3>4. e \in Row /\ SameEnd(shift[s], e) /\ e.required = shift[s].required
      BY <1>1, <3>2, <3>3, ChallengedRowMade DEF SameEnd
    <3> HIDE DEF e
    <3>5. stored' = stored /\ shift'[t] = IF t = s THEN e ELSE shift[t]
      BY <3>1, <3>3, <3>4, SetRow
    <3> QED BY <3>1, <3>4, <3>5 DEF RowStep, SameEnd
  <2>2. CASE ~CanPhotograph(s)
    BY <1>2, <1>4, <2>2 DEF AskChallenge
  <2> QED BY <2>1, <2>2
<1>5. CASE Upload(p, heard)
  BY <1>2, <1>5 DEF Upload
<1>6. CASE PostClose(p, heard)
  <2>1. CASE ProofAccepted(s, saved[p][s]) /\ ~shift[s].ended
    <3>1. EndsByWorker(s, saved[p][s], flow[p].want = "switch", flow[p].want = "stop")
          /\ photo' = photo
      BY <1>6, <2>1 DEF PostClose
    <3>2. s \in stored /\ saved[p][s] \in Challenge \cup {None}
      BY <1>1, <1>6 DEF PostClose, FlowsOK, RowsOK, TypeOK
    <3> HIDE DEF s
    <3> QED BY <2>1, <3>1, <3>2, EndingRowStep
  <2>2. CASE ~(ProofAccepted(s, saved[p][s]) /\ ~shift[s].ended)
    BY <1>2, <1>6, <2>2 DEF PostClose
  <2> QED BY <2>1, <2>2
<1>7. CASE PostResolve(p, heard)
  <2>1. CASE Flagged(s) /\ ProofAccepted(s, saved[p][s])
    <3>1. EndsByWorker(s, saved[p][s], FALSE, TRUE) /\ photo' = photo
      BY <1>7, <2>1 DEF PostResolve
    <3>2. s \in stored /\ saved[p][s] \in Challenge \cup {None}
      BY <1>1, <1>7 DEF PostResolve, FlowsOK, RowsOK, TypeOK
    <3> HIDE DEF s
    <3> QED BY <2>1, <3>1, <3>2, EndingRowStep
  <2>2. CASE ~(Flagged(s) /\ ProofAccepted(s, saved[p][s]))
    BY <1>2, <1>7, <2>2 DEF PostResolve
  <2> QED BY <2>1, <2>2
<1> QED BY <1>3, <1>4, <1>5, <1>6, <1>7 DEF Acts

\* The timer and the office end a row without touching its proof.
LEMMA OfficeRowStep ==
    ASSUME TypeOK, NEW t \in stored,
           \/ \E s \in Shift : AutoClose(s)
           \/ \E o \in Office : OfficeStep(o)
    PROVE  RowStep(t)
<1>1. RowsOK /\ t \in Shift /\ shift \in [stored -> Row]
  BY DEF TypeOK, RowsOK
<1>2. ASSUME NEW s \in stored, NEW e \in Row, shift' = [shift EXCEPT ![s] = e],
             e.proof = shift[s].proof, e.required = shift[s].required,
             NEW who \in {"timer", "office"}, endBy' = [endBy EXCEPT ![s] = who]
      PROVE  RowStep(t)
  <2>1. stored' = stored /\ shift'[t] = IF t = s THEN e ELSE shift[t]
    BY <1>1, <1>2, SetRow
  <2>2. CASE t = s
    <3>1. endBy'[t] # "worker"
      BY <1>1, <1>2, <2>2 DEF TypeOK
    <3> QED BY <1>2, <2>1, <2>2, <3>1 DEF RowStep
  <2>3. CASE t # s
    <3>1. endBy'[t] = endBy[t]
      BY <1>1, <1>2, <2>3 DEF TypeOK
    <3> QED BY <2>1, <2>3, <3>1 DEF RowStep, SameEnd
  <2> QED BY <2>2, <2>3
<1>3. ASSUME NEW s \in Shift, AutoClose(s) PROVE RowStep(t)
  <2> DEFINE e == TimedOutRow(shift[s])
  <2>1. s \in stored /\ shift' = [shift EXCEPT ![s] = e] /\ endBy' = [endBy EXCEPT ![s] = "timer"]
    BY <1>3 DEF AutoClose
  <2>2. e \in Row /\ e.proof = shift[s].proof /\ e.required = shift[s].required
    BY <1>1, <2>1, TimedOutRowMade
  <2> HIDE DEF e
  <2> QED BY <1>2, <2>1, <2>2
<1>4. ASSUME NEW o \in Office, NEW s \in Shift, NEW ended \in BOOLEAN, PatchRead(o, s, ended)
      PROVE  RowStep(t)
  BY <1>4 DEF PatchRead, RowStep, SameEnd, stored
<1>5. ASSUME NEW o \in Office, PatchWrite(o) PROVE RowStep(t)
  <2> DEFINE s == patch[o].shift
             e == PatchedRow(shift[s], patch[o])
  <2>1. /\ patch[o] \in Patching /\ s \in Shift
        /\ shift' = [shift EXCEPT ![s] = e] /\ endBy' = [endBy EXCEPT ![s] = "office"]
    <3>1. patch[o] \in Patching
      BY <1>5 DEF PatchWrite, TypeOK, NoPatch, Patched
    <3>2. s \in Shift
      BY <3>1 DEF Patching
    <3> QED BY <1>5, <3>1, <3>2 DEF PatchWrite
  <2>2. CASE s \in stored
    <3>1. e \in Row /\ e.proof = shift[s].proof /\ e.required = shift[s].required
      BY <1>1, <2>1, <2>2, PatchedRowMade
    <3> HIDE DEF e, s
    <3> QED BY <1>2, <2>1, <2>2, <3>1
  <2>3. CASE s \notin stored
    <3>1. stored' = stored /\ shift'[t] = shift[t] /\ endBy'[t] = endBy[t]
      BY <1>1, <2>1, <2>3 DEF stored, TypeOK
    <3> QED BY <3>1 DEF RowStep, SameEnd
  <2> QED BY <2>2, <2>3
<1> QED BY <1>3, <1>4, <1>5 DEF OfficeStep

\* Every step does one of the three to every row.
LEMMA StepRow ==
    ASSUME TypeOK, EvidenceAssumption, [Next]_vars, NEW t \in stored
    PROVE  RowStep(t)
<1>0. shift' = shift /\ endBy' = endBy => RowStep(t)
  BY DEF RowStep, SameEnd, stored
<1>1. ASSUME NEW p \in Phone, PhoneStep(p) PROVE RowStep(t)
  <2>1. ASSUME NEW heard \in BOOLEAN, Acts(p, heard) PROVE RowStep(t)
    BY <2>1, RequestRowStep
  <2>2. ASSUME NEW s \in Shift, OpenRead(p, s) \/ Adopt(p, s) \/ BeginResolve(p, s)
        PROVE  shift' = shift /\ endBy' = endBy
    BY <2>2 DEF OpenRead, Adopt, BeginResolve, server
  <2>3. ASSUME NEW s \in Shift, NEW want \in Ending, BeginEnd(p, s, want)
        PROVE  shift' = shift /\ endBy' = endBy
    BY <2>3 DEF BeginEnd, server
  <2>4. ASSUME NEW at \in -Drift .. MaxTime + Drift, Shoot(p, at)
        PROVE  shift' = shift /\ endBy' = endBy
    BY <2>4 DEF Shoot, server
  <2>5. GiveUp(p) => shift' = shift /\ endBy' = endBy
    BY DEF GiveUp, server
  <2> QED BY <1>0, <1>1, <2>1, <2>2, <2>3, <2>4, <2>5 DEF PhoneStep
<1>2. SetPolicy \/ Tick \/ UNCHANGED vars => shift' = shift /\ endBy' = endBy
  BY DEF SetPolicy, Tick, vars, server
<1> QED BY <1>0, <1>1, <1>2, OfficeRowStep DEF Next

\* A row that a step adds is a running shift.
LEMMA NewRowsRun ==
    ASSUME TypeOK, EvidenceAssumption, [Next]_vars, NEW t \in stored', t \notin stored
    PROVE  ~shift'[t].ended
<1>1. PICK p \in Phone, heard \in BOOLEAN : OpenInsert(p, heard)
  <2>1. ASSUME NEW p \in Phone, NEW heard \in BOOLEAN, Acts(p, heard), ~OpenInsert(p, heard)
        PROVE  stored' = stored
    <3>1. flow[p].shift \in stored => \A e : shift' = [shift EXCEPT ![flow[p].shift] = e] => stored' = stored
      BY DEF stored
    <3> QED BY <2>1, <3>1 DEF Acts, AskChallenge, Upload, PostClose, PostResolve, EndsByWorker,
               stored, TypeOK, FlowsOK
  <2>2. ASSUME NEW p \in Phone, PhoneStep(p), \A heard \in BOOLEAN : ~Acts(p, heard)
        PROVE  stored' = stored
    BY <2>2 DEF PhoneStep, OpenRead, Adopt, BeginResolve, BeginEnd, Shoot, GiveUp, server, stored
  <2>3. (\E s \in Shift : AutoClose(s)) \/ SetPolicy \/ Tick \/ UNCHANGED vars => stored' = stored
    BY DEF AutoClose, SetPolicy, Tick, vars, server, stored
  <2>4. ASSUME NEW o \in Office, OfficeStep(o) PROVE stored' = stored
    BY <2>4 DEF OfficeStep, PatchRead, PatchWrite, stored
  <2> QED BY <2>1, <2>2, <2>3, <2>4 DEF Next
<1> DEFINE s == flow[p].shift
           e == NewRow(flow[p].policy)
<1>2. ~e.ended
  BY DEF NewRow
<1>3. s \notin stored /\ shift' = [r \in stored \cup {s} |-> IF r = s THEN e ELSE shift[r]]
  BY <1>1 DEF OpenInsert, stored
<1> HIDE DEF e
<1>4. t = s
  BY <1>3 DEF stored
<1> QED BY <1>2, <1>3, <1>4

\* What the office is shown for a shift its worker ended is what it was ended with.
THEOREM SettledProofHolds == Spec => []SettledShowsItsProof
<1>1. Init => SettledShowsItsProof
  BY DEF Init, SettledShowsItsProof, stored
<1>2. TypeOK /\ SettledShowsItsProof /\ [Next]_vars => SettledShowsItsProof'
  <2> SUFFICES ASSUME TypeOK, SettledShowsItsProof, [Next]_vars, NEW s \in stored',
                      shift'[s].required, shift'[s].ended, endBy'[s] = "worker",
                      ~(shift'[s].auto /\ ~shift'[s].corrected)
               PROVE  photo'[s].id # None /\ photo'[s].id = shift'[s].proof
    BY DEF SettledShowsItsProof, Flagged
  <2>1. CASE s \notin stored
    BY <2>1, NewRowsRun, EvidenceAssumption
  <2>2. CASE s \in stored
    <3>1. RowStep(s)
      BY <2>2, StepRow, EvidenceAssumption
    <3>2. CASE SameEnd(shift[s], shift'[s]) /\ endBy'[s] = endBy[s]
      <4>1. shift[s].required /\ shift[s].ended /\ endBy[s] = "worker" /\ ~Flagged(s)
        BY <3>1, <3>2 DEF RowStep, SameEnd, Flagged
      <4>2. photo[s].id # None /\ photo[s].id = shift[s].proof
        BY <2>2, <4>1 DEF SettledShowsItsProof
      <4>3. photo'[s] = photo[s]
        <5>1. ~CanPhotograph(s) /\ s \in Shift
          BY <2>2, <4>1 DEF CanPhotograph, TypeOK, RowsOK
        <5> QED BY <5>1, StepPhoto, EvidenceAssumption
      <4> QED BY <3>2, <4>2, <4>3 DEF SameEnd
    <3>3. ASSUME photo' = photo, NEW id \in Challenge \cup {None}, ProofAccepted(s, id),
                 shift'[s].proof = IF shift[s].required THEN id ELSE shift[s].proof
          PROVE  photo'[s].id # None /\ photo'[s].id = shift'[s].proof
      BY <3>1, <3>3 DEF RowStep, ProofAccepted
    <3> QED BY <3>1, <3>2, <3>3 DEF RowStep
  <2> QED BY <2>1, <2>2
<1> QED BY <1>1, <1>2, TypesHold, PTL DEF Spec

\* What a close or a resolution consumes is fresh and answers its own challenge.
THEOREM ConsumptionHolds == Spec => ConsumedProofIsFresh
<1> DEFINE Fresh(s) == s \in stored' /\ shift'[s].proof # shift[s].proof =>
             /\ photo[s].id = shift'[s].proof
             /\ now - photo[s].captured <= TTL
             /\ photo[s].asked <= photo[s].captured
             /\ now - photo[s].asked <= 2 * TTL + ClockSkew
           Step == \A s \in stored : Fresh(s)
<1>1. TypeOK /\ PhotoAnswersItsChallenge /\ [Next]_vars => Step
  <2> SUFFICES ASSUME TypeOK, PhotoAnswersItsChallenge, [Next]_vars, NEW s \in stored,
                      shift'[s].proof # shift[s].proof
               PROVE  /\ photo[s].id = shift'[s].proof
                      /\ now - photo[s].captured <= TTL
                      /\ photo[s].asked <= photo[s].captured
                      /\ now - photo[s].asked <= 2 * TTL + ClockSkew
    OBVIOUS
  <2>1. RowStep(s)
    BY StepRow, EvidenceAssumption
  <2>2. PICK id \in Challenge \cup {None} :
          ProofAccepted(s, id) /\ shift[s].required /\ shift'[s].proof = id
    BY <2>1 DEF RowStep, SameEnd
  <2>3. photo[s].id # None /\ photo[s].id = shift'[s].proof /\ now - photo[s].captured <= TTL
    BY <2>2 DEF ProofAccepted
  <2>4. s \in Shift
    BY DEF TypeOK, RowsOK
  <2>5. photo[s] \in Photo /\ now \in Int
    BY <2>3, <2>4 DEF TypeOK, NoPhoto, Time
  <2>6. /\ photo[s].captured \in Int /\ photo[s].asked \in Int
        /\ photo[s].asked <= photo[s].captured
        /\ photo[s].captured <= photo[s].asked + TTL + ClockSkew
    BY <2>3, <2>4, <2>5 DEF PhotoAnswersItsChallenge, Photo, Time
  <2>7. now - photo[s].asked <= 2 * TTL + ClockSkew
    BY <2>3, <2>5, <2>6, EvidenceAssumption DEF EvidenceAssumption
  <2> QED BY <2>3, <2>6, <2>7
<1>2. TypeOK /\ PhotoAnswersItsChallenge /\ [Next]_vars => [Step]_vars
  BY <1>1
<1> QED BY <1>2, TypesHold, PhotoTimesHold, PTL DEF Spec, ConsumedProofIsFresh
=============================================================================
