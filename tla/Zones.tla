-------------------------------- MODULE Zones --------------------------------
(***************************************************************************)
(* Cards, zones and buildings: routes/operator.js, the zone routes of      *)
(* routes/admin.js, and the two places where a tap reads them              *)
(* (validate.js activePlace, app.js openShift and closeShift).             *)
(*                                                                         *)
(* A card is the uuid an operator wrote on it; the zone that is made of it *)
(* has that uuid.  Every statement is a transaction of its own, so         *)
(* whatever a handler read may be old when it writes.  What keeps shifts   *)
(* and zones together is the foreign key (zone, building) of migration     *)
(* 006.  Names and serials, which only add refusals, are left out.         *)
(***************************************************************************)
EXTENDS Integers

CONSTANTS
    Card,       \* uuids
    Old,        \* the cards that were zones before operators reported cards
    Building,
    Tap,        \* shifts, by their client_uuid
    Phone,      \* handlers of the requests of operators and workers,
    Office,     \* and of the panel's, that take more than one statement
    None

Request == Phone \cup Office

Zone == [building : Building \cup {None}, active : BOOLEAN, verified : BOOLEAN]
ShiftRow == [building : Building, start : Card \cup {None}, end : Card \cup {None},
             open : BOOLEAN]

\* What a handler holds between two statements: a place that was read for a scan or a
\* tap, the zone a card is added to, a shift to be written, a building to stand down.
PlaceHeld == [kind : {"verify", "open", "close", "checked"}, tap : Tap \cup {None},
              zone : Card, building : Building]
AliasHeld == [kind : {"alias"}, card : Card, zone : Card]
PatchHeld == [kind : {"patch"}, tap : Tap, building : Building, moved : BOOLEAN,
              open : BOOLEAN]
BuildingHeld == [kind : {"standDown"}, building : Building]
Held == PlaceHeld \cup AliasHeld \cup PatchHeld \cup BuildingHeld

ASSUME ZonesAssumption ==
    /\ Old \subseteq Card
    /\ None \notin Card \cup Building \cup Zone \cup ShiftRow \cup Held
    /\ None \notin {"late", "reported", "resolved"}
    /\ "late" \notin Building

VARIABLES
    tag,      \* reported_tags: nothing, "reported", or "resolved"
    zone,     \* zones, by card
    alias,    \* tag_aliases: the zone a card was added to
    live,     \* the active locations
    shift,
    req,
    scanned,  \* history: the zones whose card an operator has scanned
    proof     \* history: the building the scan behind a stamp was of; "late" if the
              \* zone had left it when the stamp was written

tables == <<tag, zone, alias, live, shift>>
history == <<scanned, proof>>
vars == <<tables, req, history>>

TypeOK ==
    /\ tag \in [Card -> {None, "reported", "resolved"}]
    /\ zone \in [Card -> Zone \cup {None}]
    /\ alias \in [Card -> Card \cup {None}]
    /\ live \subseteq Building
    /\ shift \in [Tap -> ShiftRow \cup {None}]
    /\ req \in [Request -> Held \cup {None}]
    /\ scanned \subseteq Card
    /\ proof \in [Card -> Building \cup {None, "late"}]

Init ==
    /\ tag = [c \in Card |-> None]
    /\ \E at \in [Old -> Building] :
         zone = [c \in Card |->
           IF c \in Old THEN [building |-> at[c], active |-> TRUE, verified |-> FALSE] ELSE None]
    /\ alias = [c \in Card |-> None]
    /\ live = Building
    /\ shift = [t \in Tap |-> None]
    /\ req = [r \in Request |-> None]
    /\ scanned = {}
    /\ proof = [c \in Card |-> None]

-----------------------------------------------------------------------------
(* Reading a card                                                          *)

\* The zone a card names, itself or through an alias.
Named(c) == IF alias[c] # None THEN alias[c] ELSE c

\* activePlace finds a place for the card: an active zone of an active building.
Resolves(c) ==
    LET z == zone[Named(c)] IN z # None /\ z.active /\ z.building \in live

Frees(r) == req' = [req EXCEPT ![r] = None]
Holds(r, held) == req[r] = None /\ req' = [req EXCEPT ![r] = held]
Place(kind, t, c) ==
    [kind |-> kind, tap |-> t, zone |-> Named(c), building |-> zone[Named(c)].building]

\* shifts_start_zone_fk, shifts_end_zone_fk
References(row) ==
    \A z \in {row.start, row.end} \ {None} :
      zone[z] # None /\ zone[z].building = row.building

-----------------------------------------------------------------------------
(* Operators                                                               *)

\* POST /operator/tags.  The look for a zone of that id and the INSERT that gives way to
\* an earlier report act as one: a zone that appears in between was made of a reported card.
ReportTag(c) ==
    /\ zone[c] = None /\ tag[c] = None
    /\ tag' = [tag EXCEPT ![c] = "reported"]
    /\ UNCHANGED <<zone, alias, live, shift, req, history>>

\* POST /operator/tags/:id/resolve-zone, with or without a building: one statement.
ResolveTagToZone(c, b) ==
    /\ tag[c] = "reported"
    /\ tag' = [tag EXCEPT ![c] = "resolved"]
    /\ zone' = [zone EXCEPT ![c] = [building |-> b, active |-> TRUE, verified |-> FALSE]]
    /\ UNCHANGED <<alias, live, shift, req, history>>

\* Mutant: the binding keeps the proof.
BindProved(z, b) ==
    /\ zone[z] # None /\ zone[z].building = None
    /\ zone' = [zone EXCEPT ![z].building = b]
    /\ UNCHANGED <<tag, alias, live, shift, req, history>>

\* POST /operator/zones/:id/bind: also a zone or a building that is not active.
BindZone(z, b) ==
    /\ zone[z] # None /\ zone[z].building = None
    /\ zone' = [zone EXCEPT ![z].building = b, ![z].verified = FALSE]
    /\ proof' = [proof EXCEPT ![z] = None]
    /\ UNCHANGED <<tag, alias, live, shift, req, scanned>>

Names(t, z) == shift[t] # None /\ z \in {shift[t].start, shift[t].end}

\* Mutant: only an open shift holds its zone.
UnbindUnlessOpen(z) ==
    /\ zone[z] # None /\ zone[z].building # None
    /\ \A t \in Tap : Names(t, z) => ~shift[t].open
    /\ zone' = [zone EXCEPT ![z].building = None]
    /\ UNCHANGED <<tag, alias, live, shift, req, history>>

\* POST /operator/zones/:id/unbind: the database refuses while a shift names the zone.
UnbindZone(z) ==
    /\ zone[z] # None /\ zone[z].building # None
    /\ \A t \in Tap : ~Names(t, z)
    /\ zone' = [zone EXCEPT ![z].building = None]
    /\ UNCHANGED <<tag, alias, live, shift, req, history>>

\* POST /operator/zones/:id/verify, its reads: the card resolves to the zone the operator
\* picked.  (The earlier read of the zone asks for no more than this one.)
Scan(r, z, c) ==
    /\ Resolves(c) /\ Named(c) = z
    /\ Holds(r, Place("verify", None, c))
    /\ scanned' = scanned \cup {z}
    /\ UNCHANGED <<tables, proof>>

\* verifyZone, its UPDATE: of an active zone, whatever building it is in by now.
Stamp(r) ==
    /\ req[r] # None /\ req[r].kind = "verify"
    /\ LET z == req[r].zone IN
         IF zone[z].active /\ ~zone[z].verified
           THEN /\ zone' = [zone EXCEPT ![z].verified = TRUE]
                /\ proof' = [proof EXCEPT ![z] =
                     IF zone[z].building = req[r].building THEN req[r].building ELSE "late"]
           ELSE UNCHANGED <<zone, proof>>
    /\ Frees(r)
    /\ UNCHANGED <<tag, alias, live, shift, scanned>>

-----------------------------------------------------------------------------
(* The office                                                              *)

\* resolveTagToExistingZone: the zone is active when it is read ...
AliasRead(r, c, z) ==
    /\ zone[z] # None /\ zone[z].active
    /\ Holds(r, [kind |-> "alias", card |-> c, zone |-> z])
    /\ UNCHANGED <<tables, history>>

\* Mutant: the alias is written for a card that somebody has resolved meanwhile.
AliasAnyway(r) ==
    /\ req[r] # None /\ req[r].kind = "alias" /\ tag[req[r].card] # None
    /\ tag' = [tag EXCEPT ![req[r].card] = "resolved"]
    /\ alias' = [alias EXCEPT ![req[r].card] = req[r].zone]
    /\ Frees(r)
    /\ UNCHANGED <<zone, live, shift, history>>

\* ... and the card is stamped and added to it in one statement.
AliasWrite(r) ==
    /\ req[r] # None /\ req[r].kind = "alias"
    /\ IF tag[req[r].card] = "reported"
         THEN /\ tag' = [tag EXCEPT ![req[r].card] = "resolved"]
              /\ alias' = [alias EXCEPT ![req[r].card] = req[r].zone]
         ELSE UNCHANGED <<tag, alias>>
    /\ Frees(r)
    /\ UNCHANGED <<zone, live, shift, history>>

\* DELETE /admin/zones/:id, and POST /admin/zones, which names the building it saw.
SetZoneActive(z, active) ==
    /\ zone[z] # None /\ (active => zone[z].building # None)
    /\ zone' = [zone EXCEPT ![z].active = active]
    /\ UNCHANGED <<tag, alias, live, shift, req, history>>

StoodDown(b) ==
    [z \in Card |-> IF zone[z] # None /\ zone[z].building = b
                      THEN [zone[z] EXCEPT !.active = FALSE] ELSE zone[z]]

\* upsertLocation: a building that is made inactive takes its zones with it.
SetBuildingActive(b, active) ==
    /\ live' = IF active THEN live \cup {b} ELSE live \ {b}
    /\ zone' = IF active THEN zone ELSE StoodDown(b)
    /\ UNCHANGED <<tag, alias, shift, req, history>>

\* deleteLocation does so in two statements.
DeleteLocation(r, b) ==
    /\ Holds(r, [kind |-> "standDown", building |-> b])
    /\ live' = live \ {b}
    /\ UNCHANGED <<tag, zone, alias, shift, history>>

StandDown(r) ==
    /\ req[r] # None /\ req[r].kind = "standDown"
    /\ zone' = StoodDown(req[r].building)
    /\ Frees(r)
    /\ UNCHANGED <<tag, alias, live, shift, history>>

\* patchShift reads a shift ...
PatchRead(r, t, b, open) ==
    /\ shift[t] # None /\ b \in live \cup {shift[t].building}
    /\ Holds(r, [kind |-> "patch", tap |-> t, building |-> b,
                 moved |-> b # shift[t].building, open |-> open])
    /\ UNCHANGED <<tables, history>>

Patched(row, p) ==
    [building |-> p.building, open |-> p.open,
     start |-> IF p.moved THEN None ELSE row.start,
     end |-> IF p.moved THEN None ELSE row.end]

\* ... and writes every column; the key refuses a building the row's zones are not in.
PatchWrite(r) ==
    /\ req[r] # None /\ req[r].kind = "patch"
    /\ LET t == req[r].tap
           row == Patched(shift[t], req[r])
       IN  shift' = IF References(row) THEN [shift EXCEPT ![t] = row] ELSE shift
    /\ Frees(r)
    /\ UNCHANGED <<tag, zone, alias, live, history>>

-----------------------------------------------------------------------------
(* Taps                                                                    *)

\* Mutant: no requireVerifiedPlace.
OpenReadUngated(r, t, c) ==
    /\ Resolves(c)
    /\ Holds(r, Place("open", t, c))
    /\ UNCHANGED <<tables, history>>

\* openShift: the place is read, and must have been proved ...
OpenRead(r, t, c) ==
    /\ Resolves(c) /\ zone[Named(c)].verified
    /\ Holds(r, Place("open", t, c))
    /\ UNCHANGED <<tables, history>>

\* ... before the row is inserted, unless it is there already.
OpenInsert(r) ==
    /\ req[r] # None /\ req[r].kind = "open"
    /\ LET t == req[r].tap
           row == [building |-> req[r].building, start |-> req[r].zone, end |-> None,
                   open |-> TRUE]
       IN  shift' = IF shift[t] = None /\ References(row) THEN [shift EXCEPT ![t] = row]
                                                          ELSE shift
    /\ Frees(r)
    /\ UNCHANGED <<tag, zone, alias, live, history>>

\* closeShift: the place, which need not be proved ...
CloseRead(r, t, c) ==
    /\ Resolves(c)
    /\ Holds(r, Place("close", t, c))
    /\ UNCHANGED <<tables, history>>

\* ... the shift, which must be open and of the same building ...
CloseCheck(r) ==
    /\ req[r] # None /\ req[r].kind = "close"
    /\ LET row == shift[req[r].tap] IN
         req' = [req EXCEPT ![r] =
                   IF row # None /\ row.open /\ row.building = @.building
                     THEN [@ EXCEPT !.kind = "checked"] ELSE None]
    /\ UNCHANGED <<tables, history>>

\* ... and the write, if it is still open.
CloseWrite(r) ==
    /\ req[r] # None /\ req[r].kind = "checked"
    /\ LET t == req[r].tap
           row == [shift[t] EXCEPT !.end = req[r].zone, !.open = FALSE]
       IN  shift' = IF shift[t].open /\ References(row) THEN [shift EXCEPT ![t] = row]
                                                        ELSE shift
    /\ Frees(r)
    /\ UNCHANGED <<tag, zone, alias, live, history>>

\* A close that names no place, and the timer.
CloseAnywhere(t) ==
    /\ shift[t] # None /\ shift[t].open
    /\ shift' = [shift EXCEPT ![t].open = FALSE]
    /\ UNCHANGED <<tag, zone, alias, live, req, history>>

\* The process dies, or the connection does: what a handler holds is gone.
Die(r) == req[r] # None /\ Frees(r) /\ UNCHANGED <<tables, history>>

-----------------------------------------------------------------------------

OperatorNext ==
    \/ \E c \in Card : ReportTag(c)
    \/ \E c \in Card, b \in Building \cup {None} : ResolveTagToZone(c, b)
    \/ \E z \in Card, b \in Building : BindZone(z, b)
    \/ \E z \in Card : UnbindZone(z)
    \/ \E r \in Phone, z, c \in Card : Scan(r, z, c)
    \/ \E r \in Phone : Stamp(r)

OfficeNext ==
    \/ \E r \in Office, c, z \in Card : AliasRead(r, c, z)
    \/ \E r \in Office : AliasWrite(r) \/ StandDown(r) \/ PatchWrite(r)
    \/ \E z \in Card, active \in BOOLEAN : SetZoneActive(z, active)
    \/ \E b \in Building, active \in BOOLEAN : SetBuildingActive(b, active)
    \/ \E r \in Office, b \in Building : DeleteLocation(r, b)
    \/ \E r \in Office, t \in Tap, b \in Building, open \in BOOLEAN : PatchRead(r, t, b, open)

TapNext ==
    \/ \E r \in Phone, t \in Tap, c \in Card : OpenRead(r, t, c) \/ CloseRead(r, t, c)
    \/ \E r \in Phone : OpenInsert(r) \/ CloseCheck(r) \/ CloseWrite(r)
    \/ \E t \in Tap : CloseAnywhere(t)

Next == OperatorNext \/ OfficeNext \/ TapNext \/ \E r \in Request : Die(r)

Spec == Init /\ [][Next]_vars

-----------------------------------------------------------------------------
(* Properties                                                              *)

\* Two operators, or an operator and the office, decide about one card at once: a card
\* becomes a zone or an alias of one, never both, and it is stamped if and only if it did
\* (resolveTagToZone, resolveTagToExistingZone).
CardMeansOneThing ==
    \A c \in Card \ Old :
      /\ tag[c] = "resolved" <=> zone[c] # None \/ alias[c] # None
      /\ zone[c] = None \/ alias[c] = None

\* The door a shift was tapped at never moves to another building under it, whatever is
\* unbound, bound, patched or closed meanwhile: payroll and the door agree where the
\* work was done (decision-54, migrations 006 and 013).
HistoryKeepsItsBuilding ==
    [][\A t \in Tap, z \in Card :
         Names(t, z) /\ Names(t, z)' =>
           /\ zone'[z].building = zone[z].building
           /\ shift'[t].building = zone'[z].building]_vars

\* No shift opens at a door whose card nobody has scanned, on any path, although the
\* place is read long before the row is inserted (requireVerifiedPlace, decision-47).
TappedDoorsWereScanned ==
    \A t \in Tap, z \in Card :
      shift[t] # None /\ shift[t].start = z => z \in scanned

\* A proof is of the building the zone is in (bindZone clears it), unless the zone was
\* moved between the scan and its stamp: verifyZone's UPDATE does not look at the building.
ProvedWhereItHangs ==
    \A z \in Card, b \in Building :
      zone[z] # None /\ zone[z].verified /\ zone[z].building = b =>
        proof[z] \in {b, "late"}

=============================================================================
