----------------------------- MODULE ZoneProofs -----------------------------
(***************************************************************************)
(* Proofs about Zones, for any number of cards, buildings, shifts and      *)
(* handlers.                                                               *)
(***************************************************************************)
EXTENDS Zones, TLAPS

-----------------------------------------------------------------------------
(* The inductive invariant                                                 *)

\* The zones that were there before are never reported, so nothing is made of them.
OldZonesStay == \A c \in Old : zone[c] # None /\ tag[c] = None

\* Every row satisfies its foreign keys.
RowsFit == \A t \in Tap : shift[t] # None => References(shift[t])

StampsHaveScans == \A z \in Card : zone[z] # None /\ zone[z].verified => z \in scanned

\* What a handler has in hand exists, and was scanned if it came through a gate.
HeldIsSound(h) ==
    /\ h.kind \in {"verify", "open", "close", "checked"} => zone[h.zone] # None
    /\ h.kind \in {"verify", "open"} => h.zone \in scanned
    /\ h.kind \in {"open", "close", "checked"} => h.tap \in Tap
    /\ h.kind \in {"patch", "checked"} => shift[h.tap] # None

HandlersAreSound == \A r \in Request : req[r] # None => HeldIsSound(req[r])

ZoneInv ==
    /\ TypeOK
    /\ OldZonesStay /\ CardMeansOneThing
    /\ RowsFit
    /\ StampsHaveScans /\ TappedDoorsWereScanned /\ ProvedWhereItHangs
    /\ HandlersAreSound

-----------------------------------------------------------------------------
(* Lemmas                                                                  *)

LEMMA HeldKinds ==
    ASSUME NEW h \in Held
    PROVE  /\ h.kind \in {"verify", "open", "close", "checked"} => h \in PlaceHeld
           /\ h.kind = "alias" => h \in AliasHeld
           /\ h.kind = "patch" => h \in PatchHeld
           /\ h.kind = "standDown" => h \in BuildingHeld
BY DEF Held, PlaceHeld, AliasHeld, PatchHeld, BuildingHeld


\* What a handler still has in hand stays sound while zones and shifts are only added.
LEMMA HandlersKept ==
    ASSUME ZoneInv, req' \in [Request -> Held \cup {None}],
           \A z \in Card : zone[z] # None => zone'[z] # None,
           \A t \in Tap : shift[t] # None => shift'[t] # None,
           scanned \subseteq scanned',
           \A r \in Request : req'[r] = req[r] \/ req'[r] = None
    PROVE  HandlersAreSound'
<1>. SUFFICES ASSUME NEW r \in Request, NEW h, h = req'[r], h # None
              PROVE  HeldIsSound(h)'
  BY DEF HandlersAreSound, HeldIsSound
<1>1. h = req[r] /\ h \in Held /\ HeldIsSound(h)
  BY DEF ZoneInv, TypeOK, HandlersAreSound
<1>2. /\ h.kind \in {"verify", "open", "close", "checked"} => h.zone \in Card
      /\ h.kind \in {"patch", "checked"} => h.tap \in Tap
  BY <1>1, HeldKinds DEF PlaceHeld, PatchHeld, HeldIsSound
<1>. QED BY <1>1, <1>2 DEF HeldIsSound

\* A zone that keeps its building keeps every row that names it.
LEMMA RowsKept ==
    ASSUME ZoneInv, shift' = shift, zone' \in [Card -> Zone \cup {None}],
           \A z \in Card : (\E t \in Tap : Names(t, z)) =>
             zone'[z] # None /\ zone'[z].building = zone[z].building
    PROVE  RowsFit'
<1>. SUFFICES ASSUME NEW t \in Tap, shift[t] # None,
                     NEW z \in {shift[t].start, shift[t].end} \ {None}
              PROVE  zone'[z] # None /\ zone'[z].building = shift[t].building
  BY DEF RowsFit, References
<1>1. shift[t] \in ShiftRow
  BY DEF ZoneInv, TypeOK
<1>2. z \in Card /\ Names(t, z)
  BY <1>1 DEF ShiftRow, Names
<1>3. zone[z].building = shift[t].building
  BY DEF ZoneInv, RowsFit, References
<1>. QED BY <1>2, <1>3

\* A row that fits leaves every other one alone.
LEMMA RowWritten ==
    ASSUME ZoneInv, NEW t \in Tap, NEW row \in ShiftRow, References(row),
           shift' = [shift EXCEPT ![t] = row], zone' = zone
    PROVE  /\ shift' \in [Tap -> ShiftRow \cup {None}]
           /\ RowsFit'
           /\ \A u \in Tap : shift[u] # None => shift'[u] # None
<1>1. /\ shift \in [Tap -> ShiftRow \cup {None}] /\ row # None
      /\ \A u \in Tap : shift'[u] = IF u = t THEN row ELSE shift[u]
  BY ZonesAssumption DEF ZoneInv, TypeOK
<1>2. shift' \in [Tap -> ShiftRow \cup {None}]
  BY <1>1
<1>3. \A u \in Tap : shift[u] # None => shift'[u] # None
  BY <1>1
<1>4. ASSUME NEW u \in Tap, NEW v, v = shift'[u], v # None
      PROVE  References(v)'
  <2>1. References(v)
    BY <1>1, <1>4 DEF ZoneInv, RowsFit
  <2>. QED BY <2>1 DEF References
<1>5. RowsFit'
  BY <1>4 DEF RowsFit, References
<1>. QED BY <1>2, <1>3, <1>5

\* A card that resolves names a zone of some building.
LEMMA PlaceIsSound ==
    ASSUME ZoneInv, NEW c \in Card, Resolves(c),
           NEW kind \in {"verify", "open", "close"}, NEW t \in Tap \cup {None}
    PROVE  /\ Named(c) \in Card /\ zone[Named(c)] \in Zone
           /\ Place(kind, t, c) \in PlaceHeld
           /\ Place(kind, t, c) \in Held
<1>1. Named(c) \in Card
  BY DEF Named, ZoneInv, TypeOK
<1>2. zone[Named(c)] \in Zone /\ zone[Named(c)].building \in Building
  BY <1>1 DEF Resolves, ZoneInv, TypeOK
<1>3. Place(kind, t, c) \in PlaceHeld
  BY <1>1, <1>2 DEF Place, PlaceHeld
<1>. QED BY <1>1, <1>2, <1>3 DEF Held

LEMMA Freed ==
    ASSUME ZoneInv, NEW r \in Request, Frees(r)
    PROVE  /\ req' \in [Request -> Held \cup {None}]
           /\ \A q \in Request : req'[q] = req[q] \/ req'[q] = None
BY DEF ZoneInv, TypeOK, Frees

\* A handler takes something sound in hand.
LEMMA HandlerStarts ==
    ASSUME ZoneInv, NEW r \in Request, NEW h \in Held, HeldIsSound(h)',
           req' = [req EXCEPT ![r] = h],
           UNCHANGED <<zone, shift>>, scanned \subseteq scanned'
    PROVE  req' \in [Request -> Held \cup {None}] /\ HandlersAreSound'
<1>1. /\ req' \in [Request -> Held \cup {None}]
      /\ \A q \in Request : req'[q] = IF q = r THEN h ELSE req[q]
  BY DEF ZoneInv, TypeOK
<1>2. ASSUME NEW q \in Request, NEW g, g = req'[q], g # None
      PROVE  HeldIsSound(g)'
  <2>1. CASE q = r
    BY <1>1, <1>2, <2>1
  <2>2. CASE q # r
    <3>1. g = req[q] /\ HeldIsSound(g)
      BY <1>1, <1>2, <2>2 DEF ZoneInv, HandlersAreSound
    <3>. QED BY <3>1 DEF HeldIsSound
  <2>. QED BY <2>1, <2>2
<1>3. HandlersAreSound'
  BY <1>2 DEF HandlersAreSound, HeldIsSound
<1>. QED BY <1>1, <1>3

\* A request that was only read for changes nothing else.
LEMMA OnlyHandlers ==
    ASSUME ZoneInv, UNCHANGED <<tag, zone, alias, shift, proof>>, live' \subseteq Building,
           scanned' \subseteq Card, scanned \subseteq scanned',
           req' \in [Request -> Held \cup {None}], HandlersAreSound'
    PROVE  ZoneInv'
<1>1. TypeOK'
  BY DEF ZoneInv, TypeOK
<1>2. OldZonesStay' /\ CardMeansOneThing' /\ RowsFit' /\ ProvedWhereItHangs'
  BY DEF ZoneInv, OldZonesStay, CardMeansOneThing, RowsFit, References, ProvedWhereItHangs
<1>3. StampsHaveScans' /\ TappedDoorsWereScanned'
  BY DEF ZoneInv, StampsHaveScans, TappedDoorsWereScanned
<1>. QED BY <1>1, <1>2, <1>3 DEF ZoneInv

\* Zones that are switched, or lose a building no shift ties them to.
LEMMA ZonesEdited ==
    ASSUME ZoneInv, UNCHANGED <<tag, alias, shift, history>>, live' \subseteq Building,
           req' \in [Request -> Held \cup {None}],
           \A r \in Request : req'[r] = req[r] \/ req'[r] = None,
           zone' \in [Card -> Zone \cup {None}],
           \A z \in Card : zone'[z] # None <=> zone[z] # None,
           \A z \in Card : zone[z] # None =>
             /\ zone'[z].verified => zone[z].verified
             /\ \/ zone'[z].building = zone[z].building
                \/ zone'[z].building = None /\ \A t \in Tap : ~Names(t, z)
    PROVE  ZoneInv'
<1>1. TypeOK'
  BY DEF ZoneInv, TypeOK, history
<1>2. OldZonesStay' /\ CardMeansOneThing'
  BY ZonesAssumption DEF ZoneInv, OldZonesStay, CardMeansOneThing
<1>3. RowsFit'
  <2>1. ASSUME NEW z \in Card, \E t \in Tap : Names(t, z)
        PROVE  zone'[z] # None /\ zone'[z].building = zone[z].building
    <3>1. PICK t \in Tap : Names(t, z)
      BY <2>1
    <3>2. z \in {shift[t].start, shift[t].end} \ {None} /\ shift[t] # None
      BY <3>1, ZonesAssumption DEF Names
    <3>3. zone[z] # None
      BY <3>2 DEF ZoneInv, RowsFit, References
    <3>. QED BY <3>1, <3>3
  <2>. QED BY <2>1, RowsKept
<1>4. StampsHaveScans' /\ TappedDoorsWereScanned'
  BY DEF ZoneInv, StampsHaveScans, TappedDoorsWereScanned, history
<1>5. ProvedWhereItHangs'
  BY ZonesAssumption DEF ZoneInv, ProvedWhereItHangs, history
<1>6. HandlersAreSound'
  BY HandlersKept DEF history
<1>. QED BY <1>1, <1>2, <1>3, <1>4, <1>5, <1>6 DEF ZoneInv

\* A shift's row is written, by a handler that is done.
LEMMA RowWriteKeeps ==
    ASSUME ZoneInv, UNCHANGED <<tag, zone, alias, live, history>>,
           req' \in [Request -> Held \cup {None}],
           \A q \in Request : req'[q] = req[q] \/ req'[q] = None,
           NEW t \in Tap, NEW row \in ShiftRow,
           References(row), shift' = [shift EXCEPT ![t] = row],
           row.start # None => row.start \in scanned
    PROVE  ZoneInv'
<1>1. /\ shift' \in [Tap -> ShiftRow \cup {None}] /\ RowsFit'
      /\ \A u \in Tap : shift[u] # None => shift'[u] # None
  BY RowWritten
<1>2. TypeOK'
  BY <1>1 DEF ZoneInv, TypeOK, history
<1>3. OldZonesStay' /\ CardMeansOneThing' /\ StampsHaveScans' /\ ProvedWhereItHangs'
  BY DEF ZoneInv, OldZonesStay, CardMeansOneThing, StampsHaveScans, ProvedWhereItHangs, history
<1>4. TappedDoorsWereScanned'
  BY ZonesAssumption DEF ZoneInv, TypeOK, TappedDoorsWereScanned, history
<1>5. HandlersAreSound'
  BY <1>1, HandlersKept DEF history, ZoneInv, TypeOK
<1>. QED BY <1>1, <1>2, <1>3, <1>4, <1>5 DEF ZoneInv

-----------------------------------------------------------------------------
(* Every step keeps the invariant                                          *)

LEMMA InitHolds == Init => ZoneInv
<1>. SUFFICES ASSUME Init PROVE ZoneInv
  OBVIOUS
<1>1. PICK at \in [Old -> Building] :
        zone = [c \in Card |->
          IF c \in Old THEN [building |-> at[c], active |-> TRUE, verified |-> FALSE] ELSE None]
  BY DEF Init
<1>2. \A c \in Card : c \in Old => zone[c] \in Zone /\ ~zone[c].verified
  BY <1>1 DEF Zone
<1>3. \A c \in Card : c \notin Old => zone[c] = None
  BY <1>1
<1>4. zone \in [Card -> Zone \cup {None}]
  BY <1>1, <1>2, <1>3
<1>5. TypeOK
  BY <1>4 DEF Init, TypeOK
<1>6. OldZonesStay
  <2>1. Old \subseteq Card /\ None \notin Zone
    BY ZonesAssumption
  <2>2. \A c \in Old : tag[c] = None
    BY <2>1 DEF Init
  <2>. QED BY <1>2, <2>1, <2>2 DEF OldZonesStay
<1>9. CardMeansOneThing
  <2>1. \A c \in Card : tag[c] = None /\ alias[c] = None /\ tag[c] # "resolved"
    BY ZonesAssumption DEF Init
  <2>. QED BY <1>3, <2>1 DEF CardMeansOneThing
<1>7. RowsFit /\ TappedDoorsWereScanned /\ HandlersAreSound
  BY DEF Init, RowsFit, TappedDoorsWereScanned, HandlersAreSound
<1>8. StampsHaveScans /\ ProvedWhereItHangs
  BY <1>2, <1>3 DEF StampsHaveScans, ProvedWhereItHangs
<1>. QED BY <1>5, <1>6, <1>7, <1>8, <1>9 DEF ZoneInv

LEMMA ReportKeeps ==
    ASSUME ZoneInv, NEW c \in Card, ReportTag(c)
    PROVE  ZoneInv'
<1>1. TypeOK'
  BY DEF ZoneInv, TypeOK, ReportTag, history
<1>2. c \notin Old
  BY DEF ZoneInv, OldZonesStay, ReportTag
<1>3. OldZonesStay' /\ CardMeansOneThing'
  BY <1>2, ZonesAssumption
     DEF ZoneInv, TypeOK, OldZonesStay, CardMeansOneThing, ReportTag
<1>4. RowsFit' /\ StampsHaveScans' /\ TappedDoorsWereScanned' /\ ProvedWhereItHangs'
  BY DEF ZoneInv, RowsFit, References, StampsHaveScans, TappedDoorsWereScanned,
         ProvedWhereItHangs, ReportTag, history
<1>5. HandlersAreSound'
  BY HandlersKept DEF ReportTag, history, ZoneInv, TypeOK
<1>. QED BY <1>1, <1>3, <1>4, <1>5 DEF ZoneInv

LEMMA ResolveKeeps ==
    ASSUME ZoneInv, NEW c \in Card, NEW b \in Building \cup {None}, ResolveTagToZone(c, b)
    PROVE  ZoneInv'
<1>. DEFINE new == [building |-> b, active |-> TRUE, verified |-> FALSE]
<1>1. c \notin Old /\ zone[c] = None /\ alias[c] = None
  BY ZonesAssumption
     DEF ZoneInv, OldZonesStay, CardMeansOneThing, ResolveTagToZone
<1>2. new \in Zone /\ ~new.verified
  BY DEF Zone
<1>. HIDE DEF new
<1>3. /\ tag' = [tag EXCEPT ![c] = "resolved"] /\ zone' = [zone EXCEPT ![c] = new]
      /\ UNCHANGED <<alias, live, shift, req, history>>
  BY DEF ResolveTagToZone, new
<1>4. /\ zone' \in [Card -> Zone \cup {None}] /\ new # None
      /\ \A z \in Card : zone'[z] = IF z = c THEN new ELSE zone[z]
  BY <1>2, <1>3, ZonesAssumption DEF ZoneInv, TypeOK
<1>5. TypeOK'
  BY <1>3, <1>4 DEF ZoneInv, TypeOK, history
<1>6. OldZonesStay' /\ CardMeansOneThing'
  BY <1>1, <1>3, <1>4, ZonesAssumption DEF ZoneInv, TypeOK, OldZonesStay, CardMeansOneThing
<1>7. RowsFit'
  <2>1. ASSUME NEW z \in Card, NEW t \in Tap, Names(t, z)
        PROVE  zone[z] # None /\ zone'[z] = zone[z]
    <3>1. z \in {shift[t].start, shift[t].end} \ {None} /\ shift[t] # None
      BY <2>1, ZonesAssumption DEF Names
    <3>2. zone[z] # None
      BY <3>1 DEF ZoneInv, RowsFit, References
    <3>. QED BY <1>1, <1>4, <3>2
  <2>. QED BY <1>3, <1>4, <2>1, RowsKept
<1>8. StampsHaveScans' /\ TappedDoorsWereScanned' /\ ProvedWhereItHangs'
  BY <1>2, <1>3, <1>4 DEF ZoneInv, StampsHaveScans, TappedDoorsWereScanned,
     ProvedWhereItHangs, history
<1>9. HandlersAreSound'
  BY <1>3, <1>4, HandlersKept DEF history, ZoneInv, TypeOK
<1>. QED BY <1>5, <1>6, <1>7, <1>8, <1>9 DEF ZoneInv

LEMMA BindKeeps ==
    ASSUME ZoneInv, NEW z \in Card, NEW b \in Building, BindZone(z, b)
    PROVE  ZoneInv' /\ \A t \in Tap : ~Names(t, z)
<1>. DEFINE bound == [zone[z] EXCEPT !.building = b, !.verified = FALSE]
<1>1. zone[z] \in Zone /\ zone[z].building = None
  BY DEF BindZone, ZoneInv, TypeOK
<1>2. bound \in Zone /\ bound # None /\ bound.building = b /\ ~bound.verified
  BY <1>1, ZonesAssumption DEF Zone
<1>. HIDE DEF bound
<1>3. /\ zone' = [zone EXCEPT ![z] = bound] /\ proof' = [proof EXCEPT ![z] = None]
      /\ UNCHANGED <<tag, alias, live, shift, req, scanned>>
  BY DEF BindZone, bound
<1>4. /\ zone' \in [Card -> Zone \cup {None}]
      /\ \A c \in Card : zone'[c] = IF c = z THEN bound ELSE zone[c]
  BY <1>2, <1>3 DEF ZoneInv, TypeOK
<1>5. TypeOK'
  BY <1>3, <1>4 DEF ZoneInv, TypeOK
<1>6. OldZonesStay' /\ CardMeansOneThing'
  BY <1>1, <1>2, <1>3, <1>4, ZonesAssumption
     DEF BindZone, ZoneInv, OldZonesStay, CardMeansOneThing
<1>7. \A c \in Card, t \in Tap : Names(t, c) =>
        zone[c] # None /\ zone[c].building # None
  <2>. SUFFICES ASSUME NEW c \in Card, NEW t \in Tap, Names(t, c)
                PROVE  zone[c] # None /\ zone[c].building # None
    OBVIOUS
  <2>1. c \in {shift[t].start, shift[t].end} \ {None} /\ shift[t] \in ShiftRow /\ shift[t] # None
    BY ZonesAssumption DEF Names, ZoneInv, TypeOK
  <2>2. shift[t].building \in Building
    BY <2>1 DEF ShiftRow
  <2>. QED BY <2>1, <2>2, ZonesAssumption DEF ZoneInv, RowsFit, References
<1>8. RowsFit'
  BY <1>1, <1>3, <1>4, <1>7, RowsKept
<1>9. StampsHaveScans' /\ TappedDoorsWereScanned'
  BY <1>2, <1>3, <1>4 DEF ZoneInv, StampsHaveScans, TappedDoorsWereScanned
<1>10. ProvedWhereItHangs'
  <2>. SUFFICES ASSUME NEW c \in Card, NEW d \in Building,
                       zone'[c] # None, zone'[c].verified, zone'[c].building = d
                PROVE  proof'[c] \in {d, "late"}
    BY DEF ProvedWhereItHangs
  <2>1. c # z
    BY <1>2, <1>4
  <2>2. proof'[c] = proof[c] /\ zone'[c] = zone[c]
    BY <1>3, <1>4, <2>1 DEF ZoneInv, TypeOK
  <2>. QED BY <2>2 DEF ZoneInv, ProvedWhereItHangs
<1>11. HandlersAreSound'
  BY <1>2, <1>3, <1>4, HandlersKept DEF ZoneInv, TypeOK
<1>. QED BY <1>1, <1>5, <1>6, <1>7, <1>8, <1>9, <1>10, <1>11 DEF ZoneInv

LEMMA UnbindKeeps ==
    ASSUME ZoneInv, NEW z \in Card, UnbindZone(z)
    PROVE  ZoneInv'
<1>. DEFINE unbound == [zone[z] EXCEPT !.building = None]
<1>1. zone[z] \in Zone /\ \A t \in Tap : ~Names(t, z)
  BY DEF UnbindZone, ZoneInv, TypeOK
<1>2. /\ unbound \in Zone /\ unbound # None /\ unbound.building = None
      /\ unbound.verified = zone[z].verified
  BY <1>1, ZonesAssumption DEF Zone
<1>. HIDE DEF unbound
<1>3. zone' = [zone EXCEPT ![z] = unbound] /\ UNCHANGED <<tag, alias, live, shift, req, history>>
  BY DEF UnbindZone, unbound
<1>4. /\ zone' \in [Card -> Zone \cup {None}]
      /\ \A c \in Card : zone'[c] = IF c = z THEN unbound ELSE zone[c]
  BY <1>2, <1>3 DEF ZoneInv, TypeOK
<1>5. zone[z] # None
  BY DEF UnbindZone
<1>. QED BY <1>1, <1>2, <1>3, <1>4, <1>5, ZonesEdited DEF ZoneInv, TypeOK

LEMMA ScanKeeps ==
    ASSUME ZoneInv, NEW r \in Phone, NEW z \in Card, NEW c \in Card, Scan(r, z, c)
    PROVE  ZoneInv'
<1>1. PICK h : h = Place("verify", None, c)
  OBVIOUS
<1>2. /\ h \in Held /\ Named(c) \in Card /\ zone[Named(c)] \in Zone /\ zone[Named(c)] # None
  BY <1>1, PlaceIsSound, ZonesAssumption DEF Scan
<1>3. h.kind = "verify" /\ h.zone = z /\ z \in Card
  BY <1>1 DEF Place, Scan
<1>4. UNCHANGED <<tables, proof>> /\ scanned' = scanned \cup {z} /\ req' = [req EXCEPT ![r] = h]
  BY <1>1 DEF Scan, Holds
<1>5. HeldIsSound(h)'
  BY <1>2, <1>3, <1>4 DEF HeldIsSound, Scan, tables
<1>6. req' \in [Request -> Held \cup {None}] /\ HandlersAreSound'
  BY <1>2, <1>4, <1>5, HandlerStarts DEF Request, tables
<1>. QED BY <1>3, <1>4, <1>6, OnlyHandlers DEF tables, ZoneInv, TypeOK

LEMMA StampKeeps ==
    ASSUME ZoneInv, NEW r \in Phone, Stamp(r)
    PROVE  ZoneInv'
<1>1. PICK z : z = req[r].zone
  OBVIOUS
<1>2. /\ r \in Request /\ req[r] \in Held /\ req[r].kind = "verify" /\ HeldIsSound(req[r])
  BY DEF Stamp, Request, ZoneInv, TypeOK, HandlersAreSound
<1>3. req[r] \in PlaceHeld
  BY <1>2, HeldKinds
<1>4. /\ z \in Card /\ req[r].building \in Building
      /\ z \in scanned /\ zone[z] \in Zone /\ zone[z] # None
  BY <1>1, <1>2, <1>3 DEF PlaceHeld, HeldIsSound, ZoneInv, TypeOK
<1>5. /\ Frees(r) /\ UNCHANGED <<tag, alias, live, shift, scanned>>
      /\ req' \in [Request -> Held \cup {None}]
      /\ \A q \in Request : req'[q] = req[q] \/ req'[q] = None
  BY <1>2, Freed DEF Stamp
<1>6. CASE UNCHANGED <<zone, proof>>
  <2>1. HandlersAreSound'
    BY <1>5, <1>6, HandlersKept
  <2>. QED BY <1>5, <1>6, <2>1, OnlyHandlers DEF ZoneInv, TypeOK
<1>7. CASE ~UNCHANGED <<zone, proof>>
  <2>. DEFINE stamped == [zone[z] EXCEPT !.verified = TRUE]
              from == IF zone[z].building = req[r].building THEN req[r].building ELSE "late"
  <2>1. zone' = [zone EXCEPT ![z] = stamped] /\ proof' = [proof EXCEPT ![z] = from]
    BY <1>1, <1>7 DEF Stamp
  <2>2. stamped \in Zone /\ stamped # None /\ stamped.building = zone[z].building
    BY <1>4, ZonesAssumption DEF Zone
  <2>3. from \in {zone[z].building, "late"} /\ from \in Building \cup {"late"}
    BY <1>4
  <2>. HIDE DEF stamped, from
  <2>4. /\ zone' \in [Card -> Zone \cup {None}] /\ proof' \in [Card -> Building \cup {None, "late"}]
        /\ \A c \in Card : zone'[c] = IF c = z THEN stamped ELSE zone[c]
        /\ \A c \in Card : proof'[c] = IF c = z THEN from ELSE proof[c]
    BY <1>4, <2>1, <2>2, <2>3 DEF ZoneInv, TypeOK
  <2>5. TypeOK'
    BY <1>5, <2>4 DEF ZoneInv, TypeOK
  <2>6. OldZonesStay' /\ CardMeansOneThing'
    BY <1>4, <1>5, <2>2, <2>4, ZonesAssumption DEF ZoneInv, OldZonesStay, CardMeansOneThing
  <2>7. RowsFit'
    <3>1. ASSUME NEW c \in Card, NEW t \in Tap, Names(t, c)
          PROVE  zone'[c] # None /\ zone'[c].building = zone[c].building
      <4>1. c \in {shift[t].start, shift[t].end} \ {None} /\ shift[t] # None
        BY <3>1, ZonesAssumption DEF Names
      <4>2. zone[c] # None
        BY <4>1 DEF ZoneInv, RowsFit, References
      <4>. QED BY <2>2, <2>4, <4>2
    <3>. QED BY <1>5, <2>4, <3>1, RowsKept
  <2>8. StampsHaveScans' /\ TappedDoorsWereScanned'
    BY <1>4, <1>5, <2>4 DEF ZoneInv, StampsHaveScans, TappedDoorsWereScanned
  <2>9. ProvedWhereItHangs'
    BY <2>2, <2>3, <2>4 DEF ZoneInv, ProvedWhereItHangs
  <2>10. HandlersAreSound'
    BY <1>5, <2>2, <2>4, HandlersKept
  <2>. QED BY <2>5, <2>6, <2>7, <2>8, <2>9, <2>10 DEF ZoneInv
<1>. QED BY <1>6, <1>7

LEMMA AliasWriteKeeps ==
    ASSUME ZoneInv, NEW r \in Office, AliasWrite(r)
    PROVE  ZoneInv'
<1>1. PICK h : h = req[r]
  OBVIOUS
<1>2. r \in Request /\ h \in AliasHeld
  BY <1>1, HeldKinds DEF AliasWrite, Request, ZoneInv, TypeOK
<1>3. h.card \in Card /\ h.zone \in Card /\ h.zone # None
  BY <1>2, ZonesAssumption DEF AliasHeld
<1>4. /\ UNCHANGED <<zone, live, shift, history>>
      /\ \/ UNCHANGED <<tag, alias>>
         \/ /\ tag[h.card] = "reported"
            /\ tag' = [tag EXCEPT ![h.card] = "resolved"]
            /\ alias' = [alias EXCEPT ![h.card] = h.zone]
  BY <1>1 DEF AliasWrite
<1>5. TypeOK'
  BY <1>2, <1>3, <1>4, Freed DEF AliasWrite, ZoneInv, TypeOK, history
<1>6. OldZonesStay' /\ CardMeansOneThing'
  BY <1>3, <1>4, ZonesAssumption DEF ZoneInv, TypeOK, OldZonesStay, CardMeansOneThing
<1>7. RowsFit' /\ StampsHaveScans' /\ TappedDoorsWereScanned' /\ ProvedWhereItHangs'
  BY <1>4 DEF ZoneInv, RowsFit, References, StampsHaveScans, TappedDoorsWereScanned,
         ProvedWhereItHangs, history
<1>8. HandlersAreSound'
  BY <1>2, <1>4, Freed, HandlersKept DEF AliasWrite, history
<1>. QED BY <1>5, <1>6, <1>7, <1>8 DEF ZoneInv

LEMMA StoodDownZones ==
    ASSUME ZoneInv, NEW b \in Building
    PROVE  /\ StoodDown(b) \in [Card -> Zone \cup {None}]
           /\ \A z \in Card :
                /\ StoodDown(b)[z] # None <=> zone[z] # None
                /\ zone[z] # None => /\ StoodDown(b)[z].verified = zone[z].verified
                                     /\ StoodDown(b)[z].building = zone[z].building
<1>1. ASSUME NEW z \in Card, zone[z] # None
      PROVE  /\ [zone[z] EXCEPT !.active = FALSE] \in Zone
             /\ [zone[z] EXCEPT !.active = FALSE].verified = zone[z].verified
             /\ [zone[z] EXCEPT !.active = FALSE].building = zone[z].building
  BY <1>1 DEF ZoneInv, TypeOK, Zone
<1>2. \A z \in Card : StoodDown(b)[z] = IF zone[z] # None /\ zone[z].building = b
                      THEN [zone[z] EXCEPT !.active = FALSE] ELSE zone[z]
  BY DEF StoodDown
<1>3. \A z \in Card : StoodDown(b)[z] \in Zone \cup {None}
  BY <1>1, <1>2 DEF ZoneInv, TypeOK
<1>4. StoodDown(b) \in [Card -> Zone \cup {None}]
  BY <1>3 DEF StoodDown
<1>5. None \notin Zone
  BY ZonesAssumption
<1>6. ASSUME NEW z \in Card
      PROVE  /\ StoodDown(b)[z] # None <=> zone[z] # None
             /\ zone[z] # None => /\ StoodDown(b)[z].verified = zone[z].verified
                                  /\ StoodDown(b)[z].building = zone[z].building
  <2>1. CASE zone[z] # None /\ zone[z].building = b
    BY <1>1, <1>2, <1>5, <2>1
  <2>2. CASE ~(zone[z] # None /\ zone[z].building = b)
    BY <1>2, <2>2
  <2>. QED BY <2>1, <2>2
<1>. QED BY <1>4, <1>6

LEMMA OfficeKeeps ==
    ASSUME ZoneInv, OfficeNext
    PROVE  ZoneInv'
<1>1. ASSUME NEW r \in Office, NEW c \in Card, NEW z \in Card, AliasRead(r, c, z)
      PROVE  ZoneInv'
  <2>1. PICK h : h = [kind |-> "alias", card |-> c, zone |-> z]
    OBVIOUS
  <2>2. h \in Held /\ h.kind = "alias"
    BY <2>1 DEF Held, AliasHeld
  <2>3. HeldIsSound(h)'
    BY <2>2 DEF HeldIsSound
  <2>4. UNCHANGED <<tables, history>> /\ req' = [req EXCEPT ![r] = h]
    BY <1>1, <2>1 DEF AliasRead, Holds
  <2>5. req' \in [Request -> Held \cup {None}] /\ HandlersAreSound'
    BY <2>2, <2>3, <2>4, HandlerStarts DEF Request, tables, history
  <2>. QED BY <2>4, <2>5, OnlyHandlers DEF tables, history, ZoneInv, TypeOK
<1>2. ASSUME NEW r \in Office, StandDown(r)
      PROVE  ZoneInv'
  <2>1. PICK b : b = req[r].building
    OBVIOUS
  <2>2. r \in Request /\ req[r] \in BuildingHeld
    BY <1>2, HeldKinds DEF StandDown, Request, ZoneInv, TypeOK
  <2>3. b \in Building
    BY <2>1, <2>2 DEF BuildingHeld
  <2>4. zone' = StoodDown(b) /\ UNCHANGED <<tag, alias, live, shift, history>>
    BY <1>2, <2>1 DEF StandDown
  <2>5. /\ req' \in [Request -> Held \cup {None}]
        /\ \A q \in Request : req'[q] = req[q] \/ req'[q] = None
    BY <1>2, <2>2, Freed DEF StandDown
  <2>. QED BY <2>3, <2>4, <2>5, StoodDownZones, ZonesEdited DEF ZoneInv, TypeOK
<1>3. ASSUME NEW r \in Office, PatchWrite(r)
      PROVE  ZoneInv'
  <2>1. PICK h, t, row : h = req[r] /\ t = h.tap /\ row = Patched(shift[t], h)
    OBVIOUS
  <2>2. r \in Request /\ h \in PatchHeld /\ HeldIsSound(h) /\ h.kind = "patch" /\ Frees(r)
    BY <1>3, <2>1, HeldKinds
       DEF PatchWrite, Request, ZoneInv, TypeOK, HandlersAreSound
  <2>3. t \in Tap /\ shift[t] \in ShiftRow /\ shift[t] # None
    BY <2>1, <2>2 DEF PatchHeld, HeldIsSound, ZoneInv, TypeOK
  <2>4. row \in ShiftRow /\ row.start \in {None, shift[t].start}
    BY <2>1, <2>2, <2>3 DEF Patched, PatchHeld, ShiftRow
  <2>5. /\ UNCHANGED <<tag, zone, alias, live, history>>
        /\ shift' = IF References(row) THEN [shift EXCEPT ![t] = row] ELSE shift
    BY <1>3, <2>1 DEF PatchWrite
  <2>6. row.start # None => row.start \in scanned
    BY <2>3, <2>4 DEF ZoneInv, TappedDoorsWereScanned, ShiftRow
  <2>7. CASE References(row)
    BY <2>2, <2>3, <2>4, <2>5, <2>6, <2>7, Freed, RowWriteKeeps
  <2>8. CASE ~References(row)
    <3>1. req' \in [Request -> Held \cup {None}] /\ HandlersAreSound'
      BY <2>2, <2>5, <2>8, Freed, HandlersKept DEF history
    <3>. QED BY <2>5, <2>8, <3>1, OnlyHandlers DEF history, ZoneInv, TypeOK
  <2>. QED BY <2>7, <2>8
<1>4. ASSUME NEW z \in Card, NEW active \in BOOLEAN, SetZoneActive(z, active)
      PROVE  ZoneInv'
  <2>. DEFINE set == [zone[z] EXCEPT !.active = active]
  <2>1. zone[z] \in Zone /\ zone[z] # None
    BY <1>4 DEF SetZoneActive, ZoneInv, TypeOK
  <2>2. /\ set \in Zone /\ set # None /\ set.verified = zone[z].verified
        /\ set.building = zone[z].building
    BY <2>1, ZonesAssumption DEF Zone
  <2>. HIDE DEF set
  <2>3. zone' = [zone EXCEPT ![z] = set] /\ UNCHANGED <<tag, alias, live, shift, req, history>>
    BY <1>4 DEF SetZoneActive, set
  <2>4. /\ zone' \in [Card -> Zone \cup {None}]
        /\ \A c \in Card : zone'[c] = IF c = z THEN set ELSE zone[c]
    BY <2>2, <2>3 DEF ZoneInv, TypeOK
  <2>. QED BY <2>1, <2>2, <2>3, <2>4, ZonesEdited DEF ZoneInv, TypeOK
<1>5. ASSUME NEW b \in Building, NEW active \in BOOLEAN, SetBuildingActive(b, active)
      PROVE  ZoneInv'
  <2>1. /\ UNCHANGED <<tag, alias, shift, req, history>>
        /\ live' \subseteq Building
        /\ zone' = zone \/ zone' = StoodDown(b)
    BY <1>5 DEF SetBuildingActive, ZoneInv, TypeOK
  <2>2. /\ zone' \in [Card -> Zone \cup {None}]
        /\ \A z \in Card :
             /\ zone'[z] # None <=> zone[z] # None
             /\ zone[z] # None => /\ zone'[z].verified = zone[z].verified
                                  /\ zone'[z].building = zone[z].building
    BY <2>1, StoodDownZones DEF ZoneInv, TypeOK
  <2>. QED BY <2>1, <2>2, ZonesEdited DEF ZoneInv, TypeOK
<1>6. ASSUME NEW r \in Office, NEW b \in Building, DeleteLocation(r, b)
      PROVE  ZoneInv'
  <2>1. PICK h : h = [kind |-> "standDown", building |-> b]
    OBVIOUS
  <2>2. h \in Held /\ h.kind = "standDown"
    BY <2>1 DEF Held, BuildingHeld
  <2>3. HeldIsSound(h)'
    BY <2>2 DEF HeldIsSound
  <2>4. /\ UNCHANGED <<tag, zone, alias, shift, history>> /\ req' = [req EXCEPT ![r] = h]
        /\ live' \subseteq Building
    BY <1>6, <2>1 DEF DeleteLocation, Holds, ZoneInv, TypeOK
  <2>5. req' \in [Request -> Held \cup {None}] /\ HandlersAreSound'
    BY <2>2, <2>3, <2>4, HandlerStarts DEF Request, history
  <2>. QED BY <2>4, <2>5, OnlyHandlers DEF history, ZoneInv, TypeOK
<1>7. ASSUME NEW r \in Office, NEW t \in Tap, NEW b \in Building, NEW open \in BOOLEAN,
             PatchRead(r, t, b, open)
      PROVE  ZoneInv'
  <2>1. PICK h : h = [kind |-> "patch", tap |-> t, building |-> b,
                      moved |-> b # shift[t].building, open |-> open]
    OBVIOUS
  <2>2. h \in Held /\ h.kind = "patch" /\ h.tap = t
    BY <2>1 DEF Held, PatchHeld
  <2>3. UNCHANGED <<tables, history>> /\ req' = [req EXCEPT ![r] = h] /\ shift[t] # None
    BY <1>7, <2>1 DEF PatchRead, Holds
  <2>4. HeldIsSound(h)'
    BY <2>2, <2>3 DEF HeldIsSound, tables
  <2>5. req' \in [Request -> Held \cup {None}] /\ HandlersAreSound'
    BY <2>2, <2>3, <2>4, HandlerStarts DEF Request, tables, history
  <2>. QED BY <2>3, <2>5, OnlyHandlers DEF tables, history, ZoneInv, TypeOK
<1>. QED BY <1>1, <1>2, <1>3, <1>4, <1>5, <1>6, <1>7, AliasWriteKeeps DEF OfficeNext

LEMMA TapKeeps ==
    ASSUME ZoneInv, TapNext
    PROVE  ZoneInv'
<1>1. ASSUME NEW r \in Phone, NEW t \in Tap, NEW c \in Card,
             OpenRead(r, t, c) \/ CloseRead(r, t, c)
      PROVE  ZoneInv'
  <2>1. PICK kind, h : /\ kind \in {"open", "close"} /\ h = Place(kind, t, c)
                       /\ req' = [req EXCEPT ![r] = h]
                       /\ kind = "open" => zone[Named(c)].verified
    BY <1>1 DEF OpenRead, CloseRead, Holds
  <2>2. Resolves(c) /\ UNCHANGED <<tables, history>>
    BY <1>1 DEF OpenRead, CloseRead
  <2>3. h \in Held /\ Named(c) \in Card /\ zone[Named(c)] \in Zone
    BY <2>1, <2>2, PlaceIsSound
  <2>4. h.kind = kind /\ h.tap = t /\ h.zone = Named(c)
    BY <2>1 DEF Place
  <2>5. zone[Named(c)] # None /\ (kind = "open" => Named(c) \in scanned)
    BY <2>1, <2>3, ZonesAssumption DEF ZoneInv, StampsHaveScans
  <2>6. HeldIsSound(h)'
    BY <2>1, <2>2, <2>4, <2>5 DEF HeldIsSound, tables, history
  <2>7. req' \in [Request -> Held \cup {None}] /\ HandlersAreSound'
    BY <2>1, <2>2, <2>3, <2>6, HandlerStarts DEF Request, tables, history
  <2>. QED BY <2>2, <2>7, OnlyHandlers DEF tables, history, ZoneInv, TypeOK
<1>2. ASSUME NEW r \in Phone, OpenInsert(r)
      PROVE  ZoneInv'
  <2>1. PICK h, row : /\ h = req[r]
                      /\ row = [building |-> h.building, start |-> h.zone, end |-> None,
                                open |-> TRUE]
    OBVIOUS
  <2>2. r \in Request /\ h \in PlaceHeld /\ HeldIsSound(h) /\ h.kind = "open" /\ Frees(r)
    BY <1>2, <2>1, HeldKinds
       DEF OpenInsert, Request, ZoneInv, TypeOK, HandlersAreSound
  <2>3. h.tap \in Tap /\ row \in ShiftRow /\ row.start \in scanned
    BY <2>1, <2>2 DEF PlaceHeld, HeldIsSound, ShiftRow
  <2>4. /\ UNCHANGED <<tag, zone, alias, live, history>>
        /\ \/ References(row) /\ shift' = [shift EXCEPT ![h.tap] = row]
           \/ shift' = shift
    BY <1>2, <2>1 DEF OpenInsert
  <2>5. CASE References(row) /\ shift' = [shift EXCEPT ![h.tap] = row]
    BY <2>2, <2>3, <2>4, <2>5, Freed, RowWriteKeeps
  <2>6. CASE shift' = shift
    <3>1. req' \in [Request -> Held \cup {None}] /\ HandlersAreSound'
      BY <2>2, <2>4, <2>6, Freed, HandlersKept DEF history
    <3>. QED BY <2>4, <2>6, <3>1, OnlyHandlers DEF history, ZoneInv, TypeOK
  <2>. QED BY <2>4, <2>5, <2>6
<1>3. ASSUME NEW r \in Phone, CloseCheck(r)
      PROVE  ZoneInv'
  <2>1. PICK h, g : h = req[r] /\ g = [h EXCEPT !.kind = "checked"]
    OBVIOUS
  <2>2. r \in Request /\ h \in PlaceHeld /\ HeldIsSound(h) /\ h.kind = "close"
    BY <1>3, <2>1, HeldKinds
       DEF CloseCheck, Request, ZoneInv, TypeOK, HandlersAreSound
  <2>3. /\ UNCHANGED <<tables, history>>
        /\ \/ req' = [req EXCEPT ![r] = g] /\ shift[h.tap] # None
           \/ Frees(r)
    BY <1>3, <2>1, <2>2 DEF CloseCheck, Frees, ZoneInv, TypeOK
  <2>4. CASE req' = [req EXCEPT ![r] = g] /\ shift[h.tap] # None
    <3>1. /\ g \in PlaceHeld /\ g.kind = "checked" /\ g.tap = h.tap /\ g.zone = h.zone
      BY <2>1, <2>2 DEF PlaceHeld
    <3>2. HeldIsSound(g)'
      BY <2>2, <2>3, <2>4, <3>1 DEF HeldIsSound, tables
    <3>3. req' \in [Request -> Held \cup {None}] /\ HandlersAreSound'
      BY <2>2, <2>3, <2>4, <3>1, <3>2, HandlerStarts DEF Held, tables, history
    <3>. QED BY <2>3, <3>3, OnlyHandlers DEF tables, history, ZoneInv, TypeOK
  <2>5. CASE Frees(r)
    <3>1. req' \in [Request -> Held \cup {None}] /\ HandlersAreSound'
      BY <2>2, <2>3, <2>5, Freed, HandlersKept DEF tables, history
    <3>. QED BY <2>3, <3>1, OnlyHandlers DEF tables, history, ZoneInv, TypeOK
  <2>. QED BY <2>3, <2>4, <2>5
<1>4. ASSUME NEW r \in Phone, CloseWrite(r)
      PROVE  ZoneInv'
  <2>1. PICK h, t, row : /\ h = req[r] /\ t = h.tap
                         /\ row = [shift[t] EXCEPT !.end = h.zone, !.open = FALSE]
    OBVIOUS
  <2>2. r \in Request /\ h \in PlaceHeld /\ HeldIsSound(h) /\ h.kind = "checked" /\ Frees(r)
    BY <1>4, <2>1, HeldKinds
       DEF CloseWrite, Request, ZoneInv, TypeOK, HandlersAreSound
  <2>3. t \in Tap /\ h.zone \in Card /\ shift[t] \in ShiftRow /\ shift[t] # None
    BY <2>1, <2>2 DEF PlaceHeld, HeldIsSound, ZoneInv, TypeOK
  <2>4. row \in ShiftRow /\ row.start = shift[t].start
    BY <2>1, <2>3 DEF ShiftRow
  <2>5. row.start # None => row.start \in scanned
    BY <2>3, <2>4 DEF ZoneInv, TappedDoorsWereScanned, ShiftRow
  <2>6. /\ UNCHANGED <<tag, zone, alias, live, history>>
        /\ \/ References(row) /\ shift' = [shift EXCEPT ![t] = row]
           \/ shift' = shift
    BY <1>4, <2>1 DEF CloseWrite
  <2>7. CASE References(row) /\ shift' = [shift EXCEPT ![t] = row]
    BY <2>2, <2>3, <2>4, <2>5, <2>6, <2>7, Freed, RowWriteKeeps
  <2>8. CASE shift' = shift
    <3>1. req' \in [Request -> Held \cup {None}] /\ HandlersAreSound'
      BY <2>2, <2>6, <2>8, Freed, HandlersKept DEF history
    <3>. QED BY <2>6, <2>8, <3>1, OnlyHandlers DEF history, ZoneInv, TypeOK
  <2>. QED BY <2>6, <2>7, <2>8
<1>5. ASSUME NEW t \in Tap, CloseAnywhere(t)
      PROVE  ZoneInv'
  <2>1. PICK row : row = [shift[t] EXCEPT !.open = FALSE]
    OBVIOUS
  <2>2. shift[t] # None /\ shift[t] \in ShiftRow /\ References(shift[t])
    BY <1>5 DEF CloseAnywhere, ZoneInv, TypeOK, RowsFit
  <2>3. /\ row \in ShiftRow /\ row.start = shift[t].start /\ row.end = shift[t].end
        /\ row.building = shift[t].building
    BY <2>1, <2>2 DEF ShiftRow
  <2>4. References(row)
    BY <2>2, <2>3 DEF References
  <2>5. row.start # None => row.start \in scanned
    BY <2>2, <2>3 DEF ZoneInv, TappedDoorsWereScanned, ShiftRow
  <2>6. /\ shift' = [shift EXCEPT ![t] = row]
        /\ UNCHANGED <<tag, zone, alias, live, req, history>>
    BY <1>5, <2>1 DEF CloseAnywhere
  <2>. QED BY <2>3, <2>4, <2>5, <2>6, RowWriteKeeps DEF ZoneInv, TypeOK
<1>. QED BY <1>1, <1>2, <1>3, <1>4, <1>5 DEF TapNext

LEMMA OperatorKeeps ==
    ASSUME ZoneInv, OperatorNext
    PROVE  ZoneInv'
BY ReportKeeps, ResolveKeeps, BindKeeps, UnbindKeeps, ScanKeeps, StampKeeps DEF OperatorNext

LEMMA DieKeeps ==
    ASSUME ZoneInv, NEW r \in Request, Die(r)
    PROVE  ZoneInv'
<1>1. UNCHANGED <<tables, history>> /\ Frees(r)
  BY DEF Die
<1>2. req' \in [Request -> Held \cup {None}] /\ HandlersAreSound'
  BY <1>1, Freed, HandlersKept DEF tables, history
<1>. QED BY <1>1, <1>2, OnlyHandlers DEF tables, history, ZoneInv, TypeOK

LEMMA StutterKeeps ==
    ASSUME ZoneInv, UNCHANGED vars
    PROVE  ZoneInv'
<1>1. UNCHANGED <<tag, zone, alias, live, shift, req, scanned, proof>>
  BY DEF vars, tables, history
<1>2. HandlersAreSound'
  BY <1>1, HandlersKept DEF ZoneInv, TypeOK
<1>. QED BY <1>1, <1>2, OnlyHandlers DEF ZoneInv, TypeOK

\* ZoneInv is inductive.
THEOREM Invariance == Spec => []ZoneInv
<1>1. ZoneInv /\ [Next]_vars => ZoneInv'
  BY OperatorKeeps, OfficeKeeps, TapKeeps, DieKeeps, StutterKeeps DEF Next
<1>. QED BY InitHolds, <1>1, PTL DEF Spec

-----------------------------------------------------------------------------
(* What follows                                                            *)

\* The tables and what handlers hold stay within their types (all of Zones).
THEOREM TypeCorrect == Spec => []TypeOK
<1>1. ZoneInv => TypeOK
  BY DEF ZoneInv
<1>. QED BY Invariance, <1>1, PTL

\* A card becomes one thing, whoever decides about it at once (resolveTagToZone,
\* resolveTagToExistingZone).
THEOREM CardsMeanOneThing == Spec => []CardMeansOneThing
<1>1. ZoneInv => CardMeansOneThing
  BY DEF ZoneInv
<1>. QED BY Invariance, <1>1, PTL

\* No shift opens at a door nobody has scanned (openShift, requireVerifiedPlace).
THEOREM TappedWereScanned == Spec => []TappedDoorsWereScanned
<1>1. ZoneInv => TappedDoorsWereScanned
  BY DEF ZoneInv
<1>. QED BY Invariance, <1>1, PTL

\* A proof is of the zone's present building, or its stamp came late (bindZone, verifyZone).
THEOREM ProofsAreOfThePlace == Spec => []ProvedWhereItHangs
<1>1. ZoneInv => ProvedWhereItHangs
  BY DEF ZoneInv
<1>. QED BY Invariance, <1>1, PTL

\* Before and after any step a row fits its keys, so a zone it names on both sides is
\* where the row is; that the zone has not moved needs the step itself.
LEMMA NamedZonesStay ==
    ASSUME ZoneInv, Next, NEW t \in Tap, NEW z \in Card, Names(t, z)
    PROVE  zone'[z].building = zone[z].building
<1>. USE DEF history, tables
<1>1. zone[z] # None /\ zone[z] \in Zone /\ zone[z].building # None
  <2>1. z \in {shift[t].start, shift[t].end} \ {None} /\ shift[t] \in ShiftRow /\ shift[t] # None
    BY ZonesAssumption DEF Names, ZoneInv, TypeOK
  <2>2. shift[t].building \in Building
    BY <2>1 DEF ShiftRow
  <2>. QED BY <2>1, <2>2, ZonesAssumption DEF ZoneInv, TypeOK, RowsFit, References
<1>2. CASE OperatorNext
  <2>1. ASSUME NEW c \in Card, NEW b \in Building \cup {None}, ResolveTagToZone(c, b)
        PROVE  zone'[z] = zone[z]
    <3>1. zone[c] = None
      BY <2>1, ZonesAssumption DEF ZoneInv, OldZonesStay, CardMeansOneThing, ResolveTagToZone
    <3>. QED BY <1>1, <2>1, <3>1 DEF ResolveTagToZone, ZoneInv, TypeOK
  <2>2. ASSUME NEW c \in Card, NEW b \in Building, BindZone(c, b)
        PROVE  zone'[z] = zone[z]
    BY <1>1, <2>2 DEF BindZone, ZoneInv, TypeOK
  <2>3. ASSUME NEW c \in Card, UnbindZone(c)
        PROVE  zone'[z] = zone[z]
    BY <2>3 DEF UnbindZone, ZoneInv, TypeOK
  <2>4. ASSUME NEW r \in Phone, Stamp(r)
        PROVE  zone'[z].building = zone[z].building
    BY <1>1, <2>4 DEF Stamp, ZoneInv, TypeOK, Zone
  <2>. QED BY <1>2, <2>1, <2>2, <2>3, <2>4 DEF OperatorNext, ReportTag, Scan
<1>3. CASE OfficeNext
  <2>1. ASSUME NEW b \in Building
        PROVE  StoodDown(b)[z].building = zone[z].building
    BY <1>1, StoodDownZones
  <2>2. ASSUME NEW r \in Office, StandDown(r)
        PROVE  zone'[z].building = zone[z].building
    <3>1. r \in Request /\ req[r] \in BuildingHeld
      BY <2>2, HeldKinds DEF StandDown, Request, ZoneInv, TypeOK
    <3>2. req[r].building \in Building
      BY <3>1 DEF BuildingHeld
    <3>. QED BY <2>1, <2>2, <3>2 DEF StandDown
  <2>3. ASSUME NEW c \in Card, NEW active \in BOOLEAN, SetZoneActive(c, active)
        PROVE  zone'[z].building = zone[z].building
    BY <1>1, <2>3 DEF SetZoneActive, ZoneInv, TypeOK, Zone
  <2>4. ASSUME NEW b \in Building, NEW active \in BOOLEAN, SetBuildingActive(b, active)
        PROVE  zone'[z].building = zone[z].building
    BY <2>1, <2>4 DEF SetBuildingActive
  <2>. QED BY <1>3, <2>2, <2>3, <2>4
           DEF OfficeNext, AliasRead, AliasWrite, DeleteLocation, PatchRead, PatchWrite
<1>4. CASE TapNext
  BY <1>4 DEF TapNext, OpenRead, CloseRead, OpenInsert, CloseCheck, CloseWrite, CloseAnywhere
<1>5. CASE \E r \in Request : Die(r)
  BY <1>5 DEF Die
<1>. QED BY <1>2, <1>3, <1>4, <1>5 DEF Next

\* The door of a shift never moves under it (unbindZone, patchShift, closeShift).
THEOREM HistoryStays == Spec => HistoryKeepsItsBuilding
<1>1. ASSUME ZoneInv, ZoneInv', [Next]_vars, NEW t \in Tap, NEW z \in Card,
             Names(t, z), Names(t, z)'
      PROVE  /\ zone'[z].building = zone[z].building
             /\ shift'[t].building = zone'[z].building
  <2>1. zone'[z].building = zone[z].building
    <3>1. CASE Next
      BY <1>1, <3>1, NamedZonesStay
    <3>2. CASE UNCHANGED vars
      BY <3>2 DEF vars, tables
    <3>. QED BY <1>1, <3>1, <3>2
  <2>2. z \in {shift'[t].start, shift'[t].end} \ {None} /\ shift'[t] # None
    BY <1>1, ZonesAssumption DEF Names
  <2>3. shift'[t].building = zone'[z].building
    BY <1>1, <2>2 DEF ZoneInv, RowsFit, References
  <2>. QED BY <2>1, <2>3
<1>2. ZoneInv /\ ZoneInv' /\ [Next]_vars =>
        [\A t \in Tap, z \in Card :
           Names(t, z) /\ Names(t, z)' =>
             /\ zone'[z].building = zone[z].building
             /\ shift'[t].building = zone'[z].building]_vars
  BY <1>1
<1>. QED BY Invariance, <1>2, PTL DEF Spec, HistoryKeepsItsBuilding

=============================================================================
