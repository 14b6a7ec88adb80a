----------------------------- MODULE SignInProofs -----------------------------
(***************************************************************************)
(* Proofs about SignIn, for any number of persons, addresses, codes,       *)
(* passwords and requests.                                                 *)
(***************************************************************************)
EXTENDS SignIn, TLAPS

-----------------------------------------------------------------------------
(* The inductive invariant                                                 *)

\* A person's row has the last code that was issued to them or none, and one that is in a
\* row was neither redeemed nor taken back.
RowsAreSound ==
    \A p \in Person :
      /\ last[p] # None => last[p] \in issued /\ \A q \in Person \ {p} : last[q] # last[p]
      /\ code[p].hash # None =>
           code[p].hash = last[p] /\ code[p].hash \notin claimed \cup withdrawn

PasswordsAreSound ==
    \A n \in Challenge : challenge[n] # None =>
      n \in issued /\ (~challenge[n].consumed => n \notin claimed \cup withdrawn)

\* History agrees with itself.
HistoryIsSound ==
    /\ claimed \subseteq issued /\ withdrawn \subseteq issued
    /\ claimed \cap withdrawn = {}
    /\ \A c \in Credential : bought[c] <= IF c \in claimed THEN 1 ELSE 0

\* Only one request is about to open a session with a credential that has opened none.
ClaimsAreSound ==
    \A r \in Request : Holding(r, "session") =>
      /\ req[r].of \in claimed /\ bought[req[r].of] = 0
      /\ \A q \in Request : Holding(q, "session") /\ req[q].of = req[r].of => q = r

CredentialInv ==
    /\ TypeOK
    /\ RowsAreSound /\ PasswordsAreSound /\ HistoryIsSound /\ ClaimsAreSound
    /\ TrioDescribesOneCode

-----------------------------------------------------------------------------
(* What handlers hold                                                      *)

LEMMA HeldKinds ==
    ASSUME NEW h \in Held
    PROVE  /\ h.kind \in {"match", "session"} => h \in SignInHeld
           /\ h.kind \in {"mint", "destroy", "release"} => h \in OfficeHeld
           /\ h.kind = "ask" => h \in AskHeld
BY DEF Held, SignInHeld, OfficeHeld, AskHeld

LEMMA HandlerKinds ==
    ASSUME TypeOK, NEW r \in Request
    PROVE  /\ Holding(r, "match") \/ Holding(r, "session") => req[r] \in SignInHeld
           /\ Holding(r, "mint") \/ Holding(r, "destroy") \/ Holding(r, "release")
                => req[r] \in OfficeHeld
           /\ Holding(r, "ask") => req[r] \in AskHeld
<1>1. req[r] # None => req[r] \in Held
  BY DEF TypeOK
<1>. QED BY <1>1, HeldKinds DEF Holding

LEMMA Handed ==
    ASSUME TypeOK, NEW r \in Request, NEW h \in Held \cup {None},
           req' = [req EXCEPT ![r] = h]
    PROVE  /\ req' \in [Request -> Held \cup {None}]
           /\ \A q \in Request : req'[q] = IF q = r THEN h ELSE req[q]
BY DEF TypeOK

-----------------------------------------------------------------------------
(* Types                                                                   *)

LEMMA TypesInit == Init => TypeOK
<1>. SUFFICES ASSUME Init PROVE TypeOK
  OBVIOUS
<1>1. claim \subseteq Address \X Person
  BY DEF Init, Person
<1>2. code \in [Person -> Row]
  BY DEF Init, Row
<1>. QED BY <1>1, <1>2 DEF Init, TypeOK

LEMMA TypesCode == TypeOK /\ CodeNext => TypeOK'
<1>. SUFFICES ASSUME TypeOK, CodeNext PROVE TypeOK'
  OBVIOUS
<1>1. ASSUME NEW r \in Request, NEW p \in Person, IssueRead(r, p) PROVE TypeOK'
  <2>1. [kind |-> "mint", who |-> p] \in Held
    BY DEF Held, OfficeHeld
  <2>. QED BY <1>1, <2>1 DEF IssueRead, Holds, TypeOK, tables, history
<1>2. ASSUME NEW r \in Request, NEW c \in Code, Mint(r, c) PROVE TypeOK'
  <2>1. req[r].who \in Person
    BY <1>2, HandlerKinds DEF Mint, OfficeHeld
  <2>2. /\ code' \in [Person -> Row] /\ last' \in [Person -> Code \cup {None}]
        /\ code[req[r].who].hash \in Code \cup {None}
    BY <1>2, <2>1 DEF Mint, TypeOK, Row
  <2>. QED BY <1>2, <2>1, <2>2 DEF Mint, Frees, Goes, TypeOK, Credential
<1>3. ASSUME NEW p \in Person, RevokeCode(p) PROVE TypeOK'
  BY <1>3 DEF RevokeCode, TypeOK, Row, Credential
<1>4. ASSUME NEW p \in Person, CodeExpires(p) PROVE TypeOK'
  BY <1>4 DEF CodeExpires, TypeOK, Row, history
<1>5. ASSUME NEW r \in Request, NEW p \in Person, NEW c \in Code, CodeMatch(r, p, c) PROVE TypeOK'
  <2>1. [kind |-> "match", who |-> p, of |-> c] \in Held
    BY DEF Held, SignInHeld, Credential
  <2>. QED BY <1>5, <2>1 DEF CodeMatch, Holds, TypeOK, tables, history
<1>6. ASSUME NEW r \in Request, CodeClaim(r) PROVE TypeOK'
  <2>1. req[r] \in SignInHeld
    BY <1>6, HandlerKinds DEF CodeClaim
  <2>2. [req[r] EXCEPT !.kind = "session"] \in Held
    BY <2>1 DEF Held, SignInHeld
  <2>3. req' \in [Request -> Held \cup {None}]
    BY <1>6, <2>2 DEF CodeClaim, Goes, Frees, TypeOK
  <2>4. code' \in [Person -> Row]
    <3>1. [hash |-> None, fresh |-> FALSE, redeemed |-> TRUE] \in Row
      BY DEF Row
    <3>. QED BY <1>6, <2>1, <3>1 DEF CodeClaim, TypeOK
  <2>5. claimed' \subseteq Credential
    BY <1>6, <2>1 DEF CodeClaim, TypeOK, SignInHeld
  <2>. QED BY <1>6, <2>3, <2>4, <2>5 DEF CodeClaim, TypeOK
<1>. QED BY <1>1, <1>2, <1>3, <1>4, <1>5, <1>6 DEF CodeNext

LEMMA TypesPassword == TypeOK /\ PasswordNext => TypeOK'
<1>. SUFFICES ASSUME TypeOK, PasswordNext PROVE TypeOK'
  OBVIOUS
<1>1. ASSUME NEW r \in Request, NEW p \in Person, NEW a \in Address, AskRead(r, p, a) PROVE TypeOK'
  <2>1. [kind |-> "ask", of |-> a] \in Held
    BY DEF Held, AskHeld
  <2>. QED BY <1>1, <2>1 DEF AskRead, Holds, TypeOK, tables, history
<1>2. ASSUME NEW r \in Request, NEW n \in Challenge, Ask(r, n) PROVE TypeOK'
  <2>1. req[r].of \in Address
    BY <1>2, HandlerKinds DEF Ask, AskHeld
  <2>2. [address |-> req[r].of, fresh |-> TRUE, open |-> TRUE, consumed |-> FALSE] \in Password
    BY <2>1 DEF Password
  <2>3. /\ challenge' \in [Challenge -> Password \cup {None}]
        /\ issued' \subseteq Credential /\ shared' \subseteq Challenge
    BY <1>2, <2>2 DEF Ask, TypeOK, Credential
  <2>4. req' \in [Request -> Held \cup {None}]
    BY <1>2 DEF Ask, Frees, Goes, TypeOK
  <2>. QED BY <1>2, <2>3, <2>4 DEF Ask, TypeOK
<1>3. ASSUME NEW n \in Challenge, ChallengeExpires(n) PROVE TypeOK'
  BY <1>3 DEF ChallengeExpires, TypeOK, Password, history
<1>4. ASSUME NEW n \in Challenge, WrongAnswer(n) PROVE TypeOK'
  BY <1>4 DEF WrongAnswer, TypeOK, Password, history
<1>5. ASSUME NEW r \in Request, NEW p \in Person, NEW n \in Challenge, PasswordMatch(r, p, n)
      PROVE TypeOK'
  <2>1. [kind |-> "match", who |-> p, of |-> n] \in Held
    BY DEF Held, SignInHeld, Credential
  <2>. QED BY <1>5, <2>1 DEF PasswordMatch, Holds, TypeOK, tables, history
<1>6. ASSUME NEW r \in Request, PasswordClaim(r) PROVE TypeOK'
  <2>1. req[r] \in SignInHeld
    BY <1>6, HandlerKinds DEF PasswordClaim
  <2>2. [req[r] EXCEPT !.kind = "session"] \in Held
    BY <2>1 DEF Held, SignInHeld
  <2>3. req' \in [Request -> Held \cup {None}]
    BY <1>6, <2>2 DEF PasswordClaim, Goes, Frees, TypeOK
  <2>4. challenge' \in [Challenge -> Password \cup {None}]
    <3>1. ASSUME NEW n \in Challenge, challenge[n] # None
          PROVE  [challenge EXCEPT ![n].consumed = TRUE] \in [Challenge -> Password \cup {None}]
      BY <3>1 DEF TypeOK, Password
    <3>. QED BY <1>6, <3>1 DEF PasswordClaim, TypeOK
  <2>5. claimed' \subseteq Credential
    BY <1>6, <2>1 DEF PasswordClaim, TypeOK, SignInHeld
  <2>. QED BY <1>6, <2>3, <2>4, <2>5 DEF PasswordClaim, TypeOK
<1>. QED BY <1>1, <1>2, <1>3, <1>4, <1>5, <1>6 DEF PasswordNext

LEMMA CascadeTypes ==
    ASSUME TypeOK, NEW gone
    PROVE  /\ Cascaded(gone) \in [Challenge -> Password \cup {None}]
           /\ Lost(gone) \subseteq Credential
BY DEF TypeOK, Cascaded, Lost, Credential

LEMMA TypesSession == TypeOK /\ SessionNext => TypeOK'
<1>. SUFFICES ASSUME TypeOK, SessionNext PROVE TypeOK'
  OBVIOUS
<1>1. ASSUME NEW r \in Request, CreateSession(r) PROVE TypeOK'
  <2>1. req[r].who \in Person /\ req[r].of \in Credential
    BY <1>1, HandlerKinds DEF CreateSession, SignInHeld
  <2>2. sessions' \subseteq Session
    BY <1>1, <2>1 DEF CreateSession, TypeOK, Session
  <2>3. bought' \in [Credential -> Nat]
    BY <1>1, <2>1 DEF CreateSession, TypeOK
  <2>. QED BY <1>1, <2>2, <2>3 DEF CreateSession, Frees, Goes, TypeOK
<1>2. ASSUME NEW s \in Session, EndSession(s) PROVE TypeOK'
  BY <1>2 DEF EndSession, TypeOK, history
<1>. QED BY <1>1, <1>2 DEF SessionNext

LEMMA TypesOffice == TypeOK /\ OfficeNext => TypeOK'
<1>. SUFFICES ASSUME TypeOK, OfficeNext PROVE TypeOK'
  OBVIOUS
<1>0. ASSUME NEW p \in Person PROVE UnderWay(p) \subseteq Credential /\ Of(p) \subseteq sessions
  BY DEF UnderWay, Of
<1>1. ASSUME NEW p \in Person, Deactivate(p) PROVE TypeOK'
  BY <1>0, <1>1 DEF Deactivate, TypeOK
<1>2. ASSUME NEW p \in Person, Reactivate(p) PROVE TypeOK'
  BY <1>2 DEF Reactivate, TypeOK, history
<1>3. ASSUME NEW r \in Request, NEW p \in Person, LetGo(r, p) PROVE TypeOK'
  <2>1. [kind |-> "destroy", who |-> p] \in Held
    BY DEF Held, OfficeHeld
  <2>2. req' \in [Request -> Held \cup {None}]
    BY <1>3, <2>1 DEF LetGo, Holds, TypeOK
  <2>. QED BY <1>0, <1>3, <2>2 DEF LetGo, TypeOK
<1>4. ASSUME NEW r \in Request, NEW p \in Person, ReleaseRow(r, p) PROVE TypeOK'
  <2>1. [kind |-> "release", who |-> p] \in Held
    BY DEF Held, OfficeHeld
  <2>2. req' \in [Request -> Held \cup {None}]
    BY <1>4, <2>1 DEF ReleaseRow, Holds, TypeOK
  <2>3. challenge' \in [Challenge -> Password \cup {None}] /\ withdrawn' \subseteq Credential
    BY <1>4, CascadeTypes DEF ReleaseRow, TypeOK
  <2>4. claim' \subseteq Address \X Person
    BY <1>4 DEF ReleaseRow, TypeOK
  <2>. QED BY <1>4, <2>2, <2>3, <2>4 DEF ReleaseRow, TypeOK
<1>5. ASSUME NEW r \in Request, DestroySessions(r) PROVE TypeOK'
  <2>1. sessions' \subseteq Session
    BY <1>5 DEF DestroySessions, TypeOK
  <2>. QED BY <1>5, <2>1 DEF DestroySessions, Frees, Goes, TypeOK, history
<1>6. ASSUME NEW r \in Request, ReleaseHalf(r) PROVE TypeOK'
  <2>1. claim' \subseteq Address \X Person
    BY <1>6 DEF ReleaseHalf, TypeOK
  <2>. QED BY <1>6, <2>1 DEF ReleaseHalf, Frees, Goes, TypeOK, history
<1>7. ASSUME NEW p \in Person, NEW a \in Address, PutAddress(p, a) PROVE TypeOK'
  <2>1. challenge' \in [Challenge -> Password \cup {None}] /\ withdrawn' \subseteq Credential
    BY <1>7, CascadeTypes DEF PutAddress, TypeOK
  <2>2. claim' \subseteq Address \X Person
    BY <1>7 DEF PutAddress, TypeOK
  <2>3. shared' \subseteq Challenge
    BY <1>7 DEF PutAddress, TypeOK
  <2>. QED BY <1>7, <2>1, <2>2, <2>3 DEF PutAddress, TypeOK
<1>. QED BY <1>1, <1>2, <1>3, <1>4, <1>5, <1>6, <1>7 DEF OfficeNext

LEMMA TypesDie == ASSUME TypeOK, NEW r \in Request, Die(r) PROVE TypeOK'
<1>1. {s.by : s \in Of(req[r].who)} \subseteq Credential
  BY DEF Of, TypeOK, Session
<1>2. late' \subseteq Credential
  BY <1>1 DEF Die, TypeOK
<1>. QED BY <1>2 DEF Die, Frees, Goes, TypeOK, tables

LEMMA TypesStep == TypeOK /\ [Next]_vars => TypeOK'
<1>1. TypeOK /\ UNCHANGED vars => TypeOK'
  BY DEF TypeOK, vars, tables, history
<1>. QED BY <1>1, TypesCode, TypesPassword, TypesSession, TypesOffice, TypesDie DEF Next

\* Every variable of SignIn keeps its type, and so does what a request carries between two
\* statements.
THEOREM TypeCorrect == Spec => []TypeOK
BY TypesInit, TypesStep, PTL DEF Spec

-----------------------------------------------------------------------------
(* Credentials                                                             *)

LEMMA CredentialsInit == Init => CredentialInv
<1>. SUFFICES ASSUME Init PROVE CredentialInv
  OBVIOUS
<1>1. TypeOK
  BY TypesInit
<1>2. None \notin Code
  BY SignInAssumption
<1>3. RowsAreSound /\ PasswordsAreSound /\ ClaimsAreSound /\ TrioDescribesOneCode
  BY DEF Init, RowsAreSound, PasswordsAreSound, ClaimsAreSound, TrioDescribesOneCode, Holding
<1>4. HistoryIsSound
  BY DEF Init, HistoryIsSound
<1>. QED BY <1>1, <1>3, <1>4 DEF CredentialInv

\* Claims stay sound while nobody new is about to open a session.
LEMMA ClaimsKept ==
    ASSUME CredentialInv, claimed \subseteq claimed', bought' = bought,
           \A q \in Request : req'[q] = req[q] \/ req'[q] = None \/ req'[q].kind # "session"
    PROVE  ClaimsAreSound'
BY DEF CredentialInv, ClaimsAreSound, Holding

\* Steps that issue, redeem and take back nothing.
LEMMA CredentialsKept ==
    ASSUME CredentialInv, TypeOK',
           UNCHANGED <<issued, last, claimed, bought, withdrawn>>,
           \A p \in Person : code'[p].hash = code[p].hash /\ code'[p].redeemed = code[p].redeemed,
           \A n \in Challenge : challenge'[n] # None =>
             challenge[n] # None /\ challenge'[n].consumed = challenge[n].consumed,
           \A q \in Request : req'[q] = req[q] \/ req'[q] = None \/ req'[q].kind # "session"
    PROVE  CredentialInv'
<1>1. ClaimsAreSound'
  BY ClaimsKept
<1>2. RowsAreSound' /\ TrioDescribesOneCode'
  BY DEF CredentialInv, RowsAreSound, TrioDescribesOneCode
<1>3. PasswordsAreSound' /\ HistoryIsSound'
  BY DEF CredentialInv, PasswordsAreSound, HistoryIsSound
<1>. QED BY <1>1, <1>2, <1>3 DEF CredentialInv

LEMMA CredentialsQuiet ==
    ASSUME CredentialInv, TypeOK',
           UNCHANGED <<code, challenge, issued, last, claimed, bought, withdrawn>>,
           \A q \in Request : req'[q] = req[q] \/ req'[q] = None \/ req'[q].kind # "session"
    PROVE  CredentialInv'
BY CredentialsKept

\* Codes of one person that leave the row unredeemed are taken back.
LEMMA CredentialsMint ==
    ASSUME CredentialInv, TypeOK', NEW r \in Request, NEW c \in Code, Mint(r, c)
    PROVE  CredentialInv'
<1>. DEFINE p == req[r].who
<1>0. TypeOK /\ RowsAreSound /\ PasswordsAreSound /\ HistoryIsSound /\ TrioDescribesOneCode
  BY DEF CredentialInv
<1>1. p \in Person /\ c # None
  BY <1>0, HandlerKinds, SignInAssumption DEF Mint, OfficeHeld
<1>2. /\ \A q \in Person : code'[q] =
           IF q = p THEN [hash |-> c, fresh |-> TRUE, redeemed |-> FALSE] ELSE code[q]
      /\ \A q \in Person : last'[q] = IF q = p THEN c ELSE last[q]
      /\ withdrawn' = withdrawn \cup ({code[p].hash} \ {None})
      /\ c \notin issued /\ issued' = issued \cup {c}
      /\ UNCHANGED <<claimed, bought, challenge>>
  BY <1>0 DEF Mint, TypeOK
<1>. HIDE DEF p
<1>3. c \notin claimed /\ c \notin withdrawn
  BY <1>0, <1>2 DEF HistoryIsSound
<1>4. code[p].hash # None => code[p].hash \in issued /\ code[p].hash \notin claimed
  BY <1>0, <1>1 DEF RowsAreSound
<1>5. HistoryIsSound'
  BY <1>0, <1>2, <1>4 DEF HistoryIsSound
<1>6. RowsAreSound'
  <2>1. \A q \in Person : q # p /\ code[q].hash # None => code[q].hash # code[p].hash
    BY <1>0, <1>1 DEF RowsAreSound
  <2>. QED BY <1>0, <1>1, <1>2, <1>3, <1>4, <2>1 DEF RowsAreSound
<1>7. PasswordsAreSound'
  <2>1. \A n \in Challenge : n # code[p].hash
    <3>1. code[p].hash \in Code \cup {None}
      BY <1>0, <1>1 DEF TypeOK, Row
    <3>2. Code \cap Challenge = {} /\ None \notin Challenge
      BY SignInAssumption
    <3>. QED BY <3>1, <3>2
  <2>. QED BY <1>0, <1>2, <2>1 DEF PasswordsAreSound
<1>8. TrioDescribesOneCode'
  BY <1>0, <1>2, <1>3 DEF TrioDescribesOneCode
<1>9. ClaimsAreSound'
  BY ClaimsKept, <1>0, <1>2 DEF Mint, Frees, Goes, TypeOK
<1>. QED BY <1>5, <1>6, <1>7, <1>8, <1>9 DEF CredentialInv

LEMMA CredentialsRevoke ==
    ASSUME CredentialInv, TypeOK', NEW p \in Person, RevokeCode(p)
    PROVE  CredentialInv'
<1>0. TypeOK /\ RowsAreSound /\ PasswordsAreSound /\ HistoryIsSound /\ TrioDescribesOneCode
  BY DEF CredentialInv
<1>1. /\ \A q \in Person : /\ code'[q].hash = IF q = p THEN None ELSE code[q].hash
                           /\ code'[q].redeemed = code[q].redeemed
      /\ withdrawn' = withdrawn \cup {code[p].hash} /\ code[p].hash # None
      /\ UNCHANGED <<last, issued, claimed, bought, challenge, req>>
  BY <1>0 DEF RevokeCode, TypeOK, Row
<1>2. code[p].hash = last[p] /\ code[p].hash \in issued /\ code[p].hash \notin claimed
  BY <1>0, <1>1 DEF RowsAreSound
<1>3. HistoryIsSound'
  BY <1>0, <1>1, <1>2 DEF HistoryIsSound
<1>4. RowsAreSound'
  <2>1. \A q \in Person : q # p => last[q] # code[p].hash
    BY <1>0, <1>1, <1>2 DEF RowsAreSound
  <2>. QED BY <1>0, <1>1, <2>1 DEF RowsAreSound
<1>5. PasswordsAreSound'
  <2>1. code[p].hash \in Code
    BY <1>0, <1>1 DEF TypeOK, Row
  <2>2. \A n \in Challenge : n # code[p].hash
    BY <2>1, SignInAssumption
  <2>. QED BY <1>0, <1>1, <2>2 DEF PasswordsAreSound
<1>6. TrioDescribesOneCode'
  BY <1>0, <1>1 DEF TrioDescribesOneCode
<1>7. ClaimsAreSound'
  BY ClaimsKept, <1>1
<1>. QED BY <1>3, <1>4, <1>5, <1>6, <1>7 DEF CredentialInv

\* The request that redeems a credential is the only one that may open a session with it.
LEMMA ClaimsGrow ==
    ASSUME CredentialInv, NEW r \in Request, req[r] \in SignInHeld, req[r].of \notin claimed,
           claimed' = claimed \cup {req[r].of}, bought' = bought,
           Goes(r, [req[r] EXCEPT !.kind = "session"])
    PROVE  ClaimsAreSound'
<1>1. /\ req'[r].of = req[r].of /\ req[r].of \in Credential
      /\ \A q \in Request \ {r} : req'[q] = req[q]
  BY DEF CredentialInv, TypeOK, Goes, SignInHeld
<1>2. bought[req[r].of] = 0
  <2>1. bought[req[r].of] \in Nat /\ bought[req[r].of] <= 0
    BY <1>1 DEF CredentialInv, TypeOK, HistoryIsSound
  <2>. QED BY <2>1
<1>3. ASSUME NEW q \in Request, q # r, Holding(q, "session")' PROVE Holding(q, "session") /\ req[q].of # req[r].of
  BY <1>1, <1>3 DEF CredentialInv, ClaimsAreSound, Holding
<1>. QED BY <1>1, <1>2, <1>3 DEF CredentialInv, ClaimsAreSound, Holding

LEMMA CredentialsCodeClaim ==
    ASSUME CredentialInv, TypeOK', NEW r \in Request, CodeClaim(r)
    PROVE  CredentialInv'
<1>. DEFINE p == req[r].who
            c == req[r].of
<1>0. TypeOK /\ RowsAreSound /\ PasswordsAreSound /\ HistoryIsSound /\ TrioDescribesOneCode
  BY DEF CredentialInv
<1>1. req[r] \in SignInHeld /\ p \in Person /\ c \in Code
  BY <1>0, HandlerKinds DEF CodeClaim, SignInHeld
<1>2. CASE ~Redeemable(p, c)
  BY CredentialsQuiet, <1>0, <1>2 DEF CodeClaim, Frees, Goes, TypeOK
<1>3. CASE Redeemable(p, c)
  <2>1. /\ \A q \in Person : code'[q] =
             IF q = p THEN [hash |-> None, fresh |-> FALSE, redeemed |-> TRUE] ELSE code[q]
        /\ claimed' = claimed \cup {c} /\ code[p].hash = c
        /\ Goes(r, [req[r] EXCEPT !.kind = "session"])
        /\ UNCHANGED <<last, issued, bought, withdrawn, challenge>>
    BY <1>0, <1>3 DEF CodeClaim, TypeOK, Redeemable
  <2>2. c # None /\ c \notin Challenge
    BY <1>1, SignInAssumption
  <2>. HIDE DEF p, c
  <2>3. c = last[p] /\ c \in issued /\ c \notin claimed \cup withdrawn
    BY <1>0, <1>1, <2>1, <2>2 DEF RowsAreSound
  <2>4. \A q \in Person : q # p => last[q] # c
    BY <1>0, <1>1, <2>2, <2>3 DEF RowsAreSound
  <2>5. RowsAreSound'
    BY <1>0, <2>1, <2>4 DEF RowsAreSound
  <2>6. PasswordsAreSound'
    BY <1>0, <2>1, <2>2 DEF PasswordsAreSound
  <2>7. HistoryIsSound'
    BY <1>0, <2>1, <2>3 DEF HistoryIsSound, TypeOK
  <2>8. TrioDescribesOneCode'
    BY <1>0, <1>1, <2>1, <2>3, <2>4 DEF TrioDescribesOneCode
  <2>9. ClaimsAreSound'
    BY ClaimsGrow, <1>1, <2>1, <2>3 DEF c
  <2>. QED BY <2>5, <2>6, <2>7, <2>8, <2>9 DEF CredentialInv
<1>. QED BY <1>2, <1>3

LEMMA CredentialsAsk ==
    ASSUME CredentialInv, TypeOK', NEW r \in Request, NEW n \in Challenge, Ask(r, n)
    PROVE  CredentialInv'
<1>0. TypeOK /\ RowsAreSound /\ PasswordsAreSound /\ HistoryIsSound /\ TrioDescribesOneCode
  BY DEF CredentialInv
<1>1. \A q \in Request : req'[q] = req[q] \/ req'[q] = None
  BY <1>0 DEF Ask, Frees, Goes, TypeOK
<1>2. CASE Holders(req[r].of) = {}
  BY CredentialsQuiet, <1>1, <1>2 DEF Ask
<1>3. CASE Holders(req[r].of) # {}
  <2>1. /\ \A m \in Challenge : m # n => challenge'[m] = challenge[m]
        /\ n \notin issued /\ issued' = issued \cup {n}
        /\ UNCHANGED <<code, last, claimed, bought, withdrawn>>
    BY <1>0, <1>3 DEF Ask, TypeOK
  <2>2. n \notin claimed \cup withdrawn
    BY <1>0, <2>1 DEF HistoryIsSound
  <2>3. PasswordsAreSound'
    BY <1>0, <2>1, <2>2 DEF PasswordsAreSound
  <2>4. RowsAreSound' /\ TrioDescribesOneCode'
    BY <1>0, <2>1 DEF RowsAreSound, TrioDescribesOneCode
  <2>5. HistoryIsSound'
    BY <1>0, <2>1 DEF HistoryIsSound
  <2>6. ClaimsAreSound'
    BY ClaimsKept, <1>1, <2>1
  <2>. QED BY <2>3, <2>4, <2>5, <2>6 DEF CredentialInv
<1>. QED BY <1>2, <1>3

LEMMA CredentialsPasswordClaim ==
    ASSUME CredentialInv, TypeOK', NEW r \in Request, PasswordClaim(r)
    PROVE  CredentialInv'
<1>. DEFINE n == req[r].of
            claims == /\ challenge[n] # None
                      /\ n \in Unused(challenge[n].address) /\ challenge[n].open
<1>0. TypeOK /\ RowsAreSound /\ PasswordsAreSound /\ HistoryIsSound /\ TrioDescribesOneCode
  BY DEF CredentialInv
<1>1. req[r] \in SignInHeld /\ n \in Challenge
  BY <1>0, HandlerKinds DEF PasswordClaim, SignInHeld
<1>2. CASE ~claims
  BY CredentialsQuiet, <1>0, <1>2 DEF PasswordClaim, Frees, Goes, TypeOK
<1>3. CASE claims
  <2>1. /\ \A m \in Challenge : m # n => challenge'[m] = challenge[m]
        /\ challenge'[n] # None => challenge'[n].consumed
        /\ challenge[n] # None /\ ~challenge[n].consumed
        /\ claimed' = claimed \cup {n}
        /\ Goes(r, [req[r] EXCEPT !.kind = "session"])
        /\ UNCHANGED <<code, last, issued, bought, withdrawn>>
    BY <1>0, <1>1, <1>3 DEF PasswordClaim, TypeOK, Password, Unused
  <2>2. n \notin Code
    BY <1>1, SignInAssumption
  <2>. HIDE DEF n
  <2>3. n \in issued /\ n \notin claimed \cup withdrawn
    BY <1>0, <1>1, <2>1 DEF PasswordsAreSound
  <2>4. \A p \in Person : last[p] # n /\ code[p].hash # n
    <3>1. None # n
      BY <1>1, SignInAssumption
    <3>. QED BY <1>0, <2>2, <3>1 DEF TypeOK, Row
  <2>5. RowsAreSound' /\ TrioDescribesOneCode'
    BY <1>0, <2>1, <2>4 DEF RowsAreSound, TrioDescribesOneCode
  <2>6. PasswordsAreSound'
    BY <1>0, <2>1, <2>3 DEF PasswordsAreSound
  <2>7. HistoryIsSound'
    BY <1>0, <2>1, <2>3 DEF HistoryIsSound, TypeOK
  <2>8. ClaimsAreSound'
    BY ClaimsGrow, <1>1, <2>1, <2>3 DEF n
  <2>. QED BY <2>5, <2>6, <2>7, <2>8 DEF CredentialInv
<1>. QED BY <1>2, <1>3

LEMMA CredentialsSession ==
    ASSUME CredentialInv, TypeOK', NEW r \in Request, CreateSession(r)
    PROVE  CredentialInv'
<1>. DEFINE c == req[r].of
<1>0. TypeOK /\ RowsAreSound /\ PasswordsAreSound /\ HistoryIsSound /\ TrioDescribesOneCode
  BY DEF CredentialInv
<1>1. c \in Credential /\ c \in claimed /\ bought[c] = 0
  BY <1>0, HandlerKinds DEF CreateSession, SignInHeld, CredentialInv, ClaimsAreSound
<1>2. /\ \A b \in Credential : bought'[b] = IF b = c THEN bought[b] + 1 ELSE bought[b]
      /\ \A q \in Request : req'[q] = IF q = r THEN None ELSE req[q]
      /\ UNCHANGED <<code, challenge, last, issued, claimed, withdrawn>>
  BY <1>0 DEF CreateSession, TypeOK, Frees, Goes
<1>3. RowsAreSound' /\ TrioDescribesOneCode' /\ PasswordsAreSound'
  BY <1>0, <1>2 DEF RowsAreSound, TrioDescribesOneCode, PasswordsAreSound
<1>4. HistoryIsSound'
  BY <1>0, <1>1, <1>2 DEF HistoryIsSound
<1>5. ClaimsAreSound'
  <2>1. ASSUME NEW q \in Request, Holding(q, "session")'
        PROVE  q # r /\ req'[q] = req[q] /\ Holding(q, "session") /\ req[q].of # c
               /\ req[q].of \in Credential
    <3>1. q # r /\ req'[q] = req[q] /\ Holding(q, "session")
      BY <1>2, <2>1 DEF Holding
    <3>. QED BY <1>0, <3>1, HandlerKinds DEF CredentialInv, ClaimsAreSound, CreateSession, SignInHeld
  <2>. QED BY <1>2, <2>1 DEF CredentialInv, ClaimsAreSound, Holding
<1>. QED BY <1>3, <1>4, <1>5 DEF CredentialInv

\* A row that goes takes its unused passwords with it.
LEMMA CredentialsCascade ==
    ASSUME CredentialInv, TypeOK', NEW gone,
           challenge' = Cascaded(gone), withdrawn' = withdrawn \cup Lost(gone),
           UNCHANGED <<code, issued, last, claimed, bought>>,
           \A q \in Request : req'[q] = req[q] \/ req'[q] = None \/ req'[q].kind # "session"
    PROVE  CredentialInv'
<1>0. TypeOK /\ RowsAreSound /\ PasswordsAreSound /\ HistoryIsSound /\ TrioDescribesOneCode
  BY DEF CredentialInv
<1>1. /\ \A n \in Challenge : challenge'[n] # None => challenge'[n] = challenge[n] /\ n \notin Lost(gone)
      /\ \A n \in Lost(gone) : n \in Challenge /\ challenge[n] # None /\ ~challenge[n].consumed
  BY DEF Cascaded, Lost
<1>2. \A n \in Lost(gone) : n \in issued /\ n \notin claimed
  BY <1>0, <1>1 DEF PasswordsAreSound
<1>3. PasswordsAreSound'
  BY <1>0, <1>1 DEF PasswordsAreSound
<1>4. HistoryIsSound'
  BY <1>0, <1>2 DEF HistoryIsSound
<1>5. RowsAreSound'
  <2>1. \A p \in Person : code[p].hash # None => code[p].hash \notin Lost(gone)
    <3>1. \A p \in Person : code[p].hash # None => code[p].hash \in Code
      BY <1>0 DEF TypeOK, Row
    <3>. QED BY <1>1, <3>1, SignInAssumption
  <2>. QED BY <1>0, <2>1 DEF RowsAreSound
<1>6. TrioDescribesOneCode'
  BY <1>0 DEF TrioDescribesOneCode
<1>7. ClaimsAreSound'
  BY ClaimsKept
<1>. QED BY <1>3, <1>4, <1>5, <1>6, <1>7 DEF CredentialInv

LEMMA CredentialsStep == CredentialInv /\ [Next]_vars => CredentialInv'
<1>. SUFFICES ASSUME CredentialInv, [Next]_vars PROVE CredentialInv'
  OBVIOUS
<1>0. TypeOK /\ TypeOK'
  BY TypesStep DEF CredentialInv
<1>1. CASE UNCHANGED vars
  BY <1>0, <1>1, CredentialsQuiet DEF vars, tables, history
<1>2. CASE CodeNext
  <2>1. ASSUME NEW r \in Request, NEW p \in Person, IssueRead(r, p) PROVE CredentialInv'
    BY <1>0, <2>1, CredentialsQuiet DEF IssueRead, Holds, TypeOK, tables, history
  <2>2. ASSUME NEW r \in Request, NEW p \in Person, NEW c \in Code, CodeMatch(r, p, c)
        PROVE  CredentialInv'
    BY <1>0, <2>2, CredentialsQuiet DEF CodeMatch, Holds, TypeOK, tables, history
  <2>3. ASSUME NEW p \in Person, CodeExpires(p) PROVE CredentialInv'
    BY <1>0, <2>3, CredentialsKept DEF CodeExpires, TypeOK, Row, history
  <2>. QED BY <1>0, <1>2, <2>1, <2>2, <2>3, CredentialsMint, CredentialsRevoke, CredentialsCodeClaim
       DEF CodeNext
<1>3. CASE PasswordNext
  <2>1. ASSUME NEW r \in Request, NEW p \in Person, NEW a \in Address, AskRead(r, p, a)
        PROVE  CredentialInv'
    BY <1>0, <2>1, CredentialsQuiet DEF AskRead, Holds, TypeOK, tables, history
  <2>2. ASSUME NEW r \in Request, NEW p \in Person, NEW n \in Challenge, PasswordMatch(r, p, n)
        PROVE  CredentialInv'
    BY <1>0, <2>2, CredentialsQuiet DEF PasswordMatch, Holds, TypeOK, tables, history
  <2>3. ASSUME NEW n \in Challenge, ChallengeExpires(n) \/ WrongAnswer(n) PROVE CredentialInv'
    BY <1>0, <2>3, CredentialsKept DEF ChallengeExpires, WrongAnswer, TypeOK, Password, history
  <2>. QED BY <1>0, <1>3, <2>1, <2>2, <2>3, CredentialsAsk, CredentialsPasswordClaim
       DEF PasswordNext
<1>4. CASE SessionNext
  <2>1. ASSUME NEW s \in Session, EndSession(s) PROVE CredentialInv'
    BY <1>0, <2>1, CredentialsQuiet DEF EndSession, history
  <2>. QED BY <1>0, <1>4, <2>1, CredentialsSession DEF SessionNext
<1>5. CASE OfficeNext
  <2>1. ASSUME NEW p \in Person, Deactivate(p) \/ Reactivate(p) PROVE CredentialInv'
    BY <1>0, <2>1, CredentialsQuiet DEF Deactivate, Reactivate, history
  <2>2. ASSUME NEW r \in Request, NEW p \in Person, LetGo(r, p) PROVE CredentialInv'
    BY <1>0, <2>2, CredentialsQuiet DEF LetGo, Holds, TypeOK
  <2>3. ASSUME NEW r \in Request, DestroySessions(r) \/ ReleaseHalf(r) PROVE CredentialInv'
    BY <1>0, <2>3, CredentialsQuiet DEF DestroySessions, ReleaseHalf, Frees, Goes, TypeOK, history
  <2>4. ASSUME NEW r \in Request, NEW p \in Person, ReleaseRow(r, p) PROVE CredentialInv'
    BY <1>0, <2>4, CredentialsCascade DEF ReleaseRow, Holds, TypeOK
  <2>5. ASSUME NEW p \in Person, NEW a \in Address, PutAddress(p, a) PROVE CredentialInv'
    BY <1>0, <2>5, CredentialsCascade DEF PutAddress
  <2>. QED BY <1>5, <2>1, <2>2, <2>3, <2>4, <2>5 DEF OfficeNext
<1>6. ASSUME NEW r \in Request, Die(r) PROVE CredentialInv'
  BY <1>0, <1>6, CredentialsQuiet DEF Die, Frees, Goes, TypeOK, tables
<1>. QED BY <1>1, <1>2, <1>3, <1>4, <1>5, <1>6 DEF Next

THEOREM CredentialsHold == Spec => []CredentialInv
BY CredentialsInit, CredentialsStep, PTL DEF Spec

\* A credential buys one session at most, and none once it was taken back: whatever requests
\* race between the match and the claim (codeAuth, smsVerify).
THEOREM OneSessionEach == Spec => []CredentialsBuyOnce
<1>1. CredentialInv => CredentialsBuyOnce
  <2>. SUFFICES ASSUME CredentialInv, NEW c \in Credential
                PROVE  bought[c] <= IF c \in withdrawn THEN 0 ELSE 1
    BY DEF CredentialsBuyOnce
  <2>1. bought[c] \in Nat /\ bought[c] <= (IF c \in claimed THEN 1 ELSE 0)
    BY DEF CredentialInv, TypeOK, HistoryIsSound
  <2>2. c \in withdrawn => c \notin claimed
    BY DEF CredentialInv, HistoryIsSound
  <2>. QED BY <2>1, <2>2
<1>. QED BY <1>1, CredentialsHold, PTL

\* The audit columns describe the last code that was issued, through every race of a
\* redemption with a new code (mintEnrolmentCode, codeAuth).
THEOREM TrioHolds == Spec => []TrioDescribesOneCode
<1>1. CredentialInv => TrioDescribesOneCode
  BY DEF CredentialInv
<1>. QED BY <1>1, CredentialsHold, PTL

-----------------------------------------------------------------------------
(* Passwords and addresses                                                 *)

\* The password of an address that nobody shared has one holder at most.
SoleHolders ==
    \A n \in Challenge : challenge[n] # None =>
      /\ n \in issued
      /\ n \notin shared => \A p, q \in Holders(challenge[n].address) : p = q

\* Whoever is about to redeem it is that holder, as long as the row is there.
MatchesFollow ==
    \A r \in Request : Holding(r, "match") /\ req[r].of \in Challenge =>
      /\ req[r].of \in issued
      /\ challenge[req[r].of] # None /\ req[r].of \notin shared =>
           <<challenge[req[r].of].address, req[r].who>> \in claim

FollowInv == TypeOK /\ SoleHolders /\ MatchesFollow

LEMMA FollowInit == Init => FollowInv
<1>. SUFFICES ASSUME Init PROVE FollowInv
  OBVIOUS
<1>1. SoleHolders /\ MatchesFollow
  BY DEF Init, SoleHolders, MatchesFollow, Holding
<1>. QED BY <1>1, TypesInit DEF FollowInv

\* Steps that leave the addresses as they are and match nothing.
LEMMA FollowKept ==
    ASSUME FollowInv, TypeOK', issued \subseteq issued', UNCHANGED <<claim, shared>>,
           \A n \in Challenge : challenge'[n] # None =>
             challenge[n] # None /\ challenge'[n].address = challenge[n].address,
           \A q \in Request : \/ req'[q] = req[q] \/ req'[q] = None
                              \/ req'[q].kind # "match" \/ req'[q].of \notin Challenge
    PROVE  FollowInv'
<1>1. SoleHolders'
  BY DEF FollowInv, SoleHolders, Holders
<1>2. ASSUME NEW r \in Request, Holding(r, "match")', req'[r].of \in Challenge
      PROVE  req'[r] = req[r] /\ Holding(r, "match")
  BY <1>2 DEF Holding
<1>3. MatchesFollow'
  BY <1>2 DEF FollowInv, MatchesFollow
<1>. QED BY <1>1, <1>3 DEF FollowInv

LEMMA FollowPasswordMatch ==
    ASSUME FollowInv, TypeOK', NEW r \in Request, NEW p \in Person, NEW n \in Challenge,
           PasswordMatch(r, p, n)
    PROVE  FollowInv'
<1>1. /\ n \in issued /\ <<challenge[n].address, p>> \in claim
      /\ UNCHANGED <<challenge, claim, issued, shared>>
      /\ req'[r] = [kind |-> "match", who |-> p, of |-> n]
      /\ \A q \in Request \ {r} : req'[q] = req[q]
  BY DEF PasswordMatch, Holds, FollowInv, SoleHolders, TypeOK, tables, history
<1>2. SoleHolders'
  BY <1>1 DEF FollowInv, SoleHolders, Holders
<1>3. MatchesFollow'
  BY <1>1 DEF FollowInv, MatchesFollow, Holding
<1>. QED BY <1>2, <1>3 DEF FollowInv

LEMMA FollowAsk ==
    ASSUME FollowInv, TypeOK', NEW r \in Request, NEW n \in Challenge, Ask(r, n)
    PROVE  FollowInv'
<1>0. TypeOK /\ SoleHolders /\ MatchesFollow
  BY DEF FollowInv
<1>1. \A q \in Request : req'[q] = req[q] \/ req'[q] = None
  BY <1>0 DEF Ask, Frees, Goes, TypeOK
<1>2. CASE Holders(req[r].of) = {}
  BY FollowKept, <1>1, <1>2 DEF Ask
<1>3. CASE Holders(req[r].of) # {}
  <2>1. /\ \A m \in Challenge : m # n => challenge'[m] = challenge[m]
        /\ n \notin issued /\ issued' = issued \cup {n} /\ claim' = claim
        /\ challenge'[n].address = req[r].of /\ shared \subseteq shared'
        /\ n \notin shared' => \A p, q \in Holders(req[r].of) : p = q
        /\ \A m \in Challenge : m # n /\ m \notin shared' => m \notin shared
    BY <1>0, <1>3 DEF Ask, TypeOK
  <2>2. SoleHolders'
    BY <1>0, <2>1 DEF SoleHolders, Holders
  <2>3. ASSUME NEW q \in Request, Holding(q, "match")', req'[q].of \in Challenge
        PROVE  req'[q] = req[q] /\ Holding(q, "match") /\ req[q].of # n
    BY <1>0, <1>1, <2>1, <2>3 DEF MatchesFollow, Holding
  <2>4. MatchesFollow'
    BY <1>0, <2>1, <2>3 DEF MatchesFollow
  <2>. QED BY <2>2, <2>4 DEF FollowInv
<1>. QED BY <1>2, <1>3

LEMMA FollowReleaseRow ==
    ASSUME FollowInv, TypeOK', NEW r \in Request, NEW p \in Person, ReleaseRow(r, p)
    PROVE  FollowInv'
<1>. DEFINE gone == {a \in Address : Alone(a, p)}
<1>0. TypeOK /\ SoleHolders /\ MatchesFollow
  BY DEF FollowInv
<1>1. /\ claim' = {x \in claim : ~(x[2] = p /\ x[1] \in gone)}
      /\ UNCHANGED <<issued, shared>>
      /\ \A n \in Challenge : challenge'[n] # None =>
           /\ challenge[n] # None /\ challenge'[n] = challenge[n]
           /\ challenge[n].address \notin gone
  BY DEF ReleaseRow, Cascaded
<1>2. \A q \in Request : Holding(q, "match")' => req'[q] = req[q] /\ Holding(q, "match")
  BY <1>0 DEF ReleaseRow, Holds, TypeOK, Holding
<1>. HIDE DEF gone
<1>3. SoleHolders'
  BY <1>0, <1>1 DEF SoleHolders, Holders
<1>4. MatchesFollow'
  BY <1>0, <1>1, <1>2 DEF MatchesFollow
<1>. QED BY <1>3, <1>4 DEF FollowInv

\* The half of a shared address is given up: somebody who is about to redeem a password of
\* an address that nobody shared does not have such a half.
LEMMA FollowReleaseHalf ==
    ASSUME FollowInv, TypeOK', NEW r \in Request, ReleaseHalf(r)
    PROVE  FollowInv'
<1>. DEFINE p == req[r].who
<1>0. TypeOK /\ SoleHolders /\ MatchesFollow
  BY DEF FollowInv
<1>1. /\ claim' = {x \in claim : x[2] = p => Alone(x[1], p)}
      /\ UNCHANGED <<issued, shared, challenge>>
  BY DEF ReleaseHalf, history
<1>2. \A q \in Request : Holding(q, "match")' => req'[q] = req[q] /\ Holding(q, "match")
  BY <1>0 DEF ReleaseHalf, Frees, Goes, TypeOK, Holding
<1>. HIDE DEF p
<1>3. SoleHolders'
  BY <1>0, <1>1 DEF SoleHolders, Holders
<1>4. ASSUME NEW q \in Request, Holding(q, "match"), req[q].of \in Challenge,
             challenge[req[q].of] # None, req[q].of \notin shared
      PROVE  <<challenge[req[q].of].address, req[q].who>> \in claim'
  <2>. DEFINE a == challenge[req[q].of].address
              w == req[q].who
  <2>1. <<a, w>> \in claim /\ \A x, y \in Holders(a) : x = y
    BY <1>0, <1>4 DEF MatchesFollow, SoleHolders
  <2>. HIDE DEF a, w
  <2>2. w \in Person
    BY <1>0, <2>1 DEF TypeOK
  <2>3. w = p => Alone(a, p)
    BY <2>1, <2>2 DEF Alone, Holders
  <2>4. <<a, w>> \in claim'
    BY <1>1, <2>1, <2>3
  <2>. QED BY <2>4 DEF a, w
<1>5. MatchesFollow'
  BY <1>0, <1>1, <1>2, <1>4 DEF MatchesFollow
<1>. QED BY <1>3, <1>5 DEF FollowInv

\* A new address replaces the person's own one, which takes its passwords with it unless
\* somebody shares it; an address that gets its second holder is shared from then on.
LEMMA FollowPutAddress ==
    ASSUME FollowInv, TypeOK', NEW p \in Person, NEW a \in Address, PutAddress(p, a)
    PROVE  FollowInv'
<1>. DEFINE gone == {b \in Address \ {a} : Alone(b, p)}
<1>0. TypeOK /\ SoleHolders /\ MatchesFollow
  BY DEF FollowInv
<1>1. /\ claim' = {x \in claim : x[2] # p} \cup {<<a, p>>}
      /\ UNCHANGED <<issued, req>> /\ shared \subseteq shared'
      /\ \A n \in Challenge : challenge'[n] # None =>
           /\ challenge[n] # None /\ challenge'[n] = challenge[n]
           /\ challenge[n].address \in Address /\ challenge[n].address \notin gone
           /\ challenge[n].address = a /\ n \notin shared' => Holders(a) \subseteq {p}
  BY <1>0 DEF PutAddress, Cascaded, TypeOK, Password
<1>3. SoleHolders'
  <2>1. ASSUME NEW n \in Challenge, challenge'[n] # None
        PROVE  n \in issued' /\ (n \notin shared' => n \notin shared)
    BY <1>0, <1>1, <2>1 DEF SoleHolders
  <2>2. ASSUME NEW n \in Challenge, challenge'[n] # None, n \notin shared',
               NEW x \in Person, NEW y \in Person,
               <<challenge'[n].address, x>> \in claim', <<challenge'[n].address, y>> \in claim'
        PROVE  x = y
    <3>1. PICK b \in Address : b = challenge[n].address
      BY <1>1, <2>2
    <3>2. /\ challenge[n] # None /\ challenge'[n].address = b
          /\ b = a => Holders(a) \subseteq {p}
          /\ \A v, w \in Holders(b) : v = w
      BY <1>0, <1>1, <2>1, <2>2, <3>1 DEF SoleHolders
    <3>3. \A q \in {x, y} : (q \in Holders(b) /\ q # p) \/ (q = p /\ b = a)
      BY <1>1, <2>2, <3>2 DEF Holders
    <3>. QED BY <3>2, <3>3
  <2>. QED BY <2>1, <2>2 DEF SoleHolders, Holders
<1>4. ASSUME NEW q \in Request, Holding(q, "match"), req[q].of \in Challenge,
             challenge'[req[q].of] # None, req[q].of \notin shared'
      PROVE  <<challenge[req[q].of].address, req[q].who>> \in claim'
  <2>. DEFINE n == req[q].of
              b == challenge[n].address
              w == req[q].who
  <2>1. /\ <<b, w>> \in claim /\ \A x, y \in Holders(b) : x = y
        /\ b \in Address /\ b \notin gone /\ (b = a => Holders(a) \subseteq {p})
    BY <1>0, <1>1, <1>4 DEF MatchesFollow, SoleHolders
  <2>. HIDE DEF b, w, n
  <2>2. w \in Person
    BY <1>0, <2>1 DEF TypeOK
  <2>3. CASE b = a
    <3>1. w = p
      BY <2>1, <2>2, <2>3 DEF Holders
    <3>. QED BY <1>1, <2>3, <3>1 DEF b, w, n
  <2>4. CASE b # a
    <3>1. w # p
      BY <2>1, <2>2, <2>4 DEF Holders, Alone
    <3>2. <<b, w>> \in claim'
      BY <1>1, <2>1, <3>1
    <3>. QED BY <3>2 DEF b, w, n
  <2>. QED BY <2>3, <2>4
<1>5. MatchesFollow'
  BY <1>0, <1>1, <1>4 DEF MatchesFollow, Holding
<1>. QED BY <1>3, <1>5 DEF FollowInv

LEMMA FollowStep == FollowInv /\ [Next]_vars => FollowInv'
<1>. SUFFICES ASSUME FollowInv, [Next]_vars PROVE FollowInv'
  OBVIOUS
<1>0. TypeOK /\ TypeOK'
  BY TypesStep DEF FollowInv
<1>1. CASE UNCHANGED vars
  BY <1>0, <1>1, FollowKept DEF vars, tables, history
<1>2. CASE CodeNext
  <2>1. ASSUME NEW r \in Request, NEW p \in Person, IssueRead(r, p) PROVE FollowInv'
    BY <1>0, <2>1, FollowKept DEF IssueRead, Holds, TypeOK, tables, history
  <2>2. ASSUME NEW r \in Request, NEW p \in Person, NEW c \in Code, CodeMatch(r, p, c)
        PROVE  FollowInv'
    <3>1. c \notin Challenge
      BY SignInAssumption
    <3>. QED BY <1>0, <2>2, <3>1, FollowKept DEF CodeMatch, Holds, TypeOK, tables, history
  <2>3. ASSUME NEW r \in Request, NEW c \in Code, Mint(r, c) PROVE FollowInv'
    BY <1>0, <2>3, FollowKept DEF Mint, Frees, Goes, TypeOK
  <2>4. ASSUME NEW p \in Person, RevokeCode(p) \/ CodeExpires(p) PROVE FollowInv'
    BY <1>0, <2>4, FollowKept DEF RevokeCode, CodeExpires, history
  <2>5. ASSUME NEW r \in Request, CodeClaim(r) PROVE FollowInv'
    <3>1. req[r] \in SignInHeld
      BY <1>0, <2>5, HandlerKinds DEF CodeClaim
    <3>2. \A q \in Request : req'[q] = req[q] \/ req'[q] = None \/ req'[q].kind # "match"
      BY <1>0, <2>5, <3>1 DEF CodeClaim, Frees, Goes, TypeOK, SignInHeld
    <3>. QED BY <1>0, <2>5, <3>2, FollowKept DEF CodeClaim
  <2>. QED BY <1>2, <2>1, <2>2, <2>3, <2>4, <2>5 DEF CodeNext
<1>3. CASE PasswordNext
  <2>1. ASSUME NEW r \in Request, NEW p \in Person, NEW a \in Address, AskRead(r, p, a)
        PROVE  FollowInv'
    BY <1>0, <2>1, FollowKept DEF AskRead, Holds, TypeOK, tables, history
  <2>2. ASSUME NEW n \in Challenge, ChallengeExpires(n) \/ WrongAnswer(n) PROVE FollowInv'
    BY <1>0, <2>2, FollowKept DEF ChallengeExpires, WrongAnswer, TypeOK, Password, history
  <2>3. ASSUME NEW r \in Request, PasswordClaim(r) PROVE FollowInv'
    <3>1. req[r] \in SignInHeld
      BY <1>0, <2>3, HandlerKinds DEF PasswordClaim
    <3>2. \A q \in Request : req'[q] = req[q] \/ req'[q] = None \/ req'[q].kind # "match"
      BY <1>0, <2>3, <3>1 DEF PasswordClaim, Frees, Goes, TypeOK, SignInHeld
    <3>3. \A n \in Challenge : challenge'[n] # None =>
            challenge[n] # None /\ challenge'[n].address = challenge[n].address
      BY <1>0, <2>3 DEF PasswordClaim, TypeOK, Password
    <3>. QED BY <1>0, <2>3, <3>2, <3>3, FollowKept DEF PasswordClaim
  <2>. QED BY <1>0, <1>3, <2>1, <2>2, <2>3, FollowAsk, FollowPasswordMatch DEF PasswordNext
<1>4. CASE SessionNext
  <2>1. ASSUME NEW s \in Session, EndSession(s) PROVE FollowInv'
    BY <1>0, <2>1, FollowKept DEF EndSession, history
  <2>2. ASSUME NEW r \in Request, CreateSession(r) PROVE FollowInv'
    BY <1>0, <2>2, FollowKept DEF CreateSession, Frees, Goes, TypeOK
  <2>. QED BY <1>4, <2>1, <2>2 DEF SessionNext
<1>5. CASE OfficeNext
  <2>1. ASSUME NEW p \in Person, Deactivate(p) \/ Reactivate(p) PROVE FollowInv'
    BY <1>0, <2>1, FollowKept DEF Deactivate, Reactivate, history
  <2>2. ASSUME NEW r \in Request, NEW p \in Person, LetGo(r, p) PROVE FollowInv'
    BY <1>0, <2>2, FollowKept DEF LetGo, Holds, TypeOK
  <2>3. ASSUME NEW r \in Request, DestroySessions(r) PROVE FollowInv'
    BY <1>0, <2>3, FollowKept DEF DestroySessions, Frees, Goes, TypeOK, history
  <2>. QED BY <1>0, <1>5, <2>1, <2>2, <2>3, FollowReleaseRow, FollowReleaseHalf, FollowPutAddress
       DEF OfficeNext
<1>6. ASSUME NEW r \in Request, Die(r) PROVE FollowInv'
  BY <1>0, <1>6, FollowKept DEF Die, Frees, Goes, TypeOK, tables
<1>. QED BY <1>1, <1>2, <1>3, <1>4, <1>5, <1>6 DEF Next

LEMMA FollowInvariance == Spec => []FollowInv
BY FollowInit, FollowStep, PTL DEF Spec

\* A match becomes a session when its credential is claimed and at no other step.
LEMMA OnlyClaimsRedeem ==
    ASSUME TypeOK, [Next]_vars, NEW r \in Request, Holding(r, "match"), req[r].of \in Challenge,
           req'[r] = [req[r] EXCEPT !.kind = "session"]
    PROVE  PasswordClaim(r)
<1>1. req[r] \in SignInHeld /\ req[r].of \notin Code /\ req[r] # None
  BY HandlerKinds, SignInAssumption DEF Holding
<1>2. /\ req'[r] \in SignInHeld /\ req'[r].kind = "session" /\ req[r].kind = "match"
      /\ req'[r] # req[r] /\ req'[r] # None
  <2>1. [req[r] EXCEPT !.kind = "session"] \in SignInHeld
    BY <1>1 DEF SignInHeld
  <2>2. req'[r].kind = "session" /\ req[r].kind = "match"
    BY <1>1 DEF Holding, SignInHeld
  <2>. QED BY <2>1, <2>2, SignInAssumption DEF Held
<1>3. ASSUME NEW q \in Request, NEW h \in Held \cup {None}, req' = [req EXCEPT ![q] = h],
             q # r \/ req[q] = None \/ h = None
      PROVE  FALSE
  BY <1>1, <1>2, <1>3 DEF TypeOK
<1>4. CASE UNCHANGED vars
  BY <1>2, <1>4 DEF vars
<1>5. CASE CodeNext
  <2>1. ASSUME NEW q \in Request, NEW p \in Person, IssueRead(q, p) PROVE FALSE
    BY <1>3, <2>1 DEF IssueRead, Holds, Held, OfficeHeld
  <2>2. ASSUME NEW q \in Request, NEW c \in Code, Mint(q, c) PROVE FALSE
    BY <1>3, <2>2 DEF Mint, Frees, Goes
  <2>3. ASSUME NEW p \in Person, RevokeCode(p) \/ CodeExpires(p) PROVE FALSE
    BY <1>2, <2>3 DEF RevokeCode, CodeExpires
  <2>4. ASSUME NEW q \in Request, NEW p \in Person, NEW c \in Code, CodeMatch(q, p, c) PROVE FALSE
    BY <1>3, <2>4 DEF CodeMatch, Holds, Held, SignInHeld, Credential
  <2>5. ASSUME NEW q \in Request, CodeClaim(q) PROVE FALSE
    <3>1. q # r
      BY <1>1, <2>5 DEF CodeClaim
    <3>2. req'[r] = req[r]
      BY <2>5, <3>1 DEF CodeClaim, Frees, Goes, TypeOK
    <3>. QED BY <1>2, <3>2
  <2>. QED BY <1>5, <2>1, <2>2, <2>3, <2>4, <2>5 DEF CodeNext
<1>6. CASE PasswordNext
  <2>1. ASSUME NEW q \in Request, NEW p \in Person, NEW a \in Address, AskRead(q, p, a) PROVE FALSE
    BY <1>3, <2>1 DEF AskRead, Holds, Held, AskHeld
  <2>2. ASSUME NEW q \in Request, NEW n \in Challenge, Ask(q, n) PROVE FALSE
    BY <1>3, <2>2 DEF Ask, Frees, Goes
  <2>3. ASSUME NEW n \in Challenge, ChallengeExpires(n) \/ WrongAnswer(n) PROVE FALSE
    BY <1>2, <2>3 DEF ChallengeExpires, WrongAnswer
  <2>4. ASSUME NEW q \in Request, NEW p \in Person, NEW n \in Challenge, PasswordMatch(q, p, n)
        PROVE  FALSE
    BY <1>3, <2>4 DEF PasswordMatch, Holds, Held, SignInHeld, Credential
  <2>5. ASSUME NEW q \in Request, q # r, PasswordClaim(q) PROVE FALSE
    <3>1. req'[r] = req[r]
      BY <2>5 DEF PasswordClaim, Frees, Goes, TypeOK
    <3>. QED BY <1>2, <3>1
  <2>. QED BY <1>6, <2>1, <2>2, <2>3, <2>4, <2>5 DEF PasswordNext
<1>7. CASE SessionNext
  <2>1. ASSUME NEW q \in Request, CreateSession(q) PROVE FALSE
    BY <1>3, <2>1 DEF CreateSession, Frees, Goes
  <2>. QED BY <1>2, <1>7, <2>1 DEF SessionNext, EndSession
<1>8. CASE OfficeNext
  <2>1. ASSUME NEW p \in Person, Deactivate(p) \/ Reactivate(p) PROVE FALSE
    BY <1>2, <2>1 DEF Deactivate, Reactivate
  <2>2. ASSUME NEW q \in Request, NEW p \in Person, LetGo(q, p) \/ ReleaseRow(q, p) PROVE FALSE
    BY <1>3, <2>2 DEF LetGo, ReleaseRow, Holds, Held, OfficeHeld
  <2>3. ASSUME NEW q \in Request, DestroySessions(q) \/ ReleaseHalf(q) PROVE FALSE
    BY <1>3, <2>3 DEF DestroySessions, ReleaseHalf, Frees, Goes
  <2>4. ASSUME NEW p \in Person, NEW a \in Address, PutAddress(p, a) PROVE FALSE
    BY <1>2, <2>4 DEF PutAddress
  <2>. QED BY <1>8, <2>1, <2>2, <2>3, <2>4 DEF OfficeNext
<1>9. ASSUME NEW q \in Request, Die(q) PROVE FALSE
  BY <1>3, <1>9 DEF Die, Frees, Goes
<1>. QED BY <1>4, <1>5, <1>6, <1>7, <1>8, <1>9 DEF Next

\* Between the match of a one-time password and its claim the address may be given up, moved
\* or shared: a password of an address nobody shared is never redeemed for somebody who does
\* not hold it (smsVerify, putWorkerPhone, deleteWorkerPhone).
THEOREM PasswordsFollow == Spec => PasswordsFollowTheAddress
<1>1. ASSUME FollowInv, [Next]_vars, NEW r \in Request, Holding(r, "match"),
             req[r].of \in Challenge, req'[r] = [req[r] EXCEPT !.kind = "session"]
      PROVE  \/ req[r].of \in shared
             \/ <<challenge[req[r].of].address, req[r].who>> \in claim
  <2>1. PasswordClaim(r)
    BY <1>1, OnlyClaimsRedeem DEF FollowInv
  <2>2. req'[r] # None
    <3>1. req[r] \in SignInHeld
      BY <1>1, HandlerKinds DEF FollowInv
    <3>2. [req[r] EXCEPT !.kind = "session"] \in SignInHeld
      BY <3>1 DEF SignInHeld
    <3>. QED BY <1>1, <3>2, SignInAssumption DEF Held
  <2>3. challenge[req[r].of] # None
    BY <1>1, <2>1, <2>2 DEF PasswordClaim, Frees, Goes, FollowInv, TypeOK
  <2>. QED BY <1>1, <2>3 DEF FollowInv, MatchesFollow
<1>2. FollowInv /\ [Next]_vars =>
        [\A r \in Request :
           LET n == req[r].of IN
           Holding(r, "match") /\ n \in Challenge /\ req'[r] = [req[r] EXCEPT !.kind = "session"] =>
             n \in shared \/ <<challenge[n].address, req[r].who>> \in claim]_vars
  BY <1>1
<1>. QED BY FollowInvariance, <1>2, PTL DEF Spec, PasswordsFollowTheAddress

-----------------------------------------------------------------------------
(* Who was let go                                                          *)

\* A request that may still open a session opens it for somebody active, or it was under
\* way when they were let go.
MayOpen(r) ==
    /\ req[r] # None
    /\ req[r].kind = "session" \/ (req[r].kind = "match" /\ req[r].of \in Challenge)

LetGoInv ==
    /\ TypeOK
    /\ LetGoMeansSignedOut
    /\ \A r \in Request : MayOpen(r) => req[r].who \in active \/ req[r].of \in late

LEMMA LetGoInit == Init => LetGoInv
<1>. SUFFICES ASSUME Init PROVE LetGoInv
  OBVIOUS
<1>1. LetGoMeansSignedOut /\ \A r \in Request : ~MayOpen(r)
  BY DEF Init, LetGoMeansSignedOut, MayOpen
<1>. QED BY <1>1, TypesInit DEF LetGoInv

\* Steps that let nobody go and end no removal.
LEMMA LetGoKept ==
    ASSUME LetGoInv, TypeOK', sessions' \subseteq sessions,
           active \subseteq active', late \subseteq late',
           \A q \in Request : Holding(q, "destroy") => req'[q] = req[q],
           \A q \in Request : MayOpen(q)' => req'[q] = req[q] \/ req'[q].who \in active
    PROVE  LetGoInv'
<1>1. LetGoMeansSignedOut'
  BY DEF LetGoInv, LetGoMeansSignedOut, Holding
<1>2. \A q \in Request : MayOpen(q)' => req'[q].who \in active' \/ req'[q].of \in late'
  BY DEF LetGoInv, MayOpen
<1>. QED BY <1>1, <1>2 DEF LetGoInv

LEMMA LetGoDeactivate ==
    ASSUME LetGoInv, TypeOK', NEW p \in Person, Deactivate(p)
    PROVE  LetGoInv'
<1>1. /\ req' = req /\ active' = active \ {p} /\ late' = late \cup UnderWay(p)
      /\ sessions' = sessions \ Of(p)
  BY DEF Deactivate
<1>2. LetGoMeansSignedOut'
  BY <1>1 DEF LetGoInv, LetGoMeansSignedOut, Of, Holding
<1>3. ASSUME NEW q \in Request, MayOpen(q) PROVE req[q].who # p \/ req[q].of \in UnderWay(p)
  <2>1. req[q].of \in Credential
    BY <1>3, HandlerKinds DEF MayOpen, Holding, SignInHeld, LetGoInv
  <2>. QED BY <1>3, <2>1 DEF UnderWay, MayOpen
<1>4. \A q \in Request : MayOpen(q)' => req'[q].who \in active' \/ req'[q].of \in late'
  BY <1>1, <1>3 DEF LetGoInv, MayOpen
<1>. QED BY <1>2, <1>4 DEF LetGoInv

LEMMA LetGoLetGo ==
    ASSUME LetGoInv, TypeOK', NEW r \in Request, NEW p \in Person, LetGo(r, p)
    PROVE  LetGoInv'
<1>1. /\ active' = active \ {p} /\ late' = late \cup UnderWay(p) /\ sessions' = sessions
      /\ req[r] = None /\ req'[r] = [kind |-> "destroy", who |-> p]
      /\ \A q \in Request \ {r} : req'[q] = req[q]
  BY DEF LetGo, Holds, LetGoInv, TypeOK
<1>2. Holding(r, "destroy")' /\ req'[r].who = p /\ ~MayOpen(r)'
  <2>1. req'[r] # None
    BY <1>1, SignInAssumption DEF Held, OfficeHeld
  <2>. QED BY <1>1, <2>1 DEF Holding, MayOpen
<1>3. LetGoMeansSignedOut'
  <2>1. ASSUME NEW s \in sessions
        PROVE  \/ s.who \in active' \/ s.by \in late'
               \/ \E q \in Request : Holding(q, "destroy")' /\ req'[q].who = s.who
    <3>1. CASE s.who = p
      BY <1>2, <3>1
    <3>2. CASE s.who # p
      <4>1. CASE s.who \in active \/ s.by \in late
        BY <1>1, <3>2, <4>1
      <4>2. CASE \E q \in Request : Holding(q, "destroy") /\ req[q].who = s.who
        BY <1>1, <4>2 DEF Holding
      <4>. QED BY <4>1, <4>2 DEF LetGoInv, LetGoMeansSignedOut
    <3>. QED BY <3>1, <3>2
  <2>. QED BY <1>1, <2>1 DEF LetGoMeansSignedOut
<1>4. ASSUME NEW q \in Request, MayOpen(q) PROVE req[q].who # p \/ req[q].of \in UnderWay(p)
  <2>1. req[q].of \in Credential
    BY <1>4, HandlerKinds DEF MayOpen, Holding, SignInHeld, LetGoInv
  <2>. QED BY <1>4, <2>1 DEF UnderWay, MayOpen
<1>5. \A q \in Request : MayOpen(q)' => req'[q].who \in active' \/ req'[q].of \in late'
  BY <1>1, <1>2, <1>4 DEF LetGoInv, MayOpen
<1>. QED BY <1>3, <1>5 DEF LetGoInv

LEMMA LetGoSession ==
    ASSUME LetGoInv, TypeOK', NEW r \in Request, CreateSession(r)
    PROVE  LetGoInv'
<1>1. /\ sessions' = sessions \cup {[who |-> req[r].who, by |-> req[r].of]}
      /\ UNCHANGED <<active, late>>
      /\ Holding(r, "session") /\ req'[r] = None
      /\ \A q \in Request \ {r} : req'[q] = req[q]
  BY DEF CreateSession, Frees, Goes, LetGoInv, TypeOK
<1>2. req[r].who \in active \/ req[r].of \in late
  BY <1>1 DEF LetGoInv, MayOpen, Holding
<1>3. \A q \in Request : Holding(q, "destroy") => req'[q] = req[q] /\ Holding(q, "destroy")'
  BY <1>1 DEF Holding
<1>4. LetGoMeansSignedOut'
  BY <1>1, <1>2, <1>3 DEF LetGoInv, LetGoMeansSignedOut
<1>5. \A q \in Request : MayOpen(q)' => req'[q].who \in active' \/ req'[q].of \in late'
  BY <1>1 DEF LetGoInv, MayOpen
<1>. QED BY <1>4, <1>5 DEF LetGoInv

\* The second half of a removal, or the death of the process before it.
LEMMA LetGoEnds ==
    ASSUME LetGoInv, TypeOK', NEW r \in Request, DestroySessions(r) \/ Die(r)
    PROVE  LetGoInv'
<1>1. /\ req'[r] = None /\ \A q \in Request \ {r} : req'[q] = req[q]
      /\ active' = active /\ late \subseteq late' /\ sessions' \subseteq sessions
  BY DEF DestroySessions, Die, Frees, Goes, LetGoInv, TypeOK, history, tables
<1>2. ASSUME Holding(r, "destroy"), NEW s \in sessions', s.who = req[r].who PROVE s.by \in late'
  BY <1>1, <1>2 DEF DestroySessions, Die, Of, Holding
<1>3. LetGoMeansSignedOut'
  BY <1>1, <1>2 DEF LetGoInv, LetGoMeansSignedOut, Holding
<1>4. \A q \in Request : MayOpen(q)' => req'[q].who \in active' \/ req'[q].of \in late'
  BY <1>1 DEF LetGoInv, MayOpen
<1>. QED BY <1>3, <1>4 DEF LetGoInv

LEMMA LetGoStep == LetGoInv /\ [Next]_vars => LetGoInv'
<1>. SUFFICES ASSUME LetGoInv, [Next]_vars PROVE LetGoInv'
  OBVIOUS
<1>0. TypeOK /\ TypeOK'
  BY TypesStep DEF LetGoInv
<1>1. CASE UNCHANGED vars
  BY <1>0, <1>1, LetGoKept DEF vars, tables, history
\* A handler that begins has held nothing, so it was no removal.
<1>2. ASSUME NEW r \in Request, NEW h \in Held, Holds(r, h),
             h.kind = "match" => h.who \in active, h.kind # "session",
             sessions' \subseteq sessions, UNCHANGED <<active, late>>
      PROVE  LetGoInv'
  <2>1. /\ req[r] = None /\ req'[r] = h /\ \A q \in Request \ {r} : req'[q] = req[q]
    BY <1>0, <1>2 DEF Holds, TypeOK
  <2>2. \A q \in Request : Holding(q, "destroy") => req'[q] = req[q]
    BY <2>1 DEF Holding
  <2>3. \A q \in Request : MayOpen(q)' => req'[q] = req[q] \/ req'[q].who \in active
    BY <1>2, <2>1 DEF MayOpen
  <2>. QED BY <1>0, <1>2, <2>2, <2>3, LetGoKept
\* One that ends, other than by destroying sessions, or that goes on.
<1>3. ASSUME NEW r \in Request, NEW h \in Held \cup {None}, Goes(r, h), ~Holding(r, "destroy"),
             h = None \/ h.who \in active,
             sessions' \subseteq sessions, UNCHANGED <<active, late>>
      PROVE  LetGoInv'
  <2>1. req'[r] = h /\ \A q \in Request \ {r} : req'[q] = req[q]
    BY <1>0, <1>3 DEF Goes, TypeOK
  <2>2. \A q \in Request : Holding(q, "destroy") => req'[q] = req[q]
    BY <1>3, <2>1
  <2>3. \A q \in Request : MayOpen(q)' => req'[q] = req[q] \/ req'[q].who \in active
    BY <1>3, <2>1 DEF MayOpen
  <2>. QED BY <1>0, <1>3, <2>2, <2>3, LetGoKept
<1>4. CASE CodeNext
  <2>1. ASSUME NEW r \in Request, NEW p \in Person, IssueRead(r, p) PROVE LetGoInv'
    <3>1. [kind |-> "mint", who |-> p] \in Held
      BY DEF Held, OfficeHeld
    <3>. QED BY <1>2, <2>1, <3>1 DEF IssueRead, tables, history
  <2>2. ASSUME NEW r \in Request, NEW c \in Code, Mint(r, c) PROVE LetGoInv'
    BY <1>3, <2>2 DEF Mint, Frees, Holding
  <2>3. ASSUME NEW p \in Person, RevokeCode(p) \/ CodeExpires(p) PROVE LetGoInv'
    BY <1>0, <2>3, LetGoKept DEF RevokeCode, CodeExpires, history
  <2>4. ASSUME NEW r \in Request, NEW p \in Person, NEW c \in Code, CodeMatch(r, p, c)
        PROVE  LetGoInv'
    <3>1. [kind |-> "match", who |-> p, of |-> c] \in Held
      BY DEF Held, SignInHeld, Credential
    <3>. QED BY <1>2, <2>4, <3>1 DEF CodeMatch, Redeemable, tables, history
  <2>5. ASSUME NEW r \in Request, CodeClaim(r) PROVE LetGoInv'
    <3>1. req[r] \in SignInHeld
      BY <1>0, <2>5, HandlerKinds DEF CodeClaim
    <3>2. CASE Redeemable(req[r].who, req[r].of)
      <4>1. [req[r] EXCEPT !.kind = "session"] \in Held
        BY <3>1 DEF Held, SignInHeld
      <4>2. [req[r] EXCEPT !.kind = "session"].who = req[r].who
        BY <3>1 DEF SignInHeld
      <4>3. Goes(r, [req[r] EXCEPT !.kind = "session"]) /\ req[r].who \in active
        BY <2>5, <3>2 DEF CodeClaim, Redeemable
      <4>. QED BY <1>3, <2>5, <4>1, <4>2, <4>3 DEF CodeClaim, Holding
    <3>3. CASE ~Redeemable(req[r].who, req[r].of)
      BY <1>3, <2>5, <3>3 DEF CodeClaim, Frees, Holding
    <3>. QED BY <3>2, <3>3
  <2>. QED BY <1>4, <2>1, <2>2, <2>3, <2>4, <2>5 DEF CodeNext
<1>5. CASE PasswordNext
  <2>1. ASSUME NEW r \in Request, NEW p \in Person, NEW a \in Address, AskRead(r, p, a)
        PROVE  LetGoInv'
    <3>1. [kind |-> "ask", of |-> a] \in Held
      BY DEF Held, AskHeld
    <3>. QED BY <1>2, <2>1, <3>1 DEF AskRead, tables, history
  <2>2. ASSUME NEW r \in Request, NEW n \in Challenge, Ask(r, n) PROVE LetGoInv'
    BY <1>3, <2>2 DEF Ask, Frees, Holding
  <2>3. ASSUME NEW n \in Challenge, ChallengeExpires(n) \/ WrongAnswer(n) PROVE LetGoInv'
    BY <1>0, <2>3, LetGoKept DEF ChallengeExpires, WrongAnswer, history
  <2>4. ASSUME NEW r \in Request, NEW p \in Person, NEW n \in Challenge, PasswordMatch(r, p, n)
        PROVE  LetGoInv'
    <3>1. [kind |-> "match", who |-> p, of |-> n] \in Held
      BY DEF Held, SignInHeld, Credential
    <3>. QED BY <1>2, <2>4, <3>1 DEF PasswordMatch, tables, history
  <2>5. ASSUME NEW r \in Request, PasswordClaim(r) PROVE LetGoInv'
    <3>1. req[r] \in SignInHeld
      BY <1>0, <2>5, HandlerKinds DEF PasswordClaim
    <3>2. \A q \in Request : Holding(q, "destroy") => req'[q] = req[q]
      BY <1>0, <2>5 DEF PasswordClaim, Holding, Frees, Goes, TypeOK
    <3>3. MayOpen(r)' => MayOpen(r) /\ req'[r].who = req[r].who /\ req'[r].of = req[r].of
      BY <1>0, <2>5, <3>1 DEF PasswordClaim, Holding, Frees, Goes, TypeOK, MayOpen, SignInHeld
    <3>4. \A q \in Request \ {r} : req'[q] = req[q]
      BY <1>0, <2>5 DEF PasswordClaim, Frees, Goes, TypeOK
    <3>5. \A q \in Request : MayOpen(q)' => req'[q].who \in active' \/ req'[q].of \in late'
      BY <2>5, <3>3, <3>4 DEF LetGoInv, PasswordClaim, MayOpen
    <3>6. LetGoMeansSignedOut'
      BY <2>5, <3>2 DEF LetGoInv, LetGoMeansSignedOut, PasswordClaim, Holding
    <3>. QED BY <1>0, <3>5, <3>6 DEF LetGoInv
  <2>. QED BY <1>5, <2>1, <2>2, <2>3, <2>4, <2>5 DEF PasswordNext
<1>6. CASE SessionNext
  <2>1. ASSUME NEW s \in Session, EndSession(s) PROVE LetGoInv'
    BY <1>0, <2>1, LetGoKept DEF EndSession, history
  <2>. QED BY <1>0, <1>6, <2>1, LetGoSession DEF SessionNext
<1>7. CASE OfficeNext
  <2>1. ASSUME NEW p \in Person, Reactivate(p) PROVE LetGoInv'
    BY <1>0, <2>1, LetGoKept DEF Reactivate, history
  <2>2. ASSUME NEW r \in Request, NEW p \in Person, ReleaseRow(r, p) PROVE LetGoInv'
    <3>1. [kind |-> "release", who |-> p] \in Held
      BY DEF Held, OfficeHeld
    <3>. QED BY <1>2, <2>2, <3>1 DEF ReleaseRow
  <2>3. ASSUME NEW r \in Request, ReleaseHalf(r) PROVE LetGoInv'
    BY <1>3, <2>3 DEF ReleaseHalf, Frees, Holding, history
  <2>4. ASSUME NEW p \in Person, NEW a \in Address, PutAddress(p, a) PROVE LetGoInv'
    BY <1>0, <2>4, LetGoKept DEF PutAddress
  <2>. QED BY <1>0, <1>7, <2>1, <2>2, <2>3, <2>4, LetGoDeactivate, LetGoLetGo, LetGoEnds
       DEF OfficeNext
<1>. QED BY <1>0, <1>1, <1>4, <1>5, <1>6, <1>7, LetGoEnds DEF Next

\* Nobody who was let go keeps a session but for the cases LetGoMeansSignedOut names,
\* however sign-ins and removals overlap (upsertWorker, deleteWorker).
THEOREM LetGoSignedOut == Spec => []LetGoMeansSignedOut
<1>1. LetGoInv => LetGoMeansSignedOut
  BY DEF LetGoInv
<1>. QED BY <1>1, LetGoInit, LetGoStep, PTL DEF Spec

=============================================================================
