-------------------------------- MODULE SignIn --------------------------------
(***************************************************************************)
(* How a person gets a session: routes/auth.js, lib/auth.js, and the       *)
(* worker and operator routes of routes/admin.js behind it.                *)
(*                                                                         *)
(* There are two kinds of credential.  An enrolment code is a column of    *)
(* the person's row.  A one-time password is a row of otp_challenges (or   *)
(* email_challenges) and belongs to an address, a number or a mailbox,     *)
(* that a worker and an operator may share.  Workers and operators have    *)
(* tables and routes of their own that mirror each other, as the routes    *)
(* for numbers and mailboxes do.  Every statement is a transaction of its  *)
(* own, except where transaction() is used.                                *)
(*                                                                         *)
(* Values of codes are never drawn twice here.  Rate limits, the Apple     *)
(* door and what is sent by SMS or email are left out.                     *)
(***************************************************************************)
EXTENDS Integers

CONSTANTS
    Worker, Operator,
    Address,
    Code,        \* enrolment codes
    Challenge,   \* ids of one-time passwords, in the order of their creation
    Request,
    None

Person == Worker \cup Operator
Credential == Code \cup Challenge

Row == [hash : Code \cup {None}, fresh : BOOLEAN, redeemed : BOOLEAN]
Password == [address : Address, fresh : BOOLEAN, open : BOOLEAN, consumed : BOOLEAN]
Session == [who : Person, by : Credential]

\* What a handler holds between two statements.
SignInHeld == [kind : {"match", "session"}, who : Person, of : Credential]
OfficeHeld == [kind : {"mint", "destroy", "release"}, who : Person]
AskHeld == [kind : {"ask"}, of : Address]
Held == SignInHeld \cup OfficeHeld \cup AskHeld

ASSUME SignInAssumption ==
    /\ Challenge \subseteq Nat
    /\ Code \cap Challenge = {}
    /\ Worker \cap Operator = {}
    /\ None \notin Code \cup Challenge \cup Password \cup Held

VARIABLES
    active,      \* the persons whose row says so
    code,        \* enrolment_code_hash, "not expired", enrolment_code_redeemed_at
    claim,       \* phone_identities, email_identities: who holds which address
    challenge,   \* otp_challenges, email_challenges
    sessions,    \* worker_sessions, operator_sessions
    req,
    \* History:
    issued,      \* the credentials that were handed out
    last,        \* the code each person was given last
    claimed,     \* the credentials that were redeemed,
    bought,      \* and how many sessions each bought
    withdrawn,   \* those taken back before they were redeemed
    shared,      \* passwords of an address that had two holders at once
    late         \* credentials of requests that were under way when their person was let
                 \* go, and of sessions that a death of the process left behind

tables == <<active, code, claim, challenge, sessions>>
history == <<issued, last, claimed, bought, withdrawn, shared, late>>
vars == <<tables, req, history>>

TypeOK ==
    /\ active \subseteq Person
    /\ code \in [Person -> Row]
    /\ claim \subseteq Address \X Person
    /\ challenge \in [Challenge -> Password \cup {None}]
    /\ sessions \subseteq Session
    /\ req \in [Request -> Held \cup {None}]
    /\ issued \subseteq Credential
    /\ last \in [Person -> Code \cup {None}]
    /\ claimed \subseteq Credential
    /\ bought \in [Credential -> Nat]
    /\ withdrawn \subseteq Credential
    /\ shared \subseteq Challenge
    /\ late \subseteq Credential

-----------------------------------------------------------------------------

SameRole(p, q) == p \in Worker <=> q \in Worker
Holders(a) == {p \in Person : <<a, p>> \in claim}

\* worker_id and operator_id are UNIQUE, the address is the primary key.
IsRegistry(c) ==
    \A x, y \in c : x # y => x[2] # y[2] /\ (x[1] = y[1] => ~SameRole(x[2], y[2]))

\* Operators may have come with a number (createOperator).
Init ==
    /\ active = Person
    /\ code = [p \in Person |-> [hash |-> None, fresh |-> FALSE, redeemed |-> FALSE]]
    /\ claim \in {c \in SUBSET (Address \X Operator) : IsRegistry(c)}
    /\ challenge = [n \in Challenge |-> None]
    /\ sessions = {}
    /\ req = [r \in Request |-> None]
    /\ issued = {} /\ claimed = {} /\ withdrawn = {} /\ shared = {} /\ late = {}
    /\ last = [p \in Person |-> None]
    /\ bought = [c \in Credential |-> 0]

Holds(r, held) == req[r] = None /\ req' = [req EXCEPT ![r] = held]
Holding(r, kind) == req[r] # None /\ req[r].kind = kind
Goes(r, held) == req' = [req EXCEPT ![r] = held]
Frees(r) == Goes(r, None)

-----------------------------------------------------------------------------
(* Enrolment codes                                                         *)

\* issueEnrolmentCode, sendEnrolmentCodeBySms: the person is active when it is looked up ...
IssueRead(r, p) ==
    /\ p \in active
    /\ Holds(r, [kind |-> "mint", who |-> p])
    /\ UNCHANGED <<tables, history>>

\* Mutant: the time of redemption is left from the code before.
MintUnreset(r, c) ==
    /\ Holding(r, "mint") /\ c \notin issued
    /\ LET p == req[r].who IN
         /\ code' = [code EXCEPT ![p].hash = c, ![p].fresh = TRUE]
         /\ last' = [last EXCEPT ![p] = c]
         /\ withdrawn' = withdrawn \cup ({code[p].hash} \ {None})
    /\ issued' = issued \cup {c}
    /\ Frees(r)
    /\ UNCHANGED <<active, claim, challenge, sessions, claimed, bought, shared, late>>

\* ... and the new code takes the place of the old one (mintEnrolmentCode).
Mint(r, c) ==
    /\ Holding(r, "mint") /\ c \notin issued
    /\ LET p == req[r].who IN
         /\ code' = [code EXCEPT ![p] = [hash |-> c, fresh |-> TRUE, redeemed |-> FALSE]]
         /\ last' = [last EXCEPT ![p] = c]
         /\ withdrawn' = withdrawn \cup ({code[p].hash} \ {None})
    /\ issued' = issued \cup {c}
    /\ Frees(r)
    /\ UNCHANGED <<active, claim, challenge, sessions, claimed, bought, shared, late>>

\* revokeEnrolmentCode: the sessions stay.
RevokeCode(p) ==
    /\ code[p].hash # None
    /\ code' = [code EXCEPT ![p].hash = None, ![p].fresh = FALSE]
    /\ withdrawn' = withdrawn \cup {code[p].hash}
    /\ UNCHANGED <<active, claim, challenge, sessions, req, issued, last, claimed, bought,
                   shared, late>>

CodeExpires(p) ==
    /\ code[p].fresh
    /\ code' = [code EXCEPT ![p].fresh = FALSE]
    /\ UNCHANGED <<active, claim, challenge, sessions, req, history>>

Redeemable(p, c) == p \in active /\ code[p].hash = c /\ code[p].fresh

\* codeAuth finds a candidate ...
CodeMatch(r, p, c) ==
    /\ Redeemable(p, c)
    /\ Holds(r, [kind |-> "match", who |-> p, of |-> c])
    /\ UNCHANGED <<tables, history>>

\* ... and claims it in one statement that asks everything again.
CodeClaim(r) ==
    /\ Holding(r, "match") /\ req[r].of \in Code
    /\ LET p == req[r].who  c == req[r].of IN
         IF Redeemable(p, c)
           THEN /\ code' = [code EXCEPT ![p] = [hash |-> None, fresh |-> FALSE, redeemed |-> TRUE]]
                /\ claimed' = claimed \cup {c}
                /\ Goes(r, [req[r] EXCEPT !.kind = "session"])
           ELSE Frees(r) /\ UNCHANGED <<code, claimed>>
    /\ UNCHANGED <<active, claim, challenge, sessions, issued, last, bought, withdrawn, shared,
                   late>>

-----------------------------------------------------------------------------
(* One-time passwords                                                      *)

\* smsRequest, emailRequest: an active person holds the address ...
AskRead(r, p, a) ==
    /\ <<a, p>> \in claim /\ p \in active
    /\ Holds(r, [kind |-> "ask", of |-> a])
    /\ UNCHANGED <<tables, history>>

\* ... and a password is stored for it, which the foreign key refuses if nobody holds it now.
Ask(r, n) ==
    /\ Holding(r, "ask")
    /\ n \notin issued /\ \A m \in issued \cap Challenge : m < n
    /\ LET a == req[r].of IN
         IF Holders(a) # {}
           THEN /\ challenge' = [challenge EXCEPT ![n] =
                     [address |-> a, fresh |-> TRUE, open |-> TRUE, consumed |-> FALSE]]
                /\ issued' = issued \cup {n}
                /\ shared' = IF \E p, q \in Holders(a) : p # q THEN shared \cup {n} ELSE shared
           ELSE UNCHANGED <<challenge, issued, shared>>
    /\ Frees(r)
    /\ UNCHANGED <<active, code, claim, sessions, last, claimed, bought, withdrawn, late>>

ChallengeExpires(n) ==
    /\ challenge[n] # None /\ challenge[n].fresh
    /\ challenge' = [challenge EXCEPT ![n].fresh = FALSE]
    /\ UNCHANGED <<active, code, claim, sessions, req, history>>

\* The passwords of an address that are neither used nor expired.
Unused(a) ==
    {n \in Challenge : /\ challenge[n] # None
                       /\ challenge[n].address = a /\ challenge[n].fresh
                       /\ ~challenge[n].consumed}
IsNewest(n, ids) == n \in ids /\ \A m \in ids : m <= n

\* A wrong answer counts against the newest of them.  "open" is attempts < OTP_MAX_ATTEMPTS:
\* this is the answer that uses them up, the ones before it change nothing here.
WrongAnswer(n) ==
    /\ challenge[n] # None /\ IsNewest(n, Unused(challenge[n].address))
    /\ challenge[n].open
    /\ challenge' = [challenge EXCEPT ![n].open = FALSE]
    /\ UNCHANGED <<active, code, claim, sessions, req, history>>

\* smsVerify, emailVerify: the answer is that to the newest password that may be tried, and
\* the address is an active person's ...
PasswordMatch(r, p, n) ==
    /\ challenge[n] # None
    /\ LET a == challenge[n].address IN
         /\ IsNewest(n, {m \in Unused(a) : challenge[m].open})
         /\ <<a, p>> \in claim /\ p \in active
    /\ Holds(r, [kind |-> "match", who |-> p, of |-> n])
    /\ UNCHANGED <<tables, history>>

\* Mutant: the claim trusts what was read.
PasswordClaimTrusting(r) ==
    /\ Holding(r, "match") /\ req[r].of \in Challenge
    /\ LET n == req[r].of IN
         IF challenge[n] # None
           THEN /\ challenge' = [challenge EXCEPT ![n].consumed = TRUE]
                /\ claimed' = claimed \cup {n}
                /\ Goes(r, [req[r] EXCEPT !.kind = "session"])
           ELSE Frees(r) /\ UNCHANGED <<challenge, claimed>>
    /\ UNCHANGED <<active, code, claim, sessions, issued, last, bought, withdrawn, shared, late>>

\* ... then it is consumed, once; that the person still holds it is not asked again.
PasswordClaim(r) ==
    /\ Holding(r, "match") /\ req[r].of \in Challenge
    /\ LET n == req[r].of IN
         IF challenge[n] # None /\ n \in Unused(challenge[n].address) /\ challenge[n].open
           THEN /\ challenge' = [challenge EXCEPT ![n].consumed = TRUE]
                /\ claimed' = claimed \cup {n}
                /\ Goes(r, [req[r] EXCEPT !.kind = "session"])
           ELSE Frees(r) /\ UNCHANGED <<challenge, claimed>>
    /\ UNCHANGED <<active, code, claim, sessions, issued, last, bought, withdrawn, shared, late>>

-----------------------------------------------------------------------------
(* Sessions                                                                *)

\* createWorkerSession, createOperatorSession
CreateSession(r) ==
    /\ Holding(r, "session")
    /\ sessions' = sessions \cup {[who |-> req[r].who, by |-> req[r].of]}
    /\ bought' = [bought EXCEPT ![req[r].of] = @ + 1]
    /\ Frees(r)
    /\ UNCHANGED <<active, code, claim, challenge, issued, last, claimed, withdrawn, shared, late>>

\* The logout, and the expiry.
EndSession(s) ==
    /\ s \in sessions
    /\ sessions' = sessions \ {s}
    /\ UNCHANGED <<active, code, claim, challenge, req, history>>

-----------------------------------------------------------------------------
(* The office                                                              *)

Of(p) == {s \in sessions : s.who = p}

\* The credentials that requests under way may still turn into a session of p.
UnderWay(p) ==
    {c \in Credential : \E r \in Request :
        /\ req[r] # None /\ req[r].kind \in {"match", "session"}
        /\ req[r].who = p /\ req[r].of = c
        /\ req[r].kind = "match" => c \in Challenge}

\* Mutant: the sessions are left to the check of every request.
DeactivateOnly(p) ==
    /\ p \in active \cap Worker
    /\ active' = active \ {p}
    /\ late' = late \cup UnderWay(p)
    /\ UNCHANGED <<code, claim, challenge, sessions, req, issued, last, claimed, bought,
                   withdrawn, shared>>

\* upsertWorker, with the sessions of somebody who is not active in the same statement.
Deactivate(p) ==
    /\ p \in active \cap Worker
    /\ active' = active \ {p}
    /\ sessions' = sessions \ Of(p)
    /\ late' = late \cup UnderWay(p)
    /\ UNCHANGED <<code, claim, challenge, req, issued, last, claimed, bought, withdrawn, shared>>

\* upsertWorker, reactivateOperator
Reactivate(p) ==
    /\ p \notin active
    /\ active' = active \cup {p}
    /\ UNCHANGED <<code, claim, challenge, sessions, req, history>>

\* deleteWorker, deleteOperator: in two statements.
LetGo(r, p) ==
    /\ Holds(r, [kind |-> "destroy", who |-> p])
    /\ active' = active \ {p}
    /\ late' = late \cup UnderWay(p)
    /\ UNCHANGED <<code, claim, challenge, sessions, issued, last, claimed, bought, withdrawn,
                   shared>>

DestroySessions(r) ==
    /\ Holding(r, "destroy")
    /\ sessions' = sessions \ Of(req[r].who)
    /\ Frees(r)
    /\ UNCHANGED <<active, code, claim, challenge, history>>

\* The row of an address nobody else holds goes, and its passwords with it (ON DELETE CASCADE).
Alone(a, p) == Holders(a) = {p}
Cascaded(gone) ==
    [n \in Challenge |->
       IF challenge[n] # None /\ challenge[n].address \in gone THEN None ELSE challenge[n]]
Lost(gone) ==
    {n \in Challenge : /\ challenge[n] # None
                       /\ challenge[n].address \in gone /\ ~challenge[n].consumed}

\* putWorkerPhone, putWorkerEmail, putOperatorEmail: one transaction, which refuses an address
\* of another person of that role and gives up the person's own one.
PutAddress(p, a) ==
    /\ p \in active /\ \A q \in Holders(a) : q = p \/ ~SameRole(p, q)
    /\ LET gone == {b \in Address \ {a} : Alone(b, p)} IN
         /\ claim' = {x \in claim : x[2] # p} \cup {<<a, p>>}
         /\ challenge' = Cascaded(gone)
         /\ withdrawn' = withdrawn \cup Lost(gone)
         /\ shared' = IF Holders(a) \subseteq {p} THEN shared
                      ELSE shared \cup {n \in Challenge :
                             challenge[n] # None /\ challenge[n].address = a}
    /\ UNCHANGED <<active, code, sessions, req, issued, last, claimed, bought, late>>

\* Mutant: the row stays, whoever held it.
ReleaseRowKept(r, p) ==
    /\ Holds(r, [kind |-> "release", who |-> p])
    /\ claim' = {x \in claim : ~(x[2] = p /\ Alone(x[1], p))}
    /\ UNCHANGED <<active, code, challenge, sessions, history>>

\* deleteWorkerPhone, deleteWorkerEmail, deleteOperatorEmail: first the row nobody shares ...
ReleaseRow(r, p) ==
    /\ Holds(r, [kind |-> "release", who |-> p])
    /\ LET gone == {a \in Address : Alone(a, p)} IN
         /\ claim' = {x \in claim : ~(x[2] = p /\ x[1] \in gone)}
         /\ challenge' = Cascaded(gone)
         /\ withdrawn' = withdrawn \cup Lost(gone)
    /\ UNCHANGED <<active, code, sessions, issued, last, claimed, bought, shared, late>>

\* ... then the half of one that is shared.
ReleaseHalf(r) ==
    /\ Holding(r, "release")
    /\ LET p == req[r].who IN
         claim' = {x \in claim : x[2] = p => Alone(x[1], p)}
    /\ Frees(r)
    /\ UNCHANGED <<active, code, challenge, sessions, history>>

\* The process dies.
Die(r) ==
    /\ req[r] # None
    /\ late' = IF req[r].kind = "destroy" THEN late \cup {s.by : s \in Of(req[r].who)} ELSE late
    /\ Frees(r)
    /\ UNCHANGED <<tables, issued, last, claimed, bought, withdrawn, shared>>

-----------------------------------------------------------------------------

CodeNext ==
    \/ \E r \in Request, p \in Person : IssueRead(r, p)
    \/ \E r \in Request, c \in Code : Mint(r, c)
    \/ \E p \in Person : RevokeCode(p) \/ CodeExpires(p)
    \/ \E r \in Request, p \in Person, c \in Code : CodeMatch(r, p, c)
    \/ \E r \in Request : CodeClaim(r)

PasswordNext ==
    \/ \E r \in Request, p \in Person, a \in Address : AskRead(r, p, a)
    \/ \E r \in Request, n \in Challenge : Ask(r, n)
    \/ \E n \in Challenge : ChallengeExpires(n) \/ WrongAnswer(n)
    \/ \E r \in Request, p \in Person, n \in Challenge : PasswordMatch(r, p, n)
    \/ \E r \in Request : PasswordClaim(r)

SessionNext ==
    \/ \E r \in Request : CreateSession(r)
    \/ \E s \in Session : EndSession(s)

OfficeNext ==
    \/ \E p \in Person : Deactivate(p) \/ Reactivate(p)
    \/ \E r \in Request, p \in Person : LetGo(r, p) \/ ReleaseRow(r, p)
    \/ \E r \in Request : DestroySessions(r) \/ ReleaseHalf(r)
    \/ \E p \in Person, a \in Address : PutAddress(p, a)

Next == CodeNext \/ PasswordNext \/ SessionNext \/ OfficeNext \/ \E r \in Request : Die(r)

Spec == Init /\ [][Next]_vars

-----------------------------------------------------------------------------
(* Properties                                                              *)

\* A credential is matched in one statement and claimed in another, by requests that may
\* race each other, a new code, a revocation or a release: it buys one session at most, and
\* none once it was taken back unredeemed (codeAuth, smsVerify, revokeEnrolmentCode).
CredentialsBuyOnce ==
    \A c \in Credential : bought[c] <= IF c \in withdrawn THEN 0 ELSE 1

\* The columns that outlive a code say of the last one that was issued whether it was
\* redeemed, and never mix two codes (migration 004, mintEnrolmentCode).
TrioDescribesOneCode ==
    \A p \in Person : code[p].redeemed <=> last[p] \in claimed

\* A password that was sent to an address is not redeemed for somebody who has given the
\* address up in between: it went with the row (migrations 012 and 020).  An address that
\* two persons shared keeps its row, and is set aside.
PasswordsFollowTheAddress ==
    [][\A r \in Request :
         LET n == req[r].of IN
         Holding(r, "match") /\ n \in Challenge /\ req'[r] = [req[r] EXCEPT !.kind = "session"] =>
           n \in shared \/ <<challenge[n].address, req[r].who>> \in claim]_vars

\* Nobody who was let go keeps a session, but for one that a request under way at that
\* moment finished later, or while the second half of the removal is still to come, or that
\* the death of the process left behind (upsertWorker, deleteWorker).
LetGoMeansSignedOut ==
    \A s \in sessions :
      \/ s.who \in active \/ s.by \in late
      \/ \E r \in Request : Holding(r, "destroy") /\ req[r].who = s.who

=============================================================================
