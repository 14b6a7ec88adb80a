------------------------------ MODULE AgentCalls ------------------------------
(***************************************************************************)
(* Tool calls of an agent (agent/dispatch.js, execute): a call reserves    *)
(* its request id, runs the route's handler in a transaction that also     *)
(* completes the call, or marks it failed; a call whose id is taken is     *)
(* answered from the record.  The tools here are the schedule's, whose     *)
(* other clients are administrators at the panel.                          *)
(*                                                                         *)
(* Each query outside that transaction is a step of its own, the process   *)
(* may die between any two, and the agent retries calls that got no        *)
(* answer, also while the first one still runs.                            *)
(***************************************************************************)
EXTENDS Schedule

CONSTANTS
    Agent,       \* the Clients of Schedule that serve an agent's calls
    RequestId    \* ids the agent generates, one per intended change

ASSUME AgentAssumption == Agent \subseteq Client

VARIABLES
    calls,    \* agent_tool_calls: from the request ids stored to records
    hnd,      \* Agent -> what the handler of a call has in memory
    ran,      \* RequestId -> transactions of it that committed (history)
    told      \* <<id, arguments, outcome>> of the answers sent (history)

agentVars == <<calls, hnd, ran, told>>
allVars == <<vars, agentVars>>

Outcome == {"completed", "failed"}
Free == [pc |-> "idle"]
Call == [args : CreateTx \cup EditTx, state : Outcome \cup {"pending"}]
Working == [pc : {"look", "invoke", "commit", "refused"}, id : RequestId,
            args : CreateTx \cup EditTx]

AgentTypeOK ==
    /\ TypeOK
    /\ DOMAIN calls \subseteq RequestId /\ calls \in [DOMAIN calls -> Call]
    /\ hnd \in [Agent -> {Free} \cup Working]
    /\ ran \in [RequestId -> Nat]
    /\ told \subseteq RequestId \X (CreateTx \cup EditTx) \X Outcome

AgentInit ==
    /\ Init
    /\ calls = [r \in {} |-> None]
    /\ hnd = [h \in Agent |-> Free]
    /\ ran = [r \in RequestId |-> 0]
    /\ told = {}

Moves(h, pc) == hnd' = [hnd EXCEPT ![h].pc = pc]
Answer(h, what) ==
    /\ hnd' = [hnd EXCEPT ![h] = Free]
    /\ told' = IF what \in Outcome
                 THEN told \cup {<<hnd[h].id, hnd[h].args, what>>} ELSE told

\* Mutant: the INSERT overwrites a record that was given up as pending.
ReserveAgain(h, r, args) ==
    /\ hnd[h] = Free
    /\ calls' = [x \in DOMAIN calls \cup {r} |->
                   IF x = r THEN [args |-> args, state |-> "pending"] ELSE calls[x]]
    /\ hnd' = [hnd EXCEPT ![h] = [pc |-> "invoke", id |-> r, args |-> args]]
    /\ UNCHANGED <<vars, ran, told>>

\* INSERT ... ON CONFLICT DO NOTHING, committed before anything else happens.
Reserve(h, r, args) ==
    /\ hnd[h] = Free
    /\ LET taken == r \in DOMAIN calls IN
         /\ calls' = IF taken THEN calls
                     ELSE [x \in DOMAIN calls \cup {r} |->
                             IF x = r THEN [args |-> args, state |-> "pending"] ELSE calls[x]]
         /\ hnd' = [hnd EXCEPT ![h] = [pc |-> IF taken THEN "look" ELSE "invoke",
                                       id |-> r, args |-> args]]
    /\ UNCHANGED <<vars, ran, told>>

\* Mutants: a pending record is reported as a failure; a pending record is taken to
\* be left over from a crash and run again.
LookPendingIsFailed(h) ==
    /\ hnd[h].pc = "look"
    /\ LET call == calls[hnd[h].id] IN
       Answer(h, IF call.args # hnd[h].args THEN "conflict"
                 ELSE IF call.state = "pending" THEN "failed" ELSE call.state)
    /\ UNCHANGED <<vars, calls, ran>>

LookRunsPending(h) ==
    /\ hnd[h].pc = "look"
    /\ LET call == calls[hnd[h].id] IN
       IF call = [args |-> hnd[h].args, state |-> "pending"]
         THEN Moves(h, "invoke") /\ UNCHANGED told
         ELSE Answer(h, IF call.args # hnd[h].args THEN "conflict" ELSE call.state)
    /\ UNCHANGED <<vars, calls, ran>>

\* Mutant: the retry waits for the first call to end.
LookWaits(h) ==
    /\ hnd[h].pc = "look"
    /\ LET call == calls[hnd[h].id] IN
       /\ call.args = hnd[h].args => call.state # "pending"
       /\ Answer(h, IF call.args # hnd[h].args THEN "conflict" ELSE call.state)
    /\ UNCHANGED <<vars, calls, ran>>

\* The record of an id that was taken, read in a transaction of its own.
Look(h) ==
    /\ hnd[h].pc = "look"
    /\ LET call == calls[hnd[h].id] IN
       Answer(h, IF call.args # hnd[h].args THEN "conflict" ELSE call.state)
    /\ UNCHANGED <<vars, calls, ran>>

\* The handler's checks, in the transaction that will complete the call.
Invoke(h) ==
    /\ hnd[h].pc = "invoke"
    /\ Begin(h, hnd[h].args) /\ Moves(h, "commit")
    /\ UNCHANGED <<calls, ran, told>>

\* The handler fails with an HttpError: ROLLBACK.
Refuse(h) ==
    /\ hnd[h].pc = "invoke" /\ lock = None
    /\ ~Accepts(hnd[h].args) /\ ~Repeats(hnd[h].args)
    /\ Moves(h, "refused")
    /\ UNCHANGED <<vars, calls, ran, told>>

Record(r, state) == calls' = [calls EXCEPT ![r].state = state]

\* The handler's write, the completed record and the COMMIT.
Complete(h, heard) ==
    /\ hnd[h].pc = "commit"
    /\ Commit(h, heard)
    /\ Record(hnd[h].id, "completed")
    /\ ran' = [ran EXCEPT ![hnd[h].id] = @ + 1]
    /\ Answer(h, "completed")

\* A handler that had nothing to write: the plan is as the call wants it.
CompleteRepeat(h) ==
    /\ hnd[h].pc = "invoke" /\ lock = None
    /\ Repeats(hnd[h].args)
    /\ Record(hnd[h].id, "completed")
    /\ ran' = [ran EXCEPT ![hnd[h].id] = @ + 1]
    /\ Answer(h, "completed")
    /\ UNCHANGED vars

\* UPDATE ... SET state = 'failed' WHERE state = 'pending'.
MarkFailed(h) ==
    /\ hnd[h].pc = "refused"
    /\ LET r == hnd[h].id IN
       IF calls[r].state = "pending" THEN Record(r, "failed") ELSE UNCHANGED calls
    /\ Answer(h, "failed")
    /\ UNCHANGED <<vars, ran>>

\* The process dies: an open transaction is rolled back, the record stays pending.
Die(h) ==
    /\ hnd[h] # Free
    /\ hnd' = [hnd EXCEPT ![h] = Free]
    /\ IF tx[h] # Idle THEN Abort(h) ELSE UNCHANGED vars
    /\ UNCHANGED <<calls, ran, told>>

AgentStep(h) ==
    \/ Look(h) \/ Invoke(h) \/ Refuse(h) \/ CompleteRepeat(h) \/ MarkFailed(h)
    \/ \E heard \in BOOLEAN : Complete(h, heard)

PanelStep ==
    /\ \E c \in Client \ Agent :
         \/ \E t \in Wish(c) : Begin(c, t)
         \/ \E heard \in BOOLEAN : Commit(c, heard)
         \/ Abort(c)
    /\ UNCHANGED agentVars

\* A call with a new id, or with one that was used before: the same call again, or
\* an id reused for another change.
Tried(r) == IF r \in DOMAIN calls THEN {calls[r].args} ELSE {}

AgentNext ==
    \/ \E h \in Agent, r \in RequestId :
         \E args \in Wish(h) \cup Tried(r) : Reserve(h, r, args)
    \/ \E h \in Agent : AgentStep(h) \/ Die(h)
    \/ PanelStep
    \/ Around /\ UNCHANGED agentVars

\* PostgreSQL grants the advisory lock in the order it was asked for, so a handler
\* that waits gets its turn; a session that holds it commits or is rolled back.
AgentFairness ==
    /\ \A h \in Agent : SF_allVars(AgentStep(h))
    /\ WF_allVars(PanelStep /\ lock # None)

AgentSpec == AgentInit /\ [][AgentNext]_allVars /\ AgentFairness

-----------------------------------------------------------------------------
(* Properties                                                              *)

\* "never silently issued twice": whatever dies or is retried, at most one
\* transaction of a request id commits, and the record says which way it went.
RecordIsTrue ==
    \A r \in RequestId :
      /\ ran[r] <= 1
      /\ (ran[r] = 1) <=> (r \in DOMAIN calls /\ calls[r].state = "completed")

\* Two answers to one call never disagree about what happened to it: a retry that
\* reads the record while the first call still runs says pending, never an outcome
\* that turns out otherwise.
AnswersAgree ==
    \A a \in told :
      a[1] \in DOMAIN calls /\ calls[a[1]] = [args |-> a[2], state |-> a[3]]

\* A handler that is past its reservation is the only one at work on its id.
OneAtWork ==
    \A g, h \in Agent :
      /\ hnd[g].pc \in {"invoke", "commit", "refused"} =>
           hnd[g].id \in DOMAIN calls /\ calls[hnd[g].id] = [args |-> hnd[g].args, state |-> "pending"]
      /\ g # h /\ {hnd[g].pc, hnd[h].pc} \subseteq {"invoke", "commit", "refused"} =>
           hnd[g].id # hnd[h].id

\* Every call is answered or dies with its process: nobody waits for ever on the
\* lock that the panel's and the agent's transactions share.
CallsEnd == \A h \in Agent : hnd[h] # Free ~> hnd[h] = Free

=============================================================================
