---------------------------- MODULE SyncOperations ----------------------------
(***************************************************************************)
(* The lifecycle of a mobile operation on the server: sync_operations and  *)
(* sync_conflicts, as POST /sync/operations (queueOperation), the recovery *)
(* timer (recoverPending) and POST /sync/conflicts/:id/resolve             *)
(* (resolveConflict) move it.                                              *)
(*                                                                         *)
(* No transaction spans these handlers: every Prisma call commits on its   *)
(* own and is one step here, and the process may die between any two.      *)
(* Only the domain handler an operation is applied by (InvoiceService,     *)
(* InventoryService, ...) is a transaction, one step with its commit; it   *)
(* looks its operationId up first and writes it to a UNIQUE column.        *)
(***************************************************************************)
EXTENDS Integers, FiniteSets

CONSTANTS
  Ops,         \* the operationIds of one user's device
  Requests,    \* the HTTP requests about them
  Timers,      \* the runs of the recovery timer that can be active at once
  NoOp,        \* the worker is about no operation
  MaxCrashes   \* bound on the crashes of the API process and the lost database calls

ASSUME ConstantsAssumption ==
  /\ NoOp \notin Ops
  /\ Requests \cap Timers = {}
  /\ MaxCrashes \in Nat

VARIABLES
  status,      \* sync_operations.status; "none" before the row exists
  attempt,     \* age of lastAttemptAt: null, < 5 s, 5..30 s, > 30 s
  effects,     \* the committed effects of its domain handler
  openId,      \* the id of its open conflict, 0 for none
  resolvedId,  \* the id of its resolved conflict, 0 for none
  pc,          \* where each worker is
  target,      \* the operation it works on
  seen,        \* the status it read
  outcome,     \* the outcome it will record, or the answer it has given
  conflict,    \* the conflict it decides on
  decision,    \* retry, or one of the decisions that fail the operation
  todo,        \* the candidates a timer has still to claim
  crashes      \* crashes and lost calls so far

rows    == <<status, attempt, effects, openId, resolvedId>>
workers == <<pc, target, seen, outcome, conflict, decision, todo>>
vars    == <<rows, workers, crashes>>

Workers == Requests \cup Timers

Ages == {"null", "fresh", "retryable", "recoverable"}

Init ==
  /\ status = [o \in Ops |-> "none"]
  /\ attempt = [o \in Ops |-> "null"]
  /\ effects = [o \in Ops |-> 0]
  /\ openId = [o \in Ops |-> 0]
  /\ resolvedId = [o \in Ops |-> 0]
  /\ pc = [w \in Workers |-> "idle"]
  /\ target = [w \in Workers |-> NoOp]
  /\ seen = [w \in Workers |-> "none"]
  /\ outcome = [w \in Workers |-> "none"]
  /\ conflict = [w \in Workers |-> 0]
  /\ decision = [w \in Workers |-> "none"]
  /\ todo = [w \in Workers |-> {}]
  /\ crashes = 0

Goto(w, p) == pc' = [pc EXCEPT ![w] = p]

\* The worker is done with its operation: a request has its answer, a timer
\* goes on to its next candidate or sleeps.
Leave(w, answer) ==
  /\ Goto(w, IF w \in Requests THEN "answered" ELSE IF todo[w] = {} THEN "idle" ELSE "next")
  /\ outcome' = [outcome EXCEPT ![w] = IF w \in Requests THEN answer ELSE "none"]
  /\ target' = [target EXCEPT ![w] = IF w \in Requests THEN @ ELSE NoOp]
  /\ seen' = [seen EXCEPT ![w] = "none"]
  /\ UNCHANGED <<conflict, decision, todo>>

-----------------------------------------------------------------------------
\* queueOperation looks the operationId up: a recorded outcome is the answer.
Post(w, o) ==
  /\ pc[w] = "idle" /\ w \in Requests
  /\ target' = [target EXCEPT ![w] = o]
  /\ \/ /\ status[o] \in {"applied", "conflict"}
        /\ Goto(w, "answered")
        /\ outcome' = [outcome EXCEPT ![w] = status[o]]
        /\ UNCHANGED seen
     \/ /\ status[o] \notin {"applied", "conflict"}
        /\ Goto(w, IF status[o] = "none" THEN "create" ELSE "claim")
        /\ seen' = [seen EXCEPT ![w] = status[o]]
        /\ UNCHANGED outcome
  /\ UNCHANGED <<rows, conflict, decision, todo, crashes>>

\* The row is inserted as pending, with lastAttemptAt null; operationId is UNIQUE.
Create(w) ==
  /\ pc[w] = "create"
  /\ LET o == target[w] IN
     \/ /\ status[o] = "none"
        /\ status' = [status EXCEPT ![o] = "pending"]
        /\ Goto(w, "apply")
        /\ UNCHANGED <<target, seen, outcome, conflict, decision, todo>>
     \/ status[o] # "none" /\ Leave(w, "error") /\ UNCHANGED status
  /\ UNCHANGED <<attempt, effects, openId, resolvedId, crashes>>

\* Fault: only what was never attempted.
RecoverableUnattempted(o) == status[o] = "pending" /\ attempt[o] = "null"

\* recoverPending selects what has waited for 30 seconds, or was never attempted.
Recoverable(o) == status[o] = "pending" /\ attempt[o] \in {"null", "recoverable"}

Scan(w) ==
  /\ pc[w] = "idle" /\ w \in Timers
  /\ LET candidates == {o \in Ops : Recoverable(o)} IN
     /\ candidates # {}
     /\ todo' = [todo EXCEPT ![w] = candidates]
  /\ Goto(w, "next")
  /\ UNCHANGED <<rows, target, seen, outcome, conflict, decision, crashes>>

\* Fault: the loop goes on without its next candidate.
PickNothing(w) ==
  /\ pc[w] = "next"
  /\ seen' = [seen EXCEPT ![w] = "pending"]
  /\ Goto(w, "claim")
  /\ UNCHANGED <<rows, target, outcome, conflict, decision, todo, crashes>>

PickCandidate(w) ==
  /\ pc[w] = "next"
  /\ \E o \in todo[w] : /\ target' = [target EXCEPT ![w] = o]
                        /\ todo' = [todo EXCEPT ![w] = @ \ {o}]
  /\ seen' = [seen EXCEPT ![w] = "pending"]
  /\ Goto(w, "claim")
  /\ UNCHANGED <<rows, outcome, conflict, decision, crashes>>

\* Fault: the claim's WHERE without the status.
ClaimableAnyStatus(o, s) == attempt[o] # "fresh"

\* The WHERE of the claim: a failed row at once, a pending one after 5 seconds.
Claimable(o, s) ==
  /\ status[o] = s
  /\ s = "pending" => attempt[o] # "fresh"

\* One updateMany: of the workers that race for a row, one claims it.
Claim(w) ==
  /\ pc[w] = "claim"
  /\ LET o == target[w] IN
     \/ /\ Claimable(o, seen[w])
        /\ status' = [status EXCEPT ![o] = "pending"]
        /\ attempt' = [attempt EXCEPT ![o] = "fresh"]
        /\ Goto(w, "apply")
        /\ UNCHANGED <<target, seen, outcome, conflict, decision, todo>>
     \/ ~Claimable(o, seen[w]) /\ Leave(w, seen[w]) /\ UNCHANGED <<status, attempt>>
  /\ UNCHANGED <<effects, openId, resolvedId, crashes>>

-----------------------------------------------------------------------------
\* Fault: the outcome is recorded before the domain handler has run.
RecordFirst(w) ==
  /\ pc[w] = "apply"
  /\ status' = [status EXCEPT ![target[w]] = "applied"]
  /\ Leave(w, "applied")
  /\ UNCHANGED <<attempt, effects, openId, resolvedId, crashes>>

\* The domain handler's transaction begins with the lookup of its operationId:
\* what it did before is its result.
LookUpEffect(w) ==
  /\ pc[w] = "apply"
  /\ \/ effects[target[w]] > 0 /\ Goto(w, "record") /\ outcome' = [outcome EXCEPT ![w] = "applied"]
     \/ effects[target[w]] = 0 /\ Goto(w, "commit") /\ UNCHANGED outcome
  /\ UNCHANGED <<rows, target, seen, conflict, decision, todo, crashes>>

\* Fault: the domain tables keep no UNIQUE operationId.
UnrecordedAlways(o) == TRUE

\* The UNIQUE operationId of the domain table admits the insert.
Unrecorded(o) == effects[o] = 0

\* ... and ends with its commit, a ConflictException, or another error: the
\* unique violation when the effect was committed since the lookup.
ApplyEffect(w) ==
  /\ pc[w] = "commit"
  /\ LET o == target[w] IN
     \/ /\ Unrecorded(o)
        /\ effects' = [effects EXCEPT ![o] = @ + 1]
        /\ outcome' = [outcome EXCEPT ![w] = "applied"]
     \/ /\ outcome' \in {[outcome EXCEPT ![w] = r] : r \in {"conflict", "failed"}}
        /\ UNCHANGED effects
  /\ Goto(w, "record")
  /\ UNCHANGED <<status, attempt, openId, resolvedId, target, seen, conflict, decision, todo, crashes>>

\* Fault: the conflict row is left to a later request.
RecordWithoutConflict(w) ==
  /\ pc[w] = "record"
  /\ status' = [status EXCEPT ![target[w]] = outcome[w]]
  /\ Leave(w, outcome[w])
  /\ UNCHANGED <<attempt, effects, openId, resolvedId, crashes>>

\* applyAndRecord stores the outcome, whatever the row's status is by now.
Record(w) ==
  /\ pc[w] = "record"
  /\ status' = [status EXCEPT ![target[w]] = outcome[w]]
  /\ \/ outcome[w] = "conflict" /\ Goto(w, "open")
        /\ UNCHANGED <<target, seen, outcome, conflict, decision, todo>>
     \/ outcome[w] # "conflict" /\ Leave(w, outcome[w])
  /\ UNCHANGED <<attempt, effects, openId, resolvedId, crashes>>

\* Storing 'applied' can itself fail; the catch block then stores 'failed'.
RecordFails(w) ==
  /\ pc[w] = "record" /\ outcome[w] = "applied"
  /\ outcome' = [outcome EXCEPT ![w] = "failed"]
  /\ UNCHANGED <<rows, pc, target, seen, conflict, decision, todo, crashes>>

\* The upsert of the operation's open conflict.
OpenConflict(w) ==
  /\ pc[w] = "open"
  /\ openId' = [openId EXCEPT ![target[w]] = IF @ = 0 THEN resolvedId[target[w]] + 1 ELSE @]
  /\ Leave(w, "conflict")
  /\ UNCHANGED <<status, attempt, effects, resolvedId, crashes>>

-----------------------------------------------------------------------------
\* resolveConflict finds an open conflict of the caller.
Decide(w, o, d) ==
  /\ pc[w] = "idle" /\ w \in Requests
  /\ openId[o] # 0
  /\ target' = [target EXCEPT ![w] = o]
  /\ conflict' = [conflict EXCEPT ![w] = openId[o]]
  /\ decision' = [decision EXCEPT ![w] = d]
  /\ Goto(w, "resolve")
  /\ UNCHANGED <<rows, seen, outcome, todo, crashes>>

\* The conflict row becomes resolved, by its id; (operationId, status) is UNIQUE.
Resolve(w) ==
  /\ pc[w] = "resolve"
  /\ LET o == target[w] IN
     \/ /\ resolvedId[o] \in {0, conflict[w]}
        /\ resolvedId' = [resolvedId EXCEPT ![o] = conflict[w]]
        /\ openId' = [openId EXCEPT ![o] = IF @ = conflict[w] THEN 0 ELSE @]
        /\ Goto(w, "decided")
        /\ UNCHANGED <<target, seen, outcome, conflict, decision, todo>>
     \/ resolvedId[o] \notin {0, conflict[w]} /\ Leave(w, "error") /\ UNCHANGED <<openId, resolvedId>>
  /\ UNCHANGED <<status, attempt, effects, crashes>>

\* Then the operation, if it is still in conflict: a retry makes it pending and
\* applies it in this request, the other decisions fail it.
ActOnDecision(w) ==
  /\ pc[w] = "decided"
  /\ LET o     == target[w]
         retry == decision[w] = "retry"
     IN
     /\ status' = [status EXCEPT ![o] = IF @ # "conflict" THEN @ ELSE IF retry THEN "pending" ELSE "failed"]
     /\ attempt' = [attempt EXCEPT ![o] = IF status[o] = "conflict" /\ retry THEN "null" ELSE @]
     /\ \/ retry /\ Goto(w, "apply") /\ UNCHANGED <<target, seen, outcome, conflict, decision, todo>>
        \/ ~retry /\ Leave(w, "failed")
  /\ UNCHANGED <<effects, openId, resolvedId, crashes>>

-----------------------------------------------------------------------------
\* Time passes for an attempt.
Age(o) ==
  /\ attempt[o] \in {"fresh", "retryable"}
  /\ attempt' = [attempt EXCEPT ![o] = IF @ = "fresh" THEN "retryable" ELSE "recoverable"]
  /\ UNCHANGED <<status, effects, openId, resolvedId, workers, crashes>>

\* The API process dies: its requests go unanswered, its timer forgets.
Crash ==
  /\ crashes < MaxCrashes
  /\ crashes' = crashes + 1
  /\ \E w \in Workers : pc[w] \notin {"idle", "answered"}
  /\ pc' = [w \in Workers |->
              IF w \in Timers THEN "idle" ELSE IF pc[w] = "idle" THEN "idle" ELSE "answered"]
  /\ outcome' = [w \in Workers |->
              IF w \in Requests /\ pc[w] = "answered" THEN outcome[w] ELSE "none"]
  /\ target' = [w \in Workers |-> IF w \in Timers THEN NoOp ELSE target[w]]
  /\ seen' = [w \in Workers |-> "none"]
  /\ todo' = [w \in Workers |-> {}]
  /\ UNCHANGED <<rows, conflict, decision>>

\* A database call of w is lost and nothing catches the error: a request fails,
\* a timer's run ends.  (Errors of the domain handler are in ApplyEffect.)
CallFails(w) ==
  /\ crashes < MaxCrashes
  /\ crashes' = crashes + 1
  /\ pc[w] \in {"create", "claim", "record", "open", "resolve", "decided"}
  /\ Goto(w, IF w \in Timers THEN "idle" ELSE "answered")
  /\ outcome' = [outcome EXCEPT ![w] = IF w \in Timers THEN "none" ELSE "error"]
  /\ target' = [target EXCEPT ![w] = IF w \in Timers THEN NoOp ELSE @]
  /\ seen' = [seen EXCEPT ![w] = "none"]
  /\ todo' = [todo EXCEPT ![w] = {}]
  /\ UNCHANGED <<rows, conflict, decision>>

Step(w) ==
  \/ Create(w) \/ PickCandidate(w) \/ Claim(w)
  \/ LookUpEffect(w) \/ ApplyEffect(w) \/ Record(w) \/ OpenConflict(w)
  \/ Resolve(w) \/ ActOnDecision(w)

Next ==
  \/ \E w \in Workers : \/ Step(w) \/ Scan(w) \/ RecordFails(w) \/ CallFails(w)
                        \/ \E o \in Ops : Post(w, o)
                        \/ \E o \in Ops, d \in {"retry", "reject"} : Decide(w, o, d)
  \/ \E o \in Ops : Age(o)
  \/ Crash

Spec == Init /\ [][Next]_vars

\* A running handler goes on to its next call, time passes, and the timer fires
\* every minute; clients and operators owe the server nothing.
Fairness ==
  /\ \A w \in Workers : WF_vars(Step(w)) /\ WF_vars(Scan(w))
  /\ \A o \in Ops : WF_vars(Age(o))

FairSpec == Spec /\ Fairness

-----------------------------------------------------------------------------
Statuses == {"pending", "applied", "conflict", "failed"}

TypeOK ==
  /\ status \in [Ops -> Statuses \cup {"none"}]
  /\ attempt \in [Ops -> Ages]
  /\ effects \in [Ops -> Nat]
  /\ openId \in [Ops -> Nat] /\ resolvedId \in [Ops -> Nat]
  /\ pc \in [Workers -> {"idle", "create", "next", "claim", "apply", "commit", "record", "open",
                         "resolve", "decided", "answered"}]
  /\ target \in [Workers -> Ops \cup {NoOp}]
  /\ \A w \in Workers : pc[w] \notin {"idle", "next"} => target[w] \in Ops
  /\ seen \in [Workers -> Statuses \cup {"none"}]
  /\ outcome \in [Workers -> Statuses \cup {"none", "error"}]
  /\ conflict \in [Workers -> Nat]
  /\ decision \in [Workers -> {"none", "retry", "reject"}]
  /\ todo \in [Workers -> SUBSET Ops]
  /\ crashes \in Nat

\* However requests, recoveries, decisions and crashes overlap, the domain
\* effect of an operation happens at most once ...
EffectAtMostOnce == \A o \in Ops : effects[o] <= 1

\* ... and has happened before anybody is told 'applied', by the row or by the
\* answer of a request.
AppliedIsTrue ==
  /\ \A o \in Ops : status[o] = "applied" => effects[o] = 1
  /\ \A w \in Requests : pc[w] = "answered" /\ outcome[w] = "applied" => effects[target[w]] = 1

\* While no crash and no lost call intervenes, an operation in conflict can be decided
\* on: its open conflict is there, or a running handler is about to write it or
\* to carry out a decision on it.
ConflictsAreDecidable ==
  crashes = 0 => \A o \in Ops : status[o] = "conflict" =>
    openId[o] # 0 \/ \E w \in Workers : target[w] = o /\ pc[w] \in {"open", "decided"}

\* An operation in conflict becomes pending again only by the decision to retry.
RevivedOnlyByDecision ==
  [][\A o \in Ops : status[o] = "conflict" /\ status'[o] = "pending" =>
       \E w \in Requests : target[w] = o /\ pc[w] = "decided" /\ decision[w] = "retry"]_vars

(***************************************************************************)
(* The inductive strengthening of the invariants above.                    *)
(***************************************************************************)
\* A worker goes on to claim only what it saw neither applied nor in conflict.
SeenIsUnsettled == \A w \in Workers : seen[w] \in {"none", "pending", "failed"}

\* The outcome a worker is about to record is final, and 'applied' only if the
\* effect has been committed, by this worker or by an earlier one.
OutcomeIsTrue ==
  \A w \in Workers : pc[w] = "record" =>
    /\ outcome[w] \in {"applied", "conflict", "failed"}
    /\ outcome[w] = "applied" => effects[target[w]] = 1

\* Decisions are carried out by the requests of operators, candidates are
\* worked through by the timer.
RolesAreKept ==
  \A w \in Workers : /\ pc[w] \in {"resolve", "decided"} => w \in Requests
                     /\ pc[w] = "next" => w \in Timers

\* What is applied, recorded or decided on has been received.
WorkedOnIsReceived ==
  /\ \A o \in Ops : openId[o] # 0 => status[o] # "none"
  /\ \A w \in Workers :
       pc[w] \in {"apply", "commit", "record", "open", "resolve", "decided"} => status[target[w]] # "none"

IInv ==
  /\ TypeOK
  /\ WorkedOnIsReceived
  /\ SeenIsUnsettled
  /\ OutcomeIsTrue
  /\ RolesAreKept
  /\ EffectAtMostOnce
  /\ AppliedIsTrue
  /\ ConflictsAreDecidable

\* The clients a request has told 'applied'.
Told == {o \in Ops : \E w \in Requests : target[w] = o /\ pc[w] = "answered" /\ outcome[w] = "applied"}

\* The detailed protocol implements the promise: with its workers, claims, timers
\* and crashes hidden, every step is one that OperationOutcome allows, or none.
Outcome == INSTANCE OperationOutcome WITH standing <- status, told <- Told

ImplementsOutcome == Outcome!Spec

\* A pending operation does not stay pending, also when the process that was
\* applying it died: the timer replays it.
PendingIsResolved == \A o \in Ops : status[o] = "pending" ~> status[o] # "pending"

\* 'applied' is a terminal state.
AppliedIsFinal == [][\A o \in Ops : status[o] = "applied" => status'[o] = "applied"]_vars

\* No decision on an open conflict is refused.
DecisionsAreTaken ==
  \A w \in Requests : pc[w] = "answered" /\ decision[w] # "none" => outcome[w] # "error"
=============================================================================
