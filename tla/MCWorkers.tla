-------------------------------- MODULE MCWorkers --------------------------------
(***************************************************************************)
(* The three workers of the API process that go on by themselves, under    *)
(* the fairness of its event loop: the recovery timer of the mobile        *)
(* operations, the worker of the message queue and the backup scheduler.   *)
(* They share no row; a behaviour belongs to one of them, which part       *)
(* names, and leaves the variables that are only the others' at Unused.    *)
(***************************************************************************)
EXTENDS Integers, FiniteSets, TLC

CONSTANTS One, Two, MaxFaults, Unused

VARIABLES part, status, pc, faults

\* SyncOperations
CONSTANTS Ops, Timers, NoOp
VARIABLES attempt, effects, openId, resolvedId, target, seen, outcome, conflict, decision, todo

R == INSTANCE SyncOperations WITH Requests <- Two, MaxCrashes <- MaxFaults, crashes <- faults

RecoveryIdle ==
  /\ attempt = Unused /\ effects = Unused /\ openId = Unused /\ resolvedId = Unused /\ target = Unused
  /\ seen = Unused /\ outcome = Unused /\ conflict = Unused /\ decision = Unused /\ todo = Unused

recovery == <<attempt, effects, openId, resolvedId, target, seen, outcome, conflict, decision, todo>>

\* InvoiceDelivery
CONSTANTS Invoices, NoCode, MaxAttempts
VARIABLES link, borne, expired, kind, inv, configured, queue, attempts, saved, left, done, step, sent, unsure

D == INSTANCE InvoiceDelivery WITH Requests <- Two

DeliveryIdle ==
  /\ link = Unused /\ borne = Unused /\ expired = Unused /\ kind = Unused /\ inv = Unused
  /\ configured = Unused /\ queue = Unused /\ attempts = Unused /\ saved = Unused /\ left = Unused /\ done = Unused
  /\ step = Unused /\ sent = Unused /\ unsure = Unused

delivery == <<link, borne, expired, kind, inv, configured, queue,
              attempts, saved, left, done, step, sent, unsure>>

\* One request issues the invoice, before which the others are refused; a message
\* about no invoice concerns none of them, and has the channels for itself.
Issuing ==
  \/ \A r \in One : kind[r] = "create" /\ \A o \in Two \ One : kind[o] # "broadcast"
  \/ \A r \in One : kind[r] = "broadcast" /\ \A o \in Two \ One : kind[o] = "void"

\* BackupScheduler
CONSTANTS Interval, MaxClock
ASSUME IntervalAssumption == Interval \in Nat
VARIABLES config, clock, ticking, running, what, copy, failed, overlapped, leaked

B == INSTANCE BackupScheduler WITH Requests <- One

BackupIdle ==
  /\ config = Unused /\ clock = Unused /\ ticking = Unused /\ running = Unused /\ what = Unused
  /\ copy = Unused /\ failed = Unused /\ overlapped = Unused /\ leaked = Unused

backup == <<config, clock, ticking, running, what, copy, failed, overlapped, leaked>>

-----------------------------------------------------------------------------
Alone(p) ==
  /\ part = p
  /\ p = "recovery" \/ RecoveryIdle
  /\ p = "delivery" \/ DeliveryIdle
  /\ IF p = "backup" THEN status = Unused ELSE BackupIdle

Init ==
  \/ R!Init /\ Alone("recovery")
  \/ D!Init /\ Issuing /\ Alone("delivery")
  \/ B!Init /\ Alone("backup")

\* A step of the part p leaves the other variables alone.
Stay(p) ==
  /\ UNCHANGED part
  /\ IF p = "recovery" THEN TRUE ELSE UNCHANGED recovery
  /\ IF p = "delivery" THEN TRUE ELSE UNCHANGED delivery
  /\ IF p = "backup" THEN UNCHANGED status ELSE UNCHANGED backup

Next ==
  \/ part = "recovery" /\ R!Next /\ Stay("recovery")
  \/ part = "delivery" /\ D!Next /\ Stay("delivery")
  \/ part = "backup" /\ B!Next /\ Stay("backup")

vars == <<part, status, pc, faults, recovery, delivery, backup>>

\* The fairness of each part, as its module states it.
Fairness ==
  /\ \A w \in R!Workers :
       /\ WF_vars(part = "recovery" /\ R!Step(w) /\ Stay("recovery"))
       /\ WF_vars(part = "recovery" /\ R!Scan(w) /\ Stay("recovery"))
  /\ \A o \in Ops : WF_vars(part = "recovery" /\ R!Age(o) /\ Stay("recovery"))
  /\ \A r \in Two : WF_vars(part = "delivery" /\ D!Work(r) /\ Stay("delivery"))
  /\ \A a \in B!Activities :
       /\ WF_vars(part = "backup" /\ B!Step(a) /\ Stay("backup"))
       /\ SF_vars(part = "backup" /\ a = "timer" /\ B!BeginTick(a) /\ Stay("backup"))

Spec == Init /\ [][Next]_vars /\ Fairness

-----------------------------------------------------------------------------
\* The properties of the parts, each explained in its module.
DuplicateOnlyAfterLostAnswer == part = "delivery" => D!DuplicateOnlyAfterLostAnswer

RetiredForGood == [][part = "delivery" => D!StaysRetired]_vars
SavedSettingsHold == [][part = "backup" => B!KeepsSaved]_vars

PendingIsResolved ==
  \A o \in Ops : (part = "recovery" /\ status[o] = "pending") ~> (part # "recovery" \/ status[o] # "pending")
JobsEnd == \A r \in Two : (part = "delivery" /\ D!Queued(r)) ~> (part # "delivery" \/ ~D!Queued(r))
DueIsArchived == (part = "backup" /\ B!Overdue) ~> (part # "backup" \/ ~B!Overdue \/ leaked)
=============================================================================
