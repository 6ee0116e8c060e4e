---------------------------- MODULE BackupScheduler ----------------------------
(***************************************************************************)
(* GithubBackupService: the timer that checks whether an archive is due,   *)
(* the panel's "check now", "run now" and "save settings", and the one     *)
(* settings row they all read and write back as a whole.                   *)
(*                                                                         *)
(* The process is single-threaded: a step is what runs between two awaits, *)
(* so the flags ticking and running are tested and set in one step.  Any   *)
(* database call may fail, and the process may die and restart.            *)
(***************************************************************************)
EXTENDS Integers, FiniteSets

CONSTANTS
  Requests,   \* the requests of the panel
  Interval,   \* intervalMinutes, in ticks of the clock
  MaxClock,   \* bound on the clock
  MaxFaults   \* bound on failing database calls and crashes

VARIABLES
  config,     \* the stored settings: enabled with a token, the save they stem from, lastRunAt
  clock,      \* the time
  ticking,    \* the flags of the service
  running,
  what,       \* what a request asks
  pc,         \* where each activity is
  copy,       \* the settings it has read
  failed,     \* its archive has failed
  overlapped, \* the last save ran into another activity
  leaked,     \* the insert of a job row has failed with the flag running set
  faults      \* faults so far

vars == <<config, clock, ticking, running, what, pc, copy, failed, overlapped, leaked, faults>>

\* The timer, the boot that stores its diagnostics, and the requests.
Activities == {"timer", "boot"} \cup Requests
Asks == {"check", "run", "save"}
Saves == {"none"} \cup Requests

Config == [on : BOOLEAN, save : Saves, lastRun : Nat]

\* What an activity holds before it has read the settings and after it has ended.
Nothing == [on |-> FALSE, save |-> "none", lastRun |-> 0]

Init ==
  /\ config \in [on : BOOLEAN, save : {"none"}, lastRun : {0}]
  /\ clock = Interval
  /\ ticking = FALSE /\ running = FALSE
  /\ what \in [Requests -> Asks]
  /\ pc = [a \in Activities |-> IF a = "boot" THEN "merge" ELSE "idle"]
  /\ copy = [a \in Activities |-> Nothing]
  /\ failed = [a \in Activities |-> FALSE]
  /\ overlapped = FALSE /\ leaked = FALSE
  /\ faults = 0

Goto(a, p) == pc' = [pc EXCEPT ![a] = p]
Ticks(a) == a = "timer" \/ (a \in Requests /\ what[a] = "check")

\* dueAt: never run, or the interval is over.
Due(cfg) == cfg.lastRun + Interval <= clock

\* The end of an activity: the timer is armed anew, a tick gives up its flag.
Leave(a) ==
  /\ Goto(a, IF a = "timer" THEN "idle" ELSE "done")
  /\ ticking' = (ticking /\ ~Ticks(a))
  /\ copy' = [copy EXCEPT ![a] = Nothing]
  /\ failed' = [failed EXCEPT ![a] = FALSE]

Fault == faults < MaxFaults /\ faults' = faults + 1

-----------------------------------------------------------------------------
\* runTickLoop and tickNow: one tick at a time; the busy answer changes nothing.
BeginTick(a) ==
  /\ pc[a] = "idle" /\ Ticks(a) /\ ~ticking
  /\ ticking' = TRUE
  /\ Goto(a, "config")
  /\ UNCHANGED <<config, clock, running, what, copy, failed, overlapped, leaked, faults>>

\* runManual and saveConfig.
BeginRequest(r) ==
  /\ pc[r] = "idle" /\ what[r] \in {"run", "save"}
  /\ Goto(r, "config")
  /\ UNCHANGED <<config, clock, ticking, running, what, copy, failed, overlapped, leaked, faults>>

\* getConfig fails: the tick ends, a request is refused.
ConfigUnreadable(a) ==
  /\ pc[a] = "config" /\ Fault
  /\ Leave(a)
  /\ UNCHANGED <<config, clock, running, what, overlapped, leaked>>

\* No archive is being made.
Idle == ~running

Keeps(a) ==
  /\ copy' = [copy EXCEPT ![a] = config]
  /\ UNCHANGED <<failed, ticking>>

\* The settings are read and, in the same step, the decision is taken: an
\* archive, a skip whose reason is stored, a refusal, or the save.  A manual run
\* needs a token, which a schedule that is off may have or lack.
ReadConfig(a) ==
  /\ pc[a] = "config"
  /\ LET archive == Idle /\ IF Ticks(a) THEN config.on /\ Due(config) ELSE what[a] = "run" IN
     \/ /\ archive
        /\ running' = TRUE
        /\ Keeps(a) /\ Goto(a, "insert")
     \/ /\ Ticks(a) /\ ~archive
        /\ Keeps(a) /\ Goto(a, "merge")
        /\ UNCHANGED running
     \/ /\ ~Ticks(a) /\ what[a] = "run" /\ (running \/ ~config.on)
        /\ Leave(a)
        /\ UNCHANGED running
     \/ /\ ~Ticks(a) /\ what[a] = "save"
        /\ Keeps(a) /\ Goto(a, "save")
        /\ UNCHANGED running
  /\ UNCHANGED <<config, clock, what, overlapped, leaked, faults>>

\* saveConfig stores the operator's input over the settings it has read.
Save(a, on) ==
  /\ pc[a] = "save"
  /\ config' = [copy[a] EXCEPT !.on = on, !.save = a]
  /\ overlapped' =
       \E o \in Activities \ {a} : pc[o] \in {"insert", "archive", "record", "close", "write", "save"}
  /\ Goto(a, "merge")
  /\ UNCHANGED <<clock, ticking, running, what, copy, failed, leaked, faults>>

SaveFails(a) ==
  /\ pc[a] = "save" /\ Fault
  /\ Leave(a)
  /\ UNCHANGED <<config, clock, running, what, overlapped, leaked>>

-----------------------------------------------------------------------------
\* backupJob.create, before the try.
InsertJob(a) ==
  /\ pc[a] = "insert"
  /\ Goto(a, "archive")
  /\ UNCHANGED <<config, clock, ticking, running, what, copy, failed, overlapped, leaked, faults>>

\* The end of a failed archive: a tick stores the reason, a request is refused.
Threw(a) ==
  \/ Ticks(a) /\ Goto(a, "merge") /\ UNCHANGED <<ticking, copy, failed>>
  \/ ~Ticks(a) /\ Leave(a)

\* It fails: nothing takes back the flag.
InsertJobFails(a) ==
  /\ pc[a] = "insert" /\ Fault
  /\ leaked' = TRUE
  /\ Threw(a)
  /\ UNCHANGED <<config, clock, running, what, overlapped>>

\* The archive is built and pushed, or either fails.
Archive(a) ==
  /\ pc[a] = "archive"
  /\ copy' = [copy EXCEPT ![a].lastRun = clock]
  /\ failed' \in {[failed EXCEPT ![a] = FALSE], [failed EXCEPT ![a] = TRUE]}
  /\ Goto(a, "record")
  /\ UNCHANGED <<config, clock, ticking, running, what, overlapped, leaked, faults>>

\* Fault: the settings are stored without those of the operator.
OutcomeAfresh(a) == [copy[a] EXCEPT !.save = "none"]

\* What is stored after a run: the settings read before it, with its outcome.
Outcome(a) == copy[a]

Record(a) ==
  /\ pc[a] = "record"
  /\ config' = Outcome(a)
  /\ Goto(a, "close")
  /\ UNCHANGED <<clock, ticking, running, what, copy, failed, overlapped, leaked, faults>>

\* Fault: the flag is given up only by a successful run.
ReleaseIfDone(a) == running' = failed[a]

\* finally: running = false.
Release(a) == running' = FALSE

\* backupJob.update.  A tick goes on to store its diagnostics, whether this was
\* a success or the exception of a failure.
CloseJob(a) ==
  /\ pc[a] = "close"
  /\ Release(a)
  /\ Threw(a)
  /\ UNCHANGED <<config, clock, what, overlapped, leaked, faults>>

\* Either write fails: in the try the run now counts as failed, in the catch
\* the exception leaves it.
WriteFails(a) ==
  /\ pc[a] \in {"record", "close"} /\ Fault
  /\ \/ /\ ~failed[a]
        /\ failed' = [failed EXCEPT ![a] = TRUE]
        /\ copy' = [copy EXCEPT ![a].lastRun = clock]
        /\ Goto(a, "record")
        /\ UNCHANGED <<running, ticking>>
     \/ /\ failed[a]
        /\ Release(a) /\ Threw(a)
  /\ UNCHANGED <<config, clock, what, overlapped, leaked>>

\* persistDiagnostics reads the settings ...
Merge(a) ==
  /\ pc[a] = "merge"
  /\ copy' = [copy EXCEPT ![a] = config]
  /\ Goto(a, "write")
  /\ UNCHANGED <<config, clock, ticking, running, what, failed, overlapped, leaked, faults>>

\* ... and writes them back with its diagnostics, by which nothing is decided.
Write(a) ==
  /\ pc[a] = "write"
  /\ config' = copy[a]
  /\ Leave(a)
  /\ UNCHANGED <<clock, running, what, overlapped, leaked, faults>>

MergeFails(a) ==
  /\ pc[a] \in {"merge", "write"} /\ Fault
  /\ Leave(a)
  /\ UNCHANGED <<config, clock, running, what, overlapped, leaked>>

-----------------------------------------------------------------------------
\* The process dies and boots again: onModuleInit arms the timer.
Restart ==
  /\ Fault
  /\ ticking' = FALSE /\ running' = FALSE /\ leaked' = FALSE
  /\ pc' = [a \in Activities |->
       CASE a = "timer" -> "idle" [] a = "boot" -> "merge"
         [] OTHER -> IF pc[a] = "idle" THEN "idle" ELSE "done"]
  /\ copy' = [a \in Activities |-> Nothing]
  /\ failed' = [a \in Activities |-> FALSE]
  /\ UNCHANGED <<config, clock, what, overlapped>>

TimePasses ==
  /\ clock < MaxClock
  /\ clock' = clock + 1
  /\ UNCHANGED <<config, ticking, running, what, pc, copy, failed, overlapped, leaked, faults>>

Step(a) ==
  \/ BeginTick(a) \/ ReadConfig(a) \/ InsertJob(a) \/ Archive(a) \/ Record(a) \/ CloseJob(a)
  \/ Merge(a) \/ Write(a) \/ \E on \in BOOLEAN : Save(a, on)

Next ==
  \/ \E a \in Activities :
       \/ Step(a)
       \/ ConfigUnreadable(a) \/ SaveFails(a) \/ InsertJobFails(a) \/ WriteFails(a) \/ MergeFails(a)
  \/ \E r \in Requests : BeginRequest(r)
  \/ Restart
  \/ TimePasses

Spec == Init /\ [][Next]_vars

\* setTimeout fires and every await ends.  An activity that asks for the flag
\* ticking may find it taken each time it asks, hence the strong fairness of
\* the timer, which asks every 30 seconds.
Fairness == \A a \in Activities : WF_vars(Step(a)) /\ SF_vars(a = "timer" /\ BeginTick(a))

FairSpec == Spec /\ Fairness

-----------------------------------------------------------------------------
TypeOK ==
  /\ config \in Config
  /\ clock \in Nat
  /\ ticking \in BOOLEAN /\ running \in BOOLEAN
  /\ what \in [Requests -> Asks]
  /\ pc \in [Activities ->
       {"idle", "config", "save", "insert", "archive", "record", "close", "merge", "write", "done"}]
  /\ copy \in [Activities -> Config]
  /\ failed \in [Activities -> BOOLEAN]
  /\ overlapped \in BOOLEAN /\ leaked \in BOOLEAN
  /\ faults \in Nat

Archiving == {a \in Activities : pc[a] \in {"insert", "archive", "record", "close"}}

\* The timer, a check and a manual run never make two archives at once, and the
\* two ticks never overlap.
OneArchiveAtATime ==
  /\ Cardinality(Archiving) <= 1
  /\ Archiving # {} => running
  /\ Cardinality({a \in Activities : Ticks(a) /\ pc[a] \notin {"idle", "done"}}) <= 1

\* The save that committed last, if it ran into nobody, is what is stored,
\* however many checks, archives, failures and restarts follow.
KeepsSaved ==
  ~overlapped /\ ~overlapped' /\ config.save # "none" =>
    \/ config'.save = config.save /\ config'.on = config.on
    \/ \E a \in Activities, on \in BOOLEAN : Save(a, on)

SavedSettingsHold == [][KeepsSaved]_vars

\* What persistDiagnostics says: "without touching the user's settings".  Here it
\* writes back others than it finds.
DiagnosticsTouch ==
  \E a \in Activities : Write(a) /\ <<config'.save, config'.on>> # <<config.save, config.on>>

\* What scheduleNext says: "a single bad tick can never stop the schedule for
\* good".  Here the flag is set and no archive is being made that would take it
\* back, so every tick to come is "busy".
Stopped == running /\ Archiving = {}

Overdue == config.on /\ Due(config)

\* An archive that is due is made, or tried and counted as failed, whatever database
\* call has failed before, other than the insert of a job row: that one leaves the
\* flag set, and every later check is "busy" until the process restarts.
DueIsArchived == Overdue ~> (~Overdue \/ leaked)
=============================================================================
