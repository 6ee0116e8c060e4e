----------------------------- MODULE MCWorkers_proofs -----------------------------
(***************************************************************************)
(* Proofs about the worker of the message queue and the backup scheduler,  *)
(* each by itself and as a part of MCWorkers: for every set of invoices    *)
(* and requests, any number of attempts, faults and operators' retries,    *)
(* any interval and any clock.  D and B are their modules.                 *)
(***************************************************************************)
EXTENDS MCWorkers, TLAPS


\* The types of what the properties are about.
JobsTyped ==
  /\ saved \in [Two -> SUBSET D!Channels]
  /\ left \in [Two -> SUBSET D!Channels]
  /\ done \in [Two -> SUBSET D!Channels]
  /\ queue \in [Two -> {"none", "waiting", "active", "completed", "failed"}]
  /\ step \in [Two -> {"idle", "send", "save"}]
  /\ sent \in [Two -> [D!Channels -> Nat]]
  /\ unsure \in [Two -> [D!Channels -> Int]]

LinksTyped ==
  /\ status \in [Invoices -> {"none", "issued", "voided"}]
  /\ link \in [Invoices -> Two \cup {NoCode}]
  /\ borne \in [Invoices -> SUBSET Two]
  /\ expired \in [Invoices -> BOOLEAN]
  /\ inv \in [Two -> Invoices]
  /\ pc \in [Two -> {"idle", "commit", "enqueue", "answered"}]

\* A worker knows what the job has stored and the one message it has not: it
\* serves no channel a second time, and the message that it is about to store is
\* among those the job does not know of.
AttemptsFollowTheJob ==
  \A r \in Two : queue[r] = "active" =>
    /\ left[r] \cap saved[r] = {}
    /\ step[r] = "send" => done[r] = saved[r]
    /\ step[r] = "save" =>
         /\ left[r] # {}
         /\ done[r] = saved[r] \cup {D!NextChannel(left[r])}

JobInv == JobsTyped /\ AttemptsFollowTheJob /\ D!DuplicateOnlyAfterLostAnswer

\* A request that has not committed has given no invoice its code.
CodesAreNew ==
  \A r \in Two : pc[r] \in {"idle", "commit"} => \A i \in Invoices : r \notin borne[i]

LinkInv == LinksTyped /\ CodesAreNew

-----------------------------------------------------------------------------
LEMMA NextChannelIsOne ==
  ASSUME NEW cs \in SUBSET D!Channels, cs # {}
  PROVE  D!NextChannel(cs) \in cs
BY DEF D!NextChannel, D!Channels

LEMMA JobsKept ==
  ASSUME JobInv, UNCHANGED D!jobs
  PROVE  JobInv'
BY DEF D!jobs, JobInv, JobsTyped, AttemptsFollowTheJob, D!DuplicateOnlyAfterLostAnswer

LEMMA QueueStep ==
  ASSUME JobInv, NEW r \in Two, D!Enqueue(r) \/ D!Take(r) \/ D!Complete(r) \/ D!RetryFailed(r)
  PROVE  JobInv'
<1>1. UNCHANGED <<saved, sent, unsure>>
  BY DEF D!Enqueue, D!Take, D!Complete, D!RetryFailed
<1>2. D!DuplicateOnlyAfterLostAnswer'
  BY <1>1 DEF JobInv, D!DuplicateOnlyAfterLostAnswer
<1>3. JobsTyped' /\ AttemptsFollowTheJob'
  <2>1. CASE D!Take(r)
    <3>1. D!ChannelsOf(r) \subseteq D!Channels
      BY DEF D!ChannelsOf, D!Channels
    <3> QED BY <2>1, <3>1 DEF JobInv, JobsTyped, AttemptsFollowTheJob, D!Take
  <2>2. CASE D!Enqueue(r) \/ D!RetryFailed(r) \/ D!Complete(r)
    BY <2>2 DEF JobInv, JobsTyped, AttemptsFollowTheJob, D!Enqueue, D!RetryFailed, D!Complete
  <2> QED BY <2>1, <2>2
<1> QED BY <1>2, <1>3 DEF JobInv

LEMMA DeliverStep ==
  ASSUME JobInv, NEW r \in Two, D!Deliver(r)
  PROVE  JobInv'
<1> DEFINE c == D!NextChannel(left[r])
<1>1. c \in left[r] /\ c \in D!Channels /\ c \notin saved[r] /\ done[r] = saved[r]
  BY NextChannelIsOne DEF JobInv, JobsTyped, AttemptsFollowTheJob, D!Deliver, D!Sending
<1> HIDE DEF c
<1>2. /\ sent' = [sent EXCEPT ![r][c] = @ + 1]
      /\ unsure' = [unsure EXCEPT ![r][c] = @ + 1]
      /\ done' = [done EXCEPT ![r] = @ \cup {c}]
      /\ step' = [step EXCEPT ![r] = "save"]
      /\ UNCHANGED <<queue, saved, left>>
  BY DEF D!Deliver, c
<1>3. JobsTyped'
  BY <1>1, <1>2 DEF JobInv, JobsTyped
<1>4. AttemptsFollowTheJob'
  BY <1>1, <1>2 DEF JobInv, JobsTyped, AttemptsFollowTheJob, c
<1>5. D!DuplicateOnlyAfterLostAnswer'
  BY <1>1, <1>2 DEF JobInv, JobsTyped, D!DuplicateOnlyAfterLostAnswer
<1> QED BY <1>3, <1>4, <1>5 DEF JobInv

\* The job learns of the message and may no longer count it as unsure.
LEMMA StoreJobStep ==
  ASSUME JobInv, NEW r \in Two, D!Save(r)
  PROVE  JobInv'
<1> DEFINE c == D!NextChannel(left[r])
<1>1. c \in left[r] /\ c \in D!Channels /\ c \notin saved[r] /\ done[r] = saved[r] \cup {c}
  BY NextChannelIsOne DEF JobInv, JobsTyped, AttemptsFollowTheJob, D!Save
<1> HIDE DEF c
<1>2. /\ saved' = [saved EXCEPT ![r] = done[r]]
      /\ unsure' = [unsure EXCEPT ![r][c] = @ - 1]
      /\ left' = [left EXCEPT ![r] = @ \ {c}]
      /\ step' = [step EXCEPT ![r] = "send"]
      /\ UNCHANGED <<queue, done, sent>>
  BY DEF D!Save, c
<1>3. JobsTyped'
  BY <1>1, <1>2 DEF JobInv, JobsTyped
<1>4. AttemptsFollowTheJob'
  BY <1>1, <1>2 DEF JobInv, JobsTyped, AttemptsFollowTheJob
<1>5. D!DuplicateOnlyAfterLostAnswer'
  BY <1>1, <1>2 DEF JobInv, JobsTyped, D!DuplicateOnlyAfterLostAnswer
<1> QED BY <1>3, <1>4, <1>5 DEF JobInv

\* What is unsure when an attempt ends stays so: it is what may be sent again.
LEMMA ThrowStep ==
  ASSUME JobInv, NEW r \in Two, D!Throw(r), UNCHANGED <<saved, sent, unsure>>
  PROVE  JobInv'
<1>1. JobsTyped'
  BY DEF JobInv, JobsTyped, D!Throw
<1>2. AttemptsFollowTheJob'
  BY DEF JobInv, JobsTyped, AttemptsFollowTheJob, D!Throw
<1>3. D!DuplicateOnlyAfterLostAnswer'
  BY DEF JobInv, D!DuplicateOnlyAfterLostAnswer
<1> QED BY <1>1, <1>2, <1>3 DEF JobInv

LEMMA FailureStep ==
  ASSUME JobInv, NEW r \in Two, D!Failure(r)
  PROVE  JobInv'
<1> DEFINE c == D!NextChannel(left[r])
<1>1. c \in left[r] /\ c \in D!Channels
  BY NextChannelIsOne DEF JobInv, JobsTyped, D!Failure, D!Sending
<1> HIDE DEF c
<1>2. \/ UNCHANGED <<sent, unsure>>
      \/ sent' = [sent EXCEPT ![r][c] = @ + 1] /\ unsure' = [unsure EXCEPT ![r][c] = @ + 1]
  BY DEF D!Failure, c
<1>3. \/ left' = [left EXCEPT ![r] = @ \ {c}] /\ UNCHANGED <<queue, done, step>>
      \/ D!Throw(r)
  BY DEF D!Failure, c
<1>4. saved' = saved /\ step[r] = "send"
  BY DEF D!Failure, D!Sending
<1>5. /\ sent' \in [Two -> [D!Channels -> Nat]] /\ unsure' \in [Two -> [D!Channels -> Int]]
      /\ D!DuplicateOnlyAfterLostAnswer'
  <2>1. CASE UNCHANGED <<sent, unsure>>
    BY <2>1, <1>4 DEF JobInv, JobsTyped, D!DuplicateOnlyAfterLostAnswer
  <2>2. CASE sent' = [sent EXCEPT ![r][c] = @ + 1] /\ unsure' = [unsure EXCEPT ![r][c] = @ + 1]
    BY <2>2, <1>1, <1>4 DEF JobInv, JobsTyped, D!DuplicateOnlyAfterLostAnswer
  <2> QED BY <1>2, <2>1, <2>2
<1>6. JobsTyped' /\ AttemptsFollowTheJob'
  <2>1. CASE left' = [left EXCEPT ![r] = @ \ {c}] /\ UNCHANGED <<queue, done, step>>
    BY <2>1, <1>4, <1>5 DEF JobInv, JobsTyped, AttemptsFollowTheJob
  <2>2. CASE D!Throw(r)
    BY <2>2, <1>4, <1>5 DEF JobInv, JobsTyped, AttemptsFollowTheJob, D!Throw
  <2> QED BY <1>3, <2>1, <2>2
<1> QED BY <1>5, <1>6 DEF JobInv

LEMMA QueueCrashStep ==
  ASSUME JobInv, D!Crash
  PROVE  JobInv'
<1>1. JobsTyped'
  BY DEF JobInv, JobsTyped, D!Crash
<1>2. AttemptsFollowTheJob'
  BY DEF JobInv, JobsTyped, AttemptsFollowTheJob, D!Crash
<1>3. D!DuplicateOnlyAfterLostAnswer'
  BY DEF JobInv, D!DuplicateOnlyAfterLostAnswer, D!Crash
<1> QED BY <1>1, <1>2, <1>3 DEF JobInv

LEMMA InitJobInv == D!Init => JobInv
BY DEF D!Init, JobInv, JobsTyped, AttemptsFollowTheJob, D!DuplicateOnlyAfterLostAnswer

LEMMA JobStep ==
  ASSUME JobInv, [D!Next]_(D!vars)
  PROVE  JobInv'
<1>1. CASE UNCHANGED D!jobs
  BY <1>1, JobsKept
<1>2. ASSUME NEW r \in Two, D!Work(r) \/ D!RetryFailed(r) \/ D!Enqueue(r)
      PROVE  JobInv'
  <2>1. CASE D!SaveFails(r)
    BY <2>1, ThrowStep DEF D!SaveFails
  <2> QED BY <1>2, <2>1, QueueStep, DeliverStep, StoreJobStep, FailureStep DEF D!Work
<1>3. ASSUME NEW r \in Two, D!Handle(r), ~D!Enqueue(r)
      PROVE  UNCHANGED D!jobs
  BY <1>3 DEF D!Handle, D!BeginCreate, D!BeginResend, D!BeginRotate, D!BeginVoid, D!BeginBroadcast, D!Arrive,
       D!CommitCreate, D!CommitResend, D!CommitRotate, D!CommitVoid, D!SkipMessage
<1>4. CASE D!Crash
  BY <1>4, QueueCrashStep
<1> QED BY <1>1, <1>2, <1>3, <1>4 DEF D!Next, D!vars, D!Expire, D!Configure

LEMMA InitLinkInv == D!Init => LinkInv
BY DEF D!Init, LinkInv, LinksTyped, CodesAreNew

-----------------------------------------------------------------------------
\* What a transaction of the invoice service does to links: it voids, or gives the
\* invoice a code that it never bore.
LEMMA LinksKept ==
  ASSUME LinkInv, UNCHANGED <<D!invoices, inv>>,
         pc' \in [Two -> {"idle", "commit", "enqueue", "answered"}],
         \A r \in Two : pc'[r] \in {"idle", "commit"} => pc[r] \in {"idle", "commit"}
  PROVE  LinkInv' /\ D!StaysRetired
BY DEF D!invoices, LinkInv, LinksTyped, CodesAreNew, D!StaysRetired, D!Shows

LEMMA ReplaceStep ==
  ASSUME LinkInv, NEW r \in Two, D!CommitResend(r) \/ D!CommitRotate(r)
  PROVE  LinkInv' /\ D!StaysRetired
<1>1. /\ pc[r] = "commit" /\ D!ReplaceLink(r) /\ UNCHANGED <<status, inv>>
      /\ pc' \in [Two -> {"idle", "commit", "enqueue", "answered"}]
      /\ pc'[r] \notin {"idle", "commit"} /\ \A o \in Two \ {r} : pc'[o] = pc[o]
  BY DEF LinkInv, LinksTyped, D!CommitResend, D!CommitRotate, D!Goto
<1>2. LinksTyped'
  BY <1>1 DEF LinkInv, LinksTyped, D!ReplaceLink
<1>3. CodesAreNew'
  BY <1>1 DEF LinkInv, LinksTyped, CodesAreNew, D!ReplaceLink
<1>4. D!StaysRetired
  BY <1>1 DEF LinkInv, LinksTyped, CodesAreNew, D!ReplaceLink, D!StaysRetired, D!Shows
<1> QED BY <1>2, <1>3, <1>4 DEF LinkInv

LEMMA CreateStep ==
  ASSUME LinkInv, NEW r \in Two, D!CommitCreate(r)
  PROVE  LinkInv' /\ D!StaysRetired
<1>0. /\ pc[r] = "commit" /\ UNCHANGED <<expired, inv>>
      /\ pc' \in [Two -> {"idle", "commit", "enqueue", "answered"}]
      /\ pc'[r] \notin {"idle", "commit"} /\ \A o \in Two \ {r} : pc'[o] = pc[o]
  BY DEF LinkInv, LinksTyped, D!CommitCreate, D!Goto
<1>1. CASE status[inv[r]] = "none"
  <2>1. /\ status' = [status EXCEPT ![inv[r]] = "issued"]
        /\ link' = [link EXCEPT ![inv[r]] = r]
        /\ borne' = [borne EXCEPT ![inv[r]] = @ \cup {r}]
    BY <1>1 DEF D!CommitCreate
  <2>2. LinksTyped' /\ CodesAreNew'
    BY <1>0, <2>1 DEF LinkInv, LinksTyped, CodesAreNew
  <2>3. D!StaysRetired
    BY <1>0, <2>1 DEF LinkInv, LinksTyped, CodesAreNew, D!StaysRetired, D!Shows
  <2> QED BY <2>2, <2>3 DEF LinkInv
<1>2. CASE status[inv[r]] # "none"
  <2>1. UNCHANGED <<D!invoices, inv>>
    BY <1>0, <1>2 DEF D!CommitCreate, D!invoices
  <2> QED BY <1>0, <2>1, LinksKept
<1> QED BY <1>1, <1>2

LEMMA VoidStep ==
  ASSUME LinkInv, (\E r \in Two : D!CommitVoid(r)) \/ \E i \in Invoices : D!Expire(i)
  PROVE  LinkInv' /\ D!StaysRetired
<1>1. ASSUME NEW r \in Two, D!CommitVoid(r) PROVE LinkInv' /\ D!StaysRetired
  BY <1>1 DEF D!CommitVoid, D!Goto, LinkInv, LinksTyped, CodesAreNew, D!StaysRetired, D!Shows
<1>2. ASSUME NEW i \in Invoices, D!Expire(i) PROVE LinkInv' /\ D!StaysRetired
  BY <1>2 DEF D!Expire, D!handlers, LinkInv, LinksTyped, CodesAreNew, D!StaysRetired, D!Shows
<1> QED BY <1>1, <1>2

LEMMA LinkStep ==
  ASSUME LinkInv, [D!Next]_(D!vars)
  PROVE  LinkInv' /\ D!StaysRetired
<1>1. CASE UNCHANGED <<D!invoices, D!handlers>>
  BY <1>1, LinksKept DEF D!handlers, LinkInv, LinksTyped
<1>2. ASSUME NEW r \in Two,
             \/ D!BeginCreate(r) \/ D!BeginResend(r) \/ D!BeginRotate(r) \/ D!BeginVoid(r) \/ D!BeginBroadcast(r)
             \/ D!Enqueue(r) \/ D!SkipMessage(r)
      PROVE  LinkInv' /\ D!StaysRetired
  <2>1. /\ UNCHANGED <<D!invoices, inv>>
        /\ pc' \in [Two -> {"idle", "commit", "enqueue", "answered"}]
        /\ \A o \in Two : pc'[o] \in {"idle", "commit"} => pc[o] \in {"idle", "commit"}
    BY <1>2 DEF D!BeginCreate, D!BeginResend, D!BeginRotate, D!BeginVoid, D!BeginBroadcast, D!Arrive,
         D!Enqueue, D!SkipMessage, D!Goto, LinkInv, LinksTyped
  <2> QED BY <2>1, LinksKept
<1>3. CASE D!Crash
  <2>1. /\ UNCHANGED <<D!invoices, inv>>
        /\ pc' \in [Two -> {"idle", "commit", "enqueue", "answered"}]
        /\ \A o \in Two : pc'[o] \in {"idle", "commit"} => pc[o] \in {"idle", "commit"}
    BY <1>3 DEF D!Crash
  <2> QED BY <2>1, LinksKept
<1>4. ASSUME NEW r \in Two, D!Work(r) \/ D!RetryFailed(r)
      PROVE  UNCHANGED <<D!invoices, D!handlers>>
  BY <1>4 DEF D!Work, D!Take, D!Deliver, D!Save, D!Failure, D!SaveFails, D!Complete, D!RetryFailed
<1>5. ASSUME NEW c \in D!Channels, D!Configure(c)
      PROVE  UNCHANGED <<D!invoices, D!handlers>>
  BY <1>5 DEF D!Configure
<1>6. ASSUME NEW r \in Two, D!Handle(r) PROVE LinkInv' /\ D!StaysRetired
  BY <1>2, <1>6, ReplaceStep, CreateStep, VoidStep DEF D!Handle
<1>7. CASE D!Next
  BY <1>1, <1>3, <1>4, <1>5, <1>6, <1>7, VoidStep DEF D!Next
<1>8. CASE UNCHANGED D!vars
  BY <1>1, <1>8 DEF D!vars
<1> QED BY <1>7, <1>8

-----------------------------------------------------------------------------

\* Settings; who may save is of no concern here.
Settings == [on : BOOLEAN, save : B!Saves \cup B!Activities, lastRun : Int]

\* The types of what is stored and copied.
BackupTyped ==
  /\ config \in Settings
  /\ copy \in [B!Activities -> Settings]
  /\ clock \in Int
  /\ what \in [One -> B!Asks]
  /\ pc \in [B!Activities ->
       {"idle", "config", "save", "insert", "archive", "record", "close", "merge", "write", "done"}]

\* These will store what they have read; a save stores the operator's input.
WritesBack == {"insert", "archive", "record", "close", "write"}

SameSave(one, other) == one.save = other.save /\ one.on = other.on

\* After a save that ran into nobody, whoever is about to write the settings
\* back has read that save.
CopiesAgree ==
  ~overlapped => \A a \in B!Activities : pc[a] \in WritesBack => SameSave(copy[a], config)

BackupInv == BackupTyped /\ CopiesAgree

-----------------------------------------------------------------------------
\* An activity that ends or has to read again relies on nothing.
LEMMA MovesOn ==
  ASSUME BackupInv, NEW a \in B!Activities, BackupTyped',
         UNCHANGED <<config, overlapped>>,
         \A o \in B!Activities \ {a} : pc'[o] = pc[o] /\ copy'[o] = copy[o],
         pc'[a] \in WritesBack => SameSave(copy'[a], config) \/ (pc[a] \in WritesBack /\ SameSave(copy'[a], copy[a]))
  PROVE  BackupInv' /\ B!KeepsSaved
BY DEF BackupInv, BackupTyped, CopiesAgree, SameSave, B!KeepsSaved

LEMMA LeaveMoves ==
  ASSUME BackupInv, NEW a \in B!Activities, B!Leave(a), UNCHANGED <<config, clock, what, overlapped>>
  PROVE  BackupInv' /\ B!KeepsSaved
<1>1. B!Nothing \in Settings
  BY DEF B!Nothing, B!Saves, Settings
<1>2. BackupTyped'
  BY <1>1 DEF BackupInv, BackupTyped, B!Leave, B!Goto
<1>3. pc'[a] \notin WritesBack /\ \A o \in B!Activities \ {a} : pc'[o] = pc[o] /\ copy'[o] = copy[o]
  BY DEF BackupInv, BackupTyped, B!Leave, B!Goto, WritesBack
<1> QED BY <1>2, <1>3, MovesOn

LEMMA ThrewMoves ==
  ASSUME BackupInv, NEW a \in B!Activities, B!Threw(a), UNCHANGED <<config, clock, what, overlapped>>
  PROVE  BackupInv' /\ B!KeepsSaved
<1>1. CASE B!Leave(a)
  BY <1>1, LeaveMoves
<1>2. CASE B!Goto(a, "merge") /\ copy' = copy
  <2>1. BackupTyped'
    BY <1>2 DEF BackupInv, BackupTyped, B!Goto
  <2>2. pc'[a] \notin WritesBack /\ \A o \in B!Activities \ {a} : pc'[o] = pc[o] /\ copy'[o] = copy[o]
    BY <1>2 DEF BackupInv, BackupTyped, B!Goto, WritesBack
  <2> QED BY <2>1, <2>2, MovesOn
<1> QED BY <1>1, <1>2 DEF B!Threw

LEMMA BeginStep ==
  ASSUME BackupInv, NEW a \in B!Activities, B!BeginTick(a) \/ B!BeginRequest(a)
  PROVE  BackupInv' /\ B!KeepsSaved
<1>1. B!Goto(a, "config") /\ UNCHANGED <<config, clock, what, overlapped, copy>>
  BY DEF B!BeginTick, B!BeginRequest
<1>2. BackupTyped'
  BY <1>1 DEF BackupInv, BackupTyped, B!Goto
<1>3. pc'[a] \notin WritesBack /\ \A o \in B!Activities \ {a} : pc'[o] = pc[o] /\ copy'[o] = copy[o]
  BY <1>1 DEF BackupInv, BackupTyped, B!Goto, WritesBack
<1> QED BY <1>1, <1>2, <1>3, MovesOn

LEMMA SettingsReadStep ==
  ASSUME BackupInv, NEW a \in B!Activities, B!ReadConfig(a) \/ B!Merge(a)
  PROVE  BackupInv' /\ B!KeepsSaved
<1>1. UNCHANGED <<config, clock, what, overlapped>>
  BY DEF B!ReadConfig, B!Merge
<1>2. CASE B!Leave(a)
  BY <1>1, <1>2, LeaveMoves
<1>3. ASSUME NEW p \in {"insert", "merge", "save", "write"},
             B!Goto(a, p), copy' = [copy EXCEPT ![a] = config]
      PROVE  BackupInv' /\ B!KeepsSaved
  <2>1. BackupTyped'
    BY <1>1, <1>3 DEF BackupInv, BackupTyped, B!Goto
  <2>2. copy'[a] = config /\ \A o \in B!Activities \ {a} : pc'[o] = pc[o] /\ copy'[o] = copy[o]
    BY <1>3 DEF BackupInv, BackupTyped, B!Goto
  <2> QED BY <1>1, <2>1, <2>2, MovesOn DEF SameSave
<1> QED BY <1>2, <1>3 DEF B!ReadConfig, B!Keeps, B!Merge

\* The copy of the settings that a run will store changes in lastRunAt alone.
LEMMA RunStep ==
  ASSUME BackupInv, NEW a \in B!Activities, B!InsertJob(a) \/ B!Archive(a)
  PROVE  BackupInv' /\ B!KeepsSaved
<1>1. /\ pc[a] \in WritesBack /\ UNCHANGED <<config, clock, what, overlapped>>
      /\ B!Goto(a, "archive") \/ B!Goto(a, "record")
      /\ copy' = copy \/ copy' = [copy EXCEPT ![a].lastRun = clock]
  BY DEF B!InsertJob, B!Archive, WritesBack
<1>2. BackupTyped'
  BY <1>1 DEF BackupInv, BackupTyped, Settings, B!Goto
<1>3. SameSave(copy'[a], copy[a]) /\ \A o \in B!Activities \ {a} : pc'[o] = pc[o] /\ copy'[o] = copy[o]
  BY <1>1 DEF BackupInv, BackupTyped, Settings, B!Goto, SameSave
<1> QED BY <1>1, <1>2, <1>3, MovesOn

LEMMA WriteFailsStep ==
  ASSUME BackupInv, NEW a \in B!Activities, B!WriteFails(a)
  PROVE  BackupInv' /\ B!KeepsSaved
<1>1. pc[a] \in WritesBack /\ UNCHANGED <<config, clock, what, overlapped>>
  BY DEF B!WriteFails, WritesBack
<1>2. CASE B!Threw(a)
  BY <1>1, <1>2, ThrewMoves
<1>3. CASE copy' = [copy EXCEPT ![a].lastRun = clock] /\ B!Goto(a, "record")
  <2>1. BackupTyped'
    BY <1>1, <1>3 DEF BackupInv, BackupTyped, Settings, B!Goto
  <2>2. SameSave(copy'[a], copy[a]) /\ \A o \in B!Activities \ {a} : pc'[o] = pc[o] /\ copy'[o] = copy[o]
    BY <1>3 DEF BackupInv, BackupTyped, Settings, B!Goto, SameSave
  <2> QED BY <1>1, <2>1, <2>2, MovesOn
<1> QED BY <1>2, <1>3 DEF B!WriteFails

\* What is written back agrees with what is stored.
LEMMA StoreStep ==
  ASSUME BackupInv, NEW a \in B!Activities, B!Record(a) \/ B!Write(a)
  PROVE  BackupInv' /\ B!KeepsSaved
<1>1. pc[a] \in WritesBack /\ config' = copy[a] /\ UNCHANGED <<clock, what, overlapped>>
  BY DEF B!Record, B!Outcome, B!Write, WritesBack
<1>2. /\ \A o \in B!Activities \ {a} : pc'[o] = pc[o] /\ copy'[o] = copy[o]
      /\ pc'[a] \in WritesBack => copy'[a] = copy[a]
      /\ pc' \in [B!Activities ->
           {"idle", "config", "save", "insert", "archive", "record", "close", "merge", "write", "done"}]
      /\ copy' = copy \/ copy' = [copy EXCEPT ![a] = B!Nothing]
  BY DEF BackupInv, BackupTyped, B!Record, B!Write, B!Leave, B!Goto, WritesBack
<1>3. B!Nothing \in Settings
  BY DEF B!Nothing, B!Saves, Settings
<1>4. BackupTyped'
  BY <1>1, <1>2, <1>3 DEF BackupInv, BackupTyped
<1>5. CopiesAgree' /\ B!KeepsSaved
  BY <1>1, <1>2 DEF BackupInv, BackupTyped, CopiesAgree, SameSave, B!KeepsSaved
<1> QED BY <1>4, <1>5 DEF BackupInv

\* A save ran into nobody exactly when nobody is about to write back.
LEMMA SettingsSaveStep ==
  ASSUME BackupInv, NEW a \in B!Activities, NEW on \in BOOLEAN, B!Save(a, on)
  PROVE  BackupInv' /\ B!KeepsSaved
<1>1. BackupTyped'
  BY DEF BackupInv, BackupTyped, Settings, B!Save, B!Goto
<1>2. CopiesAgree'
  BY DEF BackupInv, BackupTyped, B!Save, B!Goto, CopiesAgree, WritesBack
<1>3. B!KeepsSaved
  BY DEF B!KeepsSaved
<1> QED BY <1>1, <1>2, <1>3 DEF BackupInv

LEMMA RestartStep ==
  ASSUME BackupInv, B!Restart
  PROVE  BackupInv' /\ B!KeepsSaved
<1>1. B!Nothing \in Settings
  BY DEF B!Nothing, B!Saves, Settings
<1>2. BackupTyped'
  BY <1>1 DEF BackupInv, BackupTyped, B!Restart
<1>3. \A a \in B!Activities : pc'[a] \notin WritesBack
  BY DEF B!Restart, WritesBack
<1>4. B!KeepsSaved
  BY DEF B!Restart, B!KeepsSaved
<1> QED BY <1>2, <1>3, <1>4 DEF BackupInv, CopiesAgree

-----------------------------------------------------------------------------
LEMMA InitBackupInv == B!Init => BackupInv
BY IntervalAssumption DEF B!Init, BackupInv, BackupTyped, Settings, B!Saves, B!Nothing, CopiesAgree, WritesBack

LEMMA BackupStep ==
  ASSUME BackupInv, [B!Next]_(B!vars)
  PROVE  BackupInv' /\ B!KeepsSaved
<1>1. CASE UNCHANGED <<config, clock, what, pc, copy, overlapped>>
  BY <1>1 DEF BackupInv, BackupTyped, CopiesAgree, B!KeepsSaved
<1>2. CASE B!TimePasses
  BY <1>2 DEF B!TimePasses, BackupInv, BackupTyped, CopiesAgree, B!KeepsSaved
<1>3. ASSUME NEW a \in B!Activities, B!Step(a)
      PROVE  BackupInv' /\ B!KeepsSaved
  <2>1. CASE B!CloseJob(a)
    BY <2>1, ThrewMoves DEF B!CloseJob
  <2> QED BY <1>3, <2>1, BeginStep, SettingsReadStep, RunStep, StoreStep, SettingsSaveStep DEF B!Step
<1>4. ASSUME NEW a \in B!Activities,
             B!ConfigUnreadable(a) \/ B!SaveFails(a) \/ B!InsertJobFails(a) \/ B!WriteFails(a) \/ B!MergeFails(a)
      PROVE  BackupInv' /\ B!KeepsSaved
  <2>1. CASE B!InsertJobFails(a)
    BY <2>1, ThrewMoves DEF B!InsertJobFails
  <2>2. CASE B!ConfigUnreadable(a) \/ B!SaveFails(a) \/ B!MergeFails(a)
    BY <2>2, LeaveMoves DEF B!ConfigUnreadable, B!SaveFails, B!MergeFails
  <2> QED BY <1>4, <2>1, <2>2, WriteFailsStep
<1>5. ASSUME NEW r \in One, B!BeginRequest(r)
      PROVE  BackupInv' /\ B!KeepsSaved
  <2>1. r \in B!Activities
    BY DEF B!Activities
  <2> QED BY <1>5, <2>1, BeginStep
<1> QED BY <1>1, <1>2, <1>3, <1>4, <1>5, RestartStep DEF B!Next, B!vars

\* A leaked flag stays: nothing but a restart of the process lowers it.
LEMMA StopStays ==
  ASSUME BackupInv, [B!Next]_(B!vars), B!Stopped, ~B!Restart
  PROVE  B!Stopped'
<1> DEFINE Quiet(a) == pc'[a] \notin {"insert", "archive", "record", "close"}
<1>1. SUFFICES running' = running /\ \A a \in B!Activities : Quiet(a)
  BY DEF B!Stopped, B!Archiving
<1>2. \A a \in B!Activities : pc[a] \notin {"insert", "archive", "record", "close"}
  BY DEF B!Stopped, B!Archiving
<1>3. running /\ pc \in [B!Activities ->
        {"idle", "config", "save", "insert", "archive", "record", "close", "merge", "write", "done"}]
  BY DEF B!Stopped, BackupInv, BackupTyped
<1>4. ASSUME running' = running, NEW a \in B!Activities, NEW p \in {"idle", "config", "save", "merge", "write", "done"},
             B!Goto(a, p)
      PROVE  running' = running /\ \A o \in B!Activities : Quiet(o)
  BY <1>2, <1>3, <1>4 DEF B!Goto
<1>5. CASE UNCHANGED <<running, pc>>
  BY <1>2, <1>5
<1>6. ASSUME NEW a \in B!Activities, B!Step(a)
      PROVE  running' = running /\ \A o \in B!Activities : Quiet(o)
  <2>1. ~B!InsertJob(a) /\ ~B!Archive(a) /\ ~B!Record(a) /\ ~B!CloseJob(a)
    BY <1>2 DEF B!InsertJob, B!Archive, B!Record, B!CloseJob
  <2>2. CASE B!ReadConfig(a)
    BY <2>2, <1>3, <1>4 DEF B!ReadConfig, B!Idle, B!Leave
  <2> QED BY <1>6, <2>1, <2>2, <1>4 DEF B!Step, B!BeginTick, B!Merge, B!Write, B!Save, B!Leave
<1>7. ASSUME NEW a \in B!Activities,
             B!ConfigUnreadable(a) \/ B!SaveFails(a) \/ B!InsertJobFails(a) \/ B!WriteFails(a) \/ B!MergeFails(a)
      PROVE  running' = running /\ \A o \in B!Activities : Quiet(o)
  <2>1. ~B!InsertJobFails(a) /\ ~B!WriteFails(a)
    BY <1>2 DEF B!InsertJobFails, B!WriteFails
  <2> QED BY <1>7, <2>1, <1>4 DEF B!ConfigUnreadable, B!SaveFails, B!MergeFails, B!Leave
<1>8. ASSUME NEW r \in One, B!BeginRequest(r)
      PROVE  running' = running /\ \A o \in B!Activities : Quiet(o)
  <2>1. r \in B!Activities
    BY DEF B!Activities
  <2> QED BY <1>8, <2>1, <1>4 DEF B!BeginRequest
<1> QED BY <1>5, <1>6, <1>7, <1>8 DEF B!Next, B!vars, B!TimePasses

-----------------------------------------------------------------------------

\* A step of the suite is a step of its part, or stutters for it.
LEMMA DeliverySteps ==
  ASSUME [Next]_vars, part' = "delivery"
  PROVE  part = "delivery" /\ [D!Next]_(D!vars)
<1>1. CASE UNCHANGED vars
  BY <1>1 DEF vars, delivery, D!vars, D!invoices, D!handlers, D!jobs
<1>2. CASE Next
  BY <1>2 DEF Next, Stay
<1> QED BY <1>1, <1>2

LEMMA BackupSteps ==
  ASSUME [Next]_vars, part' = "backup"
  PROVE  part = "backup" /\ [B!Next]_(B!vars)
<1>1. CASE UNCHANGED vars
  BY <1>1 DEF vars, backup, B!vars
<1>2. CASE Next
  BY <1>2 DEF Next, Stay
<1> QED BY <1>1, <1>2

\* The queue's retries, the operators' and the restarts repeat no message to a
\* provider that the job knows to have been accepted.
THEOREM NoNeedlessDuplicate == Spec => []DuplicateOnlyAfterLostAnswer
<1> DEFINE Inv == part = "delivery" => JobInv
<1>1. Init => Inv
  BY InitJobInv DEF Init, Alone
<1>2. Inv /\ [Next]_vars => Inv'
  BY DeliverySteps, JobStep
<1>3. Inv => DuplicateOnlyAfterLostAnswer
  BY DEF JobInv, DuplicateOnlyAfterLostAnswer
<1> QED BY <1>1, <1>2, <1>3, PTL DEF Spec

\* Rotation, resending, expiry and voiding retire a link for good: no later
\* request makes it work again.
THEOREM RetiredLinksStayRetired == Spec => RetiredForGood
<1> DEFINE Inv == part = "delivery" => LinkInv
<1>1. Init => Inv
  BY InitLinkInv DEF Init, Alone
<1>2. Inv /\ [Next]_vars => Inv' /\ [part = "delivery" => D!StaysRetired]_vars
  <2>1. CASE part' = "delivery"
    BY <2>1, DeliverySteps, LinkStep
  <2>2. CASE part' # "delivery"
    <3>1. [Next]_vars => part' = part
      BY DEF Next, Stay, vars
    <3> QED BY <2>2, <3>1
  <2> QED BY <2>1, <2>2
<1> QED BY <1>1, <1>2, PTL DEF Spec, RetiredForGood

\* What saveConfig stores is not undone by the other writers of the one settings row: whatever
\* checks, archives, failures and restarts follow a save that ran into none of them,
\* what the operator saved is what is stored.
THEOREM SavesAreKept == Spec => SavedSettingsHold
<1> DEFINE Inv == part = "backup" => BackupInv
<1>1. Init => Inv
  BY InitBackupInv DEF Init, Alone
<1>2. Inv /\ [Next]_vars => Inv' /\ [part = "backup" => B!KeepsSaved]_vars
  <2>1. CASE part' = "backup"
    BY <2>1, BackupSteps, BackupStep
  <2>2. CASE part' # "backup"
    <3>1. [Next]_vars => part' = part
      BY DEF Next, Stay, vars
    <3> QED BY <2>2, <3>1
  <2> QED BY <2>1, <2>2
<1> QED BY <1>1, <1>2, PTL DEF Spec, SavedSettingsHold

-----------------------------------------------------------------------------
\* The same of each module by itself, whatever its requests and faults.
THEOREM DeliveryAlone == D!Spec => []D!DuplicateOnlyAfterLostAnswer /\ D!RetiredForGood
BY InitJobInv, JobStep, InitLinkInv, LinkStep, PTL DEF D!Spec, D!RetiredForGood, JobInv

\* And of the scheduler by itself.
THEOREM BackupAlone == B!Spec => B!SavedSettingsHold
BY InitBackupInv, BackupStep, PTL DEF B!Spec, B!SavedSettingsHold

\* Contrary to what scheduleNext says of a single bad tick, a flag that a failed insert of
\* a job row has left set stops the schedule for good: whatever the timer and the
\* panel do then, only a restart of the process gives it up.
THEOREM OnlyRestartHelps == B!Spec => [][B!Stopped => B!Stopped' \/ B!Restart]_(B!vars)
BY InitBackupInv, BackupStep, StopStays, PTL DEF B!Spec
=============================================================================
