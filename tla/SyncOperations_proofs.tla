------------------------ MODULE SyncOperations_proofs ------------------------
(***************************************************************************)
(* Proofs about SyncOperations for every number of operations, requests,   *)
(* overlapping timers, crashes and lost calls.  IInv is inductive; the     *)
(* invariants and RevivedOnlyByDecision follow from it.                    *)
(***************************************************************************)
EXTENDS SyncOperations, TLAPS

USE ConstantsAssumption

\* No row exists and nobody works.
LEMMA InitIInv == Init => IInv
<1> SUFFICES ASSUME Init PROVE IInv
  OBVIOUS
<1>1. TypeOK
  BY DEF Init, TypeOK, Workers, Ages, Statuses
<1>2. SeenIsUnsettled /\ OutcomeIsTrue /\ RolesAreKept
  BY DEF Init, SeenIsUnsettled, OutcomeIsTrue, RolesAreKept
<1>3. EffectAtMostOnce /\ AppliedIsTrue /\ ConflictsAreDecidable
  BY DEF Init, EffectAtMostOnce, AppliedIsTrue, ConflictsAreDecidable, Workers
<1>4. WorkedOnIsReceived
  BY DEF Init, WorkedOnIsReceived
<1> QED BY <1>1, <1>2, <1>3, <1>4 DEF IInv

-----------------------------------------------------------------------------
\* queueOperation.
LEMMA PostStep ==
  ASSUME IInv, NEW w \in Workers, NEW o \in Ops, Post(w, o)
  PROVE  IInv'
<1>1. TypeOK'
  BY DEF IInv, TypeOK, Post, Goto, rows, Statuses
<1>2. SeenIsUnsettled' /\ OutcomeIsTrue' /\ RolesAreKept'
  BY DEF IInv, TypeOK, Post, Goto, rows, Statuses, SeenIsUnsettled, OutcomeIsTrue, RolesAreKept
<1>3. EffectAtMostOnce' /\ AppliedIsTrue'
  BY DEF IInv, TypeOK, Post, Goto, rows, EffectAtMostOnce, AppliedIsTrue, Workers
<1>4. ConflictsAreDecidable'
  BY DEF IInv, TypeOK, Post, Goto, rows, ConflictsAreDecidable
<1>9. WorkedOnIsReceived'
  BY DEF IInv, TypeOK, WorkedOnIsReceived, Post, Goto, rows
<1> QED BY <1>9, <1>1, <1>2, <1>3, <1>4 DEF IInv

LEMMA CreateStep ==
  ASSUME IInv, NEW w \in Workers, Create(w)
  PROVE  IInv'
<1>1. TypeOK'
  BY DEF IInv, TypeOK, Create, Goto, Leave, Statuses, Workers
<1>2. SeenIsUnsettled' /\ OutcomeIsTrue' /\ RolesAreKept'
  BY DEF IInv, TypeOK, Create, Goto, Leave, SeenIsUnsettled, OutcomeIsTrue, RolesAreKept, Workers
<1>3. EffectAtMostOnce' /\ AppliedIsTrue'
  BY DEF IInv, TypeOK, Create, Goto, Leave, EffectAtMostOnce, AppliedIsTrue, Workers
<1>4. ConflictsAreDecidable'
  BY DEF IInv, TypeOK, Create, Goto, Leave, ConflictsAreDecidable
<1>9. WorkedOnIsReceived'
  BY DEF IInv, TypeOK, WorkedOnIsReceived, Create, Goto, Leave
<1> QED BY <1>9, <1>1, <1>2, <1>3, <1>4 DEF IInv

\* recoverPending.
LEMMA TimerStep ==
  ASSUME IInv, NEW w \in Workers, Scan(w) \/ PickCandidate(w)
  PROVE  IInv'
<1>1. TypeOK'
  BY DEF IInv, TypeOK, Scan, PickCandidate, Goto, rows, Statuses
<1>2. SeenIsUnsettled' /\ OutcomeIsTrue' /\ RolesAreKept'
  <2>1. SeenIsUnsettled'
    BY DEF IInv, TypeOK, Scan, PickCandidate, Goto, rows, SeenIsUnsettled
  <2>2. OutcomeIsTrue'
    BY DEF IInv, TypeOK, Scan, PickCandidate, Goto, rows, OutcomeIsTrue
  <2>3. RolesAreKept'
    BY DEF IInv, TypeOK, Scan, PickCandidate, Goto, rows, RolesAreKept
  <2> QED BY <2>1, <2>2, <2>3
<1>3. EffectAtMostOnce' /\ AppliedIsTrue'
  BY DEF IInv, TypeOK, Scan, PickCandidate, Goto, rows, EffectAtMostOnce, AppliedIsTrue, Workers
<1>4. ConflictsAreDecidable'
  BY DEF IInv, TypeOK, Scan, PickCandidate, Goto, rows, ConflictsAreDecidable
<1>9. WorkedOnIsReceived'
  BY DEF IInv, TypeOK, WorkedOnIsReceived, Scan, PickCandidate, Goto, rows
<1> QED BY <1>9, <1>1, <1>2, <1>3, <1>4 DEF IInv

\* The claim makes a row pending that was seen neither applied nor in conflict.
LEMMA ClaimStep ==
  ASSUME IInv, NEW w \in Workers, Claim(w)
  PROVE  IInv'
<1>1. TypeOK'
  BY DEF IInv, TypeOK, Claim, Goto, Leave, Statuses, Ages, Workers
<1>2. SeenIsUnsettled' /\ OutcomeIsTrue' /\ RolesAreKept'
  BY DEF IInv, TypeOK, Claim, Goto, Leave, SeenIsUnsettled, OutcomeIsTrue, RolesAreKept, Workers
<1>3. EffectAtMostOnce' /\ AppliedIsTrue'
  BY DEF IInv, TypeOK, SeenIsUnsettled, Claim, Goto, Leave, EffectAtMostOnce, AppliedIsTrue, Workers
<1>4. ConflictsAreDecidable'
  BY DEF IInv, TypeOK, Claim, Goto, Leave, ConflictsAreDecidable
<1>9. WorkedOnIsReceived'
  BY DEF IInv, TypeOK, WorkedOnIsReceived, Claim, Goto, Leave
<1> QED BY <1>9, <1>1, <1>2, <1>3, <1>4 DEF IInv

-----------------------------------------------------------------------------
\* applyAndRecord.
LEMMA LookUpStep ==
  ASSUME IInv, NEW w \in Workers, LookUpEffect(w)
  PROVE  IInv'
<1>1. target[w] \in Ops
  BY DEF IInv, TypeOK, LookUpEffect
<1>2. TypeOK'
  BY DEF IInv, TypeOK, LookUpEffect, Goto, rows, Statuses
<1>3. SeenIsUnsettled' /\ OutcomeIsTrue' /\ RolesAreKept'
  BY <1>1 DEF IInv, TypeOK, EffectAtMostOnce, LookUpEffect, Goto, rows, SeenIsUnsettled,
     OutcomeIsTrue, RolesAreKept
<1>4. EffectAtMostOnce' /\ AppliedIsTrue'
  BY DEF IInv, TypeOK, LookUpEffect, Goto, rows, EffectAtMostOnce, AppliedIsTrue, Workers
<1>5. ConflictsAreDecidable'
  BY DEF IInv, TypeOK, LookUpEffect, Goto, rows, ConflictsAreDecidable
<1>9. WorkedOnIsReceived'
  BY DEF IInv, TypeOK, WorkedOnIsReceived, LookUpEffect, Goto, rows
<1> QED BY <1>9, <1>2, <1>3, <1>4, <1>5 DEF IInv

\* The UNIQUE operationId admits the effect only if there is none.
LEMMA ApplyStep ==
  ASSUME IInv, NEW w \in Workers, ApplyEffect(w)
  PROVE  IInv'
<1> DEFINE o == target[w]
<1>1. o \in Ops
  BY DEF IInv, TypeOK, ApplyEffect
<1>2. TypeOK'
  BY <1>1 DEF IInv, TypeOK, ApplyEffect, Goto, Statuses
<1>3. EffectAtMostOnce'
  BY <1>1 DEF IInv, TypeOK, ApplyEffect, Unrecorded, EffectAtMostOnce
<1>4. \A p \in Ops : effects[p] = 1 => effects'[p] = 1
  BY <1>1 DEF IInv, TypeOK, ApplyEffect, Unrecorded
<1>5. SeenIsUnsettled' /\ RolesAreKept'
  BY DEF IInv, TypeOK, ApplyEffect, Goto, SeenIsUnsettled, RolesAreKept
<1>6. OutcomeIsTrue'
  BY <1>1, <1>4 DEF IInv, TypeOK, ApplyEffect, Unrecorded, Goto, OutcomeIsTrue
<1>7. AppliedIsTrue'
  BY <1>4 DEF IInv, TypeOK, ApplyEffect, Goto, AppliedIsTrue, Workers
<1>8. ConflictsAreDecidable'
  BY DEF IInv, TypeOK, ApplyEffect, Goto, ConflictsAreDecidable
<1>9. WorkedOnIsReceived'
  BY DEF IInv, TypeOK, WorkedOnIsReceived, ApplyEffect, Goto
<1> QED BY <1>9, <1>2, <1>3, <1>5, <1>6, <1>7, <1>8 DEF IInv

LEMMA RecordStep ==
  ASSUME IInv, NEW w \in Workers, Record(w)
  PROVE  IInv'
<1>1. target[w] \in Ops
  BY DEF IInv, TypeOK, Record
<1>2. outcome[w] \in {"applied", "conflict", "failed"}
  BY DEF IInv, OutcomeIsTrue, Record
<1>3. TypeOK'
  BY <1>1, <1>2 DEF IInv, TypeOK, Record, Goto, Leave, Statuses, Workers
<1>4. SeenIsUnsettled' /\ OutcomeIsTrue' /\ RolesAreKept'
  BY DEF IInv, TypeOK, Record, Goto, Leave, SeenIsUnsettled, OutcomeIsTrue, RolesAreKept, Workers
<1>5. EffectAtMostOnce' /\ AppliedIsTrue'
  BY <1>1 DEF IInv, TypeOK, OutcomeIsTrue, Record, Goto, Leave, EffectAtMostOnce, AppliedIsTrue, Workers
<1>6. ConflictsAreDecidable'
  BY <1>1 DEF IInv, TypeOK, Record, Goto, Leave, ConflictsAreDecidable
<1>9. WorkedOnIsReceived'
  BY DEF IInv, TypeOK, WorkedOnIsReceived, OutcomeIsTrue, Record, Goto, Leave
<1> QED BY <1>9, <1>3, <1>4, <1>5, <1>6 DEF IInv

LEMMA RecordFailsStep ==
  ASSUME IInv, NEW w \in Workers, RecordFails(w)
  PROVE  IInv'
<1>1. TypeOK'
  BY DEF IInv, TypeOK, RecordFails, rows, Statuses
<1>2. SeenIsUnsettled' /\ OutcomeIsTrue' /\ RolesAreKept'
  BY DEF IInv, TypeOK, RecordFails, rows, SeenIsUnsettled, OutcomeIsTrue, RolesAreKept
<1>3. EffectAtMostOnce' /\ AppliedIsTrue'
  BY DEF IInv, TypeOK, RecordFails, rows, EffectAtMostOnce, AppliedIsTrue, Workers
<1>4. ConflictsAreDecidable'
  BY DEF IInv, TypeOK, RecordFails, rows, ConflictsAreDecidable
<1>9. WorkedOnIsReceived'
  BY DEF IInv, TypeOK, WorkedOnIsReceived, RecordFails, rows
<1> QED BY <1>9, <1>1, <1>2, <1>3, <1>4 DEF IInv

LEMMA OpenConflictStep ==
  ASSUME IInv, NEW w \in Workers, OpenConflict(w)
  PROVE  IInv'
<1>1. target[w] \in Ops
  BY DEF IInv, TypeOK, OpenConflict
<1>2. TypeOK'
  BY <1>1 DEF IInv, TypeOK, OpenConflict, Goto, Leave, Statuses, Workers
<1>3. SeenIsUnsettled' /\ OutcomeIsTrue' /\ RolesAreKept'
  BY DEF IInv, TypeOK, OpenConflict, Goto, Leave, SeenIsUnsettled, OutcomeIsTrue, RolesAreKept, Workers
<1>4. EffectAtMostOnce' /\ AppliedIsTrue'
  BY DEF IInv, TypeOK, OpenConflict, Goto, Leave, EffectAtMostOnce, AppliedIsTrue, Workers
<1>5. openId'[target[w]] # 0 /\ \A p \in Ops \ {target[w]} : openId'[p] = openId[p]
  BY <1>1 DEF IInv, TypeOK, OpenConflict
<1>6. ConflictsAreDecidable'
  BY <1>1, <1>5 DEF IInv, TypeOK, OpenConflict, Goto, Leave, ConflictsAreDecidable
<1>9. WorkedOnIsReceived'
  BY DEF IInv, TypeOK, WorkedOnIsReceived, OpenConflict, Goto, Leave
<1> QED BY <1>9, <1>2, <1>3, <1>4, <1>6 DEF IInv

-----------------------------------------------------------------------------
\* resolveConflict.
LEMMA DecideStep ==
  ASSUME IInv, NEW w \in Workers, NEW o \in Ops, NEW d \in {"retry", "reject"}, Decide(w, o, d)
  PROVE  IInv'
<1>1. TypeOK'
  BY DEF IInv, TypeOK, Decide, Goto, rows
<1>2. SeenIsUnsettled' /\ OutcomeIsTrue' /\ RolesAreKept'
  BY DEF IInv, TypeOK, Decide, Goto, rows, SeenIsUnsettled, OutcomeIsTrue, RolesAreKept
<1>3. EffectAtMostOnce' /\ AppliedIsTrue'
  BY DEF IInv, TypeOK, Decide, Goto, rows, EffectAtMostOnce, AppliedIsTrue, Workers
<1>4. ConflictsAreDecidable'
  BY DEF IInv, TypeOK, Decide, Goto, rows, ConflictsAreDecidable
<1>9. WorkedOnIsReceived'
  BY DEF IInv, TypeOK, WorkedOnIsReceived, Decide, Goto, rows
<1> QED BY <1>9, <1>1, <1>2, <1>3, <1>4 DEF IInv

LEMMA ResolveStep ==
  ASSUME IInv, NEW w \in Workers, Resolve(w)
  PROVE  IInv'
<1>1. w \in Requests /\ target[w] \in Ops
  BY DEF IInv, TypeOK, RolesAreKept, Resolve
<1>2. TypeOK'
  BY <1>1 DEF IInv, TypeOK, Resolve, Goto, Leave, Statuses
<1>3. SeenIsUnsettled' /\ OutcomeIsTrue' /\ RolesAreKept'
  BY <1>1 DEF IInv, TypeOK, Resolve, Goto, Leave, SeenIsUnsettled, OutcomeIsTrue, RolesAreKept, Workers
<1>4. EffectAtMostOnce' /\ AppliedIsTrue'
  BY <1>1 DEF IInv, TypeOK, Resolve, Goto, Leave, EffectAtMostOnce, AppliedIsTrue, Workers
<1>5. ConflictsAreDecidable'
  BY <1>1 DEF IInv, TypeOK, Resolve, Goto, Leave, ConflictsAreDecidable
<1>9. WorkedOnIsReceived'
  BY DEF IInv, TypeOK, WorkedOnIsReceived, Resolve, Goto, Leave
<1> QED BY <1>9, <1>2, <1>3, <1>4, <1>5 DEF IInv

LEMMA ActStep ==
  ASSUME IInv, NEW w \in Workers, ActOnDecision(w)
  PROVE  IInv'
<1>1. target[w] \in Ops
  BY DEF IInv, TypeOK, ActOnDecision
<1>2. TypeOK'
  BY <1>1 DEF IInv, TypeOK, ActOnDecision, Goto, Leave, Statuses, Ages, Workers
<1>3. SeenIsUnsettled' /\ OutcomeIsTrue' /\ RolesAreKept'
  BY DEF IInv, TypeOK, ActOnDecision, Goto, Leave, SeenIsUnsettled, OutcomeIsTrue, RolesAreKept, Workers
<1>4. EffectAtMostOnce' /\ AppliedIsTrue'
  BY <1>1 DEF IInv, TypeOK, ActOnDecision, Goto, Leave, EffectAtMostOnce, AppliedIsTrue, Workers
<1>5. ConflictsAreDecidable'
  BY <1>1 DEF IInv, TypeOK, ActOnDecision, Goto, Leave, ConflictsAreDecidable
<1>9. WorkedOnIsReceived'
  BY DEF IInv, TypeOK, WorkedOnIsReceived, ActOnDecision, Goto, Leave
<1> QED BY <1>9, <1>2, <1>3, <1>4, <1>5 DEF IInv

-----------------------------------------------------------------------------
LEMMA AgeStep ==
  ASSUME IInv, NEW o \in Ops, Age(o)
  PROVE  IInv'
<1>1. TypeOK'
  BY DEF IInv, TypeOK, Age, workers, Ages
<1>2. SeenIsUnsettled' /\ OutcomeIsTrue' /\ RolesAreKept'
  BY DEF IInv, Age, workers, SeenIsUnsettled, OutcomeIsTrue, RolesAreKept
<1>3. EffectAtMostOnce' /\ AppliedIsTrue' /\ ConflictsAreDecidable'
  BY DEF IInv, Age, workers, EffectAtMostOnce, AppliedIsTrue, ConflictsAreDecidable
<1>9. WorkedOnIsReceived'
  BY DEF IInv, TypeOK, WorkedOnIsReceived, Age, workers
<1> QED BY <1>9, <1>1, <1>2, <1>3 DEF IInv

\* A crash or a lost call leaves the rows alone and tells nobody 'applied'.
LEMMA CrashStep ==
  ASSUME IInv, Crash
  PROVE  IInv'
<1> USE DEF Workers
<1>1. TypeOK'
  <2>1. pc' \in [Workers -> {"idle", "answered"}]
    BY DEF Crash
  <2>2. outcome' \in [Workers -> Statuses \cup {"none", "error"}]
    <3>1. \A w \in Workers : outcome[w] \in Statuses \cup {"none", "error"}
      BY DEF IInv, TypeOK
    <3> QED BY <3>1 DEF Crash
  <2>3. target' \in [Workers -> Ops \cup {NoOp}]
    BY DEF IInv, TypeOK, Crash
  <2>4. \A w \in Workers : pc'[w] \notin {"idle", "next"} => target'[w] \in Ops
    BY DEF IInv, TypeOK, RolesAreKept, Crash
  <2>5. seen' \in [Workers -> Statuses \cup {"none"}] /\ todo' \in [Workers -> SUBSET Ops]
    BY DEF Crash
  <2>6. crashes' \in Nat
    BY DEF IInv, TypeOK, Crash
  <2> QED BY <2>1, <2>2, <2>3, <2>4, <2>5, <2>6 DEF IInv, TypeOK, Crash, rows
<1>2. SeenIsUnsettled' /\ OutcomeIsTrue' /\ RolesAreKept'
  BY DEF IInv, TypeOK, Crash, rows, Workers, SeenIsUnsettled, OutcomeIsTrue, RolesAreKept
<1>3. EffectAtMostOnce' /\ AppliedIsTrue'
  BY DEF IInv, TypeOK, Crash, rows, Workers, EffectAtMostOnce, AppliedIsTrue
<1>4. ConflictsAreDecidable'
  BY DEF IInv, TypeOK, Crash, ConflictsAreDecidable
<1>9. WorkedOnIsReceived'
  BY DEF IInv, TypeOK, WorkedOnIsReceived, Crash, rows
<1> QED BY <1>9, <1>1, <1>2, <1>3, <1>4 DEF IInv

LEMMA CallFailsStep ==
  ASSUME IInv, NEW w \in Workers, CallFails(w)
  PROVE  IInv'
<1>1. TypeOK'
  BY DEF IInv, TypeOK, CallFails, Goto, rows, Workers, Statuses
<1>2. SeenIsUnsettled' /\ OutcomeIsTrue' /\ RolesAreKept'
  BY DEF IInv, TypeOK, CallFails, Goto, rows, SeenIsUnsettled, OutcomeIsTrue, RolesAreKept
<1>3. EffectAtMostOnce' /\ AppliedIsTrue'
  BY DEF IInv, TypeOK, CallFails, Goto, rows, EffectAtMostOnce, AppliedIsTrue, Workers
<1>4. ConflictsAreDecidable'
  BY DEF IInv, TypeOK, CallFails, ConflictsAreDecidable
<1>9. WorkedOnIsReceived'
  BY DEF IInv, TypeOK, WorkedOnIsReceived, CallFails, Goto, rows
<1> QED BY <1>9, <1>1, <1>2, <1>3, <1>4 DEF IInv

-----------------------------------------------------------------------------
LEMMA NextIInv == IInv /\ [Next]_vars => IInv'
<1> SUFFICES ASSUME IInv, [Next]_vars PROVE IInv'
  OBVIOUS
<1>1. ASSUME NEW w \in Workers, Step(w) PROVE IInv'
  BY <1>1, CreateStep, TimerStep, ClaimStep, LookUpStep, ApplyStep, RecordStep, OpenConflictStep,
     ResolveStep, ActStep DEF Step
<1>2. ASSUME NEW w \in Workers, Scan(w) \/ RecordFails(w) \/ CallFails(w) PROVE IInv'
  BY <1>2, TimerStep, RecordFailsStep, CallFailsStep
<1>3. ASSUME NEW w \in Workers, NEW o \in Ops, Post(w, o) PROVE IInv'
  BY <1>3, PostStep
<1>4. ASSUME NEW w \in Workers, NEW o \in Ops, NEW d \in {"retry", "reject"}, Decide(w, o, d)
      PROVE  IInv'
  BY <1>4, DecideStep
<1>5. CASE UNCHANGED vars
  BY <1>5 DEF vars, rows, workers, IInv, TypeOK, SeenIsUnsettled, OutcomeIsTrue,
     RolesAreKept, EffectAtMostOnce, AppliedIsTrue, ConflictsAreDecidable, WorkedOnIsReceived
<1> QED BY <1>1, <1>2, <1>3, <1>4, <1>5, AgeStep, CrashStep DEF Next

-----------------------------------------------------------------------------
\* The inductive invariant holds of every reachable state.
THEOREM Invariance == Spec => []IInv
<1> QED BY InitIInv, NextIInv, PTL DEF Spec

\* Every variable keeps its type, and every busy worker works on an operation.
THEOREM TypeCorrect == Spec => []TypeOK
<1>1. IInv => TypeOK
  BY DEF IInv
<1> QED BY <1>1, Invariance, PTL

\* Re-POSTs, recoveries, decisions, crashes and lost calls apply the domain
\* effect of an operation at most once, however many of them overlap.
THEOREM EffectsHappenOnce == Spec => []EffectAtMostOnce
<1>1. IInv => EffectAtMostOnce
  BY DEF IInv
<1> QED BY <1>1, Invariance, PTL

\* A row or an answer that says 'applied' speaks of a committed effect.
THEOREM AppliedIsNeverALie == Spec => []AppliedIsTrue
<1>1. IInv => AppliedIsTrue
  BY DEF IInv
<1> QED BY <1>1, Invariance, PTL

\* Without a crash or a lost call no operation is left in conflict with nothing
\* to decide on.
THEOREM ConflictsStayDecidable == Spec => []ConflictsAreDecidable
<1>1. IInv => ConflictsAreDecidable
  BY DEF IInv
<1> QED BY <1>1, Invariance, PTL

-----------------------------------------------------------------------------
Revived(o) == status[o] = "conflict" /\ status'[o] = "pending"

\* Of the steps that write the status, only a retry takes it out of conflict
\* to pending: the claim compares it with what was seen, a recorded outcome is
\* never pending.
LEMMA RevivedByRetry ==
  ASSUME IInv, [Next]_vars, NEW o \in Ops, Revived(o)
  PROVE  \E w \in Requests : target[w] = o /\ pc[w] = "decided" /\ decision[w] = "retry"
<1>1. status' # status
  BY DEF Revived
<1>2. PICK w \in Workers : Create(w) \/ Claim(w) \/ Record(w) \/ ActOnDecision(w)
  BY <1>1 DEF Next, Step, vars, rows, PickCandidate, LookUpEffect, ApplyEffect, OpenConflict,
     Resolve, Scan, RecordFails, CallFails, Post, Decide, Age, Crash
<1>3. target[w] \in Ops /\ status[o] = "conflict" /\ status'[o] = "pending"
  BY <1>2 DEF IInv, TypeOK, Revived, Create, Claim, Record, ActOnDecision
<1>4. ~Create(w)
  BY <1>3 DEF IInv, TypeOK, Create
<1>5. ~Claim(w)
  BY <1>3 DEF IInv, TypeOK, SeenIsUnsettled, Claim, Claimable
<1>6. ~Record(w)
  BY <1>3 DEF IInv, TypeOK, OutcomeIsTrue, Record
<1>7. ActOnDecision(w) => target[w] = o /\ pc[w] = "decided" /\ decision[w] = "retry"
  BY <1>3 DEF IInv, TypeOK, ActOnDecision
<1>8. ActOnDecision(w) => w \in Requests
  BY DEF IInv, RolesAreKept, ActOnDecision
<1> QED BY <1>2, <1>4, <1>5, <1>6, <1>7, <1>8

\* An operation in conflict waits for its decision: neither a re-POST nor the
\* timer revives it.
THEOREM RevivalNeedsDecision == Spec => RevivedOnlyByDecision
<1> DEFINE A == \A o \in Ops : status[o] = "conflict" /\ status'[o] = "pending" =>
                  \E w \in Requests : target[w] = o /\ pc[w] = "decided" /\ decision[w] = "retry"
<1>1. IInv /\ [Next]_vars => A
  BY RevivedByRetry DEF Revived
<1>2. IInv /\ [Next]_vars => [A]_vars
  BY <1>1
<1> QED BY <1>2, Invariance, PTL DEF Spec, RevivedOnlyByDecision

-----------------------------------------------------------------------------
\* Who was told 'applied' depends on the requests' places, answers and targets.
LEMMA ToldKept ==
  ASSUME \A w \in Requests : /\ target'[w] = target[w] /\ outcome'[w] = outcome[w]
                             /\ pc'[w] = "answered" <=> pc[w] = "answered"
  PROVE  Told' = Told
<1> QED BY DEF Told

\* A worker that leaves without saying 'applied' tells nobody.
LEMMA LeaveSilently ==
  ASSUME IInv, NEW w \in Workers, pc[w] # "answered", NEW answer, answer # "applied", Leave(w, answer)
  PROVE  Told' = Told
<1>1. \A v \in Requests : v # w => pc'[v] = pc[v] /\ outcome'[v] = outcome[v] /\ target'[v] = target[v]
  BY DEF IInv, TypeOK, Leave, Goto, Workers
<1>2. w \in Requests => outcome'[w] = answer
  BY DEF IInv, TypeOK, Leave, Workers
<1> QED BY <1>1, <1>2 DEF Told

\* Post receives nothing yet; a recorded 'applied' is told again.
LEMMA PostImplements ==
  ASSUME IInv, NEW w \in Workers, NEW o \in Ops, Post(w, o)
  PROVE  [Outcome!Next]_(Outcome!vars)
<1>1. w \in Requests /\ UNCHANGED rows
  BY DEF Post
<1>2. CASE status[o] = "applied"
  <2>1. pc'[w] = "answered" /\ outcome'[w] = "applied" /\ target'[w] = o
    BY <1>1, <1>2 DEF IInv, TypeOK, Post, Goto, Workers
  <2>2. \A v \in Requests : v # w => pc'[v] = pc[v] /\ outcome'[v] = outcome[v] /\ target'[v] = target[v]
    BY <1>1, <1>2 DEF IInv, TypeOK, Post, Goto, Workers
  <2>3. pc[w] # "answered"
    BY DEF Post
  <2>4. Told' = Told \cup {o}
    BY <1>1, <2>1, <2>2, <2>3 DEF Told
  <2> QED BY <1>1, <1>2, <2>4 DEF Outcome!Next, Outcome!TellAgain, rows
<1>3. CASE status[o] # "applied"
  <2>1. \A v \in Requests : v # w => pc'[v] = pc[v] /\ outcome'[v] = outcome[v] /\ target'[v] = target[v]
    BY DEF IInv, TypeOK, Post, Goto, Workers
  <2>2. pc[w] # "answered" /\ (pc'[w] = "answered" => outcome'[w] # "applied")
    BY <1>1, <1>3 DEF IInv, TypeOK, Post, Goto, Workers
  <2>3. Told' = Told
    BY <2>1, <2>2 DEF Told
  <2> QED BY <1>1, <2>3 DEF Outcome!vars, rows
<1> QED BY <1>2, <1>3

LEMMA CreateImplements ==
  ASSUME IInv, NEW w \in Workers, Create(w)
  PROVE  [Outcome!Next]_(Outcome!vars)
<1> DEFINE o == target[w]
<1>1. o \in Ops
  BY DEF IInv, TypeOK, Create
<1>2. CASE status[o] = "none"
  <2>1. Told' = Told
    BY <1>2, ToldKept DEF IInv, TypeOK, Create, Goto, Leave, Workers
  <2> QED BY <1>1, <1>2, <2>1 DEF Create, Outcome!Next, Outcome!Receive
<1>3. CASE status[o] # "none"
  <2>1. Leave(w, "error") /\ UNCHANGED <<status, effects>> /\ pc[w] # "answered"
    BY <1>3 DEF Create
  <2>2. Told' = Told
    BY <2>1, LeaveSilently
  <2> QED BY <2>1, <2>2 DEF Outcome!vars
<1> QED BY <1>2, <1>3

\* The claim takes up again what failed; of a pending row it changes nothing the
\* client can see.
LEMMA ClaimImplements ==
  ASSUME IInv, NEW w \in Workers, Claim(w)
  PROVE  [Outcome!Next]_(Outcome!vars)
<1> DEFINE o == target[w]
<1>1. o \in Ops /\ seen[w] \in {"none", "pending", "failed"} /\ pc[w] # "answered"
  BY DEF IInv, TypeOK, SeenIsUnsettled, Claim
<1>2. CASE ~Claimable(o, seen[w])
  <2>1. Leave(w, seen[w]) /\ UNCHANGED <<status, effects>>
    BY <1>2 DEF Claim
  <2>2. Told' = Told
    BY <1>1, <2>1, LeaveSilently
  <2> QED BY <2>1, <2>2 DEF Outcome!vars
<1>3. CASE Claimable(o, seen[w])
  <2>1. Told' = Told
    BY <1>3, ToldKept DEF IInv, TypeOK, Claim, Goto, Leave, Workers
  <2>2. status' = [status EXCEPT ![o] = "pending"] /\ effects' = effects /\ status[o] = seen[w]
    BY <1>3 DEF Claim, Claimable
  <2>3. CASE status[o] = "failed"
    BY <1>1, <2>1, <2>2, <2>3 DEF Outcome!Next, Outcome!TakeUpAgain
  <2>4. CASE status[o] = "none"
    BY <1>1, <2>1, <2>2, <2>4 DEF Outcome!Next, Outcome!Receive
  <2>5. CASE status[o] = "pending"
    <3>1. status' = status
      BY <1>1, <2>2, <2>5 DEF IInv, TypeOK
    <3> QED BY <2>1, <2>2, <3>1 DEF Outcome!vars
  <2> QED BY <1>1, <2>2, <2>3, <2>4, <2>5
<1> QED BY <1>2, <1>3

\* The domain transaction: the one step that takes effect.
LEMMA ApplyImplements ==
  ASSUME IInv, NEW w \in Workers, ApplyEffect(w)
  PROVE  [Outcome!Next]_(Outcome!vars)
<1> DEFINE o == target[w]
<1>1. o \in Ops
  BY DEF IInv, TypeOK, ApplyEffect
<1>2. Told' = Told /\ status' = status
  <2>1. \A v \in Requests : v # w => pc'[v] = pc[v] /\ outcome'[v] = outcome[v] /\ target'[v] = target[v]
    BY DEF IInv, TypeOK, ApplyEffect, Goto, Workers
  <2>2. pc[w] # "answered" /\ pc'[w] # "answered"
    BY DEF IInv, TypeOK, ApplyEffect, Goto
  <2>3. status' = status
    BY DEF ApplyEffect
  <2> QED BY <2>1, <2>2, <2>3 DEF Told
<1>3. CASE effects' = effects
  BY <1>2, <1>3 DEF Outcome!vars
<1>4. CASE effects' # effects
  <2>1. effects[o] = 0 /\ effects' = [effects EXCEPT ![o] = 1]
    BY <1>1, <1>4 DEF IInv, TypeOK, ApplyEffect, Unrecorded
  <2>2. status[o] # "none"
    BY <1>1 DEF IInv, WorkedOnIsReceived, ApplyEffect
  <2> QED BY <1>1, <1>2, <2>1, <2>2 DEF Outcome!Next, Outcome!Apply
<1> QED BY <1>3, <1>4

\* applyAndRecord's update: a verdict, true if it says 'applied'.
LEMMA RecordImplements ==
  ASSUME IInv, NEW w \in Workers, Record(w)
  PROVE  [Outcome!Next]_(Outcome!vars)
<1> DEFINE o == target[w]
<1>1. o \in Ops /\ status[o] # "none" /\ pc[w] # "answered"
  BY DEF IInv, TypeOK, WorkedOnIsReceived, Record
<1>2. outcome[w] \in {"applied", "conflict", "failed"} /\ (outcome[w] = "applied" => effects[o] = 1)
  BY DEF IInv, OutcomeIsTrue, Record
<1>3. status' = [status EXCEPT ![o] = outcome[w]] /\ effects' = effects
  BY DEF Record
<1>4. Told' = Told \/ (outcome[w] = "applied" /\ Told' = Told \cup {o})
  <2>1. CASE outcome[w] = "conflict"
    BY <1>1, <2>1, ToldKept DEF IInv, TypeOK, Record, Goto, Workers
  <2>2. CASE outcome[w] = "failed"
    BY <1>1, <2>2, LeaveSilently DEF Record
  <2>3. CASE outcome[w] = "applied" /\ w \in Requests
    <3>1. pc'[w] = "answered" /\ outcome'[w] = "applied" /\ target'[w] = o
      BY <2>3 DEF IInv, TypeOK, Record, Leave, Goto, Workers
    <3>2. \A v \in Requests : v # w => pc'[v] = pc[v] /\ outcome'[v] = outcome[v] /\ target'[v] = target[v]
      BY <2>3 DEF IInv, TypeOK, Record, Leave, Goto, Workers
    <3>3. Told' = Told \cup {o}
      BY <1>1, <2>3, <3>1, <3>2 DEF Told
    <3> QED BY <2>3, <3>3
  <2>4. CASE outcome[w] = "applied" /\ w \notin Requests
    BY <2>4, ToldKept DEF IInv, TypeOK, Record, Leave, Goto, Workers
  <2> QED BY <1>2, <2>1, <2>2, <2>3, <2>4
<1> QED BY <1>1, <1>2, <1>3, <1>4 DEF Outcome!Next, Outcome!Conclude

\* The decision: a retry takes the operation up again, another one fails it.
LEMMA ActImplements ==
  ASSUME IInv, NEW w \in Workers, ActOnDecision(w)
  PROVE  [Outcome!Next]_(Outcome!vars)
<1> DEFINE o == target[w]
<1>1. o \in Ops /\ pc[w] = "decided" /\ effects' = effects
  BY DEF IInv, TypeOK, ActOnDecision
<1>2. Told' = Told
  <2>1. CASE decision[w] = "retry"
    BY <2>1, ToldKept DEF IInv, TypeOK, ActOnDecision, Goto, Workers
  <2>2. CASE decision[w] # "retry"
    BY <1>1, <2>2, LeaveSilently DEF ActOnDecision
  <2> QED BY <2>1, <2>2
<1>3. CASE status[o] # "conflict"
  <2>1. status' = status
    BY <1>1, <1>3 DEF IInv, TypeOK, ActOnDecision
  <2> QED BY <1>1, <1>2, <2>1 DEF Outcome!vars
<1>4. CASE status[o] = "conflict" /\ decision[w] = "retry"
  <2>1. status' = [status EXCEPT ![o] = "pending"]
    BY <1>1, <1>4 DEF IInv, TypeOK, ActOnDecision
  <2> QED BY <1>1, <1>2, <1>4, <2>1 DEF Outcome!Next, Outcome!TakeUpAgain
<1>5. CASE status[o] = "conflict" /\ decision[w] # "retry"
  <2>1. status' = [status EXCEPT ![o] = "failed"]
    BY <1>1, <1>5 DEF IInv, TypeOK, ActOnDecision
  <2> QED BY <1>1, <1>2, <1>5, <2>1 DEF Outcome!Next, Outcome!Conclude
<1> QED BY <1>3, <1>4, <1>5

\* Everything else is invisible: lookups, the timer's scan, conflict rows,
\* the passing of time, a lost call ...
LEMMA HiddenSteps ==
  ASSUME IInv, NEW w \in Workers,
         \/ PickCandidate(w) \/ Scan(w) \/ LookUpEffect(w) \/ RecordFails(w)
         \/ OpenConflict(w) \/ Resolve(w) \/ CallFails(w)
         \/ \E o \in Ops, d \in {"retry", "reject"} : Decide(w, o, d)
  PROVE  UNCHANGED Outcome!vars
<1>1. status' = status /\ effects' = effects
  BY DEF PickCandidate, Scan, LookUpEffect, RecordFails, OpenConflict, Resolve, CallFails, Decide, rows
<1>2. Told' = Told
  <2>1. CASE OpenConflict(w)
    BY <2>1, LeaveSilently DEF OpenConflict
  <2>2. CASE Resolve(w)
    <3>1. pc[w] = "resolve" /\ w \in Requests
      BY <2>2 DEF Resolve, IInv, RolesAreKept
    <3>2. CASE Leave(w, "error")
      BY <3>1, <3>2, LeaveSilently
    <3>3. CASE ~Leave(w, "error")
      BY <2>2, <3>3, ToldKept DEF IInv, TypeOK, Resolve, Goto, Workers
    <3> QED BY <3>2, <3>3
  <2>3. CASE CallFails(w)
    <3>1. \A v \in Requests : v # w => pc'[v] = pc[v] /\ outcome'[v] = outcome[v] /\ target'[v] = target[v]
      BY <2>3 DEF IInv, TypeOK, CallFails, Goto, Workers
    <3>2. pc[w] # "answered" /\ (w \in Requests => outcome'[w] # "applied")
      BY <2>3 DEF IInv, TypeOK, CallFails, Workers, ConstantsAssumption
    <3> QED BY <3>1, <3>2 DEF Told
  <2>4. CASE PickCandidate(w)
    BY <2>4, ToldKept DEF IInv, TypeOK, RolesAreKept, PickCandidate, Goto, Workers
  <2>5. CASE Scan(w) \/ LookUpEffect(w) \/ RecordFails(w) \/ \E o \in Ops, d \in {"retry", "reject"} : Decide(w, o, d)
    <3>1. \A v \in Requests : v # w => pc'[v] = pc[v] /\ outcome'[v] = outcome[v] /\ target'[v] = target[v]
      BY <2>5 DEF IInv, TypeOK, Scan, LookUpEffect, RecordFails, Decide, Goto, Workers
    <3>2. pc[w] # "answered" /\ pc'[w] # "answered"
      BY <2>5 DEF IInv, TypeOK, Scan, LookUpEffect, RecordFails, Decide, Goto, Workers
    <3> QED BY <3>1, <3>2 DEF Told
  <2> QED BY <2>1, <2>2, <2>3, <2>4, <2>5
<1> QED BY <1>1, <1>2 DEF Outcome!vars

\* ... and a crash, which leaves every answer given as it is.
LEMMA CrashHidden ==
  ASSUME IInv, Crash \/ \E o \in Ops : Age(o)
  PROVE  UNCHANGED Outcome!vars
<1>1. status' = status /\ effects' = effects
  BY DEF Crash, Age, rows
<1>2. Told' = Told
  <2>1. CASE Crash
    <3>1. \A v \in Requests : target'[v] = target[v]
      BY <2>1 DEF Crash, Workers, ConstantsAssumption
    <3>2. \A v \in Requests : pc[v] = "answered" => pc'[v] = "answered" /\ outcome'[v] = outcome[v]
      BY <2>1 DEF Crash, Workers, ConstantsAssumption
    <3>3. \A v \in Requests : pc[v] # "answered" => outcome'[v] # "applied"
      BY <2>1 DEF Crash, Workers
    <3> QED BY <3>1, <3>2, <3>3 DEF Told
  <2>2. CASE \E o \in Ops : Age(o)
    BY <2>2 DEF Age, workers, Told
  <2> QED BY <2>1, <2>2
<1> QED BY <1>1, <1>2 DEF Outcome!vars

LEMMA StepImplements == IInv /\ [Next]_vars => [Outcome!Next]_(Outcome!vars)
<1> SUFFICES ASSUME IInv, [Next]_vars PROVE [Outcome!Next]_(Outcome!vars)
  OBVIOUS
<1>1. ASSUME NEW w \in Workers, Step(w) PROVE [Outcome!Next]_(Outcome!vars)
  BY <1>1, CreateImplements, ClaimImplements, ApplyImplements, RecordImplements, ActImplements,
     HiddenSteps DEF Step
<1>2. ASSUME NEW w \in Workers, Scan(w) \/ RecordFails(w) \/ CallFails(w)
      PROVE  [Outcome!Next]_(Outcome!vars)
  BY <1>2, HiddenSteps
<1>3. ASSUME NEW w \in Workers, NEW o \in Ops, Post(w, o) PROVE [Outcome!Next]_(Outcome!vars)
  BY <1>3, PostImplements
<1>4. ASSUME NEW w \in Workers, NEW o \in Ops, NEW d \in {"retry", "reject"}, Decide(w, o, d)
      PROVE  [Outcome!Next]_(Outcome!vars)
  BY <1>4, HiddenSteps
<1>5. CASE UNCHANGED vars
  BY <1>5 DEF vars, rows, workers, Outcome!vars, Told
<1> QED BY <1>1, <1>2, <1>3, <1>4, <1>5, CrashHidden DEF Next

\* The protocol of workers, claims, retries and recoveries implements the promise:
\* for every number of them, what clients see is a behaviour of OperationOutcome.
THEOREM ImplementsThePromise == Spec => ImplementsOutcome
<1>1. Init => Outcome!Init
  BY DEF Init, Outcome!Init, Told, Workers
<1> QED BY <1>1, StepImplements, Invariance, PTL DEF Spec, ImplementsOutcome, Outcome!Spec
=============================================================================
