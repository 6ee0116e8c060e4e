--------------------------- MODULE OperationOutcome ---------------------------
(***************************************************************************)
(* What the server promises a mobile client about its operations, without  *)
(* workers, claims, timers or crashes: an operation is received once, its  *)
(* effect happens at most once and is never undone, 'applied' is said only *)
(* of an effect that has happened, and only an operation that failed or is *)
(* in conflict is taken up again.  SyncOperations implements this.         *)
(***************************************************************************)
EXTENDS Naturals

CONSTANT Ops   \* the operationIds

VARIABLES
  standing,  \* what the server has on record of each operation
  effects,   \* how often it has taken effect
  told       \* the operations a client was told are applied

vars == <<standing, effects, told>>

Init ==
  /\ standing = [o \in Ops |-> "none"]
  /\ effects = [o \in Ops |-> 0]
  /\ told = {}

Receive(o) ==
  /\ standing[o] = "none"
  /\ standing' = [standing EXCEPT ![o] = "pending"]
  /\ UNCHANGED <<effects, told>>

\* The only time the operation takes effect.
Apply(o) ==
  /\ standing[o] # "none" /\ effects[o] = 0
  /\ effects' = [effects EXCEPT ![o] = 1]
  /\ UNCHANGED <<standing, told>>

\* A verdict goes on record; the client that asked may be told with it.
Conclude(o, verdict) ==
  /\ standing[o] # "none"
  /\ verdict = "applied" => effects[o] = 1
  /\ standing' = [standing EXCEPT ![o] = verdict]
  /\ \/ told' = told
     \/ verdict = "applied" /\ told' = told \cup {o}
  /\ UNCHANGED effects

\* Only what did not succeed is taken up again.
TakeUpAgain(o) ==
  /\ standing[o] \in {"failed", "conflict"}
  /\ standing' = [standing EXCEPT ![o] = "pending"]
  /\ UNCHANGED <<effects, told>>

\* A client that asks again hears what is on record.
TellAgain(o) ==
  /\ standing[o] = "applied"
  /\ told' = told \cup {o}
  /\ UNCHANGED <<standing, effects>>

Next ==
  \E o \in Ops : \/ Receive(o) \/ Apply(o) \/ TakeUpAgain(o) \/ TellAgain(o)
                 \/ \E verdict \in {"applied", "conflict", "failed"} : Conclude(o, verdict)

Spec == Init /\ [][Next]_vars
=============================================================================
