---------------------------- MODULE InvoiceDelivery ----------------------------
(***************************************************************************)
(* The public link of an invoice and the messages that carry it: create,   *)
(* resendSms, rotateLink and void of InvoiceService, and the BullMQ queue  *)
(* and worker of NotificationsService.  Only the hash of a link's code is  *)
(* stored, so whoever makes a new code makes the old one worthless.        *)
(*                                                                         *)
(* A step is one transaction of the invoice service, one call to the queue *)
(* or one message to a provider; the process may die between any two.      *)
(* Each request makes its own code and puts at most one job in the queue,  *)
(* so a request also names its code and its job.                           *)
(***************************************************************************)
EXTENDS Integers, FiniteSets

CONSTANTS
  Invoices,     \* the invoices; one request to issue each carries its operationId
  Requests,     \* the requests: create, resend, rotate, void, or a message to the channels
  NoCode,       \* no link yet
  MaxAttempts,  \* notificationJobOptions.attempts
  MaxFaults     \* bound on lost answers, crashes, outages and operators' retries

VARIABLES
  status,      \* invoices.status; "none" before the row exists
  link,        \* the code whose hash the invoice bears
  borne,       \* every code it has ever borne
  expired,     \* publicTokenExpiresAt has passed
  kind,        \* what a request asks
  inv,         \* of which invoice
  pc,          \* where its handler is
  configured,  \* the channels with credentials, which an operator may change
  queue,       \* the state of the request's job
  attempts,    \* attemptsMade of the job
  saved,       \* channelsDone of the job
  left,        \* the channels its worker has still to serve
  done,        \* the channels its worker knows to be served
  step,        \* where the worker is: sending, or about to store channelsDone
  sent,        \* how many messages of the job each provider has accepted
  unsure,      \* how many of these it accepted without the job learning of it
  faults       \* faults so far

invoices == <<status, link, borne, expired>>
handlers == <<kind, inv, pc>>
jobs     == <<queue, attempts, saved, left, done, step, sent, unsure>>
vars     == <<invoices, handlers, configured, jobs, faults>>

Channels == {"sms", "telegram", "bale"}
Kinds    == {"create", "resend", "rotate", "void", "broadcast"}

Init ==
  /\ status = [i \in Invoices |-> "none"]
  /\ link = [i \in Invoices |-> NoCode]
  /\ borne = [i \in Invoices |-> {}]
  /\ expired = [i \in Invoices |-> FALSE]
  /\ kind \in [Requests -> Kinds]
  /\ inv \in [Requests -> Invoices]
  /\ pc = [r \in Requests |-> "idle"]
  /\ configured = Channels
  /\ queue = [r \in Requests |-> "none"]
  /\ attempts = [r \in Requests |-> 0]
  /\ saved = [r \in Requests |-> {}]
  /\ left = [r \in Requests |-> {}]
  /\ done = [r \in Requests |-> {}]
  /\ step = [r \in Requests |-> "idle"]
  /\ sent = [r \in Requests |-> [c \in Channels |-> 0]]
  /\ unsure = [r \in Requests |-> [c \in Channels |-> 0]]
  /\ faults = 0

Goto(r, p) == pc' = [pc EXCEPT ![r] = p]

-----------------------------------------------------------------------------
Arrive(r, k, p) ==
  /\ pc[r] = "idle" /\ kind[r] = k
  /\ Goto(r, p)
  /\ UNCHANGED <<invoices, kind, inv, configured, jobs, faults>>

BeginCreate(r) == Arrive(r, "create", "commit")

\* The others refuse a missing or voided invoice, as it is before their transaction.
Open(r) == status[inv[r]] = "issued"

BeginResend(r) == Arrive(r, "resend", IF Open(r) THEN "commit" ELSE "answered")

BeginRotate(r) == Arrive(r, "rotate", IF Open(r) THEN "commit" ELSE "answered")

BeginVoid(r) == Arrive(r, "void", IF Open(r) THEN "commit" ELSE "answered")

\* A test message or the answer to a bot's command: no invoice, no transaction.
BeginBroadcast(r) == Arrive(r, "broadcast", "enqueue")

\* create: a new invoice bears the request's code; a replayed operationId
\* returns the invoice as it is, or is refused by the UNIQUE column when the
\* two ran at once.
CommitCreate(r) ==
  /\ pc[r] = "commit" /\ kind[r] = "create"
  /\ LET i == inv[r] IN
     \/ /\ status[i] = "none"
        /\ status' = [status EXCEPT ![i] = "issued"]
        /\ link' = [link EXCEPT ![i] = r]
        /\ borne' = [borne EXCEPT ![i] = @ \cup {r}]
        /\ Goto(r, "enqueue")
     \/ /\ status[i] # "none"
        /\ Goto(r, "enqueue") \/ Goto(r, "answered")
        /\ UNCHANGED <<status, link, borne>>
  /\ UNCHANGED <<expired, kind, inv, configured, jobs, faults>>

\* Fault: the link is given a new period, and no new code.
ExtendLink(r) ==
  /\ expired' = [expired EXCEPT ![inv[r]] = FALSE]
  /\ UNCHANGED <<link, borne>>

\* A new code replaces the old one and starts a new period of 30 days, whatever
\* has become of the invoice since it was read.
ReplaceLink(r) ==
  /\ link' = [link EXCEPT ![inv[r]] = r]
  /\ borne' = [borne EXCEPT ![inv[r]] = @ \cup {r}]
  /\ expired' = [expired EXCEPT ![inv[r]] = FALSE]

CommitResend(r) ==
  /\ pc[r] = "commit" /\ kind[r] = "resend"
  /\ ReplaceLink(r)
  /\ Goto(r, "enqueue")
  /\ UNCHANGED <<status, kind, inv, configured, jobs, faults>>

CommitRotate(r) ==
  /\ pc[r] = "commit" /\ kind[r] = "rotate"
  /\ ReplaceLink(r)
  /\ Goto(r, "answered")
  /\ UNCHANGED <<status, kind, inv, configured, jobs, faults>>

CommitVoid(r) ==
  /\ pc[r] = "commit" /\ kind[r] = "void"
  /\ status' = [status EXCEPT ![inv[r]] = "voided"]
  /\ Goto(r, "answered")
  /\ UNCHANGED <<link, borne, expired, kind, inv, configured, jobs, faults>>

\* The message, with the request's own code, joins the queue ...
Enqueue(r) ==
  /\ pc[r] = "enqueue"
  /\ queue' = [queue EXCEPT ![r] = "waiting"]
  /\ Goto(r, "answered")
  /\ UNCHANGED <<invoices, kind, inv, configured, attempts, saved, left, done, step, sent, unsure, faults>>

\* ... or is dropped: no mobile number, or Redis is out of reach, which must
\* not fail the request.
SkipMessage(r) ==
  /\ pc[r] = "enqueue"
  /\ Goto(r, "answered")
  /\ UNCHANGED <<invoices, kind, inv, configured, jobs, faults>>

Expire(i) ==
  /\ status[i] # "none" /\ ~expired[i]
  /\ expired' = [expired EXCEPT ![i] = TRUE]
  /\ UNCHANGED <<status, link, borne, handlers, configured, jobs, faults>>

\* An operator removes or restores the credentials of a channel.
Configure(c) ==
  /\ faults < MaxFaults /\ faults' = faults + 1
  /\ configured' = IF c \in configured THEN configured \ {c} ELSE configured \cup {c}
  /\ UNCHANGED <<invoices, handlers, jobs>>

-----------------------------------------------------------------------------
\* notificationChannels: invoice links go to the customer's phone (SMS and Bale
\* Safir), never to the broadcast channels; other messages to the two bots.
ChannelsOf(r) ==
  configured \cap (IF kind[r] = "broadcast" THEN {"telegram", "bale"} ELSE {"sms", "bale"})

\* Fault: an attempt starts from nothing.
TakeAfresh(r) ==
  /\ queue[r] = "waiting"
  /\ queue' = [queue EXCEPT ![r] = "active"]
  /\ left' = [left EXCEPT ![r] = ChannelsOf(r)]
  /\ done' = [done EXCEPT ![r] = {}]
  /\ step' = [step EXCEPT ![r] = "send"]
  /\ UNCHANGED <<invoices, handlers, configured, attempts, saved, sent, unsure, faults>>

\* A worker takes a job: the channels as configured now, less those that
\* earlier attempts have served.
Take(r) ==
  /\ queue[r] = "waiting"
  /\ queue' = [queue EXCEPT ![r] = "active"]
  /\ left' = [left EXCEPT ![r] = ChannelsOf(r) \ saved[r]]
  /\ done' = [done EXCEPT ![r] = saved[r]]
  /\ step' = [step EXCEPT ![r] = "send"]
  /\ UNCHANGED <<invoices, handlers, configured, attempts, saved, sent, unsure, faults>>

\* The channels are served in this order.
NextChannel(cs) == IF "sms" \in cs THEN "sms" ELSE IF "telegram" \in cs THEN "telegram" ELSE "bale"

Sending(r) == queue[r] = "active" /\ step[r] = "send" /\ left[r] # {}

\* The provider accepts and the answer arrives in time.
Deliver(r) ==
  /\ Sending(r)
  /\ LET c == NextChannel(left[r]) IN
     /\ sent' = [sent EXCEPT ![r][c] = @ + 1]
     /\ unsure' = [unsure EXCEPT ![r][c] = @ + 1]
     /\ done' = [done EXCEPT ![r] = @ \cup {c}]
  /\ step' = [step EXCEPT ![r] = "save"]
  /\ UNCHANGED <<invoices, handlers, configured, queue, attempts, saved, left, faults>>

\* job.updateData stores channelsDone.
Save(r) ==
  /\ queue[r] = "active" /\ step[r] = "save"
  /\ LET c == NextChannel(left[r]) IN
     /\ saved' = [saved EXCEPT ![r] = done[r]]
     /\ unsure' = [unsure EXCEPT ![r][c] = @ - 1]
     /\ left' = [left EXCEPT ![r] = @ \ {c}]
  /\ step' = [step EXCEPT ![r] = "send"]
  /\ UNCHANGED <<invoices, handlers, configured, queue, attempts, done, sent, faults>>

\* Fault: the attempts are not counted.
ThrowUncounted(r) ==
  /\ queue' = [queue EXCEPT ![r] = IF attempts[r] + 1 < MaxAttempts THEN "waiting" ELSE "failed"]
  /\ left' = [left EXCEPT ![r] = {}]
  /\ done' = [done EXCEPT ![r] = {}]
  /\ step' = [step EXCEPT ![r] = "idle"]
  /\ UNCHANGED attempts

\* The attempt throws: it is repeated after a while, or was the last one.
Throw(r) ==
  /\ attempts' = [attempts EXCEPT ![r] = @ + 1]
  /\ queue' = [queue EXCEPT ![r] = IF attempts[r] + 1 < MaxAttempts THEN "waiting" ELSE "failed"]
  /\ left' = [left EXCEPT ![r] = {}]
  /\ done' = [done EXCEPT ![r] = {}]
  /\ step' = [step EXCEPT ![r] = "idle"]

\* The provider refuses or does not answer in 15 seconds, in which case it may
\* have accepted the message.  A bot's failure after the SMS is passed over,
\* any other fails the attempt.
Failure(r) ==
  /\ Sending(r)
  /\ LET c == NextChannel(left[r]) IN
     /\ \/ UNCHANGED <<sent, unsure, faults>>
        \/ /\ faults < MaxFaults /\ faults' = faults + 1
           /\ sent' = [sent EXCEPT ![r][c] = @ + 1]
           /\ unsure' = [unsure EXCEPT ![r][c] = @ + 1]
     /\ \/ /\ c # "sms" /\ "sms" \in done[r]
           /\ left' = [left EXCEPT ![r] = @ \ {c}]
           /\ UNCHANGED <<queue, attempts, done, step>>
        \/ ~(c # "sms" /\ "sms" \in done[r]) /\ Throw(r)
  /\ UNCHANGED <<invoices, handlers, configured, saved>>

\* updateData fails: the message is out, the job does not know.
SaveFails(r) ==
  /\ queue[r] = "active" /\ step[r] = "save"
  /\ faults < MaxFaults /\ faults' = faults + 1
  /\ Throw(r)
  /\ UNCHANGED <<invoices, handlers, configured, saved, sent, unsure>>

Complete(r) ==
  /\ queue[r] = "active" /\ step[r] = "send" /\ left[r] = {}
  /\ queue' = [queue EXCEPT ![r] = "completed"]
  /\ step' = [step EXCEPT ![r] = "idle"]
  /\ UNCHANGED <<invoices, handlers, configured, attempts, saved, left, done, sent, unsure, faults>>

\* The process dies: handlers are cut off; BullMQ finds its active jobs stalled
\* and hands them out again.
Crash ==
  /\ faults < MaxFaults /\ faults' = faults + 1
  /\ pc' = [r \in Requests |-> IF pc[r] = "idle" THEN "idle" ELSE "answered"]
  /\ queue' = [r \in Requests |-> IF queue[r] = "active" THEN "waiting" ELSE queue[r]]
  /\ left' = [r \in Requests |-> IF queue[r] = "active" THEN {} ELSE left[r]]
  /\ done' = [r \in Requests |-> IF queue[r] = "active" THEN {} ELSE done[r]]
  /\ step' = [r \in Requests |-> "idle"]
  /\ UNCHANGED <<invoices, kind, inv, configured, attempts, saved, sent, unsure>>

\* POST notifications/failed/:id/retry: one more attempt.
RetryFailed(r) ==
  /\ queue[r] = "failed"
  /\ faults < MaxFaults /\ faults' = faults + 1
  /\ queue' = [queue EXCEPT ![r] = "waiting"]
  /\ UNCHANGED <<invoices, handlers, configured, attempts, saved, left, done, step, sent, unsure>>

-----------------------------------------------------------------------------
Handle(r) ==
  \/ BeginCreate(r) \/ BeginResend(r) \/ BeginRotate(r) \/ BeginVoid(r) \/ BeginBroadcast(r)
  \/ CommitCreate(r) \/ CommitResend(r) \/ CommitRotate(r) \/ CommitVoid(r)
  \/ Enqueue(r) \/ SkipMessage(r)

Work(r) ==
  Take(r) \/ Deliver(r) \/ Save(r) \/ Failure(r) \/ SaveFails(r) \/ Complete(r)

Next ==
  \/ \E r \in Requests : Handle(r) \/ Work(r) \/ RetryFailed(r)
  \/ \E i \in Invoices : Expire(i)
  \/ \E c \in Channels : Configure(c)
  \/ Crash

Spec == Init /\ [][Next]_vars

\* Only the worker is fair: it takes the jobs, every provider call ends within
\* its timeout, and BullMQ repeats an attempt after its delay.
Fairness == \A r \in Requests : WF_vars(Work(r))

FairSpec == Spec /\ Fairness

-----------------------------------------------------------------------------
TypeOK ==
  /\ status \in [Invoices -> {"none", "issued", "voided"}]
  /\ link \in [Invoices -> Requests \cup {NoCode}]
  /\ borne \in [Invoices -> SUBSET Requests]
  /\ expired \in [Invoices -> BOOLEAN]
  /\ kind \in [Requests -> Kinds] /\ inv \in [Requests -> Invoices]
  /\ pc \in [Requests -> {"idle", "commit", "enqueue", "answered"}]
  /\ configured \subseteq Channels
  /\ queue \in [Requests -> {"none", "waiting", "active", "completed", "failed"}]
  /\ attempts \in [Requests -> Nat]
  /\ saved \in [Requests -> SUBSET Channels]
  /\ left \in [Requests -> SUBSET Channels]
  /\ done \in [Requests -> SUBSET Channels]
  /\ step \in [Requests -> {"idle", "send", "save"}]
  /\ sent \in [Requests -> [Channels -> Nat]]
  /\ unsure \in [Requests -> [Channels -> Nat]]
  /\ faults \in Nat

\* A customer gets the same message twice only where an answer was lost: of the
\* messages a provider accepted, all but one are such that the job never learnt
\* of them (a timeout, a failed updateData, a crash), however often it is retried.
DuplicateOnlyAfterLostAnswer ==
  \A r \in Requests, c \in Channels :
    sent[r][c] <= unsure[r][c] + IF c \in saved[r] THEN 1 ELSE 0

\* What getPublic shows under a code.
Shows(code, i) == link[i] = code /\ status[i] = "issued" /\ ~expired[i]

\* A link that has stopped working, replaced, expired or of a voided invoice,
\* never works again: what renews the period also replaces the code.
StaysRetired ==
  \A i \in Invoices : \A code \in borne[i] : ~Shows(code, i) => ~Shows(code, i)'

RetiredForGood == [][StaysRetired]_vars

\* Every job ends, completed or failed for good: no provider, crash or outage
\* keeps it in the queue forever.
Queued(r) == queue[r] \in {"waiting", "active"}

JobsEnd == \A r \in Requests : Queued(r) ~> ~Queued(r)

\* The link in any invoice message has been a link of its invoice.
MessageLinkWasBorne ==
  \A r \in Requests : kind[r] \in {"create", "resend"} /\ queue[r] # "none" => r \in borne[inv[r]]
=============================================================================
