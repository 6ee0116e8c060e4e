-------------------------------- MODULE SyncFeed --------------------------------
(***************************************************************************)
(* The change feed of the mobile clients: writeSyncChange of audit-log.ts  *)
(* and bootstrap, pull and ackChanges of SyncService.                      *)
(*                                                                         *)
(* Each change to an entity is named.  What an entity is, what a row of    *)
(* sync_changes carries and what a device holds of it are the sets of the  *)
(* changes they include, so a stale copy is one that lacks some of them.   *)
(* A step is one statement, or all that a transaction does under the row   *)
(* lock of its entity; revisions are drawn when a row is inserted, before  *)
(* the commit that shows it.                                               *)
(***************************************************************************)
EXTENDS Integers, FiniteSets, FiniteSetsExt

CONSTANTS
  Entities,   \* the entities that clients cache
  Changes,    \* the changes made to them, each by a request of its own
  Devices,    \* the mobile clients
  Limit,      \* rows in an answer of pull
  MaxFaults   \* bound on crashes and on operations acknowledged to a device

VARIABLES
  state,      \* the committed changes of each entity
  rows,       \* sync_changes
  nextRev,    \* the sequence of SyncChange.revision
  route,      \* how a change is made and published
  entity,     \* which entity it changes
  pc,         \* where its request is
  seen,       \* the snapshot it publishes
  drawn,      \* the revision its open transaction has drawn
  doomed,     \* the rows its transaction has deleted, or that it waits to delete
  cursor,     \* the last revision a device believes to have
  cache,      \* what it holds of each entity
  unread,     \* the tables its bootstrap has still to read, "cursor" among them
  faults      \* faults so far

publishers == <<route, entity, pc, seen, drawn, doomed>>
devices    == <<cursor, cache, unread>>
vars       == <<state, rows, nextRev, publishers, devices, faults>>

Row == [revision : Nat, entity : Entities, payload : SUBSET Changes]

\* A change is made and published by one transaction, with the row its UPDATE
\* returned; or by autocommitted statements, with the row their own UPDATE
\* returned (bulk prices, customers, places) or with one read back (an image of
\* a product).  A payment of a customer publishes the customer without changing
\* its row, and a sale, a return or a purchase changes the quantity of a line
\* and publishes nothing of the line.
Routes == {"transaction", "bulk", "image", "payment", "unpublished"}

Init ==
  /\ state = [e \in Entities |-> {}]
  /\ rows = {}
  /\ nextRev = 1
  /\ route \in [Changes -> Routes]
  /\ entity \in [Changes -> Entities]
  /\ pc = [c \in Changes |-> "idle"]
  /\ seen = [c \in Changes |-> {}]
  /\ drawn = [c \in Changes |-> 0]
  /\ doomed = [c \in Changes |-> {}]
  /\ cursor = [d \in Devices |-> 0]
  /\ cache = [d \in Devices |-> [e \in Entities |-> {}]]
  /\ unread = [d \in Devices |-> Entities \cup {"cursor"}]
  /\ faults = 0

RowsOf(e) == {row \in rows : row.entity = e}
Snapshot(c) == [revision |-> nextRev, entity |-> entity[c], payload |-> seen[c]]
Goto(c, p) == pc' = [pc EXCEPT ![c] = p]

\* Fault: the entity's row is not locked.
RowFreeAlways(c) == TRUE

\* No other open transaction has updated the entity's row.
RowFree(c) ==
  \A o \in Changes \ {c} :
    ~(route[o] = "transaction" /\ entity[o] = entity[c] /\ pc[o] \in {"changed", "waiting", "published"})

-----------------------------------------------------------------------------
\* A domain transaction updates its entity, holds the row from then on and
\* builds its snapshot from the row as it has become.
Change(c) ==
  /\ pc[c] = "idle" /\ route[c] = "transaction" /\ RowFree(c)
  /\ seen' = [seen EXCEPT ![c] = state[entity[c]] \cup {c}]
  /\ Goto(c, "changed")
  /\ UNCHANGED <<state, rows, nextRev, route, entity, drawn, doomed, devices, faults>>

\* CustomersService.payment reads the customer it publishes, and locks nothing.
View(c) ==
  /\ pc[c] = "idle" /\ route[c] = "payment"
  /\ seen' = [seen EXCEPT ![c] = state[entity[c]]]
  /\ Goto(c, "changed")
  /\ UNCHANGED <<state, rows, nextRev, route, entity, drawn, doomed, devices, faults>>

\* The rows its deleteMany takes: all that the statement sees of the entity; or,
\* if it had to wait, what is left of those it saw when it began.
Replaces(c) == IF pc[c] = "waiting" THEN doomed[c] \cap rows ELSE RowsOf(entity[c])

\* An open transaction has deleted one of them.
Blocked(c) == \E o \in Changes \ {c} : pc[o] = "published" /\ doomed[o] \cap Replaces(c) # {}

\* deleteMany waits for it.
Wait(c) ==
  /\ pc[c] \in {"changed", "delete"} /\ Blocked(c)
  /\ doomed' = [doomed EXCEPT ![c] = Replaces(c)]
  /\ Goto(c, "waiting")
  /\ UNCHANGED <<state, rows, nextRev, route, entity, seen, drawn, devices, faults>>

InTransaction(c) == route[c] \in {"transaction", "payment"}

\* writeAudit: the earlier row of the entity is deleted and the new one inserted.
Publish(c) ==
  /\ InTransaction(c) /\ pc[c] \in {"changed", "waiting"} /\ ~Blocked(c)
  /\ doomed' = [doomed EXCEPT ![c] = Replaces(c)]
  /\ drawn' = [drawn EXCEPT ![c] = nextRev]
  /\ nextRev' = nextRev + 1
  /\ Goto(c, "published")
  /\ UNCHANGED <<state, rows, route, entity, seen, devices, faults>>

\* What a transaction has changed of the entity shows with its commit.
Commit(c) ==
  /\ pc[c] = "published"
  /\ state' = [state EXCEPT ![entity[c]] = IF route[c] = "payment" THEN @ ELSE @ \cup {c}]
  /\ rows' = (rows \ doomed[c]) \cup {[Snapshot(c) EXCEPT !.revision = drawn[c]]}
  /\ Goto(c, "done")
  /\ UNCHANGED <<nextRev, route, entity, seen, drawn, doomed, devices, faults>>

\* The transaction fails; the revision it has drawn stays unused.
RollBack(c) ==
  /\ InTransaction(c) /\ pc[c] \in {"changed", "waiting", "published"}
  /\ Goto(c, "done")
  /\ UNCHANGED <<state, rows, nextRev, route, entity, seen, drawn, doomed, devices, faults>>

-----------------------------------------------------------------------------
\* The transaction of a sale, which publishes its invoice and no line.
ChangeUnpublished(c) ==
  /\ pc[c] = "idle" /\ route[c] = "unpublished" /\ RowFree(c)
  /\ state' = [state EXCEPT ![entity[c]] = @ \cup {c}]
  /\ Goto(c, "done")
  /\ UNCHANGED <<rows, nextRev, route, entity, seen, drawn, doomed, devices, faults>>

\* bulkUpdatePrices on one item: UPDATE waits for the row and returns it.
ChangeInBulk(c) ==
  /\ pc[c] = "idle" /\ route[c] = "bulk" /\ RowFree(c)
  /\ state' = [state EXCEPT ![entity[c]] = @ \cup {c}]
  /\ seen' = [seen EXCEPT ![c] = state[entity[c]] \cup {c}]
  /\ Goto(c, "delete")
  /\ UNCHANGED <<rows, nextRev, route, entity, drawn, doomed, devices, faults>>

\* An image belongs to a product but is a row of its own, so nothing waits.
ChangeImage(c) ==
  /\ pc[c] = "idle" /\ route[c] = "image"
  /\ state' = [state EXCEPT ![entity[c]] = @ \cup {c}]
  /\ Goto(c, "read")
  /\ UNCHANGED <<rows, nextRev, route, entity, seen, drawn, doomed, devices, faults>>

\* publishProductImageChange reads the product as committed now.
ReadBack(c) ==
  /\ pc[c] = "read"
  /\ seen' = [seen EXCEPT ![c] = state[entity[c]]]
  /\ Goto(c, "delete")
  /\ UNCHANGED <<state, rows, nextRev, route, entity, drawn, doomed, devices, faults>>

\* writeSyncChange outside a transaction: deleteMany is a statement ...
DeleteRows(c) ==
  /\ ~InTransaction(c) /\ pc[c] \in {"delete", "waiting"} /\ ~Blocked(c)
  /\ rows' = rows \ Replaces(c)
  /\ Goto(c, "insert")
  /\ UNCHANGED <<state, nextRev, route, entity, seen, drawn, doomed, devices, faults>>

\* ... and create is another.
InsertRow(c) ==
  /\ pc[c] = "insert"
  /\ rows' = rows \cup {Snapshot(c)}
  /\ nextRev' = nextRev + 1
  /\ Goto(c, "done")
  /\ UNCHANGED <<state, route, entity, seen, drawn, doomed, devices, faults>>

\* The process dies: what was not committed is gone, the rest stays half done.
Crash ==
  /\ faults < MaxFaults /\ faults' = faults + 1
  /\ pc' = [c \in Changes |-> IF pc[c] = "idle" THEN "idle" ELSE "done"]
  /\ UNCHANGED <<state, rows, nextRev, route, entity, seen, drawn, doomed, devices>>

-----------------------------------------------------------------------------
LastRevision == Max({row.revision : row \in rows} \cup {0})

\* bootstrap reads its tables and the watermark side by side.
ReadTable(d, e) ==
  /\ e \in unread[d]
  /\ cache' = [cache EXCEPT ![d][e] = state[e]]
  /\ unread' = [unread EXCEPT ![d] = @ \ {e}]
  /\ UNCHANGED <<state, rows, nextRev, publishers, cursor, faults>>

ReadWatermark(d) ==
  /\ "cursor" \in unread[d]
  /\ cursor' = [cursor EXCEPT ![d] = LastRevision]
  /\ unread' = [unread EXCEPT ![d] = @ \ {"cursor"}]
  /\ UNCHANGED <<state, rows, nextRev, publishers, cache, faults>>

Ahead(d) == {row \in rows : row.revision > cursor[d]}

\* Fault: the newest rows first.
PageNewest(d) ==
  {row \in Ahead(d) : Cardinality({o \in Ahead(d) : o.revision > row.revision}) < Limit}

\* The first rows after the cursor.
Page(d) ==
  {row \in Ahead(d) : Cardinality({o \in Ahead(d) : o.revision < row.revision}) < Limit}

Latest(some) == CHOOSE row \in some : \A o \in some : o.revision <= row.revision

\* pull, and the client that applies the answer and stores its cursor.
Pull(d) ==
  /\ unread[d] = {} /\ Page(d) # {}
  /\ cache' = [cache EXCEPT ![d] = [e \in Entities |->
       LET news == {row \in Page(d) : row.entity = e} IN
       IF news = {} THEN cache[d][e] ELSE Latest(news).payload]]
  /\ cursor' = [cursor EXCEPT ![d] = Latest(Page(d)).revision]
  /\ UNCHANGED <<state, rows, nextRev, publishers, unread, faults>>

\* An operation is acknowledged: no writer stores an operationId with its row,
\* so the answer has no changes and the watermark, which the client stores.
Acknowledge(d) ==
  /\ unread[d] = {} /\ faults < MaxFaults /\ faults' = faults + 1
  /\ cursor' = [cursor EXCEPT ![d] = LastRevision]
  /\ UNCHANGED <<state, rows, nextRev, publishers, cache, unread>>

-----------------------------------------------------------------------------
Next ==
  \/ \E c \in Changes :
       \/ Change(c) \/ View(c) \/ Wait(c) \/ Publish(c) \/ Commit(c) \/ RollBack(c)
       \/ ChangeUnpublished(c) \/ ChangeInBulk(c) \/ ChangeImage(c) \/ ReadBack(c) \/ DeleteRows(c) \/ InsertRow(c)
  \/ \E d \in Devices :
       \/ \E e \in Entities : ReadTable(d, e)
       \/ ReadWatermark(d) \/ Pull(d) \/ Acknowledge(d)
  \/ Crash

Spec == Init /\ [][Next]_vars

-----------------------------------------------------------------------------
TypeOK ==
  /\ state \in [Entities -> SUBSET Changes]
  /\ rows \subseteq Row
  /\ nextRev \in Nat
  /\ route \in [Changes -> Routes] /\ entity \in [Changes -> Entities]
  /\ pc \in [Changes -> {"idle", "changed", "waiting", "published", "read", "delete", "insert", "done"}]
  /\ seen \in [Changes -> SUBSET Changes]
  /\ drawn \in [Changes -> Nat]
  /\ doomed \in [Changes -> SUBSET Row]
  /\ cursor \in [Devices -> Nat]
  /\ cache \in [Devices -> [Entities -> SUBSET Changes]]
  /\ unread \in [Devices -> SUBSET (Entities \cup {"cursor"})]
  /\ faults \in Nat

Transactional(e) == \A c \in Changes : entity[c] = e => route[c] = "transaction"

\* What writeSyncChange promises of "every entity" holds of one that only
\* transactions change and publish, each locking its row: there is "at most ONE
\* live change row", and it carries all the committed changes.
OneRowTellsAll ==
  \A e \in Entities : Transactional(e) =>
    IF state[e] = {} THEN RowsOf(e) = {}
    ELSE Cardinality(RowsOf(e)) = 1 /\ \A row \in RowsOf(e) : row.payload = state[e]

\* The device's pulls will bring no more of the entity than what it has, which
\* is not what the last row carries.
Missed(d, e) ==
  /\ unread[d] = {} /\ RowsOf(e) # {}
  /\ \A row \in RowsOf(e) : row.revision <= cursor[d]
  /\ cache[d][e] # Latest(RowsOf(e)).payload

\* No pull makes a device miss the last row of an entity, and of the publishers
\* only a commit of a revision that the cursor has already passed, or a deleteMany
\* that had to wait, which may leave an older row until its create.  The other
\* steps that do are the end of a bootstrap and an acknowledgement.
MissesInFourWays ==
  \A d \in Devices, e \in Entities : ~Missed(d, e) /\ Missed(d, e)' =>
    \/ unread'[d] # unread[d]
    \/ Acknowledge(d)
    \/ \E c \in Changes : entity[c] = e /\
         \/ Commit(c) /\ drawn[c] <= cursor[d]
         \/ DeleteRows(c) /\ pc[c] = "waiting"

MissedInFourWays == [][MissesInFourWays]_vars

\* "The previous row is replaced by the new one, which always carries a higher
\* revision" (audit-log.ts:89), however publishers overlap: a row goes when a
\* later one of its entity comes, or when an autocommitted publisher is between
\* its two statements.
RowsGiveWayToLater ==
  \A gone \in rows \ rows' :
    \/ \E row \in rows' : row.entity = gone.entity /\ row.revision > gone.revision
    \/ \E c \in Changes : entity[c] = gone.entity /\ DeleteRows(c)

ReplacedByHigher == [][RowsGiveWayToLater]_vars

-----------------------------------------------------------------------------
\* What audit-log.ts and sync.service.ts say without the exceptions.

\* "every entity keeps at most ONE live change row" (audit-log.ts:89).
OneLiveRow == \A e \in Entities : Cardinality(RowsOf(e)) <= 1

\* "any device, however far behind, still pulls the entity's latest state"
\* (audit-log.ts:91): once nobody is changing or publishing an entity that has
\* been published, the last row carries its state.
FeedTellsLatest ==
  \A e \in Entities :
    (\A c \in Changes : entity[c] = e => pc[c] \in {"idle", "done"}) /\ RowsOf(e) # {}
      => Latest(RowsOf(e)).payload = state[e]

\* The same of the device.  A bootstrap ends in a way that keeps the last row of an
\* entity from it ...
BootstrapMisses == \E d \in Devices, e \in Entities : unread'[d] # unread[d] /\ Missed(d, e)'

\* ... or a transaction commits in such a way.
CommitIsPassed ==
  \E d \in Devices, c \in Changes : Commit(c) /\ ~Missed(d, entity[c]) /\ Missed(d, entity[c])'

\* A client that stores the cursor of an acknowledgement "needs NO post-operation
\* pull" (sync.service.ts:458): this one would have needed it.
AcknowledgementMisses ==
  \E d \in Devices, e \in Entities : Acknowledge(d) /\ ~Missed(d, e) /\ Missed(d, e)'
=============================================================================
