------------------------------ MODULE Clients_proofs ------------------------------
(***************************************************************************)
(* Proofs about what the clients see, the change feed and the session of   *)
(* the panel, each by itself and as a part of MCServices: for every set of *)
(* entities, changes, devices and calls and any number of tokens and       *)
(* faults.  F and S are their modules.                                     *)
(***************************************************************************)
EXTENDS MCServices, FiniteLemmas, TLAPS

\* The cardinality that F has from the standard module is the standard one.
LEMMA SameCardinality == \A X : F!Cardinality(X) = Cardinality(X)
BY DEF F!Cardinality, Cardinality


\* The types of what publishers read and write.
PublishersTyped ==
  /\ state \in [Entities -> SUBSET Changes]
  /\ route \in [Changes -> F!Routes] /\ entity \in [Changes -> Entities]
  /\ pc \in [Changes -> {"idle", "changed", "waiting", "published", "read", "delete", "insert", "done"}]
  /\ seen \in [Changes -> SUBSET Changes]
  /\ drawn \in [Changes -> Nat] /\ nextRev \in Nat
  /\ doomed \in [Changes -> SUBSET F!Row]

FeedTyped == PublishersTyped /\ rows \subseteq F!Row

\* Only transactions publish before they commit.
RoutesAreKept ==
  \A c \in Changes :
    /\ pc[c] \in {"changed", "published"} => F!InTransaction(c)
    /\ pc[c] \in {"read", "delete", "insert"} => ~F!InTransaction(c)

Holds(c) == route[c] = "transaction" /\ pc[c] \in {"changed", "waiting", "published"}

\* The row lock: one open transaction that has updated the entity.
OneHolder ==
  \A c, o \in Changes : Holds(c) /\ Holds(o) /\ entity[c] = entity[o] => c = o

\* A publisher deletes rows of its own entity only; and when only transactions
\* change the entity, none waits, and what one has deleted and read stays what
\* is there.
SnapshotsStayTrue ==
  \A c \in Changes :
    /\ pc[c] \in {"waiting", "published"} => \A row \in doomed[c] : row.entity = entity[c]
    /\ F!Transactional(entity[c]) =>
         /\ pc[c] # "waiting"
         /\ pc[c] \in {"changed", "published"} => seen[c] = state[entity[c]] \cup {c}
         /\ pc[c] = "published" => doomed[c] = F!RowsOf(entity[c])

FeedInv == PublishersTyped /\ RoutesAreKept /\ OneHolder /\ SnapshotsStayTrue /\ F!OneRowTellsAll

LEMMA InitFeedInv == F!Init => FeedInv
BY DEF F!Init, FeedInv, PublishersTyped, RoutesAreKept, F!InTransaction, Holds, OneHolder, SnapshotsStayTrue,
       F!OneRowTellsAll, F!RowsOf, F!Transactional

\* A step that keeps the rows and the states of the entities that only
\* transactions change keeps what the feed tells of them.
LEMMA FeedKept ==
  ASSUME FeedInv, UNCHANGED <<route, entity>>,
         \A e \in Entities : F!Transactional(e) => state'[e] = state[e] /\ F!RowsOf(e)' = F!RowsOf(e)
  PROVE  F!OneRowTellsAll'
BY DEF FeedInv, F!OneRowTellsAll, F!Transactional

LEMMA ChangeStep ==
  ASSUME FeedInv, NEW c \in Changes, F!Change(c)
  PROVE  FeedInv'
<1>1. PublishersTyped' /\ RoutesAreKept'
  BY DEF FeedInv, PublishersTyped, RoutesAreKept, F!InTransaction, F!Change, F!Goto
<1>2. OneHolder'
  BY DEF FeedInv, PublishersTyped, OneHolder, Holds, F!Change, F!RowFree, F!Goto
<1>3. SnapshotsStayTrue' /\ F!OneRowTellsAll'
  BY DEF FeedInv, PublishersTyped, SnapshotsStayTrue, F!OneRowTellsAll, F!Transactional, F!RowsOf, F!Change, F!Goto
<1> QED BY <1>1, <1>2, <1>3 DEF FeedInv

\* A payment publishes an entity that not only transactions change.
LEMMA ViewStep ==
  ASSUME FeedInv, NEW c \in Changes, F!View(c)
  PROVE  FeedInv'
<1>1. PublishersTyped' /\ RoutesAreKept'
  BY DEF FeedInv, PublishersTyped, RoutesAreKept, F!InTransaction, F!View, F!Goto
<1>2. OneHolder'
  BY DEF FeedInv, PublishersTyped, OneHolder, Holds, F!View, F!Goto
<1>3. SnapshotsStayTrue' /\ F!OneRowTellsAll'
  BY DEF FeedInv, PublishersTyped, SnapshotsStayTrue, F!OneRowTellsAll, F!Transactional, F!RowsOf, F!View, F!Goto
<1> QED BY <1>1, <1>2, <1>3 DEF FeedInv

\* Whom a publisher waits for has deleted rows of the same entity; two
\* transactions would both hold it.
LEMMA WaitStep ==
  ASSUME FeedInv, FeedTyped, NEW c \in Changes, F!Wait(c)
  PROVE  FeedInv'
<1>0. F!Replaces(c) = F!RowsOf(entity[c]) /\ pc[c] \in {"changed", "delete"}
  BY DEF F!Wait, F!Replaces
<1>1. PublishersTyped' /\ RoutesAreKept'
  <2>1. doomed' \in [Changes -> SUBSET F!Row]
    BY <1>0 DEF FeedTyped, FeedInv, PublishersTyped, F!RowsOf, F!Wait
  <2> QED BY <2>1 DEF FeedInv, PublishersTyped, RoutesAreKept, F!InTransaction, F!Wait, F!Goto
<1>2. OneHolder'
  BY DEF FeedInv, PublishersTyped, RoutesAreKept, F!InTransaction, OneHolder, Holds, F!Wait, F!Goto
<1>3. ~F!Transactional(entity[c])
  <2>1. PICK o \in Changes \ {c} : pc[o] = "published" /\ doomed[o] \cap F!RowsOf(entity[c]) # {}
    BY <1>0 DEF F!Wait, F!Blocked
  <2>2. entity[o] = entity[c]
    BY <2>1 DEF FeedInv, SnapshotsStayTrue, F!RowsOf
  <2>3. ASSUME F!Transactional(entity[c]) PROVE FALSE
    <3>1. route[o] = "transaction" /\ route[c] = "transaction"
      BY <2>2, <2>3 DEF F!Transactional
    <3>2. pc[c] = "changed"
      BY <3>1, <1>0 DEF FeedInv, RoutesAreKept, F!InTransaction
    <3> QED BY <3>1, <3>2, <2>1, <2>2 DEF FeedInv, OneHolder, Holds
  <2> QED BY <2>3
<1>4. SnapshotsStayTrue'
  BY <1>0, <1>3 DEF FeedInv, PublishersTyped, SnapshotsStayTrue, F!Transactional, F!RowsOf, F!Wait, F!Goto
<1>5. F!OneRowTellsAll'
  BY DEF FeedInv, F!OneRowTellsAll, F!Transactional, F!RowsOf, F!Wait
<1> QED BY <1>1, <1>2, <1>4, <1>5 DEF FeedInv

LEMMA PublishStep ==
  ASSUME FeedInv, FeedTyped, NEW c \in Changes, F!Publish(c)
  PROVE  FeedInv'
<1>0. /\ F!Replaces(c) \subseteq F!Row /\ \A row \in F!Replaces(c) : row.entity = entity[c]
      /\ pc[c] # "waiting" => F!Replaces(c) = F!RowsOf(entity[c])
  BY DEF FeedTyped, FeedInv, SnapshotsStayTrue, F!Replaces, F!RowsOf
<1>1. PublishersTyped' /\ RoutesAreKept'
  <2>1. doomed' \in [Changes -> SUBSET F!Row]
    BY <1>0 DEF FeedInv, PublishersTyped, F!Publish
  <2> QED BY <2>1 DEF FeedInv, PublishersTyped, RoutesAreKept, F!InTransaction, F!Publish, F!Goto
<1>2. OneHolder'
  BY DEF FeedInv, PublishersTyped, OneHolder, Holds, F!Publish, F!Goto
<1>3. SnapshotsStayTrue'
  BY <1>0 DEF FeedInv, PublishersTyped, SnapshotsStayTrue, F!Transactional, F!RowsOf, F!Publish, F!Goto
<1>4. F!OneRowTellsAll'
  BY DEF FeedInv, F!OneRowTellsAll, F!Transactional, F!RowsOf, F!Publish
<1> QED BY <1>1, <1>2, <1>3, <1>4 DEF FeedInv

\* The commit: the rows it replaces are all the rows of its entity.
LEMMA CommitStep ==
  ASSUME FeedInv, NEW c \in Changes, F!Commit(c)
  PROVE  FeedInv'
<1> DEFINE new == [F!Snapshot(c) EXCEPT !.revision = drawn[c]]
<1>0. new.entity = entity[c] /\ new.payload = seen[c]
  BY DEF F!Snapshot
<1>1. PublishersTyped' /\ RoutesAreKept'
  BY DEF FeedInv, PublishersTyped, RoutesAreKept, F!InTransaction, F!Commit, F!Goto
<1>2. OneHolder'
  BY DEF FeedInv, PublishersTyped, OneHolder, Holds, F!Commit, F!Goto
<1>3. \A e \in Entities : e # entity[c] => state'[e] = state[e] /\ F!RowsOf(e)' = F!RowsOf(e)
  BY <1>0 DEF FeedInv, PublishersTyped, SnapshotsStayTrue, F!RowsOf, F!Commit
<1>4. SnapshotsStayTrue'
  <2>0. UNCHANGED <<route, entity, seen, doomed>> /\ \A o \in Changes : F!Transactional(entity[o])' => F!Transactional(entity[o])
    BY DEF F!Commit, F!Transactional
  <2>1. SUFFICES ASSUME NEW o \in Changes, pc'[o] \in {"changed", "waiting", "published"}
               PROVE  /\ pc'[o] \in {"waiting", "published"} => \A row \in doomed[o] : row.entity = entity[o]
                      /\ F!Transactional(entity[o]) =>
                           /\ pc'[o] # "waiting"
                           /\ pc'[o] \in {"changed", "published"} => seen[o] = state'[entity[o]] \cup {o}
                           /\ pc'[o] = "published" => doomed[o] = F!RowsOf(entity[o])'
    BY <2>0 DEF SnapshotsStayTrue, F!RowsOf
  <2>2. o # c /\ pc'[o] = pc[o] /\ entity[o] \in Entities
    BY <2>1 DEF FeedInv, PublishersTyped, F!Commit, F!Goto
  <2>3. CASE ~F!Transactional(entity[o])
    BY <2>2, <2>3 DEF FeedInv, SnapshotsStayTrue
  <2>4. CASE F!Transactional(entity[o])
    <3>1. entity[o] # entity[c]
      <4>1. ASSUME entity[o] = entity[c] PROVE FALSE
        <5>1. route[o] = "transaction" /\ route[c] = "transaction"
          BY <2>4, <4>1 DEF F!Transactional
        <5> QED BY <5>1, <4>1, <2>1, <2>2 DEF FeedInv, OneHolder, Holds, F!Commit
      <4> QED BY <4>1
    <3>2. state'[entity[o]] = state[entity[o]] /\ F!RowsOf(entity[o])' = F!RowsOf(entity[o])
      BY <2>0, <2>2, <3>1, <1>3 DEF F!RowsOf
    <3>3. /\ pc[o] \in {"waiting", "published"} => \A row \in doomed[o] : row.entity = entity[o]
          /\ pc[o] # "waiting"
          /\ pc[o] \in {"changed", "published"} => seen[o] = state[entity[o]] \cup {o}
          /\ pc[o] = "published" => doomed[o] = F!RowsOf(entity[o])
      BY <2>4 DEF FeedInv, SnapshotsStayTrue
    <3> HIDE DEF new
    <3> QED BY <2>2, <3>2, <3>3
  <2> QED BY <2>3, <2>4
<1>5. ASSUME F!Transactional(entity[c])
      PROVE  /\ F!RowsOf(entity[c])' = {new}
             /\ state'[entity[c]] = seen[c] /\ seen[c] # {}
  <2>1. doomed[c] = F!RowsOf(entity[c]) /\ seen[c] = state[entity[c]] \cup {c}
    BY <1>5 DEF FeedInv, SnapshotsStayTrue, F!Commit
  <2>0. route[c] # "payment"
    BY <1>5 DEF F!Transactional
  <2>2. state'[entity[c]] = state[entity[c]] \cup {c}
    BY <2>0 DEF FeedInv, PublishersTyped, F!Commit
  <2>3. rows' = (rows \ doomed[c]) \cup {new} /\ entity' = entity
    BY DEF F!Commit
  <2>4. F!RowsOf(entity[c])' = {new}
    BY <2>1, <2>3, <1>0 DEF F!RowsOf
  <2> QED BY <2>1, <2>2, <2>4
<1>6. F!OneRowTellsAll'
  <2> SUFFICES ASSUME NEW e \in Entities, F!Transactional(e)'
               PROVE  IF state'[e] = {} THEN F!RowsOf(e)' = {}
                      ELSE F!Cardinality(F!RowsOf(e)') = 1 /\ \A row \in F!RowsOf(e)' : row.payload = state'[e]
    BY DEF F!OneRowTellsAll
  <2>1. F!Transactional(e)
    BY DEF F!Transactional, F!Commit
  <2>2. CASE e # entity[c]
    BY <2>1, <2>2, <1>3 DEF FeedInv, F!OneRowTellsAll
  <2>3. CASE e = entity[c]
    <3>1. F!Cardinality({new}) = 1
      BY FS_Singleton, SameCardinality
    <3>2. F!RowsOf(e)' = {new} /\ state'[e] = seen[c] /\ seen[c] # {}
      <4>1. entity' = entity
        BY DEF F!Commit
      <4>2. F!RowsOf(e)' = F!RowsOf(entity[c])'
        BY <2>3, <4>1 DEF F!RowsOf
      <4> QED BY <2>1, <2>3, <4>2, <1>5
    <3> QED BY <3>1, <3>2, <1>0
  <2> QED BY <2>2, <2>3
<1> QED BY <1>1, <1>2, <1>4, <1>6 DEF FeedInv

\* A failed transaction leaves its entity to the next; a crash does to all.
LEMMA AbandonStep ==
  ASSUME FeedInv, F!Crash \/ \E c \in Changes : F!RollBack(c)
  PROVE  FeedInv'
<1>1. UNCHANGED <<state, rows, nextRev, route, entity, seen, drawn, doomed>>
  BY DEF F!Crash, F!RollBack
<1>2. /\ pc' \in [Changes -> {"idle", "changed", "waiting", "published", "read", "delete", "insert", "done"}]
      /\ \A c \in Changes : pc'[c] = pc[c] \/ pc'[c] = "done"
  BY DEF FeedInv, PublishersTyped, F!Crash, F!RollBack, F!Goto
<1>3. PublishersTyped' /\ RoutesAreKept' /\ OneHolder'
  BY <1>1, <1>2 DEF FeedInv, PublishersTyped, RoutesAreKept, F!InTransaction, OneHolder, Holds
<1>4. SnapshotsStayTrue'
  BY <1>1, <1>2 DEF FeedInv, SnapshotsStayTrue, F!Transactional, F!RowsOf
<1>5. F!OneRowTellsAll'
  BY <1>1 DEF FeedInv, F!OneRowTellsAll, F!Transactional, F!RowsOf
<1> QED BY <1>3, <1>4, <1>5 DEF FeedInv

\* Publishers outside transactions, and changes that are not published, touch
\* no entity that only transactions change and publish.
LEMMA OutsideStep ==
  ASSUME FeedInv, NEW c \in Changes,
         \/ F!ChangeUnpublished(c) \/ F!ChangeInBulk(c) \/ F!ChangeImage(c) \/ F!ReadBack(c)
         \/ F!DeleteRows(c) \/ F!InsertRow(c)
  PROVE  FeedInv'
<1> USE DEF F!ChangeUnpublished, F!ChangeInBulk, F!ChangeImage, F!ReadBack, F!DeleteRows, F!InsertRow
<1>1. ~F!InTransaction(c) /\ route[c] # "transaction" /\ UNCHANGED <<route, entity, drawn, doomed>>
  BY DEF FeedInv, RoutesAreKept, F!InTransaction
<1>2. PublishersTyped' /\ RoutesAreKept'
  BY <1>1 DEF FeedInv, PublishersTyped, RoutesAreKept, F!InTransaction, F!Goto
<1>3. /\ \A o \in Changes \ {c} : pc'[o] = pc[o] /\ seen'[o] = seen[o]
      /\ pc'[c] \in {"read", "delete", "insert", "done"}
  BY DEF FeedInv, PublishersTyped, F!Goto
<1>4. \A e \in Entities : e # entity[c] => state'[e] = state[e] /\ F!RowsOf(e)' = F!RowsOf(e)
  <2>1. CASE F!DeleteRows(c)
    <3>1. \A row \in F!Replaces(c) : row.entity = entity[c]
      BY DEF FeedInv, SnapshotsStayTrue, F!Replaces, F!RowsOf
    <3> QED BY <2>1, <3>1 DEF F!RowsOf
  <2>2. CASE ~F!DeleteRows(c)
    BY <2>2 DEF FeedInv, PublishersTyped, F!RowsOf, F!Snapshot
  <2> QED BY <2>1, <2>2
<1>5. ~F!Transactional(entity[c])
  BY <1>1 DEF F!Transactional
<1>6. OneHolder'
  BY <1>1, <1>3 DEF FeedInv, OneHolder, Holds
<1>7. SnapshotsStayTrue'
  <2>0. \A o \in Changes : F!Transactional(entity[o])' => F!Transactional(entity[o])
    BY <1>1 DEF F!Transactional
  <2>1. SUFFICES ASSUME NEW o \in Changes, pc'[o] \in {"changed", "waiting", "published"}
               PROVE  /\ pc'[o] \in {"waiting", "published"} => \A row \in doomed[o] : row.entity = entity[o]
                      /\ F!Transactional(entity[o]) =>
                           /\ pc'[o] # "waiting"
                           /\ pc'[o] \in {"changed", "published"} => seen'[o] = state'[entity[o]] \cup {o}
                           /\ pc'[o] = "published" => doomed[o] = F!RowsOf(entity[o])'
    BY <1>1, <2>0 DEF SnapshotsStayTrue, F!RowsOf
  <2>2. o # c /\ pc'[o] = pc[o] /\ seen'[o] = seen[o] /\ entity[o] \in Entities
    BY <2>1, <1>3 DEF FeedInv, PublishersTyped
  <2>3. F!Transactional(entity[o]) => entity[o] # entity[c]
    BY <1>5
  <2> QED BY <2>2, <2>3, <1>4 DEF FeedInv, SnapshotsStayTrue
<1>8. F!OneRowTellsAll'
  BY <1>1, <1>4, <1>5, FeedKept
<1> QED BY <1>2, <1>6, <1>7, <1>8 DEF FeedInv

LEMMA DeviceStep ==
  ASSUME FeedInv, UNCHANGED <<state, rows, nextRev, F!publishers>>
  PROVE  FeedInv'
<1>1. UNCHANGED <<state, rows, nextRev, route, entity, pc, seen, drawn, doomed>>
  BY DEF F!publishers
<1>2. PublishersTyped' /\ RoutesAreKept' /\ OneHolder'
  BY <1>1 DEF FeedInv, PublishersTyped, RoutesAreKept, F!InTransaction, Holds, OneHolder
<1>3. SnapshotsStayTrue' /\ F!OneRowTellsAll'
  BY <1>1 DEF FeedInv, SnapshotsStayTrue, F!OneRowTellsAll, F!RowsOf, F!Transactional
<1> QED BY <1>2, <1>3 DEF FeedInv

PublisherStep(c) ==
  \/ F!Change(c) \/ F!View(c) \/ F!Wait(c) \/ F!Publish(c) \/ F!Commit(c) \/ F!RollBack(c)
  \/ F!ChangeUnpublished(c) \/ F!ChangeInBulk(c) \/ F!ChangeImage(c) \/ F!ReadBack(c)
  \/ F!DeleteRows(c) \/ F!InsertRow(c)

\* Every row is one that Commit or InsertRow can have built.
LEMMA FeedTypedStep ==
  ASSUME FeedTyped, [F!Next]_(F!vars)
  PROVE  FeedTyped'
<1> USE DEF FeedTyped
<1>1. \A c \in Changes : F!Snapshot(c) \in F!Row /\ [F!Snapshot(c) EXCEPT !.revision = drawn[c]] \in F!Row
  BY DEF PublishersTyped, F!Snapshot, F!Row
<1>2. ASSUME NEW c \in Changes, PublisherStep(c)
      PROVE  PublishersTyped' /\ rows' \subseteq F!Row
  <2>0. F!Replaces(c) \subseteq F!Row
    BY DEF F!Replaces, F!RowsOf
  <2>1. CASE F!Change(c) \/ F!View(c)
    BY <2>1 DEF PublishersTyped, F!Change, F!View, F!Goto
  <2>2. CASE F!Wait(c) \/ F!Publish(c)
    <3>1. doomed' \in [Changes -> SUBSET F!Row]
      BY <2>0, <2>2 DEF PublishersTyped, F!Wait, F!Publish
    <3> QED BY <3>1, <2>2 DEF PublishersTyped, F!Wait, F!Publish, F!Goto
  <2>3. CASE F!Commit(c) \/ F!RollBack(c)
    BY <1>1, <2>3 DEF PublishersTyped, F!Commit, F!RollBack, F!Goto
  <2>4. CASE F!ChangeUnpublished(c) \/ F!ChangeInBulk(c) \/ F!ChangeImage(c) \/ F!ReadBack(c)
    BY <2>4 DEF PublishersTyped, F!ChangeUnpublished, F!ChangeInBulk, F!ChangeImage, F!ReadBack, F!Goto
  <2>5. CASE F!DeleteRows(c)
    BY <2>5 DEF PublishersTyped, F!DeleteRows, F!Goto
  <2>6. CASE F!InsertRow(c)
    <3>1. rows' \subseteq F!Row
      BY <1>1, <2>6 DEF F!InsertRow
    <3>2. PublishersTyped'
      BY <2>6 DEF PublishersTyped, F!InsertRow, F!Goto
    <3> QED BY <3>1, <3>2
  <2> QED BY <1>2, <2>1, <2>2, <2>3, <2>4, <2>5, <2>6 DEF PublisherStep
<1>3. CASE UNCHANGED <<state, rows, nextRev, F!publishers>>
  BY <1>3 DEF F!publishers, PublishersTyped
<1>4. CASE F!Crash
  BY <1>4 DEF PublishersTyped, F!Crash
<1>5. CASE \E d \in Devices :
             (\E e \in Entities : F!ReadTable(d, e)) \/ F!ReadWatermark(d) \/ F!Pull(d) \/ F!Acknowledge(d)
  BY <1>3, <1>5 DEF F!ReadTable, F!ReadWatermark, F!Pull, F!Acknowledge
<1>6. CASE UNCHANGED F!vars
  BY <1>3, <1>6 DEF F!vars
<1> QED BY <1>2, <1>4, <1>5, <1>6 DEF F!Next, PublisherStep

LEMMA FeedStep ==
  ASSUME FeedInv, FeedTyped, [F!Next]_(F!vars)
  PROVE  FeedInv'
<1>1. CASE UNCHANGED <<state, rows, nextRev, F!publishers>>
  BY <1>1, DeviceStep
<1>2. ASSUME NEW c \in Changes, PublisherStep(c)
      PROVE  FeedInv'
  BY <1>2, ChangeStep, ViewStep, WaitStep, PublishStep, CommitStep, AbandonStep, OutsideStep DEF PublisherStep
<1>3. CASE F!Crash
  BY <1>3, AbandonStep
<1> QED BY <1>1, <1>2, <1>3 DEF PublisherStep, F!Next, F!vars, F!ReadTable, F!ReadWatermark, F!Pull, F!Acknowledge

-----------------------------------------------------------------------------
\* A revision names one row, drawn before and never again, and a transaction has
\* drawn one that no other has and that no row bears yet.
RevisionsAreDrawn ==
  /\ IsFiniteSet(rows) /\ nextRev >= 1
  /\ \A row \in rows : row.revision < nextRev
  /\ \A one, other \in rows : one.revision = other.revision => one = other
  /\ \A c \in Changes : pc[c] = "published" =>
       /\ drawn[c] < nextRev
       /\ \A row \in rows : row.revision # drawn[c]
       /\ \A row \in doomed[c] : row.revision < drawn[c]
       /\ \A o \in Changes : pc[o] = "published" /\ drawn[o] = drawn[c] => o = c

DevicesTyped ==
  /\ cursor \in [Devices -> Nat]
  /\ cache \in [Devices -> [Entities -> SUBSET Changes]]
  /\ unread \in [Devices -> SUBSET (Entities \cup {"cursor"})]
  /\ faults \in Nat

\* No device believes to have a revision that nobody has drawn.
CursorsAreBehind == \A d \in Devices : cursor[d] < nextRev

OrderInv == FeedTyped /\ RevisionsAreDrawn /\ DevicesTyped /\ CursorsAreBehind

LEMMA InitOrderInv == F!Init => OrderInv
<1>1. IsFiniteSet({})
  BY FS_EmptySet
<1> QED BY <1>1, InitFeedInv
         DEF F!Init, FeedInv, OrderInv, FeedTyped, RevisionsAreDrawn, DevicesTyped, CursorsAreBehind

LEMMA RowFields ==
  ASSUME NEW row \in F!Row
  PROVE  row.revision \in Nat /\ row.entity \in Entities /\ row.payload \in SUBSET Changes
BY DEF F!Row

\* What Latest chooses.
LEMMA LatestIsHighest ==
  ASSUME IsFiniteSet(rows), rows \subseteq F!Row, NEW some \in SUBSET rows, some # {}
  PROVE  F!Latest(some) \in some /\ \A o \in some : o.revision <= F!Latest(some).revision
<1> DEFINE f == [row \in some |-> row.revision]
<1>1. f \in [some -> Nat] /\ \A row \in some : f[row] = row.revision
  BY RowFields
<1>2. IsFiniteSet(some)
  BY FS_Subset
<1>3. \E row \in some : \A o \in some : f[o] <= f[row]
  <2> HIDE DEF f
  <2> QED BY <1>1, <1>2, HighestOfFinitelyMany
<1>4. \E row \in some : \A o \in some : o.revision <= row.revision
  <2> HIDE DEF f
  <2> QED BY <1>1, <1>3
<1> QED BY <1>4 DEF F!Latest

\* With the one name there is one latest row.
LEMMA LatestIsUnique ==
  ASSUME OrderInv, NEW some \in SUBSET rows, NEW row \in some,
         \A o \in some : o.revision <= row.revision
  PROVE  F!Latest(some) = row
<1>1. F!Latest(some) \in some /\ \A o \in some : o.revision <= F!Latest(some).revision
  BY LatestIsHighest DEF OrderInv, FeedTyped, RevisionsAreDrawn
<1>2. F!Latest(some).revision \in Nat /\ row.revision \in Nat
  BY <1>1, RowFields DEF OrderInv, FeedTyped
<1>3. F!Latest(some).revision = row.revision
  BY <1>1, <1>2
<1> QED BY <1>1, <1>3 DEF OrderInv, RevisionsAreDrawn

\* The watermark is the revision of a row, or zero.
LEMMA WatermarkIsDrawn ==
  ASSUME OrderInv
  PROVE  F!LastRevision \in Nat /\ F!LastRevision < nextRev
<1> DEFINE f == [row \in rows |-> row.revision]
           revs == {row.revision : row \in rows} \cup {0}
<1>1. IsFiniteSet(revs)
  <2>1. DOMAIN f = rows /\ {f[row] : row \in rows} = {row.revision : row \in rows}
    OBVIOUS
  <2>2. IsFiniteSet(rows)
    BY DEF OrderInv, RevisionsAreDrawn
  <2>3. IsFiniteSet({f[row] : row \in rows})
    <3> HIDE DEF f
    <3> QED BY <2>1, <2>2, FinitelyManyValues
  <2> QED BY <2>1, <2>3, FS_AddElement
<1>2. revs \subseteq Nat /\ revs # {} /\ \A n \in revs : n < nextRev
  BY RowFields DEF OrderInv, FeedTyped, PublishersTyped, RevisionsAreDrawn
<1> HIDE DEF revs
<1>3. \E n \in revs : \A k \in revs : k <= n
  BY <1>1, <1>2, FiniteHasMax
<1>4. \E n \in revs : \A k \in revs : n >= k
  BY <1>2, <1>3
<1>5. F!Max(revs) \in revs
  BY <1>4 DEF F!Max
<1>6. F!LastRevision = F!Max(revs)
  BY DEF F!LastRevision, revs
<1> QED BY <1>2, <1>5, <1>6

\* A page has every row ahead of the cursor that comes before one of its rows.
LEMMA PageIsPrefix ==
  ASSUME OrderInv, NEW d \in Devices, NEW a \in F!Page(d), NEW b \in F!Ahead(d), b.revision <= a.revision
  PROVE  b \in F!Page(d)
<1> DEFINE Before(row) == {o \in F!Ahead(d) : o.revision < row.revision}
<1>1. F!Ahead(d) \subseteq rows /\ a \in F!Ahead(d) /\ F!Cardinality(Before(a)) < Limit
  BY DEF F!Page, F!Ahead
<1>2. IsFiniteSet(Before(a))
  BY <1>1, FS_Subset DEF OrderInv, RevisionsAreDrawn
<1>3. Before(b) \subseteq Before(a)
  BY <1>1, RowFields DEF OrderInv, FeedTyped
<1>4. Cardinality(Before(b)) <= Cardinality(Before(a)) /\ IsFiniteSet(Before(b))
  BY <1>2, <1>3, FS_Subset
<1>5. Cardinality(Before(b)) \in Nat /\ Cardinality(Before(a)) \in Nat
  BY <1>2, <1>4, FS_CardinalityType
<1>6. F!Cardinality(Before(b)) < Limit
  <2>1. Cardinality(Before(a)) < Limit
    BY <1>1, SameCardinality
  <2> HIDE DEF Before
  <2>2. Cardinality(Before(b)) < Limit
    BY <2>1, <1>4, <1>5, LimitAssumption
  <2> QED BY <2>2, SameCardinality
<1> QED BY <1>6 DEF F!Page

\* The first row of the page is in it, so a page can only be followed by later ones.
LEMMA PullMovesOn ==
  ASSUME OrderInv, NEW d \in Devices, F!Pull(d)
  PROVE  /\ F!Latest(F!Page(d)) \in F!Page(d)
         /\ \A o \in F!Page(d) : o.revision <= F!Latest(F!Page(d)).revision
         /\ F!Latest(F!Page(d)) \in rows
         /\ cursor' = [cursor EXCEPT ![d] = F!Latest(F!Page(d)).revision]
<1>1. F!Page(d) \subseteq rows /\ F!Page(d) # {}
  BY DEF F!Page, F!Ahead, F!Pull
<1> QED BY <1>1, LatestIsHighest DEF OrderInv, FeedTyped, RevisionsAreDrawn, F!Pull

\* After a pull, what the cursor says to have been read of an entity has been read.
LEMMA PullMissesNothing ==
  ASSUME OrderInv, NEW d \in Devices, F!Pull(d), NEW e \in Entities, ~F!Missed(d, e)
  PROVE  ~F!Missed(d, e)'
<1> DEFINE last == F!Latest(F!Page(d))
           news == {row \in F!Page(d) : row.entity = e}
<1>1. /\ last \in F!Page(d) /\ last \in rows /\ last.revision \in Nat
      /\ \A o \in F!Page(d) : o.revision <= last.revision
      /\ cursor'[d] = last.revision
  BY PullMovesOn, RowFields DEF OrderInv, FeedTyped, DevicesTyped
<1>2. cursor[d] \in Nat /\ cursor[d] < last.revision
  BY <1>1 DEF OrderInv, DevicesTyped, F!Page, F!Ahead
<1>3. /\ rows' = rows /\ unread' = unread
      /\ cache'[d][e] = IF news = {} THEN cache[d][e] ELSE F!Latest(news).payload
  BY DEF F!Pull, OrderInv, DevicesTyped
<1>4. F!RowsOf(e)' = F!RowsOf(e) /\ F!RowsOf(e) \subseteq rows
  BY <1>3 DEF F!RowsOf
<1>5. SUFFICES ASSUME F!RowsOf(e) # {}, unread[d] = {},
                      \A row \in F!RowsOf(e) : row.revision <= last.revision
               PROVE  cache'[d][e] = F!Latest(F!RowsOf(e)).payload
  BY <1>1, <1>3, <1>4 DEF F!Missed, F!Latest
<1>6. \A row \in F!RowsOf(e) : row.revision \in Nat /\ (row.revision <= cursor[d] \/ row \in news)
  <2> SUFFICES ASSUME NEW row \in F!RowsOf(e), ~(row.revision <= cursor[d])
               PROVE  row \in news
    BY <1>4, RowFields DEF OrderInv, FeedTyped
  <2>1. row \in F!Ahead(d)
    BY <1>2, <1>4, RowFields DEF OrderInv, FeedTyped, F!Ahead
  <2>2. row \in F!Page(d)
    BY <2>1, <1>1, <1>5, PageIsPrefix
  <2> QED BY <2>2 DEF F!RowsOf
<1>7. CASE news = {}
  BY <1>3, <1>5, <1>6, <1>7 DEF F!Missed
<1>8. CASE news # {}
  <2>1. news \subseteq rows /\ news \subseteq F!RowsOf(e) /\ \A row \in news : row.revision > cursor[d]
    BY DEF F!Page, F!Ahead, F!RowsOf
  <2>2. F!Latest(news) \in news /\ \A o \in news : o.revision <= F!Latest(news).revision
    BY <2>1, <1>8, LatestIsHighest DEF OrderInv, FeedTyped, RevisionsAreDrawn
  <2> DEFINE top == F!Latest(news)
  <2>3. top \in F!RowsOf(e) /\ top.revision \in Nat /\ top.revision > cursor[d]
    BY <2>1, <2>2, <1>6
  <2>4. \A o \in F!RowsOf(e) : o.revision <= top.revision
    BY <2>2, <2>3, <1>2, <1>6
  <2>5. F!Latest(F!RowsOf(e)) = top
    BY <2>3, <2>4, <1>4, LatestIsUnique
  <2> QED BY <2>5, <1>3, <1>8
<1> QED BY <1>7, <1>8

\* A publisher hides nothing from a device: the row it inserts is ahead of every
\* cursor, except when a transaction has drawn its revision earlier; and a
\* deleteMany that need not wait leaves no row of the entity.
LEMMA PublishersHideNothing ==
  ASSUME OrderInv, FeedInv, NEW d \in Devices, NEW e \in Entities, ~F!Missed(d, e),
         UNCHANGED <<cursor, cache, unread>>, NEW c \in Changes,
         \/ F!Commit(c) /\ ~(entity[c] = e /\ drawn[c] <= cursor[d])
         \/ F!DeleteRows(c) /\ ~(entity[c] = e /\ pc[c] = "waiting")
         \/ F!InsertRow(c)
  PROVE  ~F!Missed(d, e)'
<1>0. cursor[d] \in Nat /\ cursor[d] < nextRev /\ drawn[c] \in Nat /\ nextRev \in Nat
  BY DEF OrderInv, FeedTyped, PublishersTyped, DevicesTyped, CursorsAreBehind
<1>1. CASE entity[c] # e
  <2>0. \A row \in F!Replaces(c) : row.entity = entity[c]
    BY DEF FeedInv, SnapshotsStayTrue, F!Replaces, F!RowsOf
  <2>1. F!RowsOf(e)' = F!RowsOf(e)
    BY <1>1, <2>0 DEF FeedInv, PublishersTyped, SnapshotsStayTrue, F!RowsOf, F!Snapshot, F!Commit, F!DeleteRows, F!InsertRow
  <2> QED BY <2>1 DEF F!Missed, F!Latest
<1>2. CASE entity[c] = e /\ F!DeleteRows(c)
  <2>1. F!Replaces(c) = F!RowsOf(e)
    BY <1>2 DEF F!Replaces, F!Commit, F!DeleteRows, F!InsertRow
  <2>2. F!RowsOf(e)' = {}
    BY <1>2, <2>1 DEF F!RowsOf, F!DeleteRows
  <2> QED BY <2>2 DEF F!Missed
<1>3. ASSUME entity[c] = e, NEW row \in rows', row.entity = e, row.revision \in Nat, row.revision > cursor[d]
      PROVE  ~F!Missed(d, e)'
  BY <1>0, <1>3 DEF F!Missed, F!RowsOf
<1>4. CASE entity[c] = e /\ F!InsertRow(c)
  <2>1. F!Snapshot(c) \in rows' /\ F!Snapshot(c).entity = e /\ F!Snapshot(c).revision = nextRev
    BY <1>4 DEF F!InsertRow, F!Snapshot
  <2> QED BY <2>1, <1>0, <1>3, <1>4
<1>5. CASE entity[c] = e /\ F!Commit(c)
  <2> DEFINE new == [F!Snapshot(c) EXCEPT !.revision = drawn[c]]
  <2>1. new \in rows' /\ new.entity = e /\ new.revision = drawn[c]
    BY <1>5 DEF F!Commit, F!Snapshot
  <2>2. drawn[c] > cursor[d]
    BY <1>0, <1>5 DEF F!Commit, F!DeleteRows, F!InsertRow
  <2> HIDE DEF new
  <2> QED BY <2>1, <2>2, <1>0, <1>3, <1>5
<1> QED BY <1>1, <1>2, <1>4, <1>5

\* Publishers draw the next revision and give it to one row.
LEMMA RevisionStep ==
  ASSUME OrderInv, NEW c \in Changes, PublisherStep(c)
  PROVE  RevisionsAreDrawn' /\ nextRev' >= nextRev
<1> USE DEF OrderInv, FeedTyped, PublishersTyped, RevisionsAreDrawn, F!Goto
<1>0. /\ IsFiniteSet(rows) /\ nextRev \in Nat /\ \A o \in Changes : drawn[o] \in Nat
      /\ \A row \in rows : row.revision \in Nat
  BY RowFields
<1>1. CASE \/ F!Change(c) \/ F!View(c) \/ F!Wait(c) \/ F!RollBack(c)
           \/ F!ChangeUnpublished(c) \/ F!ChangeInBulk(c) \/ F!ChangeImage(c) \/ F!ReadBack(c)
  <2>1. /\ UNCHANGED <<rows, nextRev, drawn>> /\ pc'[c] # "published"
        /\ \A o \in Changes \ {c} : pc'[o] = pc[o] /\ doomed'[o] = doomed[o]
    BY <1>1 DEF F!Change, F!View, F!Wait, F!RollBack, F!ChangeUnpublished, F!ChangeInBulk, F!ChangeImage, F!ReadBack
  <2> QED BY <1>0, <2>1
<1>2. CASE F!Publish(c)
  <2>1. \A row \in F!Replaces(c) : row \in rows
    BY DEF F!Replaces, F!RowsOf
  <2> QED BY <1>0, <1>2, <2>1 DEF F!Publish
<1>3. CASE F!DeleteRows(c)
  <2>1. rows' \subseteq rows /\ UNCHANGED <<nextRev, drawn>>
    BY <1>3 DEF F!DeleteRows
  <2>2. IsFiniteSet(rows')
    BY <2>1, <1>0, FS_Subset
  <2> QED BY <2>1, <2>2, <1>0, <1>3 DEF F!DeleteRows
<1>4. CASE F!InsertRow(c)
  <2>1. /\ rows' = rows \cup {F!Snapshot(c)} /\ F!Snapshot(c).revision = nextRev
        /\ nextRev' = nextRev + 1 /\ UNCHANGED <<drawn, doomed>>
    BY <1>4 DEF F!InsertRow, F!Snapshot
  <2>2. IsFiniteSet(rows')
    BY <2>1, <1>0, FS_AddElement
  <2>3. pc' = [pc EXCEPT ![c] = "done"]
    BY <1>4 DEF F!InsertRow
  <2> QED BY <2>1, <2>2, <2>3, <1>0
<1>5. CASE F!Commit(c)
  <2> DEFINE new == [F!Snapshot(c) EXCEPT !.revision = drawn[c]]
  <2>1. /\ rows' = (rows \ doomed[c]) \cup {new} /\ new.revision = drawn[c]
        /\ UNCHANGED <<nextRev, drawn, doomed>>
    BY <1>5 DEF F!Commit, F!Snapshot
  <2> HIDE DEF new
  <2>2. IsFiniteSet(rows \ doomed[c])
    BY <1>0, FS_Subset
  <2>3. IsFiniteSet(rows')
    BY <2>1, <2>2, FS_AddElement
  <2>4. pc[c] = "published" /\ pc' = [pc EXCEPT ![c] = "done"]
    BY <1>5 DEF F!Commit
  <2> QED BY <2>1, <2>3, <2>4, <1>0
<1> QED BY <1>1, <1>2, <1>3, <1>4, <1>5 DEF PublisherStep

\* Devices take their cursors from rows, or from the watermark.
LEMMA CursorStep ==
  ASSUME OrderInv, NEW d \in Devices,
         (\E e \in Entities : F!ReadTable(d, e)) \/ F!ReadWatermark(d) \/ F!Pull(d) \/ F!Acknowledge(d)
  PROVE  DevicesTyped' /\ CursorsAreBehind' /\ UNCHANGED <<state, rows, nextRev, F!publishers>>
<1>1. UNCHANGED <<state, rows, nextRev, F!publishers>>
  BY DEF F!ReadTable, F!ReadWatermark, F!Pull, F!Acknowledge
<1>2. CASE \E e \in Entities : F!ReadTable(d, e)
  BY <1>2 DEF F!ReadTable, OrderInv, FeedTyped, PublishersTyped, DevicesTyped, CursorsAreBehind
<1>3. CASE F!ReadWatermark(d) \/ F!Acknowledge(d)
  <2>1. /\ cursor' = [cursor EXCEPT ![d] = F!LastRevision] /\ cache' = cache
        /\ unread' = unread \/ unread' = [unread EXCEPT ![d] = @ \ {"cursor"}]
        /\ faults' \in {faults, faults + 1}
    BY <1>3 DEF F!ReadWatermark, F!Acknowledge
  <2> QED BY <2>1, <1>1, WatermarkIsDrawn DEF OrderInv, DevicesTyped, CursorsAreBehind
<1>4. CASE F!Pull(d)
  <2>1. /\ F!Latest(F!Page(d)) \in rows
        /\ cursor' = [cursor EXCEPT ![d] = F!Latest(F!Page(d)).revision]
    BY <1>4, PullMovesOn
  <2>2. F!Latest(F!Page(d)).revision \in Nat /\ F!Latest(F!Page(d)).revision < nextRev
    BY <2>1, RowFields DEF OrderInv, FeedTyped, RevisionsAreDrawn
  <2>3. cursor' \in [Devices -> Nat] /\ CursorsAreBehind'
    BY <2>1, <2>2, <1>1 DEF OrderInv, DevicesTyped, CursorsAreBehind
  <2> DEFINE news(e) == {row \in F!Page(d) : row.entity = e}
             held(e) == IF news(e) = {} THEN cache[d][e] ELSE F!Latest(news(e)).payload
  <2>4. ASSUME NEW e \in Entities PROVE held(e) \in SUBSET Changes
    <3>1. news(e) \subseteq rows
      BY DEF F!Page, F!Ahead
    <3>2. news(e) # {} => F!Latest(news(e)) \in rows
      BY <3>1, LatestIsHighest DEF OrderInv, FeedTyped, RevisionsAreDrawn
    <3> QED BY <3>2, RowFields DEF OrderInv, FeedTyped, DevicesTyped
  <2>5. cache' = [cache EXCEPT ![d] = [e \in Entities |-> held(e)]] /\ UNCHANGED <<unread, faults>>
    BY <1>4 DEF F!Pull
  <2> HIDE DEF held
  <2> QED BY <2>3, <2>4, <2>5, <1>1 DEF OrderInv, DevicesTyped
<1> QED BY <1>1, <1>2, <1>3, <1>4

LEMMA OrderStep ==
  ASSUME OrderInv, [F!Next]_(F!vars)
  PROVE  OrderInv'
<1>0. FeedTyped'
  BY FeedTypedStep DEF OrderInv
<1>1. ASSUME NEW c \in Changes, PublisherStep(c)
      PROVE  OrderInv'
  <2>1. UNCHANGED <<cursor, cache, unread, faults>>
    BY <1>1 DEF PublisherStep, F!Change, F!View, F!Wait, F!Publish, F!Commit, F!RollBack, F!devices,
         F!ChangeUnpublished, F!ChangeInBulk, F!ChangeImage, F!ReadBack, F!DeleteRows, F!InsertRow
  <2>2. RevisionsAreDrawn' /\ nextRev' >= nextRev
    BY <1>1, RevisionStep
  <2>3. nextRev \in Nat /\ nextRev' \in Nat
    BY <1>0 DEF OrderInv, FeedTyped, PublishersTyped
  <2> QED BY <1>0, <2>1, <2>2, <2>3 DEF OrderInv, DevicesTyped, CursorsAreBehind
<1>2. ASSUME NEW d \in Devices,
             (\E e \in Entities : F!ReadTable(d, e)) \/ F!ReadWatermark(d) \/ F!Pull(d) \/ F!Acknowledge(d)
      PROVE  OrderInv'
  BY <1>0, <1>2, CursorStep DEF OrderInv, RevisionsAreDrawn, F!publishers
<1>3. CASE F!Crash
  BY <1>0, <1>3 DEF F!Crash, F!devices, OrderInv, FeedTyped, PublishersTyped, RevisionsAreDrawn, DevicesTyped, CursorsAreBehind
<1>4. CASE UNCHANGED F!vars
  BY <1>0, <1>4 DEF F!vars, F!publishers, F!devices, OrderInv, RevisionsAreDrawn, DevicesTyped, CursorsAreBehind
<1> QED BY <1>1, <1>2, <1>3, <1>4 DEF F!Next, PublisherStep

\* Of all steps, only those that the property names can make a device miss a row.
LEMMA MissStep ==
  ASSUME OrderInv, FeedInv, [F!Next]_(F!vars), NEW d \in Devices, NEW e \in Entities,
         ~F!Missed(d, e), F!Missed(d, e)', unread'[d] = unread[d], ~F!Acknowledge(d)
  PROVE  \E c \in Changes : entity[c] = e /\
           ((F!Commit(c) /\ drawn[c] <= cursor[d]) \/ (F!DeleteRows(c) /\ pc[c] = "waiting"))
<1>1. ASSUME rows' = rows, cursor'[d] = cursor[d], cache'[d] = cache[d] PROVE FALSE
  BY <1>1 DEF F!Missed, F!RowsOf, F!Latest
<1>2. ASSUME NEW c \in Changes,
             \/ F!Change(c) \/ F!View(c) \/ F!Wait(c) \/ F!Publish(c) \/ F!RollBack(c)
             \/ F!ChangeUnpublished(c) \/ F!ChangeInBulk(c) \/ F!ChangeImage(c) \/ F!ReadBack(c)
      PROVE  FALSE
  BY <1>1, <1>2 DEF F!Change, F!View, F!Wait, F!Publish, F!RollBack, F!devices, F!ChangeUnpublished, F!ChangeInBulk, F!ChangeImage, F!ReadBack
<1>3. ASSUME NEW c \in Changes, F!Commit(c) \/ F!DeleteRows(c) \/ F!InsertRow(c)
      PROVE  entity[c] = e /\ ((F!Commit(c) /\ drawn[c] <= cursor[d]) \/ (F!DeleteRows(c) /\ pc[c] = "waiting"))
  <2>1. UNCHANGED <<cursor, cache, unread>>
    BY <1>3 DEF F!Commit, F!DeleteRows, F!InsertRow, F!devices
  <2>2. F!Commit(c) => entity[c] = e /\ drawn[c] <= cursor[d]
    BY <2>1, PublishersHideNothing
  <2>3. F!DeleteRows(c) => entity[c] = e /\ pc[c] = "waiting"
    BY <2>1, PublishersHideNothing
  <2>4. ~F!InsertRow(c)
    BY <2>1, PublishersHideNothing
  <2> QED BY <1>3, <2>2, <2>3, <2>4
<1>4. ASSUME NEW o \in Devices, NEW t \in Entities, F!ReadTable(o, t) PROVE FALSE
  <2>1. o # d
    BY <1>4 DEF F!ReadTable, OrderInv, DevicesTyped
  <2> QED BY <1>1, <1>4, <2>1 DEF F!ReadTable, OrderInv, DevicesTyped
<1>5. ASSUME NEW o \in Devices, F!ReadWatermark(o) PROVE FALSE
  <2>1. o # d
    BY <1>5 DEF F!ReadWatermark, OrderInv, DevicesTyped
  <2> QED BY <1>1, <1>5, <2>1 DEF F!ReadWatermark, OrderInv, DevicesTyped
<1>6. ASSUME NEW o \in Devices, F!Acknowledge(o) PROVE FALSE
  BY <1>1, <1>6 DEF F!Acknowledge, OrderInv, DevicesTyped
<1>7. ASSUME NEW o \in Devices, F!Pull(o) PROVE FALSE
  <2>1. CASE o = d
    BY <2>1, <1>7, PullMissesNothing
  <2>2. CASE o # d
    BY <2>2, <1>1, <1>7 DEF F!Pull, OrderInv, DevicesTyped
  <2> QED BY <2>1, <2>2
<1>8. CASE F!Crash
  BY <1>1, <1>8 DEF F!Crash, F!devices
<1>9. CASE UNCHANGED F!vars
  BY <1>1, <1>9 DEF F!vars, F!devices
<1> QED BY <1>2, <1>3, <1>4, <1>5, <1>6, <1>7, <1>8, <1>9 DEF F!Next

\* A step of the suite is a step of its part, or stutters for it.
LEMMA FeedSteps ==
  ASSUME [Next]_vars, part' = "feed"
  PROVE  part = "feed" /\ [F!Next]_(F!vars)
<1>1. CASE UNCHANGED vars
  BY <1>1 DEF vars, feed, F!vars, F!publishers, F!devices
<1>2. CASE Next
  BY <1>2 DEF Next, Stay
<1> QED BY <1>1, <1>2

LEMMA PartsAreKept ==
  ASSUME [Next]_vars
  PROVE  part' = part
BY DEF Next, Stay, vars

LEMMA FeedInvariance == Spec => [](part = "feed" => FeedInv /\ OrderInv)
<1>1. Init => (part = "feed" => FeedInv /\ OrderInv)
  BY InitFeedInv, InitOrderInv DEF Init, Alone
<1>2. (part = "feed" => FeedInv /\ OrderInv) /\ [Next]_vars => (part = "feed" => FeedInv /\ OrderInv)'
  BY FeedSteps, FeedStep, OrderStep DEF OrderInv
<1> QED BY <1>1, <1>2, PTL DEF Spec

\* A row that goes is one that its publisher saw before it drew its revision.
LEMMA ReplaceStep ==
  ASSUME OrderInv, FeedInv, [F!Next]_(F!vars)
  PROVE  F!RowsGiveWayToLater
<1> SUFFICES ASSUME NEW gone \in rows \ rows'
             PROVE  \/ \E row \in rows' : row.entity = gone.entity /\ row.revision > gone.revision
                    \/ \E c \in Changes : entity[c] = gone.entity /\ F!DeleteRows(c)
  BY DEF F!RowsGiveWayToLater
<1>1. PICK c \in Changes : F!Commit(c) \/ F!DeleteRows(c)
  BY DEF F!Next, F!vars, F!publishers, F!Change, F!View, F!Wait, F!Publish, F!RollBack, F!ChangeUnpublished,
         F!ChangeInBulk, F!ChangeImage, F!ReadBack, F!InsertRow, F!Crash,
         F!ReadTable, F!ReadWatermark, F!Pull, F!Acknowledge
<1>2. CASE F!Commit(c)
  <2> DEFINE new == [F!Snapshot(c) EXCEPT !.revision = drawn[c]]
  <2>1. new \in rows' /\ new.entity = entity[c] /\ new.revision = drawn[c] /\ gone \in doomed[c]
    BY <1>2 DEF F!Commit, F!Snapshot
  <2> HIDE DEF new
  <2>2. gone.entity = entity[c] /\ gone.revision < drawn[c]
    BY <1>2, <2>1 DEF F!Commit, FeedInv, SnapshotsStayTrue, OrderInv, RevisionsAreDrawn
  <2>3. gone.revision \in Nat /\ drawn[c] \in Nat
    BY RowFields DEF OrderInv, FeedTyped, PublishersTyped
  <2> QED BY <2>1, <2>2, <2>3
<1>3. CASE F!DeleteRows(c)
  <2>1. \A row \in F!Replaces(c) : row.entity = entity[c]
    BY DEF FeedInv, SnapshotsStayTrue, F!Replaces, F!RowsOf, F!DeleteRows
  <2> QED BY <1>3, <2>1 DEF F!DeleteRows
<1> QED BY <1>1, <1>2, <1>3

\* For every entity that only transactions change and publish, each locking its
\* row, compaction by deleting the earlier row and inserting a new one leaves one
\* row with all committed changes.
THEOREM CompactionKeepsAll == Spec => []OneRowTellsAll
<1>1. (part = "feed" => FeedInv /\ OrderInv) => OneRowTellsAll
  BY DEF FeedInv, OneRowTellsAll
<1> QED BY <1>1, FeedInvariance, PTL

\* Whatever the limit of a page and however the publishers overlap, no pull makes a
\* device miss a row; what does is the end of a bootstrap, an acknowledgement, a
\* commit that its cursor has already passed, or a deleteMany that had to wait.
THEOREM PullsMissNothing == Spec => MissedInFourWays
<1>1. (part = "feed" => FeedInv /\ OrderInv) /\ [Next]_vars => [part = "feed" => F!MissesInFourWays]_vars
  BY PartsAreKept, FeedSteps, MissStep DEF F!MissesInFourWays
<1> QED BY <1>1, FeedInvariance, PTL DEF Spec, MissedInFourWays

\* By any of the routes and however publishers overlap, a row of the feed gives
\* way to a later one of its entity only, or to an autocommitted publisher that
\* is about to insert one; for the feed by itself, with the two results above.
THEOREM LaterRowsReplace ==
  F!Spec => F!ReplacedByHigher /\ []F!OneRowTellsAll /\ F!MissedInFourWays
<1>1. FeedInv /\ OrderInv /\ [F!Next]_(F!vars) => (FeedInv /\ OrderInv)'
  BY FeedStep, OrderStep DEF OrderInv
<1>2. FeedInv => F!OneRowTellsAll
  BY DEF FeedInv
<1>3. FeedInv /\ OrderInv /\ [F!Next]_(F!vars) => [F!MissesInFourWays]_(F!vars)
  BY MissStep DEF F!MissesInFourWays
<1>4. FeedInv /\ OrderInv /\ [F!Next]_(F!vars) => [F!RowsGiveWayToLater]_(F!vars)
  BY ReplaceStep
<1> QED BY <1>1, <1>2, <1>3, <1>4, InitFeedInv, InitOrderInv, PTL DEF F!Spec, F!MissedInFourWays, F!ReplacedByHigher

-----------------------------------------------------------------------------

Renewed == {r \in Three : pc[r] = "renewed"}

\* A token in an answer that is on its way is known to nobody else: no call has
\* sent it, no other answer carries it, so nothing but a logout of all can end it.
AnswersAreFresh ==
  \A r \in Renewed : got[r] # None =>
    /\ got[r] \in live \cup ended
    /\ got[r] # cookie
    /\ \A o \in Three : bearer[o] # got[r]
    /\ \A o \in Renewed \ {r} : got[o] # got[r]

\* A call that the server lets exchange its token has sent one.
ExchangesIssued ==
  \A r \in Three : pc[r] \in {"rotate", "renewed"} => bearer[r] \in 1..issued

SessionInv == S!TypeOK /\ AnswersAreFresh /\ ExchangesIssued /\ S!CookieLives

LEMMA InitSessionInv == S!Init => SessionInv
BY DEF S!Init, SessionInv, S!TypeOK, AnswersAreFresh, ExchangesIssued, S!CookieLives, Renewed

LEMMA LoginStep ==
  ASSUME SessionInv, NEW r \in Three, S!Login(r)
  PROVE  SessionInv'
<1>1. S!TypeOK'
  BY DEF SessionInv, S!TypeOK, S!Login, S!Goto
<1>2. AnswersAreFresh'
  BY DEF SessionInv, S!TypeOK, AnswersAreFresh, Renewed, S!Login, S!Goto
<1>3. S!CookieLives'
  BY DEF SessionInv, S!CookieLives, S!Login
<1>4. ExchangesIssued'
  BY DEF SessionInv, S!TypeOK, ExchangesIssued, S!Login, S!Goto
<1> QED BY <1>1, <1>2, <1>3, <1>4 DEF SessionInv

\* Steps that only move a call along, or change what the panel shows.
LEMMA QuietSteps ==
  ASSUME SessionInv, UNCHANGED <<S!server, cookie, bearer, got, lost>>,
         Renewed' = Renewed, S!TypeOK', ExchangesIssued'
  PROVE  SessionInv'
BY DEF SessionInv, AnswersAreFresh, S!CookieLives, Renewed, S!server

LEMMA CallStep ==
  ASSUME SessionInv, NEW r \in Three, S!Call(r) \/ S!Lookup(r) \/ S!Refused(r) \/ S!Reload(r)
  PROVE  SessionInv'
<1>1. S!TypeOK' /\ UNCHANGED <<S!server, cookie, bearer, got, lost>>
  BY DEF SessionInv, S!TypeOK, S!Call, S!Lookup, S!Refused, S!Reload, S!Goto, S!server, S!browser
<1>2. Renewed' = Renewed
  BY DEF SessionInv, S!TypeOK, S!Call, S!Lookup, S!Refused, S!Reload, S!Goto, Renewed
<1>3. ExchangesIssued'
  BY DEF SessionInv, S!TypeOK, ExchangesIssued, S!Call, S!Lookup, S!Refused, S!Reload, S!Goto, S!server, S!browser
<1> QED BY <1>1, <1>2, <1>3, QuietSteps

LEMMA ExpiryStep ==
  ASSUME SessionInv, S!AccessExpires
  PROVE  SessionInv'
<1>1. S!TypeOK' /\ UNCHANGED <<S!server, cookie, bearer, got, lost>>
  BY DEF SessionInv, S!TypeOK, S!AccessExpires, S!server, S!calls
<1>2. Renewed' = Renewed
  BY DEF S!AccessExpires, S!calls, Renewed
<1>3. ExchangesIssued'
  BY DEF SessionInv, ExchangesIssued, S!AccessExpires, S!server, S!calls
<1> QED BY <1>1, <1>2, <1>3, QuietSteps

\* The cookie is sent; it is not a token still on its way.
LEMMA RefreshStep ==
  ASSUME SessionInv, NEW r \in Three, S!Refresh(r)
  PROVE  SessionInv'
<1>1. S!TypeOK'
  BY DEF SessionInv, S!TypeOK, S!Refresh, S!Goto, S!server, S!browser
<1>2. AnswersAreFresh'
  BY DEF SessionInv, S!TypeOK, AnswersAreFresh, Renewed, S!Refresh, S!Goto, S!server, S!browser
<1>3. S!CookieLives'
  BY DEF SessionInv, S!TypeOK, S!CookieLives, S!Refresh, S!Goto, S!server, S!browser
<1>4. ExchangesIssued'
  BY DEF SessionInv, S!TypeOK, ExchangesIssued, S!Refresh, S!Goto, S!server, S!browser
<1> QED BY <1>1, <1>2, <1>3, <1>4 DEF SessionInv

\* What the exchange revokes is what its answer replaces.
LEMMA RotateStep ==
  ASSUME SessionInv, NEW r \in Three, S!Rotate(r)
  PROVE  SessionInv'
<1>1. S!TypeOK'
  <2>1. issued' = issued + 1 /\ issued \in Nat /\ 1..issued \subseteq 1..issued'
    BY DEF SessionInv, S!TypeOK, S!Rotate
  <2>2. live' \subseteq 1..issued' /\ ended' \subseteq 1..issued' /\ lost' \subseteq 1..issued'
    <3>1. live \subseteq 1..issued /\ ended \subseteq 1..issued /\ lost \subseteq 1..issued
      BY DEF SessionInv, S!TypeOK
    <3>2. ended' = ended /\ lost' = lost /\ live' \subseteq live \cup {issued'}
      BY DEF S!Rotate, S!Rotated
    <3>3. issued' \in 1..issued'
      BY <2>1
    <3> QED BY <2>1, <3>1, <3>2, <3>3
  <2>3. /\ cookie' \in 1..issued' \cup {None}
        /\ bearer' \in [Three -> 1..issued' \cup {None}]
        /\ got' \in [Three -> 1..issued' \cup {None}]
    BY <2>1 DEF SessionInv, S!TypeOK, S!Rotate, S!browser
  <2>4. pc' \in [Three -> {"idle", "refresh", "lookup", "rotate", "renewed", "refused", "leaving", "done"}]
    BY DEF SessionInv, S!TypeOK, S!Rotate, S!Goto
  <2> QED BY <2>1, <2>2, <2>3, <2>4 DEF SessionInv, S!TypeOK, S!Rotate, S!browser
<1>2. AnswersAreFresh'
  BY DEF SessionInv, S!TypeOK, AnswersAreFresh, Renewed, S!Rotate, S!Rotated, S!Goto, S!browser
<1>3. S!CookieLives'
  BY DEF SessionInv, S!TypeOK, S!CookieLives, S!Rotate, S!Rotated, S!Goto, S!browser
<1>4. ExchangesIssued'
  BY DEF SessionInv, S!TypeOK, ExchangesIssued, S!Rotate, S!Goto, S!browser
<1> QED BY <1>1, <1>2, <1>3, <1>4 DEF SessionInv

LEMMA ReceiveStep ==
  ASSUME SessionInv, NEW r \in Three, S!Receive(r)
  PROVE  SessionInv'
<1>1. S!TypeOK'
  BY DEF SessionInv, S!TypeOK, S!Receive, S!Goto, S!server
<1>2. AnswersAreFresh'
  BY DEF SessionInv, S!TypeOK, AnswersAreFresh, Renewed, S!Receive, S!Goto, S!server
<1>3. S!CookieLives'
  BY DEF SessionInv, S!TypeOK, AnswersAreFresh, S!CookieLives, Renewed, S!Receive, S!Goto, S!server
<1>4. ExchangesIssued'
  BY DEF SessionInv, S!TypeOK, ExchangesIssued, S!Receive, S!Goto, S!server
<1> QED BY <1>1, <1>2, <1>3, <1>4 DEF SessionInv

LEMMA LoseAnswerStep ==
  ASSUME SessionInv, NEW r \in Three, S!LoseAnswer(r)
  PROVE  SessionInv'
<1>1. S!TypeOK'
  <2>1. lost' \subseteq 1..issued
    BY DEF SessionInv, S!TypeOK, ExchangesIssued, S!LoseAnswer
  <2> QED BY <2>1 DEF SessionInv, S!TypeOK, S!LoseAnswer, S!Goto, S!server, S!browser
<1>2. AnswersAreFresh'
  BY DEF SessionInv, S!TypeOK, AnswersAreFresh, Renewed, S!LoseAnswer, S!Goto, S!server, S!browser
<1>3. S!CookieLives'
  BY DEF SessionInv, S!TypeOK, S!CookieLives, S!LoseAnswer, S!Goto, S!server, S!browser
<1>4. ExchangesIssued'
  BY DEF SessionInv, S!TypeOK, ExchangesIssued, S!LoseAnswer, S!Goto, S!server, S!browser
<1> QED BY <1>1, <1>2, <1>3, <1>4 DEF SessionInv

LEMMA LogoutStep ==
  ASSUME SessionInv, NEW r \in Three, S!Logout(r) \/ S!Leave(r)
  PROVE  SessionInv'
<1>1. S!TypeOK'
  <2>1. ended' \subseteq ended \cup live /\ live' \subseteq live /\ UNCHANGED <<issued, lost>>
    BY DEF S!Logout, S!Leave, S!server
  <2>2. cookie' \in {cookie, None} /\ UNCHANGED <<bearer, got>>
    BY DEF S!Logout, S!Leave, S!browser
  <2>3. /\ access' \in {access, "none"} /\ screen' \in {screen, "login"}
        /\ faults' \in {faults, faults + 1}
        /\ pc' = [pc EXCEPT ![r] = pc'[r]] /\ pc'[r] \in {"leaving", "done"}
    BY DEF SessionInv, S!TypeOK, S!Logout, S!Leave, S!Goto, S!browser
  <2> QED BY <2>1, <2>2, <2>3 DEF SessionInv, S!TypeOK
<1>2. AnswersAreFresh'
  BY DEF SessionInv, S!TypeOK, AnswersAreFresh, Renewed, S!Logout, S!Leave, S!Goto, S!server, S!browser
<1>3. S!CookieLives'
  BY DEF SessionInv, S!TypeOK, S!CookieLives, S!Logout, S!Leave, S!Goto, S!server, S!browser
<1>4. ExchangesIssued'
  BY DEF SessionInv, S!TypeOK, ExchangesIssued, S!Logout, S!Leave, S!Goto, S!server, S!browser
<1> QED BY <1>1, <1>2, <1>3, <1>4 DEF SessionInv

LEMMA EndStep ==
  ASSUME SessionInv, NEW tokens \in SUBSET live, S!End(tokens)
  PROVE  SessionInv'
<1>1. S!TypeOK'
  BY DEF SessionInv, S!TypeOK, S!End, S!browser, S!calls
<1>2. AnswersAreFresh' /\ S!CookieLives' /\ ExchangesIssued'
  BY DEF SessionInv, AnswersAreFresh, S!CookieLives, ExchangesIssued, Renewed, S!End, S!browser, S!calls
<1> QED BY <1>1, <1>2 DEF SessionInv

LEMMA SessionStep ==
  ASSUME SessionInv, [S!Next]_(S!vars)
  PROVE  SessionInv'
<1>1. CASE UNCHANGED S!vars
  BY <1>1 DEF S!vars, S!server, S!browser, S!calls, SessionInv, S!TypeOK, AnswersAreFresh, ExchangesIssued, S!CookieLives, Renewed
<1>2. ASSUME NEW r \in Three,
             \/ S!Login(r) \/ S!Call(r) \/ S!Refresh(r) \/ S!Lookup(r) \/ S!Rotate(r) \/ S!Receive(r) \/ S!Refused(r)
             \/ S!LoseAnswer(r) \/ S!Logout(r) \/ S!Leave(r) \/ S!Reload(r)
      PROVE  SessionInv'
  BY <1>2, LoginStep, CallStep, RefreshStep, RotateStep, ReceiveStep, LoseAnswerStep, LogoutStep
<1>3. CASE S!AccessExpires
  BY <1>3, ExpiryStep
<1>4. CASE S!ResetPassword
  BY <1>4, EndStep DEF S!ResetPassword
<1>5. ASSUME NEW t \in live, S!RefreshExpires(t) PROVE SessionInv'
  BY <1>5, EndStep DEF S!RefreshExpires
<1> QED BY <1>1, <1>2, <1>3, <1>4, <1>5 DEF S!Next

LEMMA SessionSteps ==
  ASSUME [Next]_vars, part' = "session"
  PROVE  part = "session" /\ [S!Next]_(S!vars)
<1>1. CASE UNCHANGED vars
  BY <1>1 DEF vars, session, S!vars, S!server, S!browser, S!calls
<1>2. CASE Next
  BY <1>2 DEF Next, Stay
<1> QED BY <1>1, <1>2

\* However many calls renew the cookie at once, however their answers overtake
\* each other or are lost, the browser is not left with a token that renewal ended.
THEOREM RotationStrandsNobody == Spec => []CookieLives
<1> DEFINE Inv == part = "session" => SessionInv
<1>1. Init => Inv
  BY InitSessionInv DEF Init, Alone
<1>2. Inv /\ [Next]_vars => Inv'
  BY SessionSteps, SessionStep
<1>3. Inv => CookieLives
  BY DEF SessionInv, CookieLives
<1> QED BY <1>1, <1>2, <1>3, PTL DEF Spec

\* The same of the session by itself, and that no token is known that has not been issued.
THEOREM SessionAlone == S!Spec => []S!TypeOK /\ []S!CookieLives
BY InitSessionInv, SessionStep, PTL DEF S!Spec, SessionInv
=============================================================================
