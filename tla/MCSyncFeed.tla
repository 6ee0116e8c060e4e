------------------------------- MODULE MCSyncFeed -------------------------------
(***************************************************************************)
(* What the comments of audit-log.ts and sync.service.ts say of the feed,  *)
(* on the customers: autocommitted statements edit them, and payments      *)
(* publish them in transactions that do not lock their rows.               *)
(***************************************************************************)
EXTENDS SyncFeed

VARIABLE broken   \* the statements that have turned out false

Statements == {"one live row", "latest state", "bootstrap", "pull", "acknowledgement"}

\* The step makes the statement false.
Breaks(s) ==
  CASE s = "one live row"    -> ~OneLiveRow'
    [] s = "latest state"    -> ~FeedTellsLatest'
    [] s = "bootstrap"       -> BootstrapMisses
    [] s = "pull"            -> CommitIsPassed
    [] s = "acknowledgement" -> AcknowledgementMisses

MCInit == Init /\ broken = {} /\ \A c \in Changes : route[c] \in {"bulk", "payment"}
MCNext == Next /\ broken' = broken \cup {s \in Statements : Breaks(s)}
MCSpec == MCInit /\ [][MCNext]_<<vars, broken>>

\* Of what the documents say of the feed, that an entity has "at most ONE live
\* change row" with its latest state, that "any device, however far behind, still
\* pulls the entity's latest state" (audit-log.ts:89) after a bootstrap and as
\* others commit, and that after an acknowledgement it "needs NO post-operation
\* pull" (sync.service.ts:458), at least one statement holds.
SomeFeedStatementHolds == broken # Statements
=============================================================================
