------------------------------ MODULE MCStatements ------------------------------
(***************************************************************************)
(* What the comments and documents say of the catalogue, the warehouse,    *)
(* the prices and the backups, and their code does not keep.  These        *)
(* services share no row in the models, so they take their steps one after *)
(* another, each until its statement is broken: one behaviour shows them   *)
(* all.                                                                    *)
(***************************************************************************)
EXTENDS Integers, Sequences, FiniteSets, TLC

CONSTANTS One, Two   \* as many requests
CONSTANTS None, MaxFaults

VARIABLE broken   \* the statements that have turned out false

\* Catalogue, three times: with lines, with codes, and with two requests.
CONSTANTS Products, Lines, Brands, Odd, Radix, Wide, MaxCode
VARIABLES product, code, counter, line, told, recorded, ask, pc, minted, doomed, overtaken

Single == {CHOOSE p \in Products : TRUE}

L == INSTANCE Catalogue WITH Products <- Single, Requests <- One, MaxCode <- 1
C == INSTANCE Catalogue WITH Lines <- {}, Brands <- {}, Requests <- One
D == INSTANCE Catalogue WITH Products <- Single, Lines <- {}, Brands <- {}, Requests <- Two, MaxCode <- 1

catalogue == <<product, code, counter, line, told, recorded, ask, pc, minted, doomed, overtaken>>

\* Warehouse
CONSTANTS Places, Hall, Rack, Box, Items, Same
VARIABLES type, parent, shelf, basket, moves, mover, found

W == INSTANCE Warehouse WITH Requests <- One, ask <- moves, pc <- mover

warehouse == <<type, parent, shelf, basket, moves, mover, found>>

\* Prices
CONSTANTS MaxPrice
VARIABLES price, history, edits, editor, seen, left, open, faults

P == INSTANCE Prices WITH Requests <- One, ask <- edits, pc <- editor

prices == <<price, history, edits, editor, seen, left, open, faults>>

\* BackupScheduler
CONSTANTS Interval, MaxClock
VARIABLES config, clock, ticking, running, what, at, copy, failed, overlapped, leaked, failures

B == INSTANCE BackupScheduler WITH Requests <- One, pc <- at, faults <- failures

backups == <<config, clock, ticking, running, what, at, copy, failed, overlapped, leaked, failures>>

-----------------------------------------------------------------------------
\* What the services start from, of all they may: no product, two shelves and a
\* basket with the lines in it, no price, and a schedule that is on.
Init ==
  /\ L!Init /\ L!Existing = {} /\ counter = 0
  /\ W!Init /\ type = (Hall :> "shelf" @@ Rack :> "shelf" @@ Box :> "basket")
  /\ parent[Box] = Rack /\ \A i \in Items : basket[i] = Box
  /\ P!Init /\ \A i \in Items : price[i] = 0
  /\ B!Init /\ config.on /\ \A r \in One : what[r] = "save"
  /\ broken = {}

Statements ==
  <<{"a lone create succeeds"}, {"a stale counter never fails"}, {"clients drop a deleted product"},
    {"a basket is on the shelf of its lines"}, {"a row per change"},
    {"a bad tick stops nothing", "diagnostics keep settings"}>>

\* The step makes the statement false.
Breaks(s) ==
  CASE s = "a lone create succeeds"                -> ~L!LoneCreateSucceeds'
    [] s = "a stale counter never fails"           -> ~C!StaleCounterNeverFails'
    [] s = "clients drop a deleted product"        -> D!ImageReturns
    [] s = "a basket is on the shelf of its lines" -> ~W!BasketOnItsShelf'
    [] s = "a row per change"                      -> ~P!RowPerChange'
    [] s = "a bad tick stops nothing"              -> B!Stopped'
    [] s = "diagnostics keep settings"             -> B!DiagnosticsTouch

\* The statements before the k-th are broken, and it is not yet ...
Turn(k) == (\A j \in 1..k-1 : Statements[j] \subseteq broken) /\ ~(Statements[k] \subseteq broken)

\* ... and the step breaks it, or does not.
Note(k) == broken' = broken \cup {s \in Statements[k] : Breaks(s)}

\* The catalogue has these products and requests, or gets them in place of others.
Holds(products, requests) == DOMAIN product = products /\ DOMAIN pc = requests

Becomes(products, codes, last, requests) ==
  /\ code' \in [products -> codes]
  /\ \A c \in codes : \E p \in products : code'[p] = c
  /\ product' = [p \in products |-> IF code'[p] = 0 THEN "none" ELSE "live"]
  /\ counter' = last
  /\ line' = <<>>
  /\ told' = [p \in products |-> IF code'[p] = 0 THEN "none" ELSE "there"]
  /\ recorded' = {} /\ ask' = [r \in requests |-> None] /\ pc' = [r \in requests |-> "idle"]
  /\ minted' = [r \in requests |-> 0] /\ doomed' = [r \in requests |-> {}] /\ overtaken' = {}
  /\ UNCHANGED <<broken, warehouse, prices, backups>>

Next ==
  \/ Turn(1) /\ L!Next /\ Note(1) /\ UNCHANGED <<warehouse, prices, backups>>
  \/ Turn(2) /\ Holds(Single, One) /\ Becomes(Products, {0, Wide - 1, Wide}, Wide - 2, One)
  \/ Turn(2) /\ Holds(Products, One) /\ C!Next /\ Note(2) /\ UNCHANGED <<warehouse, prices, backups>>
  \/ Turn(3) /\ Holds(Products, One) /\ Becomes(Single, {1}, 1, Two)
  \/ Turn(3) /\ Holds(Single, Two) /\ D!Next /\ Note(3) /\ UNCHANGED <<warehouse, prices, backups>>
  \/ Turn(4) /\ W!Next /\ Note(4) /\ UNCHANGED <<catalogue, prices, backups>>
  \/ Turn(5) /\ P!Next /\ Note(5) /\ UNCHANGED <<catalogue, warehouse, backups>>
  \/ Turn(6) /\ B!Next /\ Note(6) /\ UNCHANGED <<catalogue, warehouse, prices>>

Spec == Init /\ [][Next]_<<broken, catalogue, warehouse, prices, backups>>

-----------------------------------------------------------------------------
\* Of what the documents say of these services, that a product is created with
\* several lines atomically, that a stale counter "must never 500 the next create",
\* that clients "must drop the product" that is deleted, that a basket "belongs to
\* this line's shelf", that the price history has "one row per actual price change",
\* that "a single bad tick can never stop the schedule for good" and that the
\* diagnostics do not touch "the user's settings", at least one statement holds.
SomeStatementHolds == \E k \in DOMAIN Statements : ~(Statements[k] \subseteq broken)
=============================================================================
