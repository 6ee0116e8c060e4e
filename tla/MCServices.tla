------------------------------- MODULE MCServices -------------------------------
(***************************************************************************)
(* The services that share no row in these models, checked side by side: a *)
(* behaviour belongs to one of them, which part names, and leaves the      *)
(* variables that are only the others' at Unused.  Variables of one name   *)
(* stand for each other.                                                   *)
(***************************************************************************)
EXTENDS Integers, Sequences, FiniteSets, TLC

CONSTANTS Two, Three   \* as many requests
CONSTANTS None, MaxFaults, Unused

VARIABLES part, pc, ask, seen, left, doomed, overtaken, line, faults

\* SyncFeed
CONSTANTS Entities, Changes, Devices, Limit
ASSUME LimitAssumption == Limit \in Nat
VARIABLES state, rows, nextRev, route, entity, drawn, cursor, cache, unread

F == INSTANCE SyncFeed

FeedIdle ==
  /\ state = Unused /\ rows = Unused /\ nextRev = Unused /\ route = Unused /\ entity = Unused
  /\ drawn = Unused /\ cursor = Unused /\ cache = Unused /\ unread = Unused

feed == <<state, rows, nextRev, route, entity, drawn, cursor, cache, unread>>

\* Warehouse
CONSTANTS Places, Hall, Rack, Box, Items, Same
ASSUME NoneAssumption == None \notin Places \cup Items
VARIABLES type, parent, shelf, basket, found

W == INSTANCE Warehouse WITH Requests <- Two

WarehouseIdle == type = Unused /\ parent = Unused /\ shelf = Unused /\ basket = Unused /\ found = Unused

warehouse == <<type, parent, shelf, basket, found>>

\* A hall with a rack and, perhaps, a box with the lines in it.
Built ==
  /\ type[Hall] \in {"warehouse", "shelf"} /\ type[Rack] = "shelf" /\ type[Box] \in {"none", "basket"}
  /\ parent[Hall] = None /\ parent[Box] = (IF type[Box] = "none" THEN None ELSE Rack)
  /\ parent[Rack] = (IF type[Hall] = "warehouse" THEN Hall ELSE None)
  /\ \A i \in Items : shelf[i] = Rack /\ (type[Box] = "basket" => basket[i] = Box)

\* Catalogue
CONSTANTS Products, Lines, Brands, Odd, Radix, Wide, MaxCode
ASSUME RowsAssumption == IsFiniteSet(Products) /\ None \notin Products /\ Products \cap Lines = {}
ASSUME CodesAssumption == MaxCode \in Nat /\ Radix \in Nat \ {0} /\ Wide \in Nat /\ Odd \cap Nat = {}
VARIABLES product, code, counter, told, recorded, minted

C == INSTANCE Catalogue WITH Requests <- Two

CatalogueIdle ==
  product = Unused /\ code = Unused /\ counter = Unused /\ told = Unused /\ recorded = Unused /\ minted = Unused

catalogue == <<product, code, counter, told, recorded, minted>>

\* One product and one line of the ids are in use, or none.
Stocked ==
  /\ C!Existing \subseteq {CHOOSE p \in Products : TRUE}
  /\ \A i \in Lines : line[i] = C!NoLine \/ i = CHOOSE j \in Lines : TRUE

\* ProductsBackup
CONSTANTS Sites, Root, Child, Twin, Nephew, Spare, Codes, Pictures
ASSUME SitesAssumption == IsFiniteSet(Sites) /\ None \notin Sites \cup Codes
ASSUME NullIsNoRow ==
  None \notin [code : Codes, parent : Sites \cup {None}] \cup [of : Products, at : Sites \cup {None}]
VARIABLES tree, image, disk, archive, export, id, noted

A == INSTANCE ProductsBackup WITH Places <- Sites

ArchiveIdle ==
  /\ tree = Unused /\ image = Unused /\ disk = Unused /\ archive = Unused /\ export = Unused /\ id = Unused
  /\ noted = Unused

archives == <<tree, image, disk, archive, export, id, noted>>

\* Two places have the code b under a parent with the code a.
Repeated ==
  /\ tree = (Root   :> [code |-> "a", parent |-> None] @@ Child  :> [code |-> "b", parent |-> Root] @@
             Twin   :> [code |-> "a", parent |-> Root] @@ Nephew :> [code |-> "b", parent |-> Twin] @@
             Spare  :> None)
  /\ image = [p \in Products |-> Pictures]

\* Purchases
CONSTANTS Suppliers, Orders, MaxAmount
VARIABLES supplier, total, paid, received, partner

U == INSTANCE Purchases WITH Requests <- Three, Purchases <- Orders

PurchasesIdle ==
  supplier = Unused /\ total = Unused /\ paid = Unused /\ received = Unused /\ partner = Unused

purchases == <<supplier, total, paid, received, partner>>

\* Prices
CONSTANTS MaxPrice
VARIABLES price, history, open

P == INSTANCE Prices WITH Requests <- Two

PricesIdle == price = Unused /\ history = Unused /\ open = Unused

prices == <<price, history, open>>

\* PanelSession
VARIABLES live, issued, ended, cookie, access, screen, bearer, got, lost

S == INSTANCE PanelSession WITH Requests <- Three

SessionIdle ==
  /\ live = Unused /\ issued = Unused /\ ended = Unused /\ cookie = Unused /\ access = Unused
  /\ screen = Unused /\ bearer = Unused /\ got = Unused /\ lost = Unused

session == <<live, issued, ended, cookie, access, screen, bearer, got, lost>>

-----------------------------------------------------------------------------
Alone(p) ==
  /\ part = p
  /\ p = "feed" \/ FeedIdle
  /\ p = "warehouse" \/ WarehouseIdle
  /\ p = "catalogue" \/ CatalogueIdle
  /\ p = "archive" \/ ArchiveIdle
  /\ p = "purchases" \/ PurchasesIdle
  /\ p = "prices" \/ PricesIdle
  /\ p = "session" \/ SessionIdle
  /\ p \in {"warehouse", "catalogue", "purchases", "prices"} \/ ask = Unused
  /\ p \in {"feed", "purchases", "prices"} \/ seen = Unused
  /\ p \in {"archive", "prices"} \/ left = Unused
  /\ p \in {"feed", "catalogue"} \/ doomed = Unused
  /\ p \in {"catalogue", "archive"} \/ (overtaken = Unused /\ line = Unused)
  /\ p \in {"feed", "archive", "prices", "session"} \/ faults = Unused

Init ==
  \/ F!Init /\ Alone("feed")
  \/ W!Init /\ Built /\ Alone("warehouse")
  \/ C!Init /\ Stocked /\ Alone("catalogue")
  \/ Repeated /\ A!Init /\ Alone("archive")
  \/ U!Init /\ Alone("purchases")
  \/ P!Init /\ Alone("prices")
  \/ S!Init /\ Alone("session")

\* A step of the part p leaves the other variables alone.
Stay(p) ==
  /\ UNCHANGED part
  /\ IF p = "feed" THEN TRUE ELSE UNCHANGED feed
  /\ IF p = "warehouse" THEN TRUE ELSE UNCHANGED warehouse
  /\ IF p = "catalogue" THEN TRUE ELSE UNCHANGED catalogue
  /\ IF p = "archive" THEN TRUE ELSE UNCHANGED archives
  /\ IF p = "purchases" THEN TRUE ELSE UNCHANGED purchases
  /\ IF p = "prices" THEN TRUE ELSE UNCHANGED prices
  /\ IF p = "session" THEN TRUE ELSE UNCHANGED session
  /\ IF p \in {"warehouse", "catalogue", "purchases", "prices"} THEN TRUE ELSE UNCHANGED ask
  /\ IF p \in {"feed", "purchases", "prices"} THEN TRUE ELSE UNCHANGED seen
  /\ IF p \in {"archive", "prices"} THEN TRUE ELSE UNCHANGED left
  /\ IF p \in {"feed", "catalogue"} THEN TRUE ELSE UNCHANGED doomed
  /\ IF p \in {"catalogue", "archive"} THEN TRUE ELSE UNCHANGED <<overtaken, line>>
  /\ IF p \in {"feed", "archive", "prices", "session"} THEN TRUE ELSE UNCHANGED faults

Next ==
  \/ part = "feed" /\ F!Next /\ Stay("feed")
  \/ part = "warehouse" /\ W!Next /\ Stay("warehouse")
  \/ part = "catalogue" /\ C!Next /\ Stay("catalogue")
  \/ part = "archive" /\ A!Next /\ Stay("archive")
  \/ part = "purchases" /\ U!Next /\ Stay("purchases")
  \/ part = "prices" /\ P!Next /\ Stay("prices")
  \/ part = "session" /\ S!Next /\ Stay("session")

vars == <<part, pc, ask, seen, left, doomed, overtaken, line, faults, feed, warehouse,
          catalogue, archives, purchases, prices, session>>

Spec == Init /\ [][Next]_vars

-----------------------------------------------------------------------------
\* Every variable of the part keeps its type.
TypeOK ==
  CASE part = "feed" -> F!TypeOK
    [] part = "warehouse" -> W!TypeOK  [] part = "catalogue" -> C!TypeOK [] part = "archive" -> A!TypeOK
    [] part = "purchases" -> U!TypeOK  [] part = "prices" -> P!TypeOK    [] OTHER -> S!TypeOK

\* The properties of the parts, each explained in its module.
OneRowTellsAll == part = "feed" => F!OneRowTellsAll
NoCodeCollision == part = "catalogue" => C!NoCodeCollision
SupplierPaidExactly == part = "purchases" => U!SupplierPaidExactly
CookieLives == part = "session" => S!CookieLives

MissedInFourWays == [][part = "feed" => F!MissesInFourWays]_vars
TreeBrokenOnlyByOverlap == [][part = "warehouse" => W!BrokenOnlyByOverlap]_vars
MisfiledOnlyByMove == [][part = "warehouse" => W!MisfiledByMove]_vars
DeletionHolds == [][part = "catalogue" => C!ReturnsInFourWays]_vars
RestoredAsArchived == [][part = "archive" => A!RestoresExactly]_vars
HistoryTells == [][part = "prices" => P!UntracedByOverlap]_vars
=============================================================================
