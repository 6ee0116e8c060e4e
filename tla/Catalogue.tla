------------------------------- MODULE Catalogue -------------------------------
(***************************************************************************)
(* Products, their codes and their stock lines: create, update, softDelete *)
(* and restore of CatalogAdminService, create, removeItem and updateItem   *)
(* of InventoryService, the images of MediaService, the restoration of a   *)
(* product from a backup, and what each publishes to the clients.          *)
(*                                                                         *)
(* A step is a read before the transaction, or the transaction up to a row *)
(* lock others may wait for, or its commit.  Quantities, prices and texts  *)
(* are left out; the texts that must be unique (slugs, barcodes) too.  A   *)
(* code is the number its text was written from, in five digits or more.   *)
(***************************************************************************)
EXTENDS Integers, FiniteSets, FiniteSetsExt

CONSTANTS
  Products,  \* the ids of products
  Lines,     \* the ids of stock lines
  Brands,
  Requests,
  None,      \* no brand, no product
  Odd,       \* codes with letters, which no counter writes
  Radix,     \* ten
  Wide,      \* the first number of six digits
  MaxCode    \* bound on the product codes in use at first or archived

VARIABLES
  product,   \* "live", "deleted" (deletedAt) or "none": no such row
  code,      \* the number in Product.code, or an odd code; 0 where there is no row
  counter,   \* the row of counters that numbers products
  line,      \* the stock lines: product, brand and isActive
  told,      \* the last published row: the client has it, drops it, or never heard of it
  recorded,  \* the rows that bear the operationId, by table
  ask,       \* what a request asks
  pc,        \* where its handler is
  minted,    \* the code its open transaction has drawn
  doomed,    \* the lines its open deletion has deactivated
  overtaken  \* the requests whose product, codes or lines another has changed since they looked

rows     == <<product, code, counter, line, told, recorded>>
handlers == <<ask, pc, minted, doomed, overtaken>>
vars     == <<rows, handlers>>

Asks ==
  [do : {"create"}, brands : SUBSET (Brands \cup {None}), priced : SUBSET (Brands \cup {None}), operation : BOOLEAN]
    \cup [do : {"update", "delete", "restore", "image", "unpicture"}, product : Products]
    \cup [do : {"add"}, product : Products, brand : Brands \cup {None}]
    \cup [do : {"remove"}, line : Lines]
    \cup [do : {"edit"}, line : Lines, active : BOOLEAN]

Existing == {p \in Products : product[p] # "none"}
LinesOf(p) == {i \in Lines : line[i].of = p}
NoLine == [of |-> None, brand |-> None, active |-> FALSE]

\* A catalogue to start from; a restored counter may lag behind the codes.
Init ==
  /\ product \in [Products -> {"live", "none"}]
  /\ code \in [Products -> (0..MaxCode) \cup Odd]
  /\ \A p \in Products : (product[p] = "none") <=> (code[p] = 0)
  /\ \A p, q \in Existing : code[p] = code[q] => p = q
  /\ counter \in 0..MaxCode
  /\ line \in [Lines -> [of : Existing, brand : {None}, active : {TRUE}] \cup {NoLine}]
  /\ told = [x \in Products \cup Lines |->
       IF x \in Products THEN IF product[x] = "live" THEN "there" ELSE "none"
       ELSE IF line[x].active THEN "there" ELSE "none"]
  /\ recorded = {}
  /\ ask = [r \in Requests |-> None]
  /\ pc = [r \in Requests |-> "idle"]
  /\ minted = [r \in Requests |-> 0]
  /\ doomed = [r \in Requests |-> {}]
  /\ overtaken = {}

Goto(r, p) == pc' = [pc EXCEPT ![r] = p]
Take(r, a, p) ==
  /\ ask' = [ask EXCEPT ![r] = a]
  /\ Goto(r, p)
  /\ UNCHANGED <<rows, minted, doomed, overtaken>>

\* The request has been answered; it was refused where the rows are unchanged.
Answer(r, p) ==
  /\ Goto(r, p)
  /\ minted' = [minted EXCEPT ![r] = 0]
  /\ doomed' = [doomed EXCEPT ![r] = {}]
  /\ ask' = [ask EXCEPT ![r] = IF p = "refused" THEN @ ELSE None]

\* A deletion holds the row of its product.
Deletes(r, p) == pc[r] = "deactivated" /\ ask[r].product = p
ProductFree(p) == \A r \in Requests : ~Deletes(r, p)

\* Fault: the counter is read and written without its lock.
CounterFreeAlways == TRUE

\* A creation holds the row of the counter.
CounterFree == \A r \in Requests : minted[r] = 0

-----------------------------------------------------------------------------
\* Every handler that is about a product looks at it before it writes: a deleted
\* one is found by restore, and by remove of an image, which looks at the image
\* alone; a new line's brand must be free.
Begin(r, a) ==
  /\ pc[r] = "idle" /\ a.do \in {"update", "delete", "restore", "image", "unpicture", "add"}
  /\ product[a.product] # "none"
  /\ LET found == product[a.product] = "live" \/ a.do \in {"restore", "unpicture"}
         taken == a.do = "add" /\ \E i \in LinesOf(a.product) : line[i].brand = a.brand IN
     Take(r, a, IF found /\ ~taken THEN "commit" ELSE "refused")

\* The handlers of one line find it, whatever has become of its product.
BeginLine(r, a) ==
  /\ pc[r] = "idle" /\ a.do \in {"remove", "edit"} /\ line[a.line] # NoLine
  /\ Take(r, a, "commit")

\* create: one line per brand; a replayed operationId returns what it made.
BeginCreate(r, a) ==
  /\ pc[r] = "idle" /\ a.do = "create" /\ a.priced \subseteq a.brands
  /\ Take(r, a, IF a.operation /\ "product" \in recorded THEN "done" ELSE "mint")

Used == {code[p] : p \in Existing}

\* The first five digits of a number of five or six.
Front(n) == IF n < Wide THEN n ELSE n \div Radix

\* The order of the codes as texts.
SortsBefore(c, d) == Front(c) < Front(d) \/ (Front(c) = Front(d) /\ c < d)

\* The number of the code that is last as a text.  Letters sort after digits and
\* are read as 0.
LastUsed ==
  IF Used \cap Odd # {} THEN 0
  ELSE CHOOSE c \in Used : \A d \in Used \ {c} : SortsBefore(d, c)

\* nextCodeInTx: a lagging counter is brought past the last code, and the code it
\* then gives is not looked up again.
NextCode(c) == IF c \in Used THEN Max({LastUsed + 1, c + 1}) ELSE c

Mint(r) ==
  /\ pc[r] = "mint" /\ CounterFree
  /\ minted' = [minted EXCEPT ![r] = NextCode(counter + 1)]
  /\ Goto(r, "insert")
  /\ UNCHANGED <<rows, ask, doomed, overtaken>>

\* Every priced or stocked line of a creation records its opening price or its
\* opening stock under the operationId of the whole, which the tables of either
\* admit once.
Opened(r) == ask[r].operation /\ Cardinality(ask[r].priced) > 1

\* The transaction writes the product, its lines (a neutral one if none was
\* asked for) and their opening prices.
CommitCreate(r, p, new) ==
  /\ pc[r] = "insert"
  /\ product[p] = "none"
  /\ \A i \in new : line[i] = NoLine
  /\ minted[r] \notin Used /\ ~Opened(r) /\ ~(ask[r].operation /\ "product" \in recorded)
  /\ LET brands == IF ask[r].brands = {} THEN {None} ELSE ask[r].brands IN
     /\ Cardinality(new) = Cardinality(brands)
     /\ \E f \in [new -> brands] :
          /\ \A i, j \in new : f[i] = f[j] => i = j
          /\ line' = [i \in Lines |->
               IF i \in new THEN [of |-> p, brand |-> f[i], active |-> TRUE] ELSE line[i]]
  /\ product' = [product EXCEPT ![p] = "live"]
  /\ code' = [code EXCEPT ![p] = minted[r]]
  /\ counter' = minted[r]
  /\ told' = [x \in DOMAIN told |-> IF x = p \/ x \in new THEN "there" ELSE told[x]]
  /\ recorded' = IF ask[r].operation THEN recorded \cup {"product"} ELSE recorded
  /\ Answer(r, "done")
  /\ UNCHANGED overtaken

\* A unique column refuses it and everything is rolled back, the counter too.
CodeTaken(r) ==
  /\ pc[r] = "insert" /\ minted[r] \in Used
  /\ Answer(r, "collided")
  /\ UNCHANGED <<rows, overtaken>>

OperationTaken(r) ==
  /\ pc[r] = "insert" /\ (Opened(r) \/ (ask[r].operation /\ "product" \in recorded))
  /\ Answer(r, "refused")
  /\ UNCHANGED <<rows, overtaken>>

\* The requests that have found the product and are yet to write it.
Lookers(p) ==
  {r \in Requests : pc[r] = "commit" /\ ask[r].do \notin {"remove", "edit"} /\ ask[r].product = p}

ArchivedCodes(p) == IF product[p] = "none" THEN ((1..MaxCode) \cup Odd) \ Used ELSE {code[p]}
ArchivedLine(p) == [of : {p}, brand : Brands \cup {None}, active : BOOLEAN]

\* A product of a backup, found by its code or created with it, becomes as it was
\* archived, deleted or not, and is published as there.  So do its lines, found by
\* their barcodes or created, which are not published.
RestoreProduct(p, c, as, given, archived) ==
  /\ ProductFree(p)
  /\ \A i \in given : line[i] = NoLine \/ line[i].of = p
  /\ line' = [i \in Lines |-> IF i \in given THEN archived[i] ELSE line[i]]
  /\ \A i, j \in Lines :
       line'[i].of = p /\ line'[j].of = p /\ line'[i].brand = line'[j].brand /\ line'[i].brand # None => i = j
  /\ product' = [product EXCEPT ![p] = as]
  /\ code' = [code EXCEPT ![p] = c]
  /\ told' = [told EXCEPT ![p] = "there"]
  /\ overtaken' = overtaken \cup {r \in Requests : product[p] = "none" /\ pc[r] = "insert"}
                            \cup {r \in Lookers(p) : as = "deleted"}
  /\ UNCHANGED <<counter, recorded, ask, pc, minted, doomed>>

Restored(p) ==
  \E c \in ArchivedCodes(p), as \in {"live", "deleted"}, given \in SUBSET Lines :
    \E archived \in [given -> ArchivedLine(p)] : RestoreProduct(p, c, as, given, archived)

-----------------------------------------------------------------------------
\* update does not look again: it writes and publishes the product as updated.
CommitUpdate(r) ==
  /\ pc[r] = "commit" /\ ask[r].do = "update" /\ ProductFree(ask[r].product)
  /\ told' = [told EXCEPT ![ask[r].product] = "there"]
  /\ Answer(r, "done")
  /\ UNCHANGED <<product, code, counter, line, recorded, overtaken>>

\* upload, addFromUrl, selectExisting, reorder, makePrimary and remove have written
\* the image; the product is published as updated, deleted or not, without its lock.
CommitImage(r) ==
  /\ pc[r] = "commit" /\ ask[r].do \in {"image", "unpicture"}
  /\ told' = [told EXCEPT ![ask[r].product] = "there"]
  /\ Answer(r, "done")
  /\ UNCHANGED <<product, code, counter, line, recorded, overtaken>>

\* Fault: the lines stay active.
DoomsNone(p) == {}

\* The lines that softDelete deactivates.
Dooms(p) == LinesOf(p)

\* softDelete updates the product, then its lines ...
Deactivate(r) ==
  /\ pc[r] = "commit" /\ ask[r].do = "delete" /\ ProductFree(ask[r].product)
  /\ doomed' = [doomed EXCEPT ![r] = Dooms(ask[r].product)]
  /\ Goto(r, "deactivated")
  /\ UNCHANGED <<rows, ask, minted, overtaken>>

\* ... and publishes the deletion of the product and of every line it now has.
CommitDelete(r) ==
  /\ pc[r] = "deactivated"
  /\ LET p == ask[r].product IN
     /\ product' = [product EXCEPT ![p] = "deleted"]
     /\ line' = [i \in Lines |-> [line[i] EXCEPT !.active = @ /\ i \notin doomed[r]]]
     /\ told' = [x \in DOMAIN told |-> IF x = p \/ x \in LinesOf(p) THEN "gone" ELSE told[x]]
  /\ overtaken' = overtaken \cup Lookers(ask[r].product)
  /\ Answer(r, "done")
  /\ UNCHANGED <<code, counter, recorded>>

\* restore brings the product back, not its lines.
CommitRestore(r) ==
  /\ pc[r] = "commit" /\ ask[r].do = "restore" /\ ProductFree(ask[r].product)
  /\ product' = [product EXCEPT ![ask[r].product] = "live"]
  /\ told' = [told EXCEPT ![ask[r].product] = "there"]
  /\ Answer(r, "done")
  /\ UNCHANGED <<code, counter, line, recorded, overtaken>>

\* The new line; the unique (product, brand) admits any number without a brand.
CommitAdd(r, i) ==
  /\ pc[r] = "commit" /\ ask[r].do = "add" /\ line[i] = NoLine
  /\ ask[r].brand = None \/ \A j \in LinesOf(ask[r].product) : line[j].brand # ask[r].brand
  /\ line' = [line EXCEPT ![i] = [of |-> ask[r].product, brand |-> ask[r].brand, active |-> TRUE]]
  /\ told' = [told EXCEPT ![i] = "there"]
  /\ overtaken' = overtaken \cup {o \in Requests : Deletes(o, ask[r].product)}
  /\ Answer(r, "done")
  /\ UNCHANGED <<product, code, counter, recorded>>

BrandTaken(r) ==
  /\ pc[r] = "commit" /\ ask[r].do = "add" /\ ask[r].brand # None
  /\ \E j \in LinesOf(ask[r].product) : line[j].brand = ask[r].brand
  /\ Answer(r, "refused")
  /\ UNCHANGED <<rows, overtaken>>

LineFree(i) == \A r \in Requests : i \notin doomed[r]

\* removeItem and updateItem write the line and publish it as it then is.
CommitLine(r) ==
  /\ pc[r] = "commit" /\ ask[r].do \in {"remove", "edit"} /\ LineFree(ask[r].line)
  /\ LET i == ask[r].line
         active == ask[r].do = "edit" /\ ask[r].active IN
     /\ line' = [line EXCEPT ![i].active = active]
     /\ told' = [told EXCEPT ![i] = IF active THEN "there" ELSE "gone"]
  /\ Answer(r, "done")
  /\ UNCHANGED <<product, code, counter, recorded, overtaken>>

-----------------------------------------------------------------------------
Next ==
  \/ \E r \in Requests :
       \/ \E a \in Asks : Begin(r, a) \/ BeginLine(r, a) \/ BeginCreate(r, a)
       \/ Mint(r)
       \/ \E p \in Products, new \in SUBSET Lines : CommitCreate(r, p, new)
       \/ CodeTaken(r) \/ OperationTaken(r)
       \/ CommitUpdate(r) \/ CommitImage(r) \/ Deactivate(r) \/ CommitDelete(r) \/ CommitRestore(r)
       \/ \E i \in Lines : CommitAdd(r, i)
       \/ BrandTaken(r) \/ CommitLine(r)
  \/ \E p \in Products : Restored(p)

Spec == Init /\ [][Next]_vars

-----------------------------------------------------------------------------
TypeOK ==
  /\ product \in [Products -> {"none", "live", "deleted"}]
  /\ code \in [Products -> Nat \cup Odd] /\ counter \in Nat
  /\ line \in [Lines -> [of : Products \cup {None}, brand : Brands \cup {None}, active : BOOLEAN]]
  /\ told \in [Products \cup Lines -> {"none", "there", "gone"}]
  /\ recorded \subseteq {"product"}
  /\ \A r \in Requests : ask[r] \in Asks \cup {None}
  /\ pc \in [Requests -> {"idle", "mint", "insert", "commit", "deactivated", "done", "refused", "collided"}]
  /\ minted \in [Requests -> Nat]
  /\ doomed \in [Requests -> SUBSET Lines]
  /\ overtaken \subseteq Requests

\* Every code in use is a number of five digits.
Padded == Used \subseteq 1..(Wide - 1)

\* Wherever a restored backup or an import has left the counter, a creation runs
\* into a used code only if a restoration overtakes it or a code in use is not a
\* number of five digits: creations that draw at the same time never collide.
NoCodeCollision == \A r \in Requests : pc[r] = "collided" => r \in overtaken \/ ~Padded

\* What the comment of nextCodeInTx says: "A stale counter row (restored backup,
\* manual import) must never 500 the next create".
StaleCounterNeverFails == \A r \in Requests : pc[r] = "collided" => r \in overtaken

\* A deleted product is gone for the clients, and so are its lines, which are no
\* longer for sale.
Gone(p) ==
  product[p] = "deleted" =>
    told[p] = "gone" /\ \A i \in LinesOf(p) : ~line[i].active /\ told[i] = "gone"

\* What softDelete is for: "Offline clients must drop the product and every stock
\* line of it".  Here an image handler that ran after the deletion undoes that.
ImageReturns ==
  \E r \in Requests \ overtaken, p \in Products : CommitImage(r) /\ Gone(p) /\ ~Gone(p)'

\* It comes back, short of restore, in four ways: by requests that overlapped the
\* deletion (they had found the product before, or a new line overtook the
\* deletion), by an operator who reactivates a line, by remove of an image, and by
\* the restoration of a backup.
ReturnsInFourWays ==
  \A p \in Products : Gone(p) /\ ~Gone(p)' =>
    \/ \E r \in overtaken :
         CommitUpdate(r) \/ CommitImage(r) \/ CommitDelete(r) \/ \E i \in Lines : CommitAdd(r, i)
    \/ \E r \in Requests : CommitLine(r) /\ ask[r].do = "edit" /\ ask[r].active
    \/ \E r \in Requests : CommitImage(r) /\ ask[r].do = "unpicture"
    \/ Restored(p)

DeletionHolds == [][ReturnsInFourWays]_vars

\* A creation that meets no other request is not refused by a unique column:
\* several priced lines are created with one operationId, in one transaction.
LoneCreateSucceeds ==
  \A r \in Requests :
    (\A o \in Requests \ {r} : pc[o] = "idle") /\ ask[r] # None /\ ask[r].do = "create" => pc[r] # "refused"
=============================================================================
