------------------------------- MODULE Warehouse -------------------------------
(***************************************************************************)
(* The tree of warehouses, shelves and baskets, and the address of each    *)
(* stock line in it: LocationService, resolvePlacement and its callers in  *)
(* InventoryService (create, updateMetadata, updateItem, transfer).        *)
(*                                                                         *)
(* Every handler reads and validates first and writes last; nothing locks  *)
(* what it has read, so a step is one SELECT or the final write.  Types    *)
(* other than warehouse and basket all behave as shelves.                  *)
(***************************************************************************)
EXTENDS FiniteSets

CONSTANTS
  Places,    \* the ids of locations
  Items,     \* the stock lines
  Requests,  \* the requests
  None,      \* null
  Same       \* a field the request does not send

VARIABLES
  type,      \* Location.type; "none" where there is no such row
  parent,    \* Location.parentId
  shelf,     \* InventoryItem.locationId
  basket,    \* InventoryItem.basketId
  ask,       \* what a request asks for
  pc,        \* where its handler is
  found      \* the row it has read first: the location's type and parent, or the item's address

vars == <<type, parent, shelf, basket, ask, pc, found>>

Types == {"warehouse", "shelf", "basket"}
TypeOf(q) == IF q = None THEN "none" ELSE type[q]
There == {p \in Places : type[p] # "none"}
Address == [shelf : Places \cup {None}, basket : Places \cup {None}]

Asks ==
  [do : {"create"}, place : Places, type : Types, parent : Places \cup {None}]
    \cup [do : {"update"}, place : Places, type : Types \cup {Same}, parent : Places \cup {None, Same}]
    \cup [do : {"remove"}, place : Places]
    \cup [do : {"address"}, item : Items, shelf : Places \cup {None, Same}, basket : Places \cup {None, Same}]

\* A tree as the panel builds it, and lines filed in it.
Tidy ==
  /\ \A p \in Places :
       TypeOf(parent[p]) \in CASE type[p] = "basket" -> {"shelf"}
                               [] type[p] = "shelf" -> {"none", "warehouse"} [] OTHER -> {"none"}
  /\ {parent[p] : p \in Places} \subseteq There \cup {None}
  /\ \A p \in Places \ There : parent[p] = None
  /\ {shelf[i] : i \in Items} \cup {basket[i] : i \in Items} \subseteq There \cup {None}
  /\ \A i \in Items :
       /\ TypeOf(shelf[i]) \in {"none", "shelf"} /\ TypeOf(basket[i]) \in {"none", "basket"}
       /\ basket[i] # None => shelf[i] = parent[basket[i]]

Init ==
  /\ type \in [Places -> Types \cup {"none"}]
  /\ parent \in [Places -> Places \cup {None}]
  /\ shelf \in [Items -> Places \cup {None}]
  /\ basket \in [Items -> Places \cup {None}]
  /\ Tidy
  /\ ask = [r \in Requests |-> None]
  /\ pc = [r \in Requests |-> "idle"]
  /\ found = [r \in Requests |-> None]

Goto(r, p) == pc' = [pc EXCEPT ![r] = p]
rows == <<type, parent, shelf, basket>>

\* A request is refused, or has been answered.
Answer(r) ==
  /\ Goto(r, "done")
  /\ ask' = [ask EXCEPT ![r] = None]
  /\ found' = [found EXCEPT ![r] = None]

\* Fault: a type that is not sent is written all the same.
NewTypeAsSent(r) == ask[r].type

\* The values a request's fields come to, given the row it has read.
NewType(r) == IF ask[r].type = Same THEN found[r].type ELSE ask[r].type

NewParent(r) == IF ask[r].parent = Same THEN found[r].parent ELSE ask[r].parent

-----------------------------------------------------------------------------
\* resolveParent: a basket lies in a shelf, a shelf in something of the first
\* level, a warehouse in nothing.
ParentFits(t, q, self) ==
  \/ q = None /\ t # "basket"
  \/ /\ q # self /\ q \in There /\ t # "warehouse"
     /\ IF t = "basket" THEN type[q] \notin {"basket", "warehouse"}
        ELSE type[q] # "basket" /\ parent[q] = None

\* Fault: a basket may have children.
ChildrenFitBasket(p, t, moved) ==
  LET children == {c \in Places : parent[c] = p} IN
  ~moved \/ children = {} \/ t = "warehouse" \/ \A c \in children : type[c] = "basket"

\* assertChildren: looked at only when the type or the parent changes.
ChildrenFit(p, t, moved) ==
  LET children == {c \in Places : parent[c] = p} IN
  ~moved \/ children = {} \/ (t # "basket" /\ (t = "warehouse" \/ \A c \in children : type[c] = "basket"))

\* create reads the parent only.
BeginCreate(r, a) ==
  /\ pc[r] = "idle" /\ a.do = "create" /\ a.place \notin There
  /\ \/ /\ ParentFits(a.type, a.parent, None)
        /\ ask' = [ask EXCEPT ![r] = a]
        /\ Goto(r, "write")
        /\ UNCHANGED found
     \/ ~ParentFits(a.type, a.parent, None) /\ Answer(r)
  /\ UNCHANGED rows

\* update and remove read the location they are about; remove counts its children.
BeginChange(r, a) ==
  /\ pc[r] = "idle" /\ a.do \in {"update", "remove"}
  /\ LET p == a.place
         leaf == \A c \in Places : parent[c] # p IN
     \/ /\ p \in There /\ (a.do = "update" \/ leaf)
        /\ ask' = [ask EXCEPT ![r] = a]
        /\ found' = [found EXCEPT ![r] = [type |-> type[p], parent |-> parent[p]]]
        /\ Goto(r, IF a.do = "remove" THEN "write" ELSE IF a.parent = Same THEN "children" ELSE "parent")
     \/ (p \notin There \/ (a.do = "remove" /\ ~leaf)) /\ Answer(r)
  /\ UNCHANGED rows

ReadParent(r) ==
  /\ pc[r] = "parent"
  /\ LET fits == ParentFits(NewType(r), ask[r].parent, ask[r].place) IN
     \/ fits /\ Goto(r, "children") /\ UNCHANGED <<ask, found>>
     \/ ~fits /\ Answer(r)
  /\ UNCHANGED rows

\* The type or the parent changes.
Moved(r) == NewType(r) # found[r].type \/ NewParent(r) # found[r].parent

ReadChildren(r) ==
  /\ pc[r] = "children"
  /\ \/ /\ ChildrenFit(ask[r].place, NewType(r), Moved(r))
        /\ Goto(r, "write")
        /\ UNCHANGED <<ask, found>>
     \/ ~ChildrenFit(ask[r].place, NewType(r), Moved(r)) /\ Answer(r)
  /\ UNCHANGED rows

CommitCreate(r) ==
  /\ pc[r] = "write" /\ ask[r].do = "create"
  /\ LET p == ask[r].place  q == ask[r].parent IN
     /\ p \notin There
     /\ \/ /\ q = None \/ q \in There
           /\ type' = [type EXCEPT ![p] = ask[r].type]
           /\ parent' = [parent EXCEPT ![p] = q]
        \/ q # None /\ q \notin There /\ UNCHANGED <<type, parent>>
  /\ Answer(r)
  /\ UNCHANGED <<shelf, basket>>

\* The foreign key refuses a parent that is gone, the update a row that is gone.
CommitUpdate(r) ==
  /\ pc[r] = "write" /\ ask[r].do = "update"
  /\ LET p == ask[r].place
         exists == p \in There /\ (NewParent(r) = None \/ NewParent(r) \in There) IN
     \/ /\ exists
        /\ type' = [type EXCEPT ![p] = NewType(r)]
        /\ parent' = [parent EXCEPT ![p] = NewParent(r)]
     \/ ~exists /\ UNCHANGED <<type, parent>>
  /\ Answer(r)
  /\ UNCHANGED <<shelf, basket>>

\* ON DELETE SET NULL: lines lose their shelf or basket, places their parent.
CommitRemove(r) ==
  /\ pc[r] = "write" /\ ask[r].do = "remove"
  /\ LET p == ask[r].place
         Without(f) == [x \in DOMAIN f |-> IF f[x] = p THEN None ELSE f[x]] IN
     /\ type' = [type EXCEPT ![p] = "none"]
     /\ parent' = [Without(parent) EXCEPT ![p] = None]
     /\ shelf' = Without(shelf)
     /\ basket' = Without(basket)
  /\ Answer(r)

-----------------------------------------------------------------------------
\* A request that edits a line reads its address ...
BeginAddress(r, a) ==
  /\ pc[r] = "idle" /\ a.do = "address"
  /\ ask' = [ask EXCEPT ![r] = a]
  /\ found' = [found EXCEPT ![r] = [shelf |-> shelf[a.item], basket |-> basket[a.item]]]
  /\ Goto(r, "basket")
  /\ UNCHANGED rows

\* The pointers as sent; clearing the shelf clears the basket.
Sent(r) ==
  [shelf  |-> IF ask[r].shelf = Same THEN found[r].shelf ELSE ask[r].shelf,
   basket |-> IF ask[r].shelf = None THEN None
              ELSE IF ask[r].basket = Same THEN found[r].basket ELSE ask[r].basket]

\* resolvePlacement: the basket is a basket, of the shelf if one is given.
BasketFits(to) ==
  \/ to.basket = None
  \/ /\ to.basket \in There /\ type[to.basket] = "basket"
     /\ to.shelf = None \/ to.shelf = parent[to.basket]

\* Fault: the pointers stay as sent.
FiledAsSent(to) == to

\* The basket's shelf becomes the line's.
FiledWithBasket(to) ==
  IF to.basket # None /\ parent[to.basket] # None THEN [to EXCEPT !.shelf = parent[to.basket]] ELSE to

\* ... reads the basket ...
ReadBasket(r) ==
  /\ pc[r] = "basket"
  /\ LET to == Sent(r) IN
     \/ /\ BasketFits(to)
        /\ found' = [found EXCEPT ![r] = FiledWithBasket(to)]
        /\ Goto(r, "write")
        /\ UNCHANGED ask
     \/ ~BasketFits(to) /\ Answer(r)
  /\ UNCHANGED rows

\* ... and writes both pointers, which the foreign keys check.
CommitAddress(r) ==
  /\ pc[r] = "write" /\ ask[r].do = "address"
  /\ LET to == found[r]
         exists == {to.shelf, to.basket} \subseteq There \cup {None} IN
     \/ /\ exists
        /\ shelf' = [shelf EXCEPT ![ask[r].item] = to.shelf]
        /\ basket' = [basket EXCEPT ![ask[r].item] = to.basket]
     \/ ~exists /\ UNCHANGED <<shelf, basket>>
  /\ Answer(r)
  /\ UNCHANGED <<type, parent>>

Next ==
  \E r \in Requests :
    \/ \E a \in Asks : BeginCreate(r, a) \/ BeginChange(r, a) \/ BeginAddress(r, a)
    \/ ReadParent(r) \/ ReadChildren(r)
    \/ CommitCreate(r) \/ CommitUpdate(r) \/ CommitRemove(r)
    \/ ReadBasket(r) \/ CommitAddress(r)

Spec == Init /\ [][Next]_vars

-----------------------------------------------------------------------------
TypeOK ==
  /\ type \in [Places -> Types \cup {"none"}]
  /\ parent \in [Places -> Places \cup {None}]
  /\ shelf \in [Items -> Places \cup {None}]
  /\ basket \in [Items -> Places \cup {None}]
  /\ \A r \in Requests : ask[r] \in Asks \cup {None}
  /\ pc \in [Requests -> {"idle", "parent", "children", "basket", "write", "done"}]
  /\ \A r \in Requests :
       found[r] \in Address \cup {None} \cup [type : Types, parent : Places \cup {None}]

\* Nothing lies in itself, at any depth, and nothing lies in a basket.
Forest ==
  /\ \A group \in (SUBSET Places) \ {{}} : \E p \in group : parent[p] \notin group
  /\ \A p \in Places : TypeOf(parent[p]) # "basket"

\* What a request that is about to move a location has checked is still so.
StillFits(r) ==
  /\ ask[r].do = "create" =>
       ParentFits(ask[r].type, ask[r].parent, None)
  /\ ask[r].do = "update" =>
       /\ ask[r].parent = Same \/ ParentFits(NewType(r), ask[r].parent, ask[r].place)
       /\ ChildrenFit(ask[r].place, NewType(r), Moved(r))
       /\ found[r] = [type |-> type[ask[r].place], parent |-> parent[ask[r].place]]

\* The tree comes to grief (a location inside itself, or inside a basket) only
\* by a commit whose checks another request has overtaken.
BrokenOnlyByOverlap ==
  Forest /\ ~Forest' =>
    \E r \in Requests : (CommitCreate(r) \/ CommitUpdate(r)) /\ ~StillFits(r)

TreeBrokenOnlyByOverlap == [][BrokenOnlyByOverlap]_vars

\* A line's basket is one of the line's shelf.
Filed(i) == basket[i] = None \/ (type[basket[i]] = "basket" /\ parent[basket[i]] \in {None, shelf[i]})

\* What the schema says of a basket: "Always null unless it belongs to this line's
\* shelf".
BasketOnItsShelf == \A i \in Items : Filed(i)

\* resolvePlacement would still accept this address, and leave it as it is.
Resolved(to) == BasketFits(to) /\ FiledWithBasket(to) = to

\* A line's basket ceases to be one of its shelf only when the basket itself is
\* moved or changes its type, or when an edit of the line was overtaken by that:
\* an edit alone, whatever it sends, never misfiles a line.
MisfiledByMove ==
  \A i \in Items : Filed(i) /\ ~Filed(i)' =>
    \/ basket[i] # None /\ (type'[basket[i]] # type[basket[i]] \/ parent'[basket[i]] # parent[basket[i]])
    \/ \E r \in Requests : CommitAddress(r) /\ ask[r].item = i /\ ~Resolved(found[r])

MisfiledOnlyByMove == [][MisfiledByMove]_vars
=============================================================================
