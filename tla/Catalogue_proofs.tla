------------------------------ MODULE Catalogue_proofs ------------------------------
(***************************************************************************)
(* Proofs about the warehouse and the catalogue, each by itself and as a   *)
(* part of MCServices: for every set of places, products and lines and any *)
(* number of requests.  W and C are their modules.                         *)
(***************************************************************************)
EXTENDS MCServices, FiniteLemmas, TLAPS

CreateAsks == [do : {"create"}, place : Places, type : W!Types, parent : Places \cup {None}]
UpdateAsks == [do : {"update"}, place : Places, type : W!Types \cup {Same}, parent : Places \cup {None, Same}]
RemoveAsks == [do : {"remove"}, place : Places]
AddressAsks == [do : {"address"}, item : Items, shelf : Places \cup {None, Same}, basket : Places \cup {None, Same}]
PlaceRow == [type : W!Types, parent : Places \cup {None}]

\* What a handler that is past its first read asks for, and the row it has read.
ReadersKnow ==
  \A r \in Two :
    /\ pc[r] \in {"parent", "children"} => ask[r] \in UpdateAsks /\ found[r] \in PlaceRow
    /\ pc[r] = "basket" => ask[r] \in AddressAsks /\ found[r] \in W!Address
    /\ pc[r] = "write" => \/ ask[r] \in CreateAsks
                          \/ ask[r] \in UpdateAsks /\ found[r] \in PlaceRow
                          \/ ask[r] \in RemoveAsks
                          \/ ask[r] \in AddressAsks /\ found[r] \in W!Address

RequestsTyped ==
  /\ DOMAIN ask = Two /\ DOMAIN found = Two
  /\ \A r \in Two : ask[r] \in W!Asks \cup {None}
  /\ pc \in [Two -> {"idle", "parent", "children", "basket", "write", "done"}]
  /\ \A r \in Two : found[r] \in W!Address \cup {None} \cup PlaceRow
  /\ ReadersKnow

PlacesTyped ==
  /\ type \in [Places -> W!Types \cup {"none"}]
  /\ parent \in [Places -> Places \cup {None}]
  /\ shelf \in [Items -> Places \cup {None}]
  /\ basket \in [Items -> Places \cup {None}]

\* The foreign key of a location's parent.
ParentsExist == \A p \in Places : parent[p] \in W!There \cup {None}

WarehouseInv == PlacesTyped /\ RequestsTyped /\ ParentsExist

LEMMA InitWarehouseInv == W!Init => WarehouseInv
<1> SUFFICES ASSUME W!Init PROVE WarehouseInv
  OBVIOUS
<1>1. PlacesTyped /\ RequestsTyped
  BY DEF W!Init, PlacesTyped, RequestsTyped, ReadersKnow
<1>2. ParentsExist
  BY DEF W!Init, W!Tidy, ParentsExist
<1> QED BY <1>1, <1>2 DEF WarehouseInv

LEMMA WarehouseTyped == WarehouseInv => W!TypeOK
BY DEF WarehouseInv, PlacesTyped, RequestsTyped, PlaceRow, W!TypeOK

LEMMA AsksByKind ==
  ASSUME NEW a \in W!Asks
  PROVE  /\ a.do = "create" => a \in CreateAsks
         /\ a.do = "update" => a \in UpdateAsks
         /\ a.do = "remove" => a \in RemoveAsks
         /\ a.do = "address" => a \in AddressAsks
BY DEF W!Asks, CreateAsks, UpdateAsks, RemoveAsks, AddressAsks

LEMMA KindsAreAsks == CreateAsks \cup UpdateAsks \cup RemoveAsks \cup AddressAsks = W!Asks
BY DEF W!Asks, CreateAsks, UpdateAsks, RemoveAsks, AddressAsks

\* The steps that keep the rows: they leave the tree and the addresses alone.
RowsKept == UNCHANGED W!rows

LEMMA RowsKeptStep ==
  ASSUME WarehouseInv, RowsKept, RequestsTyped'
  PROVE  WarehouseInv' /\ W!BrokenOnlyByOverlap /\ W!MisfiledByMove
<1>1. WarehouseInv'
  BY DEF RowsKept, W!rows, WarehouseInv, PlacesTyped, ParentsExist, W!There
<1>2. W!BrokenOnlyByOverlap
  BY DEF RowsKept, W!rows, W!BrokenOnlyByOverlap, W!Forest, W!TypeOf
<1>3. W!MisfiledByMove
  BY DEF RowsKept, W!rows, W!MisfiledByMove, W!Filed
<1> QED BY <1>1, <1>2, <1>3

LEMMA AnswerKnows ==
  ASSUME WarehouseInv, NEW r \in Two, W!Answer(r)
  PROVE  RequestsTyped'
BY DEF WarehouseInv, RequestsTyped, ReadersKnow, W!Answer, W!Goto

LEMMA BeginCreateStep ==
  ASSUME WarehouseInv, NEW r \in Two, NEW a \in W!Asks, W!BeginCreate(r, a)
  PROVE  RequestsTyped' /\ RowsKept
<1>1. CASE W!Answer(r)
  BY <1>1, AnswerKnows DEF W!BeginCreate, RowsKept
<1>2. CASE /\ ask' = [ask EXCEPT ![r] = a] /\ W!Goto(r, "write") /\ UNCHANGED found
  <2>1. a \in CreateAsks
    BY AsksByKind DEF W!BeginCreate
  <2> QED BY <1>2, <2>1 DEF WarehouseInv, RequestsTyped, ReadersKnow, W!Goto, W!BeginCreate, RowsKept
<1> QED BY <1>1, <1>2 DEF W!BeginCreate

LEMMA BeginChangeStep ==
  ASSUME WarehouseInv, NEW r \in Two, NEW a \in W!Asks, W!BeginChange(r, a)
  PROVE  RequestsTyped' /\ RowsKept
<1>1. CASE W!Answer(r)
  BY <1>1, AnswerKnows DEF W!BeginChange, RowsKept
<1>2. CASE ~W!Answer(r)
  <2>1. /\ a \in UpdateAsks \/ a \in RemoveAsks
        /\ a.place \in Places /\ a.place \in W!There
    BY <1>2, AsksByKind DEF W!BeginChange, UpdateAsks, RemoveAsks
  <2>2. PICK row \in PlaceRow : row = [type |-> type[a.place], parent |-> parent[a.place]]
    BY <2>1 DEF WarehouseInv, PlacesTyped, PlaceRow, W!There
  <2>3. /\ ask' = [ask EXCEPT ![r] = a] /\ found' = [found EXCEPT ![r] = row]
        /\ a.do = "remove" => pc' = [pc EXCEPT ![r] = "write"]
        /\ a.do = "update" => pc' = [pc EXCEPT ![r] = pc'[r]] /\ pc'[r] \in {"children", "parent"}
        /\ a.do = "remove" \/ a.do = "update"
    BY <1>2, <2>2 DEF W!BeginChange, W!Goto, WarehouseInv, RequestsTyped
  <2>4. (a.do = "remove" => a \in RemoveAsks) /\ (a.do = "update" => a \in UpdateAsks)
    BY AsksByKind
  <2>5. RequestsTyped'
    BY <2>3, <2>4 DEF WarehouseInv, RequestsTyped, ReadersKnow
  <2> QED BY <2>5 DEF W!BeginChange, RowsKept
<1> QED BY <1>1, <1>2

LEMMA ReadPlaceStep ==
  ASSUME WarehouseInv, NEW r \in Two, W!ReadParent(r) \/ W!ReadChildren(r)
  PROVE  RequestsTyped' /\ RowsKept
<1>1. CASE W!Answer(r)
  BY <1>1, AnswerKnows DEF W!ReadParent, W!ReadChildren, RowsKept
<1>2. CASE ~W!Answer(r)
  <2>1. /\ pc[r] \in {"parent", "children"} /\ UNCHANGED <<ask, found>>
        /\ pc' = [pc EXCEPT ![r] = pc'[r]] /\ pc'[r] \in {"children", "write"}
    BY <1>2 DEF W!ReadParent, W!ReadChildren, W!Goto, WarehouseInv, RequestsTyped
  <2> QED BY <2>1 DEF WarehouseInv, RequestsTyped, ReadersKnow, W!ReadParent, W!ReadChildren, RowsKept
<1> QED BY <1>1, <1>2

LEMMA BeginAddressStep ==
  ASSUME WarehouseInv, NEW r \in Two, NEW a \in W!Asks, W!BeginAddress(r, a)
  PROVE  RequestsTyped' /\ RowsKept
<1>1. a \in AddressAsks /\ a.item \in Items
  BY AsksByKind DEF W!BeginAddress, AddressAsks
<1>2. PICK to \in W!Address : to = [shelf |-> shelf[a.item], basket |-> basket[a.item]]
  BY <1>1 DEF WarehouseInv, PlacesTyped, W!Address
<1>3. /\ ask' = [ask EXCEPT ![r] = a] /\ found' = [found EXCEPT ![r] = to]
      /\ pc' = [pc EXCEPT ![r] = "basket"]
  BY <1>2 DEF W!BeginAddress, W!Goto
<1>4. RequestsTyped'
  BY <1>1, <1>3 DEF WarehouseInv, RequestsTyped, ReadersKnow
<1> QED BY <1>4 DEF W!BeginAddress, RowsKept

LEMMA ReadBasketStep ==
  ASSUME WarehouseInv, NEW r \in Two, W!ReadBasket(r)
  PROVE  RequestsTyped' /\ RowsKept
<1>1. CASE W!Answer(r)
  BY <1>1, AnswerKnows DEF W!ReadBasket, RowsKept
<1>2. CASE ~W!Answer(r)
  <2>1. ask[r] \in AddressAsks /\ found[r] \in W!Address
    BY DEF W!ReadBasket, WarehouseInv, RequestsTyped, ReadersKnow
  <2>2. W!Sent(r) \in W!Address
    BY <2>1 DEF W!Sent, W!Address, AddressAsks
  <2>3. PICK to \in W!Address : to = W!FiledWithBasket(W!Sent(r))
    BY <2>2 DEF W!FiledWithBasket, W!Address, WarehouseInv, PlacesTyped
  <2>4. found' = [found EXCEPT ![r] = to] /\ pc' = [pc EXCEPT ![r] = "write"] /\ UNCHANGED ask
    BY <1>2, <2>3 DEF W!ReadBasket, W!Goto
  <2>5. RequestsTyped'
    BY <2>1, <2>4 DEF WarehouseInv, RequestsTyped, ReadersKnow
  <2> QED BY <2>5 DEF W!ReadBasket, RowsKept
<1> QED BY <1>1, <1>2

-----------------------------------------------------------------------------
\* A location p comes to lie in q, and be of type t, which fits: no group of
\* locations closes upon itself by it.
LEMMA FittingKeepsForest ==
  ASSUME WarehouseInv, W!Forest, NEW p \in Places, NEW q \in W!There \cup {None}, NEW t \in W!Types,
         type' = [type EXCEPT ![p] = t], parent' = [parent EXCEPT ![p] = q],
         \* nothing is put into p: either it had no children, or it may have them
         \A c \in Places : parent[c] = p => t # "basket" \/ type[p] = t,
         q = parent[p] \/ (q # p /\ (q = None \/ type[q] # "basket")),
         q = parent[p] \/ q = None \/ parent[q] = None \/ \A c \in Places : parent[c] # p
  PROVE  W!Forest'
<1>1. type \in [Places -> W!Types \cup {"none"}] /\ parent \in [Places -> Places \cup {None}]
  BY DEF WarehouseInv, PlacesTyped
<1>2. q \in Places \cup {None} /\ (q = None \/ q \in Places)
  BY DEF W!There
<1>3. /\ parent'[p] = q /\ type'[p] = t
      /\ \A x \in Places : x # p => parent'[x] = parent[x] /\ type'[x] = type[x]
  BY <1>1
<1>4. ASSUME NEW group \in (SUBSET Places) \ {{}}
      PROVE  \E x \in group : parent'[x] \notin group
  <2>0. None \notin group
    BY NoneAssumption
  <2>1. CASE p \notin group
    BY <1>3, <2>1 DEF W!Forest
  <2>2. CASE q = parent[p]
    BY <1>3, <2>2 DEF W!Forest
  <2>3. CASE p \in group /\ q # parent[p] /\ q \notin group
    BY <1>3, <2>3
  <2>4. CASE p \in group /\ q # parent[p] /\ q \in group /\ parent[q] = None
    BY <1>3, <2>0, <2>4
  <2>5. CASE p \in group /\ q # parent[p] /\ q \in group /\ \A c \in Places : parent[c] # p
    <3>1. group \ {p} \in (SUBSET Places) \ {{}}
      BY <2>0, <2>5
    <3>2. PICK x \in group \ {p} : parent[x] \notin group \ {p}
      BY <3>1 DEF W!Forest
    <3>3. parent'[x] = parent[x] /\ parent[x] # p
      BY <1>3, <2>5, <3>2
    <3> QED BY <3>2, <3>3
  <2> QED BY <2>0, <2>1, <2>2, <2>3, <2>4, <2>5
<1>5. ASSUME NEW x \in Places PROVE W!TypeOf(parent[x])' # "basket"
  <2>1. W!TypeOf(parent[x]) # "basket"
    BY DEF W!Forest
  <2>2. CASE x = p
    BY <1>1, <1>2, <1>3, <2>1, <2>2 DEF W!TypeOf
  <2>3. CASE x # p
    BY <1>1, <1>3, <2>1, <2>3 DEF W!TypeOf
  <2> QED BY <2>2, <2>3
<1> QED BY <1>4, <1>5 DEF W!Forest

\* A location that does not exist has nothing in it.
LEMMA CommitCreatePlaceStep ==
  ASSUME WarehouseInv, NEW r \in Two, W!CommitCreate(r)
  PROVE  /\ WarehouseInv' /\ W!MisfiledByMove
         /\ W!Forest /\ W!StillFits(r) => W!Forest'
<1>0. RequestsTyped'
  BY AnswerKnows DEF W!CommitCreate
<1>1. CASE UNCHANGED <<type, parent>>
  <2>1. RowsKept
    BY <1>1 DEF W!CommitCreate, RowsKept, W!rows
  <2> QED BY <1>0, <2>1, RowsKeptStep DEF RowsKept, W!rows, W!Forest, W!TypeOf
<1>2. CASE ~UNCHANGED <<type, parent>>
  <2>1. ask[r] \in CreateAsks
    BY DEF W!CommitCreate, WarehouseInv, RequestsTyped, ReadersKnow, UpdateAsks, RemoveAsks, AddressAsks
  <2>2. PICK p \in Places, q \in W!There \cup {None}, t \in W!Types :
          /\ p = ask[r].place /\ q = ask[r].parent /\ t = ask[r].type
          /\ p \notin W!There
          /\ type' = [type EXCEPT ![p] = t] /\ parent' = [parent EXCEPT ![p] = q]
    BY <1>2, <2>1 DEF W!CommitCreate, CreateAsks
  <2>3. \A c \in Places : parent[c] # p
    BY <2>2, NoneAssumption DEF WarehouseInv, ParentsExist
  <2>4. PlacesTyped' /\ UNCHANGED <<shelf, basket>>
    BY <2>2 DEF W!CommitCreate, WarehouseInv, PlacesTyped, W!There
  <2>5. ParentsExist'
    BY <2>2 DEF WarehouseInv, PlacesTyped, ParentsExist, W!There, W!Types
  <2>6. ASSUME NEW i \in Items, W!Filed(i), ~W!Filed(i)'
        PROVE  basket[i] # None /\ (type'[basket[i]] # type[basket[i]] \/ parent'[basket[i]] # parent[basket[i]])
    BY <2>4, <2>6 DEF W!Filed
  <2>7. ASSUME W!Forest, W!StillFits(r) PROVE W!Forest'
    <3>1. W!ParentFits(t, q, None)
      BY <2>2, <2>7 DEF W!StillFits, W!CommitCreate
    <3>2. q # p /\ (q = None \/ type[q] # "basket")
      BY <2>2, <3>1, NoneAssumption DEF W!ParentFits
    <3>3. type' = [type EXCEPT ![p] = t] /\ parent' = [parent EXCEPT ![p] = q]
      BY <2>2
    <3>4. /\ \A c \in Places : parent[c] = p => t # "basket" \/ type[p] = t
          /\ q = parent[p] \/ (q # p /\ (q = None \/ type[q] # "basket"))
          /\ q = parent[p] \/ q = None \/ parent[q] = None \/ \A c \in Places : parent[c] # p
      BY <2>3, <3>2
    <3> QED BY <2>7, <3>3, <3>4, FittingKeepsForest
  <2> QED BY <1>0, <2>4, <2>5, <2>6, <2>7 DEF WarehouseInv, W!MisfiledByMove
<1> QED BY <1>1, <1>2

LEMMA CommitUpdatePlaceStep ==
  ASSUME WarehouseInv, NEW r \in Two, W!CommitUpdate(r)
  PROVE  /\ WarehouseInv' /\ W!MisfiledByMove
         /\ W!Forest /\ W!StillFits(r) => W!Forest'
<1>0. RequestsTyped'
  BY AnswerKnows DEF W!CommitUpdate
<1>1. CASE UNCHANGED <<type, parent>>
  <2>1. RowsKept
    BY <1>1 DEF W!CommitUpdate, RowsKept, W!rows
  <2> QED BY <1>0, <2>1, RowsKeptStep DEF RowsKept, W!rows, W!Forest, W!TypeOf
<1>2. CASE ~UNCHANGED <<type, parent>>
  <2>1. ask[r] \in UpdateAsks /\ found[r] \in PlaceRow
    BY DEF W!CommitUpdate, WarehouseInv, RequestsTyped, ReadersKnow, CreateAsks, RemoveAsks, AddressAsks
  <2>2. PICK p \in Places, q \in W!There \cup {None}, t \in W!Types :
          /\ p = ask[r].place /\ q = W!NewParent(r) /\ t = W!NewType(r)
          /\ p \in W!There
          /\ type' = [type EXCEPT ![p] = t] /\ parent' = [parent EXCEPT ![p] = q]
    <3>1. ask[r].place \in Places /\ W!NewType(r) \in W!Types
      BY <2>1 DEF UpdateAsks, PlaceRow, W!NewType
    <3> QED BY <1>2, <3>1 DEF W!CommitUpdate
  <2>3. PlacesTyped' /\ UNCHANGED <<shelf, basket>>
    BY <2>2 DEF W!CommitUpdate, WarehouseInv, PlacesTyped, W!There
  <2>4. ParentsExist'
    BY <2>2 DEF WarehouseInv, PlacesTyped, ParentsExist, W!There, W!Types
  <2>5. ASSUME NEW i \in Items, W!Filed(i), ~W!Filed(i)'
        PROVE  basket[i] # None /\ (type'[basket[i]] # type[basket[i]] \/ parent'[basket[i]] # parent[basket[i]])
    BY <2>3, <2>5 DEF W!Filed
  <2>6. ASSUME W!Forest, W!StillFits(r) PROVE W!Forest'
    <3>1. /\ ask[r].parent = Same \/ W!ParentFits(t, ask[r].parent, p)
          /\ W!ChildrenFit(p, t, t # type[p] \/ q # parent[p])
          /\ ask[r].parent = Same => q = parent[p]
          /\ ask[r].parent # Same => q = ask[r].parent
      BY <2>2, <2>6 DEF W!StillFits, W!CommitUpdate, W!Moved, W!NewParent
    <3>2. \A c \in Places : parent[c] = p => t # "basket" \/ type[p] = t
      BY <3>1 DEF W!ChildrenFit
    <3>3. q = parent[p] \/ (q # p /\ (q = None \/ type[q] # "basket"))
      BY <2>2, <3>1, NoneAssumption DEF W!ParentFits
    <3>4. q = parent[p] \/ q = None \/ parent[q] = None \/ \A c \in Places : parent[c] # p
      BY <3>1 DEF W!ParentFits, W!ChildrenFit
    <3>5. type' = [type EXCEPT ![p] = t] /\ parent' = [parent EXCEPT ![p] = q]
      BY <2>2
    <3> QED BY <2>6, <3>2, <3>3, <3>4, <3>5, FittingKeepsForest
  <2> QED BY <1>0, <2>3, <2>4, <2>5, <2>6 DEF WarehouseInv, W!MisfiledByMove
<1> QED BY <1>1, <1>2

\* ON DELETE SET NULL: what lay in the location lies in nothing, and the lines of
\* a basket that is gone have none.
LEMMA CommitRemovePlaceStep ==
  ASSUME WarehouseInv, NEW r \in Two, W!CommitRemove(r)
  PROVE  WarehouseInv' /\ W!MisfiledByMove /\ (W!Forest => W!Forest')
<1>0. RequestsTyped'
  BY AnswerKnows DEF W!CommitRemove
<1>1. PICK p \in Places : p = ask[r].place
  <2>1. ask[r] \in RemoveAsks
    BY DEF W!CommitRemove, WarehouseInv, RequestsTyped, ReadersKnow, CreateAsks, UpdateAsks, AddressAsks
  <2> QED BY <2>1 DEF RemoveAsks
<1>2. /\ type' = [type EXCEPT ![p] = "none"]
      /\ shelf' = [i \in Items |-> IF shelf[i] = p THEN None ELSE shelf[i]]
      /\ basket' = [i \in Items |-> IF basket[i] = p THEN None ELSE basket[i]]
      /\ parent' = [x \in Places |-> IF x = p \/ parent[x] = p THEN None ELSE parent[x]]
  BY <1>1 DEF W!CommitRemove, WarehouseInv, PlacesTyped
<1>3. PlacesTyped'
  BY <1>2 DEF WarehouseInv, PlacesTyped
<1>4. ParentsExist'
  BY <1>2 DEF WarehouseInv, PlacesTyped, ParentsExist, W!There
<1>5. ASSUME NEW i \in Items, W!Filed(i) PROVE W!Filed(i)'
  BY <1>2, <1>5 DEF WarehouseInv, PlacesTyped, W!Filed
<1>6. ASSUME W!Forest PROVE W!Forest'
  <2>1. ASSUME NEW group \in (SUBSET Places) \ {{}}
        PROVE  \E x \in group : parent'[x] \notin group
    <3>1. PICK x \in group : parent[x] \notin group
      BY <1>6 DEF W!Forest
    <3> QED BY <1>2, <3>1, NoneAssumption
  <2>2. ASSUME NEW x \in Places PROVE W!TypeOf(parent[x])' # "basket"
    <3>1. W!TypeOf(parent[x]) # "basket"
      BY <1>6 DEF W!Forest
    <3> QED BY <1>2, <3>1 DEF W!TypeOf, WarehouseInv, PlacesTyped
  <2> QED BY <2>1, <2>2 DEF W!Forest
<1> QED BY <1>0, <1>3, <1>4, <1>5, <1>6 DEF WarehouseInv, W!MisfiledByMove

\* An address that resolvePlacement would leave as it is files its line.
LEMMA CommitAddressStep ==
  ASSUME WarehouseInv, NEW r \in Two, W!CommitAddress(r)
  PROVE  WarehouseInv' /\ W!MisfiledByMove /\ (W!Forest => W!Forest')
<1>0. RequestsTyped'
  BY AnswerKnows DEF W!CommitAddress
<1>1. CASE UNCHANGED <<shelf, basket>>
  <2>1. RowsKept
    BY <1>1 DEF W!CommitAddress, RowsKept, W!rows
  <2> QED BY <1>0, <2>1, RowsKeptStep DEF RowsKept, W!rows, W!Forest, W!TypeOf
<1>2. CASE ~UNCHANGED <<shelf, basket>>
  <2>1. ask[r] \in AddressAsks /\ found[r] \in W!Address
    BY DEF W!CommitAddress, WarehouseInv, RequestsTyped, ReadersKnow, CreateAsks, UpdateAsks, RemoveAsks
  <2>2. PICK j \in Items, s \in Places \cup {None}, b \in Places \cup {None} :
          j = ask[r].item /\ found[r] = [shelf |-> s, basket |-> b]
    BY <2>1 DEF AddressAsks, W!Address
  <2>3. /\ shelf' = [shelf EXCEPT ![j] = s] /\ basket' = [basket EXCEPT ![j] = b]
        /\ UNCHANGED <<type, parent>>
    BY <1>2, <2>2 DEF W!CommitAddress
  <2>4. PlacesTyped' /\ ParentsExist' /\ (W!Forest => W!Forest')
    BY <2>3 DEF WarehouseInv, PlacesTyped, ParentsExist, W!There, W!Forest, W!TypeOf
  <2>5. ASSUME NEW i \in Items, W!Filed(i), ~W!Filed(i)'
        PROVE  W!CommitAddress(r) /\ ask[r].item = i /\ ~W!Resolved(found[r])
    <3>1. i = j
      BY <2>3, <2>5 DEF W!Filed, WarehouseInv, PlacesTyped
    <3>2. shelf'[j] = s /\ basket'[j] = b
      BY <2>3 DEF WarehouseInv, PlacesTyped
    <3>3. b # None /\ ~(type[b] = "basket" /\ parent[b] \in {None, s})
      BY <2>3, <2>5, <3>1, <3>2 DEF W!Filed
    <3>4. ~W!Resolved(found[r])
      <4> SUFFICES ASSUME W!Resolved(found[r]) PROVE FALSE
        OBVIOUS
      <4>1. type[b] = "basket" /\ (parent[b] # None => [[shelf |-> s, basket |-> b] EXCEPT !.shelf = parent[b]] = [shelf |-> s, basket |-> b])
        BY <2>2, <3>3 DEF W!Resolved, W!BasketFits, W!FiledWithBasket
      <4>2. parent[b] # None => parent[b] = s
        BY <4>1
      <4> QED BY <3>3, <4>1, <4>2
    <3> QED BY <2>2, <3>1, <3>4
  <2> QED BY <1>0, <2>4, <2>5 DEF WarehouseInv, W!MisfiledByMove
<1> QED BY <1>1, <1>2

LEMMA WarehouseStep ==
  ASSUME WarehouseInv, [W!Next]_(W!vars)
  PROVE  WarehouseInv' /\ [W!BrokenOnlyByOverlap]_(W!vars) /\ [W!MisfiledByMove]_(W!vars)
<1>1. CASE UNCHANGED W!vars
  BY <1>1 DEF W!vars, WarehouseInv, PlacesTyped, ParentsExist, W!There, RequestsTyped, ReadersKnow
<1>2. ASSUME NEW r \in Two,
             \/ \E a \in W!Asks : W!BeginCreate(r, a) \/ W!BeginChange(r, a) \/ W!BeginAddress(r, a)
             \/ W!ReadParent(r) \/ W!ReadChildren(r) \/ W!ReadBasket(r)
      PROVE  WarehouseInv' /\ W!BrokenOnlyByOverlap /\ W!MisfiledByMove
  <2>1. RequestsTyped' /\ RowsKept
    BY <1>2, BeginCreateStep, BeginChangeStep, BeginAddressStep, ReadPlaceStep, ReadBasketStep
  <2> QED BY <2>1, RowsKeptStep
<1>3. ASSUME NEW r \in Two, W!CommitCreate(r) \/ W!CommitUpdate(r)
      PROVE  WarehouseInv' /\ W!BrokenOnlyByOverlap /\ W!MisfiledByMove
  <2>1. WarehouseInv' /\ W!MisfiledByMove /\ (W!Forest /\ W!StillFits(r) => W!Forest')
    BY <1>3, CommitCreatePlaceStep, CommitUpdatePlaceStep
  <2> QED BY <1>3, <2>1 DEF W!BrokenOnlyByOverlap
<1>4. ASSUME NEW r \in Two, W!CommitRemove(r) \/ W!CommitAddress(r)
      PROVE  WarehouseInv' /\ W!BrokenOnlyByOverlap /\ W!MisfiledByMove
  <2>1. WarehouseInv' /\ W!MisfiledByMove /\ (W!Forest => W!Forest')
    BY <1>4, CommitRemovePlaceStep, CommitAddressStep
  <2> QED BY <2>1 DEF W!BrokenOnlyByOverlap
<1> QED BY <1>1, <1>2, <1>3, <1>4 DEF W!Next

LEMMA WarehouseSteps ==
  ASSUME [Next]_vars, part' = "warehouse"
  PROVE  part = "warehouse" /\ [W!Next]_(W!vars)
<1>1. CASE UNCHANGED vars
  BY <1>1 DEF vars, warehouse, W!vars
<1>2. CASE Next
  BY <1>2 DEF Next, Stay
<1> QED BY <1>1, <1>2

\* However the requests that build, move and remove locations interleave, none
\* comes to lie in itself, at any depth, or in a basket, but by a commit whose
\* checks no longer hold.
THEOREM TreesBreakByOverlap == Spec => TreeBrokenOnlyByOverlap
<1> DEFINE Inv == part = "warehouse" => WarehouseInv
<1>1. Init => Inv
  BY InitWarehouseInv DEF Init, Alone
<1>2. Inv /\ [Next]_vars => Inv' /\ [part = "warehouse" => W!BrokenOnlyByOverlap]_vars
  <2>1. [Next]_vars => part' = part
    BY DEF Next, Stay, vars
  <2>2. UNCHANGED W!vars => W!BrokenOnlyByOverlap
    BY DEF W!BrokenOnlyByOverlap, W!Forest, W!TypeOf, W!vars
  <2> QED BY <2>1, <2>2, WarehouseSteps, WarehouseStep
<1> QED BY <1>1, <1>2, PTL DEF Spec, TreeBrokenOnlyByOverlap

\* A line is parted from its basket's shelf only by a move of the basket, or by an
\* edit whose address resolvePlacement would no longer return.
THEOREM EditsFileLines == Spec => MisfiledOnlyByMove
<1> DEFINE Inv == part = "warehouse" => WarehouseInv
<1>1. Init => Inv
  BY InitWarehouseInv DEF Init, Alone
<1>2. Inv /\ [Next]_vars => Inv' /\ [part = "warehouse" => W!MisfiledByMove]_vars
  <2>1. [Next]_vars => part' = part
    BY DEF Next, Stay, vars
  <2>2. UNCHANGED W!vars => W!MisfiledByMove
    BY DEF W!MisfiledByMove, W!Filed, W!vars
  <2> QED BY <2>1, <2>2, WarehouseSteps, WarehouseStep
<1> QED BY <1>1, <1>2, PTL DEF Spec, MisfiledOnlyByMove

\* The same of the warehouse by itself, and that every variable keeps its type.
THEOREM WarehouseAlone == W!Spec => []W!TypeOK /\ W!TreeBrokenOnlyByOverlap /\ W!MisfiledOnlyByMove
BY InitWarehouseInv, WarehouseStep, WarehouseTyped, PTL DEF W!Spec, W!TreeBrokenOnlyByOverlap, W!MisfiledOnlyByMove

-----------------------------------------------------------------------------
\* A handler that looked at its product before its transaction.
Looked(r) == ask[r].do \in {"update", "delete", "restore", "image", "unpicture", "add"}

\* What a handler asks for at its steps.
AsksAsItMay ==
  \A r \in Two :
    /\ pc[r] \in {"mint", "insert"} => ask[r] \in C!Asks /\ ask[r].do = "create"
    /\ pc[r] = "commit" => ask[r] \in C!Asks /\ ask[r].do # "create"
    /\ pc[r] = "deactivated" => ask[r] \in C!Asks /\ ask[r].do = "delete"

\* What a request has seen of its product: it is there; if it was to be live, it
\* still is unless a deletion has overtaken the request.
LookersKnow ==
  \A r \in Two : pc[r] \in {"commit", "deactivated"} /\ Looked(r) =>
    /\ product[ask[r].product] # "none"
    /\ pc[r] = "commit" /\ ask[r].do \notin {"restore", "unpicture"} /\ r \notin overtaken =>
         product[ask[r].product] = "live"

\* The lines a deletion has deactivated are all its product has, unless a new one
\* has overtaken it.
DeletersKnow ==
  \A r \in Two : pc[r] = "deactivated" /\ r \notin overtaken => doomed[r] = C!LinesOf(ask[r].product)

\* The row lock of the counter: one open creation has drawn a code, and no product
\* has that code unless a restoration has overtaken it or the codes are not padded.
OneDraws ==
  /\ \A r \in Two : (minted[r] # 0) <=> (pc[r] = "insert")
  /\ \A r, o \in Two : minted[r] # 0 /\ minted[o] # 0 => r = o
  /\ \A r \in Two : pc[r] = "insert" /\ r \notin overtaken /\ C!Padded => minted[r] \notin C!Used

CatalogueTyped == C!TypeOK /\ DOMAIN ask = Two /\ AsksAsItMay

CatalogueInv ==
  CatalogueTyped /\ LookersKnow /\ DeletersKnow /\ OneDraws /\ C!NoCodeCollision

LEMMA InitCatalogueInv == C!Init => CatalogueInv
<1> SUFFICES ASSUME C!Init PROVE CatalogueInv
  OBVIOUS
<1>1. C!TypeOK
  <2>1. code \in [Products -> Nat \cup Odd] /\ counter \in Nat
    BY CodesAssumption DEF C!Init
  <2>2. line \in [Lines -> [of : Products \cup {None}, brand : Brands \cup {None}, active : BOOLEAN]]
    <3>1. ASSUME NEW i \in Lines
          PROVE  line[i] \in [of : Products \cup {None}, brand : Brands \cup {None}, active : BOOLEAN]
      <4>1. line[i] \in [of : C!Existing, brand : {None}, active : {TRUE}] \cup {C!NoLine}
        BY DEF C!Init
      <4>2. CASE line[i] = C!NoLine
        BY <4>2 DEF C!NoLine
      <4>3. CASE line[i] \in [of : C!Existing, brand : {None}, active : {TRUE}]
        <5>1. C!Existing \subseteq Products
          BY DEF C!Existing
        <5> QED BY <4>3, <5>1
      <4> QED BY <4>1, <4>2, <4>3
    <3>2. \E R : line \in [Lines -> R]
      BY DEF C!Init
    <3> QED BY <3>1, <3>2
  <2>3. told \in [Products \cup Lines -> {"none", "there", "gone"}]
    BY DEF C!Init
  <2> QED BY <2>1, <2>2, <2>3 DEF C!Init, C!TypeOK
<1>2. DOMAIN ask = Two /\ AsksAsItMay /\ LookersKnow /\ DeletersKnow /\ OneDraws /\ C!NoCodeCollision
  BY DEF C!Init, AsksAsItMay, LookersKnow, DeletersKnow, OneDraws, C!NoCodeCollision
<1> QED BY <1>1, <1>2 DEF CatalogueInv, CatalogueTyped

LEMMA CatalogueAsksByKind ==
  ASSUME NEW a \in C!Asks
  PROVE  /\ a.do = "create" => a.brands \subseteq Brands \cup {None}
         /\ a.do \in {"update", "delete", "restore", "image", "unpicture", "add"} => a.product \in Products
         /\ a.do = "add" => a.brand \in Brands \cup {None}
         /\ a.do \in {"remove", "edit"} => a.line \in Lines
         /\ a.do = "edit" => a.active \in BOOLEAN
         /\ a.do \in {"create", "update", "delete", "restore", "image", "unpicture", "add", "remove", "edit"}
BY DEF C!Asks

LEMMA UsedIsFinite == IsFiniteSet(C!Used)
<1>1. IsFiniteSet(C!Existing)
  BY RowsAssumption, FS_Subset DEF C!Existing
<1> DEFINE f == [p \in C!Existing |-> code[p]]
<1>2. IsFiniteSet({f[p] : p \in C!Existing})
  BY <1>1, FinitelyManyValues
<1>3. {f[p] : p \in C!Existing} = C!Used
  BY DEF C!Used
<1> QED BY <1>2, <1>3

\* The order of the codes as texts is that of their first five digits, then of
\* their numbers: one of them is last.
LEMMA LastIsANumber ==
  ASSUME CatalogueTyped, C!Used # {}
  PROVE  C!LastUsed \in Nat
<1>1. CASE C!Used \cap Odd # {}
  BY <1>1 DEF C!LastUsed
<1>2. CASE C!Used \cap Odd = {}
  <2>1. C!Used \in SUBSET Nat
    BY <1>2 DEF C!Used, C!Existing, CatalogueTyped, C!TypeOK
  <2>2. \A n \in Nat : C!Front(n) \in Nat
    BY CodesAssumption DEF C!Front
  <2> DEFINE front == [c \in C!Used |-> C!Front(c)]
  <2>3. front \in [C!Used -> Nat]
    BY <2>1, <2>2
  <2>4. PICK a \in C!Used : \A c \in C!Used : front[c] <= front[a]
    <3> HIDE DEF front
    <3> QED BY <2>3, UsedIsFinite, HighestOfFinitelyMany
  <2> DEFINE Alike == {c \in C!Used : C!Front(c) = C!Front(a)}
  <2>5. Alike \in SUBSET Nat /\ IsFiniteSet(Alike) /\ Alike # {}
    BY <2>1, UsedIsFinite, FS_Subset
  <2>6. PICK m \in Alike : \A c \in Alike : c <= m
    <3> HIDE DEF Alike
    <3> QED BY <2>5, FiniteHasMax
  <2>7. ASSUME NEW c \in C!Used \ {m} PROVE C!SortsBefore(c, m)
    <3>1. C!Front(c) \in Nat /\ C!Front(m) = C!Front(a) /\ C!Front(a) \in Nat /\ c \in Nat /\ m \in Nat
      BY <2>1, <2>2
    <3>2. C!Front(c) <= C!Front(a) /\ (C!Front(c) = C!Front(a) => c <= m)
      BY <2>4, <2>6
    <3> QED BY <3>1, <3>2 DEF C!SortsBefore
  <2>8. \E c \in C!Used : \A d \in C!Used \ {c} : C!SortsBefore(d, c)
    BY <2>6, <2>7
  <2>9. C!LastUsed \in C!Used
    BY <1>2, <2>8 DEF C!LastUsed
  <2> QED BY <2>1, <2>9
<1> QED BY <1>1, <1>2

\* Among numbers of five digits the last is the highest.
LEMMA LastIsHighest ==
  ASSUME CatalogueTyped, C!Used # {}, C!Padded
  PROVE  \A c \in C!Used : c <= C!LastUsed
<1>1. C!Used \in SUBSET Nat /\ C!Used \cap Odd = {} /\ \A c \in C!Used : C!Front(c) = c
  <2>1. \A c \in C!Used : c \in Nat /\ c < Wide
    BY CodesAssumption DEF C!Padded
  <2>2. C!Used \cap Odd = {}
    BY <2>1, CodesAssumption
  <2> QED BY <2>1, <2>2 DEF C!Front
<1>2. PICK m \in C!Used : \A c \in C!Used : c <= m
  BY <1>1, UsedIsFinite, FiniteHasMax
<1>3. \A c \in C!Used, d \in C!Used : C!SortsBefore(c, d) => c < d
  BY <1>1 DEF C!SortsBefore
<1>4. \A c \in C!Used \ {m} : C!SortsBefore(c, m)
  BY <1>1, <1>2 DEF C!SortsBefore
<1>5. C!LastUsed \in C!Used /\ \A d \in C!Used \ {C!LastUsed} : C!SortsBefore(d, C!LastUsed)
  BY <1>1, <1>4 DEF C!LastUsed
<1> QED BY <1>1, <1>3, <1>5

\* A counter that lags behind the codes in use is brought past the last of them.
LEMMA NextCodeIsFree ==
  ASSUME CatalogueTyped, NEW c \in Nat
  PROVE  C!NextCode(c) \in Nat /\ C!NextCode(c) >= c /\ (C!Padded => C!NextCode(c) \notin C!Used)
<1>1. CASE c \notin C!Used
  BY <1>1 DEF C!NextCode
<1>2. CASE c \in C!Used
  <2>1. PICK h \in Nat : h = C!LastUsed
    BY <1>2, LastIsANumber
  <2>2. C!Max({h + 1, c + 1}) \in {h + 1, c + 1} /\ \A y \in {h + 1, c + 1} : C!Max({h + 1, c + 1}) >= y
    <3>1. \E x \in {h + 1, c + 1} : \A y \in {h + 1, c + 1} : x >= y
      BY <2>1
    <3> QED BY <3>1 DEF C!Max
  <2>3. C!NextCode(c) = C!Max({h + 1, c + 1})
    BY <1>2, <2>1 DEF C!NextCode
  <2>4. C!Padded => \A d \in C!Used : d \in Nat /\ d <= h
    BY <1>2, <2>1, LastIsHighest DEF C!Padded
  <2> QED BY <2>1, <2>2, <2>3, <2>4
<1> QED BY <1>1, <1>2

\* A product keeps its code: codes once not padded stay so.
LEMMA CodesStayUsed ==
  ASSUME \A q \in Products : product[q] # "none" => product'[q] # "none" /\ code'[q] = code[q]
  PROVE  C!Padded' => C!Padded
BY DEF C!Padded, C!Used, C!Existing

\* The requests that change no row.
LEMMA RowsStay ==
  ASSUME UNCHANGED C!rows
  PROVE  /\ C!Existing' = C!Existing /\ C!Used' = C!Used /\ C!Padded' = C!Padded
         /\ \A p \in Products : C!LinesOf(p)' = C!LinesOf(p)
         /\ C!ReturnsInFourWays
BY DEF C!rows, C!Existing, C!Used, C!Padded, C!LinesOf, C!Gone, C!ReturnsInFourWays

LEMMA BeginStep ==
  ASSUME CatalogueInv, NEW r \in Two, NEW a \in C!Asks,
         C!Begin(r, a) \/ C!BeginLine(r, a) \/ C!BeginCreate(r, a)
  PROVE  CatalogueInv' /\ C!ReturnsInFourWays
<1>1. /\ pc[r] = "idle" /\ ask' = [ask EXCEPT ![r] = a]
      /\ UNCHANGED C!rows /\ UNCHANGED <<minted, doomed, overtaken>>
      /\ \/ a.do # "create" /\ pc' = [pc EXCEPT ![r] = "commit"]
         \/ a.do = "create" /\ pc' = [pc EXCEPT ![r] = "mint"]
         \/ pc' = [pc EXCEPT ![r] = "refused"] \/ pc' = [pc EXCEPT ![r] = "done"]
      /\ pc'[r] = "commit" /\ a.do \in {"update", "delete", "restore", "image", "unpicture", "add"} =>
           product[a.product] # "none" /\ (product[a.product] = "live" \/ a.do \in {"restore", "unpicture"})
  BY DEF C!Begin, C!BeginLine, C!BeginCreate, C!Take, C!Goto, CatalogueInv, CatalogueTyped, C!TypeOK
<1>2. UNCHANGED <<product, code, counter, line, told, recorded>>
  BY <1>1 DEF C!rows
<1>3. CatalogueTyped'
  BY <1>1, <1>2 DEF CatalogueInv, CatalogueTyped, C!TypeOK, AsksAsItMay
<1>4. LookersKnow'
  BY <1>1, <1>2 DEF CatalogueInv, CatalogueTyped, C!TypeOK, LookersKnow, Looked
<1>5. DeletersKnow'
  BY <1>1, <1>2 DEF CatalogueInv, CatalogueTyped, C!TypeOK, DeletersKnow, C!LinesOf
<1>6. OneDraws' /\ C!NoCodeCollision'
  BY <1>1, RowsStay DEF CatalogueInv, CatalogueTyped, C!TypeOK, OneDraws, C!NoCodeCollision
<1> QED BY <1>1, <1>3, <1>4, <1>5, <1>6, RowsStay DEF CatalogueInv

LEMMA MintStep ==
  ASSUME CatalogueInv, NEW r \in Two, C!Mint(r)
  PROVE  CatalogueInv' /\ C!ReturnsInFourWays
<1>1. PICK c \in Nat : c = C!NextCode(counter + 1) /\ c # 0 /\ (C!Padded => c \notin C!Used)
  BY NextCodeIsFree DEF CatalogueInv, CatalogueTyped, C!TypeOK
<1>2. /\ pc[r] = "mint" /\ \A o \in Two : minted[o] = 0
      /\ minted' = [minted EXCEPT ![r] = c] /\ pc' = [pc EXCEPT ![r] = "insert"]
      /\ UNCHANGED C!rows /\ UNCHANGED <<ask, doomed, overtaken>>
  BY <1>1 DEF C!Mint, C!CounterFree, C!Goto
<1>3. UNCHANGED <<product, code, counter, line, told, recorded>>
  BY <1>2 DEF C!rows
<1>4. CatalogueTyped'
  BY <1>2, <1>3 DEF CatalogueInv, CatalogueTyped, C!TypeOK, AsksAsItMay
<1>5. LookersKnow' /\ DeletersKnow'
  BY <1>2, <1>3 DEF CatalogueInv, CatalogueTyped, C!TypeOK, LookersKnow, Looked, DeletersKnow, C!LinesOf
<1>6. OneDraws' /\ C!NoCodeCollision'
  BY <1>1, <1>2, RowsStay DEF CatalogueInv, CatalogueTyped, C!TypeOK, OneDraws, C!NoCodeCollision
<1> QED BY <1>2, <1>4, <1>5, <1>6, RowsStay DEF CatalogueInv

\* A request is answered: what remains is known of fewer.
LEMMA AnswerStep ==
  ASSUME CatalogueInv, NEW r \in Two, NEW p \in {"done", "refused", "collided"}, C!Answer(r, p)
  PROVE  /\ DOMAIN ask' = Two /\ AsksAsItMay'
         /\ pc' = [pc EXCEPT ![r] = p] /\ minted' = [minted EXCEPT ![r] = 0]
         /\ pc' \in [Two -> {"idle", "mint", "insert", "commit", "deactivated", "done", "refused", "collided"}]
         /\ minted' \in [Two -> Nat] /\ doomed' \in [Two -> SUBSET Lines]
         /\ \A o \in Two : ask'[o] \in C!Asks \cup {None}
         /\ \A o \in Two \ {r} : UNCHANGED <<ask[o], pc[o], minted[o], doomed[o]>>
BY DEF C!Answer, C!Goto, CatalogueInv, CatalogueTyped, C!TypeOK, AsksAsItMay

\* An answer keeps what the other requests know when the rows they know of stay.
LEMMA AnswerKeeps ==
  ASSUME CatalogueInv, NEW r \in Two, NEW p \in {"done", "refused"}, C!Answer(r, p),
         UNCHANGED <<product, code, overtaken>>, \A q \in Products : C!LinesOf(q)' = C!LinesOf(q)
  PROVE  LookersKnow' /\ DeletersKnow' /\ OneDraws' /\ C!NoCodeCollision'
<1>1. /\ pc' = [pc EXCEPT ![r] = p] /\ minted' = [minted EXCEPT ![r] = 0]
      /\ \A o \in Two \ {r} : UNCHANGED <<ask[o], pc[o], minted[o], doomed[o]>>
  BY AnswerStep
<1>2. pc'[r] = p /\ minted'[r] = 0
  BY <1>1 DEF CatalogueInv, CatalogueTyped, C!TypeOK
<1>3. LookersKnow'
  BY <1>1, <1>2 DEF CatalogueInv, LookersKnow, Looked
<1>4. DeletersKnow'
  <2>1. \A o \in Two : pc[o] = "deactivated" => ask[o].product \in Products
    BY CatalogueAsksByKind DEF CatalogueInv, CatalogueTyped, AsksAsItMay
  <2> QED BY <1>1, <1>2, <2>1 DEF CatalogueInv, DeletersKnow
<1>5. OneDraws' /\ C!NoCodeCollision'
  <2>1. C!Used' = C!Used /\ C!Padded' = C!Padded
    BY DEF C!Used, C!Existing, C!Padded
  <2> QED BY <1>1, <1>2, <2>1 DEF CatalogueInv, OneDraws, C!NoCodeCollision
<1> QED BY <1>3, <1>4, <1>5

LEMMA RefusalStep ==
  ASSUME CatalogueInv, NEW r \in Two, C!OperationTaken(r) \/ C!BrandTaken(r)
  PROVE  CatalogueInv' /\ C!ReturnsInFourWays
<1>1. C!Answer(r, "refused") /\ UNCHANGED C!rows /\ UNCHANGED overtaken
  BY DEF C!OperationTaken, C!BrandTaken
<1>2. CatalogueTyped'
  BY <1>1, AnswerStep DEF C!rows, CatalogueInv, CatalogueTyped, C!TypeOK
<1>3. LookersKnow' /\ DeletersKnow' /\ OneDraws' /\ C!NoCodeCollision'
  BY <1>1, RowsStay, AnswerKeeps DEF C!rows
<1> QED BY <1>1, <1>2, <1>3, RowsStay DEF CatalogueInv

\* The code it has drawn is in use: a restoration has overtaken it, or the codes
\* are not all of five digits.
LEMMA CodeTakenStep ==
  ASSUME CatalogueInv, NEW r \in Two, C!CodeTaken(r)
  PROVE  CatalogueInv' /\ C!ReturnsInFourWays
<1>1. /\ C!Answer(r, "collided") /\ UNCHANGED C!rows /\ UNCHANGED overtaken
      /\ r \in overtaken \/ ~C!Padded
  BY DEF C!CodeTaken, CatalogueInv, OneDraws
<1>2. UNCHANGED <<product, code, counter, line, told, recorded>>
  BY <1>1 DEF C!rows
<1>3. /\ pc' = [pc EXCEPT ![r] = "collided"] /\ minted' = [minted EXCEPT ![r] = 0]
      /\ pc'[r] = "collided" /\ minted'[r] = 0
      /\ \A o \in Two \ {r} : UNCHANGED <<ask[o], pc[o], minted[o], doomed[o]>>
  BY <1>1, AnswerStep DEF CatalogueInv, CatalogueTyped, C!TypeOK
<1>4. CatalogueTyped'
  BY <1>1, <1>2, AnswerStep DEF CatalogueInv, CatalogueTyped, C!TypeOK
<1>5. LookersKnow' /\ DeletersKnow'
  BY <1>1, <1>2, <1>3 DEF CatalogueInv, LookersKnow, Looked, DeletersKnow, C!LinesOf
<1>6. OneDraws' /\ C!NoCodeCollision'
  BY <1>1, <1>3, RowsStay DEF CatalogueInv, OneDraws, C!NoCodeCollision
<1> QED BY <1>1, <1>4, <1>5, <1>6, RowsStay DEF CatalogueInv

\* What a step may do to a product without bringing it back.
LEMMA GoneKept ==
  ASSUME NEW p \in Products, C!Gone(p), product'[p] = "deleted" => product[p] = "deleted",
         told'[p] \in {told[p], "gone"}, C!LinesOf(p)' \subseteq C!LinesOf(p),
         \A i \in C!LinesOf(p)' : (line'[i].active => line[i].active) /\ told'[i] \in {told[i], "gone"}
  PROVE  C!Gone(p)'
BY DEF C!Gone

\* A free line is no product's.
LEMMA FreeLines ==
  ASSUME NEW p \in Products, NEW i \in Lines, line[i] = C!NoLine
  PROVE  i \notin C!LinesOf(p)
BY RowsAssumption DEF C!LinesOf, C!NoLine

LEMMA CommitCreateStep ==
  ASSUME CatalogueInv, NEW r \in Two, NEW p \in Products, NEW new \in SUBSET Lines, C!CommitCreate(r, p, new)
  PROVE  CatalogueInv' /\ C!ReturnsInFourWays
<1>1. PICK c \in Nat, f \in [new -> Brands \cup {None}] :
        /\ c = minted[r] /\ c # 0 /\ pc[r] = "insert" /\ product[p] = "none"
        /\ product' = [product EXCEPT ![p] = "live"] /\ code' = [code EXCEPT ![p] = c] /\ counter' = c
        /\ line' = [i \in Lines |-> IF i \in new THEN [of |-> p, brand |-> f[i], active |-> TRUE] ELSE line[i]]
        /\ told' = [x \in Products \cup Lines |-> IF x = p \/ x \in new THEN "there" ELSE told[x]]
        /\ recorded' \subseteq {"product"}
        /\ \A i \in new : line[i] = C!NoLine
  <2>1. ask[r].brands \subseteq Brands \cup {None}
    BY CatalogueAsksByKind DEF C!CommitCreate, CatalogueInv, CatalogueTyped, AsksAsItMay
  <2>2. minted[r] \in Nat /\ minted[r] # 0
    BY DEF C!CommitCreate, CatalogueInv, CatalogueTyped, C!TypeOK, OneDraws
  <2>3. PICK brands \in SUBSET (Brands \cup {None}) : brands = IF ask[r].brands = {} THEN {None} ELSE ask[r].brands
    BY <2>1
  <2>4. PICK f \in [new -> brands] :
          line' = [i \in Lines |-> IF i \in new THEN [of |-> p, brand |-> f[i], active |-> TRUE] ELSE line[i]]
    BY <2>3 DEF C!CommitCreate
  <2>5. /\ DOMAIN told = Products \cup Lines
        /\ recorded' \subseteq {"product"}
    BY DEF C!CommitCreate, CatalogueInv, CatalogueTyped, C!TypeOK
  <2>6. f \in [new -> Brands \cup {None}]
    BY <2>4
  <2> QED BY <2>2, <2>4, <2>5, <2>6 DEF C!CommitCreate
<1>2. C!Answer(r, "done") /\ UNCHANGED overtaken
  BY DEF C!CommitCreate
<1>3. /\ pc'[r] = "done" /\ minted'[r] = 0
      /\ \A o \in Two \ {r} : UNCHANGED <<ask[o], pc[o], minted[o], doomed[o]>>
  BY <1>2, AnswerStep DEF CatalogueInv, CatalogueTyped, C!TypeOK
<1>4. CatalogueTyped'
  <2>1. line' \in [Lines -> [of : Products \cup {None}, brand : Brands \cup {None}, active : BOOLEAN]]
    BY <1>1 DEF CatalogueInv, CatalogueTyped, C!TypeOK
  <2>2. told' \in [Products \cup Lines -> {"none", "there", "gone"}]
    BY <1>1 DEF CatalogueInv, CatalogueTyped, C!TypeOK
  <2>3. product' \in [Products -> {"none", "live", "deleted"}] /\ code' \in [Products -> Nat \cup Odd] /\ counter' \in Nat
    BY <1>1 DEF CatalogueInv, CatalogueTyped, C!TypeOK
  <2> QED BY <1>1, <1>2, <2>1, <2>2, <2>3, AnswerStep DEF CatalogueInv, CatalogueTyped, C!TypeOK
<1>5. ASSUME NEW q \in Products, q # p PROVE C!LinesOf(q)' = C!LinesOf(q)
  BY <1>1, <1>5, FreeLines DEF C!LinesOf
<1>6. \A o \in Two : pc[o] \in {"commit", "deactivated"} /\ Looked(o) =>
        ask[o].product \in Products /\ ask[o].product # p
  BY <1>1, CatalogueAsksByKind DEF CatalogueInv, CatalogueTyped, AsksAsItMay, LookersKnow, Looked
<1>7. LookersKnow'
  BY <1>1, <1>2, <1>3, <1>6 DEF CatalogueInv, CatalogueTyped, C!TypeOK, LookersKnow, Looked
<1>8. DeletersKnow'
  <2>1. \A o \in Two : pc[o] = "deactivated" => Looked(o)
    BY DEF CatalogueInv, CatalogueTyped, AsksAsItMay, Looked
  <2> QED BY <1>2, <1>3, <1>5, <1>6, <2>1 DEF CatalogueInv, DeletersKnow
<1>9. OneDraws' /\ C!NoCodeCollision'
  <2>1. \A o \in Two \ {r} : minted[o] = 0 /\ pc[o] # "insert"
    BY <1>1 DEF CatalogueInv, OneDraws
  <2>2. \A o \in Two : minted'[o] = 0 /\ pc'[o] # "insert"
    BY <1>3, <2>1
  <2>3. OneDraws'
    BY <2>2 DEF OneDraws
  <2>4. C!Padded' => C!Padded
    BY <1>1, CodesStayUsed DEF CatalogueInv, CatalogueTyped, C!TypeOK
  <2>5. C!NoCodeCollision'
    BY <1>2, <1>3, <2>4 DEF CatalogueInv, C!NoCodeCollision
  <2> QED BY <2>3, <2>5
<1>10. ASSUME NEW q \in Products, C!Gone(q) PROVE C!Gone(q)'
  <2>1. CASE q = p
    BY <1>1, <2>1 DEF C!Gone, CatalogueInv, CatalogueTyped, C!TypeOK
  <2>2. CASE q # p
    <3>1. product'[q] = product[q] /\ told'[q] = told[q]
      BY <1>1, <2>2, RowsAssumption DEF CatalogueInv, CatalogueTyped, C!TypeOK
    <3>2. C!LinesOf(q)' = C!LinesOf(q)
      BY <1>5, <2>2
    <3>3. ASSUME NEW i \in C!LinesOf(q) PROVE line'[i] = line[i] /\ told'[i] = told[i]
      <4>1. i \in Lines /\ i \notin new /\ i # p
        BY <1>1, <3>3, FreeLines, RowsAssumption DEF C!LinesOf
      <4> QED BY <1>1, <4>1
    <3> QED BY <1>10, <3>1, <3>2, <3>3, GoneKept
  <2> QED BY <2>1, <2>2
<1> QED BY <1>4, <1>7, <1>8, <1>9, <1>10 DEF CatalogueInv, C!ReturnsInFourWays

\* A restoration overtakes the requests that know better of the product or of its
\* code; to the clients it brings back no other product.
LEMMA ProductRestoredStep ==
  ASSUME CatalogueInv, NEW p \in Products, C!Restored(p)
  PROVE  CatalogueInv' /\ C!ReturnsInFourWays
<1>1. PICK c \in C!ArchivedCodes(p), as \in {"live", "deleted"}, given \in SUBSET Lines :
        \E archived \in [given -> C!ArchivedLine(p)] : C!RestoreProduct(p, c, as, given, archived)
  BY DEF C!Restored
<1>2. PICK archived \in [given -> C!ArchivedLine(p)] : C!RestoreProduct(p, c, as, given, archived)
  BY <1>1
<1>3. /\ \A i \in given : line[i] = C!NoLine \/ line[i].of = p
      /\ line' = [i \in Lines |-> IF i \in given THEN archived[i] ELSE line[i]]
      /\ product' = [product EXCEPT ![p] = as] /\ code' = [code EXCEPT ![p] = c]
      /\ told' = [told EXCEPT ![p] = "there"]
      /\ overtaken' = overtaken \cup {o \in Two : product[p] = "none" /\ pc[o] = "insert"}
                                \cup {o \in C!Lookers(p) : as = "deleted"}
      /\ UNCHANGED <<counter, recorded, ask, pc, minted, doomed>>
      /\ \A o \in Two : ~(pc[o] = "deactivated" /\ ask[o].product = p)
  BY <1>2 DEF C!RestoreProduct, C!ProductFree, C!Deletes
<1>4. c \in Nat \cup Odd /\ (product[p] # "none" => c = code[p])
  BY CodesAssumption DEF C!ArchivedCodes, CatalogueInv, CatalogueTyped, C!TypeOK
<1>5. CatalogueTyped'
  <2>1. line' \in [Lines -> [of : Products \cup {None}, brand : Brands \cup {None}, active : BOOLEAN]]
    BY <1>3 DEF C!ArchivedLine, CatalogueInv, CatalogueTyped, C!TypeOK
  <2>2. /\ product' \in [Products -> {"none", "live", "deleted"}] /\ code' \in [Products -> Nat \cup Odd]
        /\ told' \in [Products \cup Lines -> {"none", "there", "gone"}]
    BY <1>3, <1>4 DEF CatalogueInv, CatalogueTyped, C!TypeOK
  <2>3. overtaken' \subseteq Two
    BY <1>3 DEF C!Lookers, CatalogueInv, CatalogueTyped, C!TypeOK
  <2> QED BY <1>3, <2>1, <2>2, <2>3 DEF CatalogueInv, CatalogueTyped, C!TypeOK, AsksAsItMay
<1>6. LookersKnow'
  <2> SUFFICES ASSUME NEW o \in Two, pc[o] \in {"commit", "deactivated"}, Looked(o)
               PROVE  /\ product'[ask[o].product] # "none"
                      /\ pc[o] = "commit" /\ ask[o].do \notin {"restore", "unpicture"} /\ o \notin overtaken' =>
                           product'[ask[o].product] = "live"
    BY <1>3 DEF LookersKnow, Looked
  <2>1. ask[o].product \in Products /\ ask[o].do \notin {"remove", "edit"}
    BY CatalogueAsksByKind DEF CatalogueInv, CatalogueTyped, AsksAsItMay, Looked
  <2>2. CASE ask[o].product = p
    BY <1>3, <2>1, <2>2 DEF C!Lookers, CatalogueInv, CatalogueTyped, C!TypeOK
  <2>3. CASE ask[o].product # p
    BY <1>3, <2>1, <2>3 DEF CatalogueInv, CatalogueTyped, C!TypeOK, LookersKnow
  <2> QED BY <2>2, <2>3
<1>7. ASSUME NEW q \in Products, q # p
      PROVE  C!LinesOf(q)' = C!LinesOf(q) /\ \A i \in C!LinesOf(q) : line'[i] = line[i] /\ told'[i] = told[i]
  <2>1. ASSUME NEW i \in Lines
        PROVE  /\ line'[i].of = q <=> line[i].of = q
               /\ line[i].of = q => line'[i] = line[i]
               /\ told'[i] = told[i]
    <3>1. told'[i] = told[i]
      BY <1>3, RowsAssumption DEF CatalogueInv, CatalogueTyped, C!TypeOK
    <3>2. CASE i \in given
      <4>1. line'[i].of = p
        BY <1>3, <3>2 DEF C!ArchivedLine
      <4>2. line[i].of \in {None, p}
        BY <1>3, <3>2 DEF C!NoLine
      <4> QED BY <1>7, <3>1, <4>1, <4>2, RowsAssumption
    <3>3. CASE i \notin given
      BY <1>3, <3>1, <3>3
    <3> QED BY <3>2, <3>3
  <2> QED BY <2>1 DEF C!LinesOf
<1>8. DeletersKnow'
  <2>1. \A o \in Two : pc[o] = "deactivated" => ask[o].product \in Products /\ ask[o].product # p
    BY <1>3, CatalogueAsksByKind DEF CatalogueInv, CatalogueTyped, AsksAsItMay
  <2> QED BY <1>3, <1>7, <2>1 DEF CatalogueInv, DeletersKnow
<1>9. C!Padded' => C!Padded
  BY <1>3, <1>4, CodesStayUsed DEF CatalogueInv, CatalogueTyped, C!TypeOK
<1>10. OneDraws'
  <2>1. CASE product[p] = "none"
    BY <1>3, <1>9, <2>1 DEF CatalogueInv, OneDraws
  <2>2. CASE product[p] # "none"
    <3>1. C!Used' = C!Used
      <4>1. code' = code
        BY <1>3, <1>4, <2>2 DEF CatalogueInv, CatalogueTyped, C!TypeOK
      <4>2. C!Existing' = C!Existing
        BY <1>3, <2>2 DEF C!Existing, CatalogueInv, CatalogueTyped, C!TypeOK
      <4> QED BY <4>1, <4>2 DEF C!Used
    <3> QED BY <1>3, <1>9, <3>1 DEF CatalogueInv, OneDraws
  <2> QED BY <2>1, <2>2
<1>11. C!NoCodeCollision'
  BY <1>3, <1>9 DEF CatalogueInv, C!NoCodeCollision
<1>12. ASSUME NEW q \in Products, q # p, C!Gone(q) PROVE C!Gone(q)'
  <2>1. product'[q] = product[q] /\ told'[q] = told[q]
    BY <1>3, <1>12, RowsAssumption DEF CatalogueInv, CatalogueTyped, C!TypeOK
  <2> QED BY <1>7, <1>12, <2>1, GoneKept
<1> QED BY <1>5, <1>6, <1>8, <1>10, <1>11, <1>12 DEF CatalogueInv, C!ReturnsInFourWays

\* An update publishes a product that is live, unless a deletion has overtaken it;
\* an image handler too, unless it removes the image.
LEMMA PublishProductStep ==
  ASSUME CatalogueInv, NEW r \in Two, C!CommitUpdate(r) \/ C!CommitImage(r)
  PROVE  CatalogueInv' /\ C!ReturnsInFourWays
<1>1. PICK p \in Products : p = ask[r].product
  BY CatalogueAsksByKind DEF C!CommitUpdate, C!CommitImage, CatalogueInv, CatalogueTyped, AsksAsItMay
<1>2. /\ told' = [told EXCEPT ![p] = "there"] /\ C!Answer(r, "done")
      /\ UNCHANGED <<product, code, counter, line, recorded, overtaken>>
      /\ r \in overtaken \/ product[p] = "live" \/ (C!CommitImage(r) /\ ask[r].do = "unpicture")
  BY <1>1 DEF C!CommitUpdate, C!CommitImage, CatalogueInv, LookersKnow, Looked
<1>3. CatalogueTyped'
  BY <1>2, AnswerStep DEF CatalogueInv, CatalogueTyped, C!TypeOK
<1>4. LookersKnow' /\ DeletersKnow' /\ OneDraws' /\ C!NoCodeCollision'
  BY <1>2, AnswerKeeps DEF C!LinesOf
<1>5. ASSUME NEW q \in Products, C!Gone(q), ~C!Gone(q)'
      PROVE  r \in overtaken \/ (C!CommitImage(r) /\ ask[r].do = "unpicture")
  <2>1. CASE q = p
    BY <1>2, <1>5, <2>1 DEF C!Gone
  <2>2. CASE q # p
    <3>1. told'[q] = told[q] /\ \A i \in Lines : told'[i] = told[i]
      BY <1>2, <2>2, RowsAssumption DEF CatalogueInv, CatalogueTyped, C!TypeOK
    <3> QED BY <1>2, <1>5, <3>1, GoneKept DEF C!LinesOf
  <2> QED BY <2>1, <2>2
<1> QED BY <1>3, <1>4, <1>5 DEF CatalogueInv, C!ReturnsInFourWays

LEMMA DeactivateStep ==
  ASSUME CatalogueInv, NEW r \in Two, C!Deactivate(r)
  PROVE  CatalogueInv' /\ C!ReturnsInFourWays
<1>1. /\ pc[r] = "commit" /\ ask[r].do = "delete"
      /\ doomed' = [doomed EXCEPT ![r] = C!LinesOf(ask[r].product)]
      /\ pc' = [pc EXCEPT ![r] = "deactivated"]
      /\ UNCHANGED C!rows /\ UNCHANGED <<ask, minted, overtaken>>
  BY DEF C!Deactivate, C!Goto, C!Dooms
<1>2. UNCHANGED <<product, code, counter, line, told, recorded>>
  BY <1>1 DEF C!rows
<1>3. CatalogueTyped'
  BY <1>1, <1>2 DEF CatalogueInv, CatalogueTyped, C!TypeOK, AsksAsItMay, C!LinesOf
<1>4. LookersKnow'
  BY <1>1, <1>2 DEF CatalogueInv, CatalogueTyped, C!TypeOK, LookersKnow, Looked
<1>5. DeletersKnow'
  BY <1>1, <1>2 DEF CatalogueInv, CatalogueTyped, C!TypeOK, DeletersKnow, C!LinesOf
<1>6. OneDraws' /\ C!NoCodeCollision'
  BY <1>1, RowsStay DEF CatalogueInv, CatalogueTyped, C!TypeOK, OneDraws, C!NoCodeCollision
<1> QED BY <1>1, <1>3, <1>4, <1>5, <1>6, RowsStay DEF CatalogueInv

\* A deletion that nothing has overtaken deactivates every line it publishes.
LEMMA CommitDeleteStep ==
  ASSUME CatalogueInv, NEW r \in Two, C!CommitDelete(r)
  PROVE  CatalogueInv' /\ C!ReturnsInFourWays
<1>1. PICK p \in Products : p = ask[r].product
  BY CatalogueAsksByKind DEF C!CommitDelete, CatalogueInv, CatalogueTyped, AsksAsItMay
<1>2. /\ pc[r] = "deactivated" /\ C!Answer(r, "done")
      /\ product' = [product EXCEPT ![p] = "deleted"]
      /\ line' = [i \in Lines |-> [line[i] EXCEPT !.active = line[i].active /\ i \notin doomed[r]]]
      /\ told' = [x \in Products \cup Lines |-> IF x = p \/ x \in C!LinesOf(p) THEN "gone" ELSE told[x]]
      /\ overtaken' = overtaken \cup
           {o \in Two : pc[o] = "commit" /\ ask[o].do \notin {"remove", "edit"} /\ ask[o].product = p}
      /\ UNCHANGED <<code, counter, recorded>>
      /\ product[p] # "none"
      /\ r \in overtaken \/ doomed[r] = C!LinesOf(p)
  BY <1>1 DEF C!CommitDelete, C!Lookers, CatalogueInv, CatalogueTyped, C!TypeOK, AsksAsItMay, LookersKnow, Looked, DeletersKnow
<1>3. /\ pc'[r] = "done" /\ minted'[r] = 0
      /\ \A o \in Two \ {r} : UNCHANGED <<ask[o], pc[o], minted[o], doomed[o]>>
  BY <1>2, AnswerStep DEF CatalogueInv, CatalogueTyped, C!TypeOK
<1>4. \A i \in Lines : /\ line'[i] \in [of : Products \cup {None}, brand : Brands \cup {None}, active : BOOLEAN]
                       /\ line'[i].of = line[i].of
                       /\ line'[i].active = (line[i].active /\ i \notin doomed[r])
  <2>1. line \in [Lines -> [of : Products \cup {None}, brand : Brands \cup {None}, active : BOOLEAN]]
    BY DEF CatalogueInv, CatalogueTyped, C!TypeOK
  <2>2. ASSUME NEW i \in Lines
        PROVE  line'[i] = [line[i] EXCEPT !.active = line[i].active /\ i \notin doomed[r]]
    BY <1>2
  <2> QED BY <2>1, <2>2
<1>5. \A q \in Products : C!LinesOf(q)' = C!LinesOf(q)
  BY <1>4 DEF C!LinesOf
<1>6. CatalogueTyped'
  <2>1. line' \in [Lines -> [of : Products \cup {None}, brand : Brands \cup {None}, active : BOOLEAN]]
    BY <1>2, <1>4
  <2>2. told' \in [Products \cup Lines -> {"none", "there", "gone"}]
    BY <1>2 DEF CatalogueInv, CatalogueTyped, C!TypeOK
  <2>3. product' \in [Products -> {"none", "live", "deleted"}] /\ overtaken' \subseteq Two
    BY <1>2 DEF CatalogueInv, CatalogueTyped, C!TypeOK
  <2> QED BY <1>2, <2>1, <2>2, <2>3, AnswerStep DEF CatalogueInv, CatalogueTyped, C!TypeOK
<1>7. LookersKnow'
  <2> SUFFICES ASSUME NEW o \in Two, pc'[o] \in {"commit", "deactivated"}, Looked(o)'
               PROVE  /\ product'[ask'[o].product] # "none"
                      /\ pc'[o] = "commit" /\ ask'[o].do \notin {"restore", "unpicture"} /\ o \notin overtaken' =>
                           product'[ask'[o].product] = "live"
    BY DEF LookersKnow
  <2>1. o # r /\ ask'[o] = ask[o] /\ pc'[o] = pc[o] /\ Looked(o)
    BY <1>3 DEF Looked
  <2>2. ask[o].product \in Products /\ ask[o].do \notin {"remove", "edit"}
    BY <2>1, CatalogueAsksByKind DEF CatalogueInv, CatalogueTyped, AsksAsItMay, Looked
  <2>3. product[ask[o].product] # "none"
    BY <2>1 DEF CatalogueInv, LookersKnow
  <2>4. CASE ask[o].product = p
    BY <1>2, <2>1, <2>2, <2>4 DEF CatalogueInv, CatalogueTyped, C!TypeOK
  <2>5. CASE ask[o].product # p
    BY <1>2, <2>1, <2>2, <2>3, <2>5 DEF CatalogueInv, CatalogueTyped, C!TypeOK, LookersKnow
  <2> QED BY <2>4, <2>5
<1>8. DeletersKnow'
  <2>1. \A o \in Two : pc[o] = "deactivated" => ask[o].product \in Products
    BY CatalogueAsksByKind DEF CatalogueInv, CatalogueTyped, AsksAsItMay
  <2> QED BY <1>2, <1>3, <1>5, <2>1 DEF CatalogueInv, DeletersKnow
<1>9. OneDraws' /\ C!NoCodeCollision'
  <2>1. C!Used' = C!Used /\ C!Padded' = C!Padded
    BY <1>2 DEF C!Used, C!Existing, C!Padded, CatalogueInv, CatalogueTyped, C!TypeOK
  <2> QED BY <1>2, <1>3, <2>1 DEF CatalogueInv, OneDraws, C!NoCodeCollision
<1>10. ASSUME NEW q \in Products, C!Gone(q), ~C!Gone(q)' PROVE r \in overtaken
  <2> SUFFICES ASSUME r \notin overtaken PROVE FALSE
    OBVIOUS
  <2>1. CASE q = p
    <3>1. told'[p] = "gone"
      BY <1>2
    <3>2. ASSUME NEW i \in C!LinesOf(p) PROVE ~line'[i].active /\ told'[i] = "gone"
      BY <1>2, <1>4 DEF C!LinesOf
    <3> QED BY <1>5, <1>10, <2>1, <3>1, <3>2 DEF C!Gone
  <2>2. CASE q # p
    <3>1. product'[q] = product[q] /\ told'[q] \in {told[q], "gone"}
      BY <1>2, <2>2 DEF CatalogueInv, CatalogueTyped, C!TypeOK
    <3>2. \A i \in Lines : (line'[i].active => line[i].active) /\ told'[i] \in {told[i], "gone"}
      BY <1>2, <1>4
    <3>3. C!LinesOf(q) \subseteq Lines
      BY DEF C!LinesOf
    <3> QED BY <1>5, <1>10, <3>1, <3>2, <3>3, GoneKept
  <2> QED BY <2>1, <2>2
<1> QED BY <1>6, <1>7, <1>8, <1>9, <1>10 DEF CatalogueInv, C!ReturnsInFourWays

LEMMA CommitRestoreStep ==
  ASSUME CatalogueInv, NEW r \in Two, C!CommitRestore(r)
  PROVE  CatalogueInv' /\ C!ReturnsInFourWays
<1>1. PICK p \in Products : p = ask[r].product
  BY CatalogueAsksByKind DEF C!CommitRestore, CatalogueInv, CatalogueTyped, AsksAsItMay
<1>2. /\ product' = [product EXCEPT ![p] = "live"] /\ told' = [told EXCEPT ![p] = "there"]
      /\ C!Answer(r, "done") /\ UNCHANGED <<code, counter, line, recorded, overtaken>>
      /\ product[p] # "none"
  BY <1>1 DEF C!CommitRestore, CatalogueInv, LookersKnow, Looked
<1>3. /\ pc'[r] = "done" /\ minted'[r] = 0
      /\ \A o \in Two \ {r} : UNCHANGED <<ask[o], pc[o], minted[o], doomed[o]>>
  BY <1>2, AnswerStep DEF CatalogueInv, CatalogueTyped, C!TypeOK
<1>4. CatalogueTyped'
  BY <1>2, AnswerStep DEF CatalogueInv, CatalogueTyped, C!TypeOK
<1>5. LookersKnow'
  <2>1. \A o \in Two : pc[o] \in {"commit", "deactivated"} /\ Looked(o) => ask[o].product \in Products
    BY CatalogueAsksByKind DEF CatalogueInv, CatalogueTyped, AsksAsItMay, Looked
  <2> QED BY <1>2, <1>3, <2>1 DEF CatalogueInv, CatalogueTyped, C!TypeOK, LookersKnow, Looked
<1>6. DeletersKnow'
  BY <1>2, <1>3 DEF CatalogueInv, DeletersKnow, C!LinesOf
<1>7. OneDraws' /\ C!NoCodeCollision'
  <2>1. C!Used' = C!Used /\ C!Padded' = C!Padded
    BY <1>2 DEF C!Used, C!Existing, C!Padded, CatalogueInv, CatalogueTyped, C!TypeOK
  <2> QED BY <1>2, <1>3, <2>1 DEF CatalogueInv, OneDraws, C!NoCodeCollision
<1>8. ASSUME NEW q \in Products, C!Gone(q) PROVE C!Gone(q)'
  <2>1. CASE q = p
    BY <1>2, <2>1 DEF C!Gone, CatalogueInv, CatalogueTyped, C!TypeOK
  <2>2. CASE q # p
    <3>1. product'[q] = product[q] /\ told'[q] = told[q] /\ \A i \in Lines : told'[i] = told[i]
      BY <1>2, <2>2, RowsAssumption DEF CatalogueInv, CatalogueTyped, C!TypeOK
    <3> QED BY <1>2, <1>8, <3>1, GoneKept DEF C!LinesOf
  <2> QED BY <2>1, <2>2
<1> QED BY <1>4, <1>5, <1>6, <1>7, <1>8 DEF CatalogueInv, C!ReturnsInFourWays

LEMMA CommitAddStep ==
  ASSUME CatalogueInv, NEW r \in Two, NEW j \in Lines, C!CommitAdd(r, j)
  PROVE  CatalogueInv' /\ C!ReturnsInFourWays
<1>1. PICK p \in Products, b \in Brands \cup {None} : p = ask[r].product /\ b = ask[r].brand
  BY CatalogueAsksByKind DEF C!CommitAdd, CatalogueInv, CatalogueTyped, AsksAsItMay
<1>2. /\ line[j] = C!NoLine /\ line' = [line EXCEPT ![j] = [of |-> p, brand |-> b, active |-> TRUE]]
      /\ told' = [told EXCEPT ![j] = "there"]
      /\ overtaken' = overtaken \cup {o \in Two : pc[o] = "deactivated" /\ ask[o].product = p}
      /\ C!Answer(r, "done") /\ UNCHANGED <<product, code, counter, recorded>>
      /\ r \in overtaken \/ product[p] = "live"
  BY <1>1 DEF C!CommitAdd, C!Deletes, CatalogueInv, LookersKnow, Looked
<1>3. /\ pc'[r] = "done" /\ minted'[r] = 0
      /\ \A o \in Two \ {r} : UNCHANGED <<ask[o], pc[o], minted[o], doomed[o]>>
  BY <1>2, AnswerStep DEF CatalogueInv, CatalogueTyped, C!TypeOK
<1>4. CatalogueTyped'
  BY <1>2, AnswerStep DEF CatalogueInv, CatalogueTyped, C!TypeOK
<1>5. ASSUME NEW q \in Products, q # p PROVE C!LinesOf(q)' = C!LinesOf(q)
  BY <1>2, <1>5, FreeLines DEF C!LinesOf, CatalogueInv, CatalogueTyped, C!TypeOK
<1>6. LookersKnow'
  BY <1>2, <1>3 DEF CatalogueInv, LookersKnow, Looked
<1>7. DeletersKnow'
  <2>1. \A o \in Two : pc[o] = "deactivated" => ask[o].product \in Products
    BY CatalogueAsksByKind DEF CatalogueInv, CatalogueTyped, AsksAsItMay
  <2> QED BY <1>2, <1>3, <1>5, <2>1 DEF CatalogueInv, DeletersKnow
<1>8. OneDraws' /\ C!NoCodeCollision'
  <2>1. C!Used' = C!Used /\ C!Padded' = C!Padded
    BY <1>2 DEF C!Used, C!Existing, C!Padded
  <2> QED BY <1>2, <1>3, <2>1 DEF CatalogueInv, OneDraws, C!NoCodeCollision
<1>9. ASSUME NEW q \in Products, C!Gone(q), ~C!Gone(q)' PROVE r \in overtaken
  <2>1. CASE q = p
    BY <1>2, <1>9, <2>1 DEF C!Gone
  <2>2. CASE q # p
    <3>1. told'[q] = told[q] /\ j \notin C!LinesOf(q)
      BY <1>2, FreeLines, RowsAssumption DEF CatalogueInv, CatalogueTyped, C!TypeOK
    <3>2. \A i \in C!LinesOf(q) : line'[i] = line[i] /\ told'[i] = told[i]
      BY <1>2, <3>1 DEF C!LinesOf, CatalogueInv, CatalogueTyped, C!TypeOK
    <3> QED BY <1>2, <1>5, <1>9, <2>2, <3>1, <3>2, GoneKept
  <2> QED BY <2>1, <2>2
<1> QED BY <1>4, <1>6, <1>7, <1>8, <1>9 DEF CatalogueInv, C!ReturnsInFourWays

LEMMA CommitLineStep ==
  ASSUME CatalogueInv, NEW r \in Two, C!CommitLine(r)
  PROVE  CatalogueInv' /\ C!ReturnsInFourWays
<1>1. PICK j \in Lines, active \in BOOLEAN :
        j = ask[r].line /\ active = (ask[r].do = "edit" /\ ask[r].active)
  BY CatalogueAsksByKind DEF C!CommitLine, CatalogueInv, CatalogueTyped, AsksAsItMay
<1>2. /\ line' = [line EXCEPT ![j].active = active]
      /\ told' = [told EXCEPT ![j] = IF active THEN "there" ELSE "gone"]
      /\ C!Answer(r, "done") /\ UNCHANGED <<product, code, counter, recorded, overtaken>>
  BY <1>1 DEF C!CommitLine
<1>3. /\ line' \in [Lines -> [of : Products \cup {None}, brand : Brands \cup {None}, active : BOOLEAN]]
      /\ line'[j].active = active /\ \A i \in Lines : line'[i].of = line[i].of /\ (i # j => line'[i] = line[i])
  <2> DEFINE Line == [of : Products \cup {None}, brand : Brands \cup {None}, active : BOOLEAN]
  <2>1. line \in [Lines -> Line]
    BY DEF CatalogueInv, CatalogueTyped, C!TypeOK
  <2>2. PICK new \in Line : new = [line[j] EXCEPT !.active = active] /\ new.active = active /\ new.of = line[j].of
    <3>1. PICK old \in Line : old = line[j]
      BY <2>1
    <3>2. [old EXCEPT !.active = active] = [of |-> old.of, brand |-> old.brand, active |-> active]
      OBVIOUS
    <3> QED BY <3>1, <3>2
  <2>3. line' = [line EXCEPT ![j] = new]
    BY <1>2, <2>2
  <2> HIDE DEF Line
  <2>4. line' \in [Lines -> Line] /\ line'[j] = new /\ \A i \in Lines : i # j => line'[i] = line[i]
    BY <2>1, <2>3
  <2> QED BY <2>2, <2>4 DEF Line
<1>4. \A q \in Products : C!LinesOf(q)' = C!LinesOf(q)
  BY <1>3 DEF C!LinesOf
<1>5. CatalogueTyped'
  BY <1>2, <1>3, AnswerStep DEF CatalogueInv, CatalogueTyped, C!TypeOK
<1>6. LookersKnow' /\ DeletersKnow' /\ OneDraws' /\ C!NoCodeCollision'
  BY <1>2, <1>4, AnswerKeeps
<1>7. ASSUME NEW q \in Products, C!Gone(q), ~active PROVE C!Gone(q)'
  <2>1. told'[q] = told[q]
    BY <1>2, RowsAssumption DEF CatalogueInv, CatalogueTyped, C!TypeOK
  <2>2. \A i \in Lines : (line'[i].active => line[i].active) /\ told'[i] \in {told[i], "gone"}
    BY <1>2, <1>3, <1>7 DEF CatalogueInv, CatalogueTyped, C!TypeOK
  <2>3. C!LinesOf(q) \subseteq Lines
    BY DEF C!LinesOf
  <2> QED BY <1>2, <1>4, <1>7, <2>1, <2>2, <2>3, GoneKept
<1> QED BY <1>1, <1>5, <1>6, <1>7 DEF CatalogueInv, C!ReturnsInFourWays

LEMMA CatalogueStep ==
  ASSUME CatalogueInv, [C!Next]_(C!vars)
  PROVE  CatalogueInv' /\ [C!ReturnsInFourWays]_(C!vars)
<1>1. CASE UNCHANGED C!vars
  <2>1. UNCHANGED C!rows /\ UNCHANGED <<product, code, counter, line, told, recorded>>
        /\ UNCHANGED <<ask, pc, minted, doomed, overtaken>>
    BY <1>1 DEF C!vars, C!rows, C!handlers
  <2>2. CatalogueTyped'
    BY <2>1 DEF CatalogueInv, CatalogueTyped, C!TypeOK, AsksAsItMay
  <2>3. LookersKnow' /\ DeletersKnow'
    BY <2>1 DEF CatalogueInv, LookersKnow, Looked, DeletersKnow, C!LinesOf
  <2>4. OneDraws' /\ C!NoCodeCollision'
    BY <2>1, RowsStay DEF CatalogueInv, OneDraws, C!NoCodeCollision
  <2> QED BY <1>1, <2>2, <2>3, <2>4 DEF CatalogueInv
<1>2. CASE C!Next
  BY <1>2, BeginStep, MintStep, CommitCreateStep, CodeTakenStep, RefusalStep, PublishProductStep, DeactivateStep,
     CommitDeleteStep, CommitRestoreStep, CommitAddStep, CommitLineStep, ProductRestoredStep DEF C!Next
<1> QED BY <1>1, <1>2

LEMMA CatalogueSteps ==
  ASSUME [Next]_vars, part' = "catalogue"
  PROVE  part = "catalogue" /\ [C!Next]_(C!vars)
<1>1. CASE UNCHANGED vars
  BY <1>1 DEF vars, catalogue, C!vars, C!rows, C!handlers
<1>2. CASE Next
  BY <1>2 DEF Next, Stay
<1> QED BY <1>1, <1>2

\* Wherever the counter of the codes stands, a creation runs into a used code only
\* if a restoration overtook it or a code in use is not a number of five digits.
THEOREM StaleCounterNeverCollides == Spec => []NoCodeCollision
<1> DEFINE Inv == part = "catalogue" => CatalogueInv
<1>1. Init => Inv
  BY InitCatalogueInv DEF Init, Alone
<1>2. Inv /\ [Next]_vars => Inv'
  BY CatalogueSteps, CatalogueStep
<1>3. Inv => NoCodeCollision
  BY DEF CatalogueInv, NoCodeCollision
<1> QED BY <1>1, <1>2, <1>3, PTL DEF Spec

\* A deleted product and its lines stay gone for the clients, whatever the requests,
\* but for restore, a reactivated line, the removal of an image, the restoration of a
\* backup, and requests that overlapped the deletion.
THEOREM DeletedStaysDeleted == Spec => DeletionHolds
<1> DEFINE Inv == part = "catalogue" => CatalogueInv
<1>1. Init => Inv
  BY InitCatalogueInv DEF Init, Alone
<1>2. Inv /\ [Next]_vars => Inv' /\ [part = "catalogue" => C!ReturnsInFourWays]_vars
  <2>1. [Next]_vars => part' = part
    BY DEF Next, Stay, vars
  <2>2. UNCHANGED C!vars => C!ReturnsInFourWays
    BY RowsStay DEF C!vars
  <2> QED BY <2>1, <2>2, CatalogueSteps, CatalogueStep
<1> QED BY <1>1, <1>2, PTL DEF Spec, DeletionHolds

\* The same of the catalogue by itself, and that every variable keeps its type.
THEOREM CatalogueAlone == C!Spec => []C!TypeOK /\ []C!NoCodeCollision /\ C!DeletionHolds
BY InitCatalogueInv, CatalogueStep, PTL DEF C!Spec, CatalogueInv, CatalogueTyped, C!DeletionHolds
=============================================================================
