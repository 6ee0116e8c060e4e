----------------------------- MODULE ProductsBackup -----------------------------
(***************************************************************************)
(* ProductsBackupService: buildBackup writes an archive of the catalogue,  *)
(* importBackup brings it back, into the same database or an empty one,    *)
(* while the panel goes on changing both.                                  *)
(*                                                                         *)
(* Ids do not survive a restore: products are found by their code, stock   *)
(* lines by their barcode and locations by the path of codes from the root,*)
(* for the codes of baskets repeat.  A step is one SELECT of the export or *)
(* one transaction of the import.  The fields that a restore copies as they*)
(* are, and the two pointers of a line (shelf and basket are looked up     *)
(* alike), come down to where the line lies.  Trees have no cycles here.   *)
(***************************************************************************)
EXTENDS Integers, Sequences, FiniteSets, SequencesExt

CONSTANTS
  Codes,     \* the codes of locations
  Places,    \* the ids of locations
  Products,  \* the codes of products
  Lines,     \* the barcodes of stock lines
  Pictures,  \* the paths of images
  None,      \* null
  MaxFaults  \* bound on changes by the panel and on the loss of the server

VARIABLES
  tree,      \* Location: code and parent; None where there is no such row
  line,      \* InventoryItem: product and location; None where there is no such row
  image,     \* the rows of product_images of each product
  disk,      \* the uploaded files
  archive,   \* the archive: the places, lines, images and files in it
  export,    \* the SELECTs of an export under way that are still to come
  pc,        \* where the import is
  id,        \* its map from path keys to the ids of locations
  left,      \* the products it has still to restore
  noted,     \* the files, lines and products its summary names as not restored
  overtaken, \* the tree was changed while it was read, or since it was restored
  faults     \* changes and losses so far

catalogue == <<tree, line, image, disk>>
importer  == <<pc, id, left, noted>>
vars      == <<catalogue, archive, export, importer, overtaken, faults>>

There == {p \in Places : tree[p] # None}
Children(q) == {p \in There : tree[p].parent = q}

Empty == [places |-> None, lines |-> None, images |-> None, files |-> {}]

\* pathOf: the codes from the root to the place.
PathOf(p) ==
  LET path[q \in There] ==
        IF tree[q].parent = None THEN <<tree[q].code>> ELSE Append(path[tree[q].parent], tree[q].code)
  IN path[p]

\* Siblings have different codes and no place is deeper than a basket.
Tidy ==
  /\ \A p, q \in There : tree[p] = tree[q] => p = q
  /\ \A p \in There : Len(PathOf(p)) <= 3

Init ==
  /\ tree \in [Places -> [code : Codes, parent : Places \cup {None}] \cup {None}]
  /\ \A group \in (SUBSET There) \ {{}} : \E p \in group : tree[p].parent \notin group
  /\ \A p \in There : tree[p].parent \in There \cup {None}
  /\ Tidy
  /\ line \in [Lines -> [of : Products, at : There \cup {None}]]
  /\ image \in [Products -> SUBSET Pictures]
  /\ disk \in SUBSET Pictures
  /\ archive = Empty
  /\ export = {"lines", "places"}
  /\ pc = "idle"
  /\ id = <<>>
  /\ left = Products
  /\ noted = {}
  /\ overtaken = FALSE
  /\ faults = 0

-----------------------------------------------------------------------------
\* What the archive says of a line: its product, and of its place the code, the
\* parent's code and, if that is among the locations read, the path.
Placed(p) ==
  [at |-> p, code |-> tree[p].code,
   parent |-> IF tree[p].parent = None THEN None ELSE tree[tree[p].parent].code]
Described(l) ==
  [of |-> line[l].of, place |-> IF line[l].at = None THEN None ELSE Placed(line[l].at)]

\* The SELECTs of the export run side by side, on what is committed at the time.
ReadLines ==
  /\ "lines" \in export
  /\ export' = export \ {"lines"}
  /\ archive' = [archive EXCEPT
       !.lines = [l \in {k \in Lines : line[k] # None} |-> Described(l)],
       !.images = image]
  /\ UNCHANGED <<catalogue, importer, overtaken, faults>>

ReadPlaces ==
  /\ "places" \in export
  /\ export' = export \ {"places"}
  /\ archive' = [archive EXCEPT !.places = [p \in There |-> PathOf(p)]]
  /\ UNCHANGED <<catalogue, importer, overtaken, faults>>

\* The files are packed last; one that is missing is passed over.
Pack ==
  /\ export = {} /\ pc = "idle" /\ archive.files = {}
  /\ archive' = [archive EXCEPT !.files = disk \cap UNION {archive.images[p] : p \in Products}]
  /\ pc' = "packed"
  /\ UNCHANGED <<catalogue, export, id, left, noted, overtaken, faults>>

-----------------------------------------------------------------------------
\* The keys of a place: its path, and for the first two levels the older key of
\* parent's code and own code.
Keys(path) ==
  {path} \cup IF Len(path) > 2 THEN {}
              ELSE {IF Len(path) = 1 THEN <<None>> \o path ELSE path}

\* ensureLocation looks for the code under this parent.
Slot(t, q, c) == {p \in Places : t[p] # None /\ t[p].code = c /\ t[p].parent = q}

\* One place is restored: found, or else created under its parent, if Places has an
\* id left for it (room).
Ensure(path, sofar) ==
  LET up   == IF Len(path) = 1 THEN None ELSE sofar.id[Front(path)]
      slot == Slot(sofar.tree, up, Last(path))
      new  == {q \in Places : sofar.tree[q] = None}
      p    == CHOOSE q \in (IF slot # {} THEN slot ELSE new) : TRUE
  IN [tree |-> IF slot # {} THEN sofar.tree
               ELSE [sofar.tree EXCEPT ![p] = [code |-> Last(path), parent |-> up]],
      id   |-> [k \in DOMAIN sofar.id \cup Keys(path) |-> IF k \in Keys(path) THEN p ELSE sofar.id[k]],
      room |-> sofar.room /\ (slot # {} \/ new # {})]

\* All of them by length, the longest last, so that each finds its parent restored.
Longest(paths) == CHOOSE a \in paths : \A b \in paths : Len(b) <= Len(a)
Restored(paths) ==
  MapThenFoldSet(Ensure, [tree |-> tree, id |-> <<>>, room |-> TRUE], LAMBDA path : path, Longest, paths)

\* restoreReferences: one transaction; nothing that exists is changed.  Places
\* bounds the ids: an import that would run out of them is left out.
RestoreReferences ==
  /\ pc = "packed"
  /\ LET all == Restored({archive.places[p] : p \in DOMAIN archive.places})
     IN all.room /\ tree' = all.tree /\ id' = all.id
  /\ pc' = "products"
  /\ UNCHANGED <<line, image, disk, archive, export, left, noted, overtaken, faults>>

\* Fault: the older key first.
KeyOlderFirst(place) ==
  LET older == <<place.parent, place.code>> IN
  IF older \in DOMAIN id THEN id[older]
  ELSE IF place.at \in DOMAIN archive.places /\ archive.places[place.at] \in DOMAIN id
       THEN id[archive.places[place.at]] ELSE None

\* The location of an archived line: by path, by the older key, or none.
Key(place) ==
  LET older == <<place.parent, place.code>> IN
  IF place.at \in DOMAIN archive.places /\ archive.places[place.at] \in DOMAIN id
  THEN id[archive.places[place.at]]
  ELSE IF older \in DOMAIN id THEN id[older] ELSE None

\* The archived lines of a product; those whose barcode is not another's now; the
\* files in the archive for its images.
LinesIn(p) == {l \in DOMAIN archive.lines : archive.lines[l].of = p}
Taken(p) == {l \in LinesIn(p) : line[l] = None \/ line[l].of = p}
FilesOf(p) == archive.files \cap archive.images[p]

\* restoreProducts, one product: its images are replaced, whether a file can be
\* written or not, and its lines created or overwritten, but for those of a brand
\* that was not restored.  What is passed over is noted and the rest is committed.
RestoreProduct(p) ==
  /\ pc = "products" /\ p \in left
  /\ left' = left \ {p}
  /\ image' = [image EXCEPT ![p] = archive.images[p]]
  /\ \E written \in SUBSET FilesOf(p), unbranded \in SUBSET LinesIn(p) :
       LET kept == Taken(p) \ unbranded IN
       /\ disk' = disk \cup written
       /\ line' = [l \in Lines |->
            IF l \notin kept THEN line[l]
            ELSE [of |-> p, at |-> LET place == archive.lines[l].place IN
                                   IF place = None THEN None ELSE Key(place)]]
       /\ noted' = noted \cup (FilesOf(p) \ written) \cup (LinesIn(p) \ kept)
  /\ UNCHANGED <<tree, archive, export, pc, id, overtaken, faults>>

\* Its transaction fails and is noted as an error: the files written by then stay.
SkipProduct(p) ==
  /\ pc = "products" /\ p \in left
  /\ left' = left \ {p}
  /\ \E written \in SUBSET FilesOf(p) : disk' = disk \cup written
  /\ noted' = noted \cup {p}
  /\ UNCHANGED <<tree, line, image, archive, export, pc, id, overtaken, faults>>

-----------------------------------------------------------------------------
Fault == faults < MaxFaults /\ faults' = faults + 1

\* The panel renames, moves or adds a location without children.
ChangeTree(p, c, q) ==
  /\ Fault
  /\ tree' = [tree EXCEPT ![p] = [code |-> c, parent |-> q]]
  /\ q \in There \cup {None} /\ q # p /\ Children(p) = {}
  /\ Tidy'
  /\ overtaken' = (overtaken \/ export = {"lines"} \/ export = {"places"} \/ pc = "products")
  /\ UNCHANGED <<line, image, disk, archive, export, importer>>

\* ... files or adds a stock line ...
ChangeLine(l, p, q) ==
  /\ Fault
  /\ q \in There \cup {None}
  /\ line[l] # None => line[l].of = p
  /\ line' = [line EXCEPT ![l] = [of |-> p, at |-> q]]
  /\ UNCHANGED <<tree, image, disk, archive, export, importer, overtaken>>

\* ... or the server is lost, and set up anew with the archive kept elsewhere.
LoseServer ==
  /\ Fault
  /\ pc = "packed"
  /\ tree' = [p \in Places |-> None]
  /\ line' = [l \in Lines |-> None]
  /\ image' = [p \in Products |-> {}]
  /\ disk' = {}
  /\ UNCHANGED <<archive, export, importer, overtaken>>

Next ==
  \/ ReadLines \/ ReadPlaces \/ Pack \/ RestoreReferences
  \/ \E p \in Products : RestoreProduct(p) \/ SkipProduct(p)
  \/ \E p \in Places, c \in Codes, q \in Places \cup {None} : ChangeTree(p, c, q)
  \/ \E l \in Lines, p \in Products, q \in Places \cup {None} : ChangeLine(l, p, q)
  \/ LoseServer

Spec == Init /\ [][Next]_vars

-----------------------------------------------------------------------------
TypeOK ==
  /\ \A p \in Places : tree[p] = None \/ tree[p] \in [code : Codes, parent : Places \cup {None}]
  /\ \A l \in Lines : line[l] = None \/ line[l] \in [of : Products, at : Places \cup {None}]
  /\ image \in [Products -> SUBSET Pictures] /\ disk \subseteq Pictures
  /\ archive.files \subseteq Pictures
  /\ export \subseteq {"lines", "places"}
  /\ pc \in {"idle", "packed", "products"}
  /\ \A k \in DOMAIN id : id[k] \in There
  /\ left \subseteq Products /\ noted \subseteq Products \cup Lines \cup Pictures
  /\ overtaken \in BOOLEAN /\ faults \in Nat

\* What a line archived at this place is to be at once the import has filed it.
AsArchived(place, at) ==
  IF place = None \/ at = None THEN place = at ELSE PathOf(at) = archive.places[place.at]

\* "A restore brings the catalog back exactly as it was", into the same database
\* or an empty one: a product that is restored has the archived images, and, but
\* for what the summary notes, their files and its lines, each under the codes it lay
\* under, however often these repeat, unless the tree was changed during the
\* export or the import.
RestoresExactly ==
  \A p \in Products : RestoreProduct(p) /\ ~overtaken =>
    /\ image'[p] = archive.images[p] /\ FilesOf(p) \ noted' \subseteq disk'
    /\ \A l \in LinesIn(p) \ noted' :
         line'[l].of = p /\ AsArchived(archive.lines[l].place, line'[l].at)

RestoredAsArchived == [][RestoresExactly]_vars
=============================================================================
