------------------------------- MODULE Storefront ------------------------------
(***************************************************************************)
(* The venues as the administrators create them and, with their owners,    *)
(* edit them: PATCH loads the row, assigns what was sent, lets TypeORM     *)
(* save the difference, then deletes the logo file nobody shows any more.  *)
(*                                                                         *)
(* save() reads the row a second time and updates the columns in which the *)
(* entity, loaded and assigned before, differs from it.                    *)
(***************************************************************************)
EXTENDS FiniteSets

CONSTANTS
  Venues, Merchants,
  Categories,   \* category ids; serial, so never used twice
  Logos,        \* image URLs; Cloudinary never gives one out twice
  OwnLogos,     \* those in our own kuttuk-time/ folder
  Edits,        \* POST and PATCH requests being served at the same time
  Dtos,         \* bodies of PATCH: functions from some columns to values
  NewDtos,      \* bodies of POST: functions from NewColumns
  None

Columns == {"merchant", "active", "logo", "categories"}
AdminColumns == {"merchant", "active"}
NewColumns == {"merchant", "logo", "categories"}
Row == [merchant : Merchants, active : BOOLEAN, logo : Logos, categories : SUBSET Categories]

ASSUME StorefrontAssumption ==
  /\ OwnLogos \subseteq Logos
  /\ \A d \in Dtos : /\ DOMAIN d \subseteq Columns
                     /\ \E r \in Row : \A c \in DOMAIN d : d[c] = r[c]
  /\ \A d \in NewDtos : \E r \in Row : d = [c \in NewColumns |-> r[c]]
  /\ None \notin Venues \cup Merchants \cup Logos \cup Dtos \cup NewDtos \cup Row

VARIABLES
  venue,       \* rows of venues; None: not created yet
  category,    \* categories: "unused", "there" or "removed"
  file,        \* Cloudinary: "unused", "stored" or "deleted"
  edit         \* the requests

storeVars == <<venue, category, file>>
vars == <<storeVars, edit>>

\* "touched" is history, read by no action: the columns, as <<venue, column>>, that
\* others have written since a request read what it now relies on.
Idle == [pc |-> "idle", owner |-> None, venue |-> None, dto |-> None,
         entity |-> None, old |-> None, diff |-> {}, shared |-> TRUE, touched |-> {}]

Created == {v \in Venues : venue[v] # None}

Init ==
  /\ venue \in [Venues -> {r \in Row : r.categories = {} /\ r.active} \cup {None}]
  /\ category \in [Categories -> {"unused", "there"}]
  /\ file = [l \in Logos |-> IF \E v \in Created : venue[v].logo = l THEN "stored" ELSE "unused"]
  /\ edit = [e \in Edits |-> Idle]

-------------------------------------------------------------------------------
\* It relies on the row that Load gave it until it has saved, and on finding no
\* other venue with its old logo until it has cleaned up.
Relying == {"loaded", "checked", "saving", "cleaning"}
Noted(x, writes) ==
  IF x.pc \in Relying THEN [x EXCEPT !.touched = @ \cup writes] ELSE x

\* Request e goes on; and goes on having written these columns, of which others hear.
Step(e, new) == edit' = [edit EXCEPT ![e] = new]
StepWriting(e, new, writes) ==
  edit' = [f \in Edits |-> IF f = e THEN new ELSE Noted(edit[f], writes)]

\* POST /upload
Upload(l) ==
  /\ file[l] = "unused" /\ l \in OwnLogos
  /\ file' = [file EXCEPT ![l] = "stored"]
  /\ UNCHANGED <<venue, category, edit>>

\* Administrators: categories.
AddCategory(k) ==
  /\ category[k] = "unused"
  /\ category' = [category EXCEPT ![k] = "there"]
  /\ UNCHANGED <<venue, file, edit>>

\* array_remove on every venue, and the DELETE, in one transaction.
RemoveCategory(k) ==
  /\ category[k] = "there"
  /\ category' = [category EXCEPT ![k] = "removed"]
  /\ venue' = [v \in Venues |-> IF v \in Created THEN [venue[v] EXCEPT !.categories = @ \ {k}]
                                ELSE None]
  /\ LET writes == {<<v, "categories">> : v \in {w \in Created : k \in venue[w].categories}} IN
     edit' = [e \in Edits |-> Noted(edit[e], writes)]
  /\ UNCHANGED file

-------------------------------------------------------------------------------
\* Regression: ids are taken as they come.
CategoriesAssumed(ids) == TRUE
CategoriesExist(ids) == \A k \in ids : category[k] = "there"

(* POST admin/venues                                                         *)

AskToCreate(e, d) ==
  /\ edit[e] = Idle
  /\ Step(e, [Idle EXCEPT !.pc = "new", !.dto = d])
  /\ UNCHANGED storeVars

CheckNew(e) ==
  LET d == edit[e].dto IN
  /\ edit[e].pc = "new"
  /\ Step(e, IF d.logo \in OwnLogos /\ CategoriesExist(d.categories)
             THEN [edit[e] EXCEPT !.pc = "inserting"] ELSE Idle)
  /\ UNCHANGED storeVars

\* Ids are serial, and a new venue is active.
Insert(e, v) ==
  /\ edit[e].pc = "inserting" /\ v \notin Created
  /\ venue' = [venue EXCEPT ![v] = [c \in Columns |-> IF c \in NewColumns THEN edit[e].dto[c]
                                                      ELSE TRUE]]
  /\ StepWriting(e, Idle, {<<v, c>> : c \in Columns})
  /\ UNCHANGED <<category, file>>

(* PATCH merchants/me/venues/:id and PATCH admin/venues/:id                  *)

\* The owner: the merchant is looked up first.  If it is deactivated just then the
\* request is refused and has changed nothing, so only the others are modelled; later
\* nobody asks again.  The validation pipe has dropped the administrators' columns.
AskAsOwner(e, m, v, d) ==
  /\ edit[e] = Idle
  /\ DOMAIN d \cap AdminColumns = {}
  /\ Step(e, [Idle EXCEPT !.pc = "asked", !.owner = m, !.venue = v, !.dto = d])
  /\ UNCHANGED storeVars

AskAsAdmin(e, v, d) ==
  /\ edit[e] = Idle
  /\ Step(e, [Idle EXCEPT !.pc = "asked", !.venue = v, !.dto = d])
  /\ UNCHANGED storeVars

\* Regression: any venue is found by its id.
MayEditAny(e) == edit[e].venue \in Created
MayEdit(e) ==
  /\ edit[e].venue \in Created
  /\ edit[e].owner \in {None, venue[edit[e].venue].merchant}

Load(e) ==
  LET r == venue[edit[e].venue] IN
  /\ edit[e].pc = "asked"
  /\ Step(e, IF MayEdit(e) THEN [edit[e] EXCEPT !.pc = "loaded", !.entity = r, !.old = r.logo]
             ELSE Idle)
  /\ UNCHANGED storeVars

Has(e, c) == c \in DOMAIN edit[e].dto
NewLogo(e) == Has(e, "logo") /\ edit[e].dto.logo # edit[e].old

\* assertOwnLogo, assertCategoriesExist; then Object.assign(definedFields).
Check(e) ==
  LET d == edit[e].dto IN
  /\ edit[e].pc = "loaded"
  /\ Step(e, IF /\ NewLogo(e) => d.logo \in OwnLogos
                /\ Has(e, "categories") => CategoriesExist(d.categories)
             THEN [edit[e] EXCEPT !.pc = "checked",
                     !.entity = [c \in Columns |-> IF Has(e, c) THEN d[c] ELSE edit[e].entity[c]]]
             ELSE Idle)
  /\ UNCHANGED storeVars

Reread(e) ==
  /\ edit[e].pc = "checked"
  /\ Step(e, [edit[e] EXCEPT !.pc = "saving",
               !.diff = {c \in Columns : edit[e].entity[c] # venue[edit[e].venue][c]}])
  /\ UNCHANGED storeVars

\* Regression: an owner's save shows the venue again.
WrittenShown(e, r) ==
  [c \in Columns |-> IF c = "active" /\ edit[e].owner # None THEN TRUE
                     ELSE IF c \in edit[e].diff THEN edit[e].entity[c] ELSE r[c]]
Written(e, r) ==
  [c \in Columns |-> IF c \in edit[e].diff THEN edit[e].entity[c] ELSE r[c]]

\* The UPDATE, by id alone.  Of the request, only the old logo still matters.
Save(e) ==
  LET saved == [Idle EXCEPT !.pc = "saved", !.venue = edit[e].venue, !.old = edit[e].old] IN
  /\ edit[e].pc = "saving"
  /\ venue' = [venue EXCEPT ![edit[e].venue] = Written(e, @)]
  /\ StepWriting(e, IF NewLogo(e) THEN saved ELSE Idle,
                 {<<edit[e].venue, c>> : c \in edit[e].diff})
  /\ UNCHANGED <<category, file>>

\* Regression: nobody is asked.
ShownNever(e) == FALSE
Shown(e) == \E v \in Created : venue[v].logo = edit[e].old

LookForOthers(e) ==
  /\ edit[e].pc = "saved"
  /\ Step(e, [edit[e] EXCEPT !.pc = "cleaning", !.shared = Shown(e)])
  /\ UNCHANGED storeVars

\* To delete a file that is not there does nothing.
CleanUp(e) ==
  /\ edit[e].pc = "cleaning"
  /\ file' = [file EXCEPT ![edit[e].old] =
                IF edit[e].shared \/ edit[e].old \notin OwnLogos \/ @ # "stored" THEN @
                ELSE "deleted"]
  /\ Step(e, Idle)
  /\ UNCHANGED <<venue, category>>

\* The save fails (409 on the slug), Cloudinary does, or the app stops.
Fail(e) ==
  /\ edit[e].pc # "idle"
  /\ Step(e, Idle)
  /\ UNCHANGED storeVars

EditStep(e) ==
  CheckNew(e) \/ Load(e) \/ Check(e) \/ Reread(e) \/ Save(e) \/ LookForOthers(e) \/ CleanUp(e) \/ Fail(e)

Next ==
  \/ \E l \in Logos : Upload(l)
  \/ \E k \in Categories : AddCategory(k) \/ RemoveCategory(k)
  \/ \E e \in Edits, v \in Venues, d \in Dtos :
       AskAsAdmin(e, v, d) \/ \E m \in Merchants : AskAsOwner(e, m, v, d)
  \/ \E e \in Edits, d \in NewDtos : AskToCreate(e, d)
  \/ \E e \in Edits, v \in Venues : Insert(e, v)
  \/ \E e \in Edits : EditStep(e)

Spec == Init /\ [][Next]_vars

-------------------------------------------------------------------------------
\* Every row, file and request holds what it can hold.
TypeOK ==
  /\ venue \in [Venues -> Row \cup {None}]
  /\ category \in [Categories -> {"unused", "there", "removed"}]
  /\ file \in [Logos -> {"unused", "stored", "deleted"}]
  /\ edit \in [Edits -> [pc : {"idle", "new", "inserting", "asked", "loaded", "checked", "saving", "saved", "cleaning"},
                         owner : Merchants \cup {None}, venue : Venues \cup {None},
                         dto : Dtos \cup NewDtos \cup {None}, entity : Row \cup {None},
                         old : Logos \cup {None}, diff : SUBSET Columns, shared : BOOLEAN,
                         touched : SUBSET (Venues \X Columns)]]

\* A made-up category id never sticks to a venue: whatever id one carries named a
\* category at some time.  (It may have been removed after the check: see README.)
NoMadeUpCategory ==
  \A v \in Created : \A k \in venue[v].categories : category[k] # "unused"

Deletes(e, l) ==
  /\ edit[e].pc = "cleaning" /\ edit'[e] # edit[e]
  /\ file[l] = "stored" /\ file'[l] = "deleted"

\* Many requests at a time, failed saves and clean-ups that never run: a venue loses
\* the file of its logo only if that logo was written after the exists() of the
\* request that deletes the file.
UntouchedLogosStay ==
  [][\A e \in Edits, l \in Logos : Deletes(e, l) =>
       \A v \in Created : venue[v].logo = l => <<v, "logo">> \in edit[e].touched]_vars

Saves(e, v) ==
  edit[e].pc = "saving" /\ edit'[e].pc # "saving" /\ edit[e].venue = v /\ venue' # venue

\* What this request may change, and wants to.
Sent(e, c) == Has(e, c) /\ (edit[e].owner = None \/ c \notin AdminColumns)

\* A column that no other request writes between the load and the save of a PATCH is
\* afterwards what was sent, or what it was, whatever happens to the others: so an
\* owner's PATCH can neither move nor show a venue unless another request has just
\* moved or hidden it.
ColumnsAreApart ==
  [][\A e \in Edits, v \in Venues : Saves(e, v) =>
       \A c \in Columns : <<v, c>> \notin edit[e].touched =>
         venue'[v][c] = IF Sent(e, c) THEN edit[e].dto[c] ELSE venue[v][c]]_vars

\* What an owner's PATCH changes was its merchant's when it was loaded, and is so
\* still unless another request has given the venue away since.
OwnersEditTheirOwn ==
  [][\A e \in Edits, v \in Venues : Saves(e, v) /\ edit[e].owner # None =>
       venue[v].merchant = edit[e].owner \/ <<v, "merchant">> \in edit[e].touched]_vars

\* What the comment in applyUpdate says: a file is deleted only if no other venue
\* shows it.
OnlyUnshownAreDeleted ==
  [][\A e \in Edits, l \in Logos : Deletes(e, l) => \A v \in Created : venue[v].logo # l]_vars

\* What the tests say: an owner's PATCH leaves alone what only administrators set,
\* whose the venue is and whether it is hidden.
AdminColumnsKept ==
  [][\A e \in Edits, v \in Venues : Saves(e, v) /\ edit[e].owner # None =>
       \A c \in AdminColumns : venue'[v][c] = venue[v][c]]_vars
===============================================================================
