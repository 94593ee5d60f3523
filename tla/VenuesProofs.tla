------------------------------ MODULE VenuesProofs -----------------------------
(***************************************************************************)
(* Theorems about the venues: how the administrators' and the owners'      *)
(* requests leave a storefront, for any venues, bodies and logos; and what *)
(* the split that made merchants and venues two tables keeps, for every    *)
(* database that meets the constraints of its schema.                      *)
(***************************************************************************)
EXTENDS Storefront, Migration, TLAPS

Posting == {"new", "inserting"}
Editing == {"loaded", "checked", "saving"}
Cleaning == {"saved", "cleaning"}
Stages == {"idle", "asked"} \cup Posting \cup Editing \cup Cleaning

\* What a step writes, as the requests note it.
Writes == SUBSET (Venues \X Columns)

Requests ==
  [pc : Stages, owner : Merchants \cup {None}, venue : Venues \cup {None},
   dto : Dtos \cup NewDtos \cup {None}, entity : Row \cup {None},
   old : Logos \cup {None}, diff : SUBSET Columns, shared : BOOLEAN, touched : Writes]

\* A POST has its body; a PATCH also a venue, which is there once it was loaded.
Consistent(x) ==
  /\ x.pc \in Posting => x.dto \in NewDtos
  /\ x.pc \in {"asked"} \cup Editing => x.venue \in Venues /\ x.dto \in Dtos
  /\ x.pc \in Editing => x.entity \in Row
  /\ x.pc \in Editing \cup Cleaning => x.venue \in Created /\ x.old \in Logos

Types == TypeOK /\ \A e \in Edits : Consistent(edit[e])

\* The ids a request is about to write were checked, or loaded from a venue.
Named(x) ==
  /\ x.pc = "inserting" => \A k \in x.dto.categories : category[k] # "unused"
  /\ x.pc \in Editing => \A k \in x.entity.categories : category[k] # "unused"

NamedInv == NoMadeUpCategory /\ \A e \in Edits : Named(edit[e])

\* In the columns that nobody else has written since, a request holds what its venue
\* holds (the venues being tab), but for what it was sent; and what its save is about to
\* leave alone is so already.
Apart(x, tab) ==
  x.pc \in Editing =>
    \A c \in Columns : <<x.venue, c>> \notin x.touched =>
      /\ x.entity[c] = IF x.pc # "loaded" /\ c \in DOMAIN x.dto THEN x.dto[c]
                       ELSE tab[x.venue][c]
      /\ x.pc = "saving" /\ c \notin x.diff => tab[x.venue][c] = x.entity[c]

\* An owner is not sent what only administrators set, and edits a venue of the owner's.
Owned(x, tab) ==
  x.owner # None =>
    /\ x.pc \in {"asked"} \cup Editing => DOMAIN x.dto \cap AdminColumns = {}
    /\ x.pc \in Editing =>
         tab[x.venue].merchant = x.owner \/ <<x.venue, "merchant">> \in x.touched

\* Once exists() has found no venue with the old logo, only a venue written since has it.
There(tab) == {v \in Venues : tab[v] # None}
Alone(x, tab) ==
  x.pc = "cleaning" /\ ~x.shared =>
    \A v \in There(tab) : tab[v].logo = x.old => <<v, "logo">> \in x.touched

Sound(x, tab) == Apart(x, tab) /\ Owned(x, tab) /\ Alone(x, tab)
ApartInv == \A e \in Edits : Sound(edit[e], venue)

\* A step changes no more than it writes.
Leaves(W) ==
  /\ \A v \in Created :
       v \in Created' /\ \A c \in Columns : <<v, c>> \notin W => venue'[v][c] = venue[v][c]
  /\ \A v \in Created' : v \notin Created => \A c \in Columns : <<v, c>> \in W

-------------------------------------------------------------------------------
(* Rows, bodies and requests.                                                *)

LEMMA RowFacts ==
  ASSUME NEW r \in Row
  PROVE  /\ r["merchant"] \in Merchants /\ r["active"] \in BOOLEAN /\ r["logo"] \in Logos
         /\ r["categories"] \in SUBSET Categories
         /\ DOMAIN r = Columns /\ r # None
BY StorefrontAssumption DEF Row, Columns

LEMMA DtoFacts ==
  ASSUME NEW d \in Dtos
  PROVE  /\ "logo" \in DOMAIN d => d["logo"] \in Logos
         /\ "categories" \in DOMAIN d => d["categories"] \in SUBSET Categories
         /\ d # None
<1>1. PICK r \in Row : \A c \in DOMAIN d : d[c] = r[c]
  BY StorefrontAssumption
<1>2. d # None
  BY StorefrontAssumption
<1> QED
  BY <1>1, <1>2, RowFacts

LEMMA NewDtoFacts ==
  ASSUME NEW d \in NewDtos
  PROVE  /\ d["merchant"] \in Merchants /\ d["logo"] \in Logos
         /\ d["categories"] \in SUBSET Categories /\ d # None
         /\ DOMAIN d = NewColumns
<1>1. PICK r \in Row : d = [c \in NewColumns |-> r[c]]
  BY StorefrontAssumption
<1>2. d["merchant"] = r["merchant"] /\ d["logo"] = r["logo"] /\ d["categories"] = r["categories"]
  BY <1>1 DEF NewColumns
<1>3. d # None
  BY StorefrontAssumption
<1>4. DOMAIN d = NewColumns
  BY <1>1
<1> QED
  BY <1>2, <1>3, <1>4, RowFacts

\* Object.assign makes a row of a row.
LEMMA AssignedIsRow ==
  ASSUME NEW r \in Row, NEW d \in Dtos
  PROVE  [c \in Columns |-> IF c \in DOMAIN d THEN d[c] ELSE r[c]] \in Row
<1>1. PICK q \in Row : \A c \in DOMAIN d : d[c] = q[c]
  BY StorefrontAssumption
<1> QED
  BY <1>1, RowFacts DEF Row, Columns

LEMMA InsertedIsRow ==
  ASSUME NEW d \in NewDtos
  PROVE  [c \in Columns |-> IF c \in NewColumns THEN d[c] ELSE TRUE] \in Row
BY NewDtoFacts DEF Row, Columns, NewColumns

LEMMA WrittenIsRow ==
  ASSUME NEW r \in Row, NEW e, edit[e].entity \in Row
  PROVE  Written(e, r) \in Row
BY RowFacts DEF Written, Row, Columns

LEMMA IdleFacts ==
  Idle \in Requests /\ Idle.pc = "idle" /\ Idle.owner = None /\ Idle.venue = None
BY DEF Idle, Requests, Stages, Writes

LEMMA RequestFacts ==
  ASSUME Types, NEW e \in Edits
  PROVE  edit[e] \in Requests /\ Consistent(edit[e])
BY DEF Types, TypeOK, Requests, Stages, Posting, Editing, Cleaning, Writes

LEMMA CreatedFacts ==
  ASSUME Types, NEW v \in Created
  PROVE  v \in Venues /\ venue[v] \in Row
BY DEF Types, TypeOK, Created

\* What others write changes nothing of a request but what it notes.
LEMMA NotedFacts ==
  ASSUME NEW x \in Requests, NEW W \in Writes
  PROVE  LET y == Noted(x, W) IN
         /\ y \in Requests /\ y.pc = x.pc /\ y.owner = x.owner /\ y.venue = x.venue
         /\ y.dto = x.dto /\ y.entity = x.entity /\ y.old = x.old
         /\ y.diff = x.diff /\ y.shared = x.shared
         /\ x.pc \in Relying => y.touched = x.touched \cup W
         /\ W = {} => y = x
<1>1. x.touched \cup W \in Writes
  BY DEF Requests, Writes
<1>2. [x EXCEPT !.touched = x.touched] = x
  BY DEF Requests
<1> QED
  BY <1>1, <1>2 DEF Noted, Requests

\* A request that writes nothing goes on as one that writes no columns.
LEMMA StepIsWriting ==
  ASSUME Types, NEW e \in Edits, NEW new, Step(e, new)
  PROVE  StepWriting(e, new, {})
<1>1. edit \in [Edits -> Requests] /\ {} \in Writes
  BY DEF Types, TypeOK, Requests, Stages, Posting, Editing, Cleaning, Writes
<1>2. \A f \in Edits : Noted(edit[f], {}) = edit[f]
  BY <1>1, NotedFacts
<1> QED
  BY <1>1, <1>2 DEF Step, StepWriting

LEMMA StepFacts ==
  ASSUME Types, NEW e \in Edits, NEW new \in Requests, NEW W \in Writes, StepWriting(e, new, W)
  PROVE  /\ edit' \in [Edits -> Requests] /\ edit'[e] = new
         /\ \A f \in Edits \ {e} : edit'[f] = Noted(edit[f], W)
<1>1. \A f \in Edits : Noted(edit[f], W) \in Requests
  BY RequestFacts, NotedFacts
<1> QED
  BY <1>1 DEF StepWriting

\* A venue that was there is there.
LEMMA ConsistentStays ==
  ASSUME NEW x, Consistent(x), \A v \in Created : v \in Created'
  PROVE  (x.pc \in Posting => x.dto \in NewDtos)
         /\ (x.pc \in {"asked"} \cup Editing => x.venue \in Venues /\ x.dto \in Dtos)
         /\ (x.pc \in Editing => x.entity \in Row)
         /\ (x.pc \in Editing \cup Cleaning => x.venue \in Created' /\ x.old \in Logos)
BY DEF Consistent

\* A request goes on, and the tables keep their types.
LEMMA TypesStay ==
  ASSUME Types, NEW e \in Edits, NEW new \in Requests, NEW W \in Writes,
         StepWriting(e, new, W), Consistent(new),
         venue' \in [Venues -> Row \cup {None}], \A v \in Created : v \in Created',
         category' = category, file' \in [Logos -> {"unused", "stored", "deleted"}]
  PROVE  Types'
<1>1. edit' \in [Edits -> Requests]
  BY StepFacts
<1>2. TypeOK'
  BY <1>1 DEF Types, TypeOK, Requests, Stages, Posting, Editing, Cleaning, Writes
<1>3. ASSUME NEW f \in Edits PROVE Consistent(edit[f])'
  <2>1. PICK x : x = edit'[f] /\ Consistent(x)
    <3>1. CASE f = e
      BY <3>1, StepFacts
    <3>2. CASE f # e
      <4>1. edit'[f] = Noted(edit[f], W) /\ edit[f] \in Requests /\ Consistent(edit[f])
        BY <3>2, StepFacts, RequestFacts
      <4> QED
        BY <4>1, NotedFacts DEF Consistent
    <3> QED
      BY <3>1, <3>2
  <2> QED
    BY <2>1, ConsistentStays DEF Consistent
<1> QED
  BY <1>2, <1>3 DEF Types

\* It goes on and writes nothing.
LEMMA TypesPass ==
  ASSUME Types, NEW e \in Edits, NEW new \in Requests, Step(e, new), Consistent(new),
         UNCHANGED storeVars
  PROVE  Types'
<1>1. UNCHANGED <<venue, category, file>>
  BY DEF storeVars
<1>2. \A v \in Created : v \in Created'
  BY <1>1 DEF Created
<1>3. venue' \in [Venues -> Row \cup {None}] /\ file' \in [Logos -> {"unused", "stored", "deleted"}]
  BY <1>1 DEF Types, TypeOK
<1>4. StepWriting(e, new, {}) /\ {} \in Writes
  BY StepIsWriting DEF Writes
<1> QED
  BY <1>1, <1>2, <1>3, <1>4, TypesStay

-------------------------------------------------------------------------------
(* Types.                                                                    *)

LEMMA TypesInit == Init => Types
<1> SUFFICES ASSUME Init PROVE Types
  OBVIOUS
<1>1. venue \in [Venues -> Row \cup {None}]
  BY DEF Init
<1>2. edit \in [Edits -> Requests] /\ \A e \in Edits : edit[e] = Idle
  BY IdleFacts DEF Init
<1>3. TypeOK
  BY <1>1, <1>2 DEF Init, TypeOK, Requests, Stages, Posting, Editing, Cleaning, Writes
<1>4. \A e \in Edits : Consistent(edit[e])
  BY <1>2, IdleFacts DEF Consistent, Posting, Editing, Cleaning
<1> QED
  BY <1>3, <1>4 DEF Types

\* Others than the requests write.
OthersStep ==
  \/ \E l \in Logos : Upload(l)
  \/ \E k \in Categories : AddCategory(k) \/ RemoveCategory(k)

\* They leave the requests but what those note, and of a venue all but its categories.
LEMMA OthersEffects ==
  ASSUME Types, OthersStep
  PROVE  /\ \E W \in Writes : Leaves(W) /\ edit' = [e \in Edits |-> Noted(edit[e], W)]
         /\ Created' = Created /\ venue' \in [Venues -> Row \cup {None}]
         /\ \A v \in Created : venue'[v]["categories"] \subseteq venue[v]["categories"]
         /\ \A k \in Categories : category[k] # "unused" => category'[k] # "unused"
         /\ \A l \in Logos : file'[l] = "deleted" => file[l] = "deleted"
<1>1. CASE \E k \in Categories : RemoveCategory(k)
  <2>1. PICK k \in Categories : RemoveCategory(k)
    BY <1>1
  <2> DEFINE W == {<<v, "categories">> : v \in {w \in Created : k \in venue[w].categories}}
  <2>2. /\ venue' = [v \in Venues |-> IF v \in Created
                       THEN [venue[v] EXCEPT !.categories = venue[v].categories \ {k}] ELSE None]
        /\ category' = [category EXCEPT ![k] = "removed"] /\ file' = file
        /\ edit' = [e \in Edits |-> Noted(edit[e], W)]
    BY <2>1 DEF RemoveCategory
  <2>w. W \in Writes
    BY DEF Writes, Created, Columns
  <2>3. ASSUME NEW v \in Created
        PROVE  /\ venue'[v] \in Row
               /\ \A c \in Columns : <<v, c>> \notin W => venue'[v][c] = venue[v][c]
               /\ venue'[v]["categories"] \subseteq venue[v]["categories"]
    <3>1. v \in Venues /\ venue[v] \in Row
      BY CreatedFacts
    <3>2. venue'[v] = [venue[v] EXCEPT !.categories = venue[v].categories \ {k}]
      BY <2>2, <3>1
    <3>3. /\ venue'[v] \in Row /\ \A c \in Columns \ {"categories"} : venue'[v][c] = venue[v][c]
          /\ venue'[v]["categories"] = venue[v]["categories"] \ {k}
      BY <3>1, <3>2 DEF Row, Columns
    <3>4. <<v, "categories">> \notin W => k \notin venue[v]["categories"]
      OBVIOUS
    <3> QED
      BY <3>3, <3>4
  <2>4. \A v \in Venues : v \notin Created => venue'[v] = None
    BY <2>2
  <2>5. Created' = Created
    BY <2>3, <2>4, RowFacts, CreatedFacts DEF Created
  <2>6. venue' \in [Venues -> Row \cup {None}]
    BY <2>2, <2>3, <2>4
  <2> HIDE DEF W
  <2>7. Leaves(W)
    BY <2>3, <2>5 DEF Leaves
  <2> QED
    BY <2>2, <2>w, <2>3, <2>5, <2>6, <2>7 DEF Types, TypeOK
<1>2. CASE ~ \E k \in Categories : RemoveCategory(k)
  <2>1. UNCHANGED <<venue, edit>>
    BY <1>2 DEF OthersStep, Upload, AddCategory
  <2>2. \A l \in Logos : file'[l] = "deleted" => file[l] = "deleted"
    BY <1>2 DEF OthersStep, Upload, AddCategory, Types, TypeOK
  <2>3. \A k \in Categories : category[k] # "unused" => category'[k] # "unused"
    BY <1>2 DEF OthersStep, Upload, AddCategory, Types, TypeOK
  <2>4. Created' = Created /\ Leaves({}) /\ {} \in Writes
    BY <2>1 DEF Created, Leaves, Writes
  <2>5. edit' = [e \in Edits |-> Noted(edit[e], {})]
    <3>1. edit \in [Edits -> Requests]
      BY DEF Types, TypeOK, Requests, Stages, Posting, Editing, Cleaning, Writes
    <3>2. \A e \in Edits : Noted(edit[e], {}) = edit[e]
      BY <2>4, <3>1, NotedFacts
    <3> QED
      BY <2>1, <3>1, <3>2
  <2> QED
    BY <2>1, <2>2, <2>3, <2>4, <2>5 DEF Types, TypeOK
<1> QED
  BY <1>1, <1>2

LEMMA OthersKeepTypes == ASSUME Types, OthersStep PROVE Types'
<1>1. Created' = Created /\ venue' \in [Venues -> Row \cup {None}]
  BY OthersEffects
<1>2. /\ category' \in [Categories -> {"unused", "there", "removed"}]
      /\ file' \in [Logos -> {"unused", "stored", "deleted"}]
  BY DEF OthersStep, Upload, AddCategory, RemoveCategory, Types, TypeOK
<1>3. PICK W \in Writes : edit' = [e \in Edits |-> Noted(edit[e], W)]
  BY OthersEffects
<1>4. \A e \in Edits : edit'[e] \in Requests /\ Consistent(edit'[e])
  BY <1>3, RequestFacts, NotedFacts DEF Consistent
<1>5. TypeOK'
  BY <1>1, <1>2, <1>3, <1>4 DEF TypeOK, Requests, Stages, Posting, Editing, Cleaning, Writes
<1>6. \A e \in Edits : Consistent(edit[e])'
  BY <1>1, <1>4 DEF Consistent
<1> QED
  BY <1>5, <1>6 DEF Types

\* A PATCH comes in, of an owner or (None) of an administrator.
AskedAs(o, v, d) == [Idle EXCEPT !.pc = "asked", !.owner = o, !.venue = v, !.dto = d]
AskAs(e, o, v, d) ==
  /\ Step(e, AskedAs(o, v, d)) /\ UNCHANGED storeVars
  /\ o # None => DOMAIN d \cap AdminColumns = {}

LEMMA AskedFacts ==
  ASSUME NEW v \in Venues, NEW d \in Dtos, NEW o \in Merchants \cup {None}
  PROVE  LET x == AskedAs(o, v, d) IN
         x \in Requests /\ x.pc = "asked" /\ x.owner = o /\ x.venue = v /\ x.dto = d
BY IdleFacts DEF AskedAs, Requests, Stages, Editing, Cleaning, Writes

LEMMA AskKeepsTypes ==
  ASSUME Types, NEW e \in Edits, NEW v \in Venues, NEW d \in Dtos,
         NEW o \in Merchants \cup {None}, AskAs(e, o, v, d)
  PROVE  Types'
<1> DEFINE x == AskedAs(o, v, d)
<1>1. x \in Requests /\ x.pc = "asked" /\ x.venue = v /\ x.dto = d
  BY AskedFacts
<1>2. Step(e, x) /\ UNCHANGED storeVars
  BY DEF AskAs
<1> HIDE DEF x
<1>3. Consistent(x)
  BY <1>1 DEF Consistent, Posting, Editing, Cleaning
<1> QED
  BY <1>1, <1>2, <1>3, TypesPass

\* A POST comes in.
LEMMA NewFacts ==
  ASSUME NEW d \in NewDtos
  PROVE  LET x == [Idle EXCEPT !.pc = "new", !.dto = d] IN
         x \in Requests /\ x.pc = "new" /\ x.owner = None /\ x.dto = d
BY IdleFacts DEF Requests, Stages, Posting, Writes

LEMMA AskToCreateKeepsTypes ==
  ASSUME Types, NEW e \in Edits, NEW d \in NewDtos, AskToCreate(e, d)
  PROVE  Types'
<1>1. PICK x \in Requests : x.pc = "new" /\ x.dto = d /\ Step(e, x) /\ UNCHANGED storeVars
  BY NewFacts DEF AskToCreate
<1>2. Consistent(x)
  BY <1>1 DEF Consistent, Posting, Editing, Cleaning
<1> QED
  BY <1>1, <1>2, TypesPass

LEMMA IdleConsistent == Consistent(Idle)
BY IdleFacts DEF Consistent, Posting, Editing, Cleaning

\* A step that writes nothing ends the request or takes it to its next stage.
QuietStep(e) ==
  CheckNew(e) \/ Load(e) \/ Check(e) \/ Reread(e) \/ LookForOthers(e) \/ Fail(e)

Proceeds(e, new) ==
  /\ new.dto = edit[e].dto /\ new.venue = edit[e].venue /\ new.owner = edit[e].owner
  /\ \/ /\ edit[e].pc = "new" /\ new.pc = "inserting"
        /\ CategoriesExist(new.dto.categories)
     \/ /\ edit[e].pc = "asked" /\ new.pc = "loaded"
        /\ MayEdit(e) /\ new.entity = venue[new.venue]
     \/ /\ edit[e].pc = "loaded" /\ new.pc = "checked"
        /\ Has(e, "categories") => CategoriesExist(new.dto.categories)
        /\ \A c \in Columns :
             new.entity[c] = IF Has(e, c) THEN new.dto[c] ELSE edit[e].entity[c]
        /\ new.touched = edit[e].touched
     \/ /\ edit[e].pc = "checked" /\ new.pc = "saving"
        /\ new.entity = edit[e].entity /\ new.touched = edit[e].touched
        /\ \A c \in Columns : c \notin new.diff => venue[new.venue][c] = new.entity[c]
     \/ /\ edit[e].pc = "saved" /\ new.pc = "cleaning"
        /\ new.shared = Shown(e) /\ new.old = edit[e].old

LEMMA QuietEffects ==
  ASSUME Types, NEW e \in Edits, QuietStep(e)
  PROVE  \E new \in Requests :
           /\ Step(e, new) /\ UNCHANGED storeVars /\ Consistent(new)
           /\ new = Idle \/ Proceeds(e, new)
<1> DEFINE Goal == \E new \in Requests :
                     /\ Step(e, new) /\ UNCHANGED storeVars /\ Consistent(new)
                     /\ new = Idle \/ Proceeds(e, new)
<1>0. edit[e] \in Requests /\ Consistent(edit[e])
  BY RequestFacts
<1>1. ASSUME Step(e, Idle), UNCHANGED storeVars PROVE Goal
  BY <1>1, IdleFacts, IdleConsistent
<1>2. ASSUME NEW new \in Requests, Step(e, new), UNCHANGED storeVars, Consistent(new),
             Proceeds(e, new)
      PROVE  Goal
  BY <1>2
<1> SUFFICES Goal
  OBVIOUS
<1> HIDE DEF Goal
<1>3. CASE CheckNew(e)
  <2> DEFINE new == [edit[e] EXCEPT !.pc = "inserting"]
  <2>1. /\ UNCHANGED storeVars /\ edit[e].pc = "new"
        /\ (Step(e, new) /\ CategoriesExist(edit[e].dto.categories)) \/ Step(e, Idle)
    BY <1>3 DEF CheckNew
  <2>2. /\ new \in Requests /\ new.pc = "inserting" /\ new.dto = edit[e].dto
        /\ new.venue = edit[e].venue /\ new.owner = edit[e].owner
    BY <1>0 DEF Requests, Stages, Posting, Writes
  <2> HIDE DEF new
  <2>3. Consistent(new)
    BY <1>0, <2>1, <2>2 DEF Consistent, Posting, Editing, Cleaning
  <2>4. CategoriesExist(edit[e].dto.categories) => Proceeds(e, new)
    BY <2>1, <2>2 DEF Proceeds
  <2> QED
    BY <1>1, <1>2, <2>1, <2>2, <2>3, <2>4
<1>4. CASE Load(e)
  <2> DEFINE r == venue[edit[e].venue]
             new == [edit[e] EXCEPT !.pc = "loaded", !.entity = r, !.old = r.logo]
  <2>1. /\ UNCHANGED storeVars /\ edit[e].pc = "asked"
        /\ (MayEdit(e) /\ Step(e, new)) \/ Step(e, Idle)
    BY <1>4 DEF Load
  <2>2. CASE Step(e, Idle)
    BY <1>1, <2>1, <2>2
  <2>3. CASE MayEdit(e) /\ Step(e, new)
    <3>1. edit[e].venue \in Created /\ r \in Row /\ r.logo \in Logos
      BY <2>3, CreatedFacts, RowFacts DEF MayEdit
    <3>2. /\ new \in Requests /\ new.pc = "loaded" /\ new.dto = edit[e].dto
          /\ new.venue = edit[e].venue /\ new.owner = edit[e].owner /\ new.entity = r
          /\ new.old = r.logo
      BY <1>0, <3>1 DEF Requests, Stages, Editing, Cleaning, Writes
    <3>3. new.entity = venue[new.venue]
      BY <3>2
    <3> HIDE DEF new, r
    <3>4. Consistent(new)
      BY <1>0, <2>1, <3>1, <3>2 DEF Consistent, Posting, Editing, Cleaning
    <3>5. Proceeds(e, new)
      BY <2>1, <2>3, <3>2, <3>3 DEF Proceeds
    <3> QED
      BY <1>2, <2>1, <2>3, <3>2, <3>4, <3>5
  <2> QED
    BY <2>1, <2>2, <2>3
<1>5. CASE Check(e)
  <2> DEFINE d == edit[e].dto
             to == [c \in Columns |-> IF Has(e, c) THEN d[c] ELSE edit[e].entity[c]]
             new == [edit[e] EXCEPT !.pc = "checked", !.entity = to]
  <2>1. /\ UNCHANGED storeVars /\ edit[e].pc = "loaded"
        /\ \/ Step(e, new) /\ (Has(e, "categories") => CategoriesExist(d.categories))
           \/ Step(e, Idle)
    BY <1>5 DEF Check
  <2>2. d \in Dtos /\ edit[e].entity \in Row /\ edit[e].venue \in Created /\ edit[e].old \in Logos
    BY <1>0, <2>1 DEF Consistent, Editing, Cleaning
  <2>3. to \in Row
    BY <2>2, AssignedIsRow DEF Has
  <2>4. \A c \in Columns : to[c] = IF Has(e, c) THEN d[c] ELSE edit[e].entity[c]
    OBVIOUS
  <2> HIDE DEF to
  <2>5. /\ new \in Requests /\ new.pc = "checked" /\ new.dto = d
        /\ new.venue = edit[e].venue /\ new.owner = edit[e].owner /\ new.entity = to
        /\ new.old = edit[e].old /\ new.touched = edit[e].touched
    BY <1>0, <2>3 DEF Requests, Stages, Editing, Cleaning, Writes
  <2> HIDE DEF new
  <2>6. Consistent(new)
    BY <2>2, <2>3, <2>5 DEF Consistent, Posting, Editing, Cleaning, Created
  <2>7. (Has(e, "categories") => CategoriesExist(d.categories)) => Proceeds(e, new)
    BY <2>1, <2>4, <2>5 DEF Proceeds
  <2> QED
    BY <1>1, <1>2, <2>1, <2>5, <2>6, <2>7
<1>6. CASE Reread(e)
  <2> DEFINE diff == {c \in Columns : edit[e].entity[c] # venue[edit[e].venue][c]}
             new == [edit[e] EXCEPT !.pc = "saving", !.diff = diff]
  <2>1. UNCHANGED storeVars /\ edit[e].pc = "checked" /\ Step(e, new)
    BY <1>6 DEF Reread
  <2>2. /\ diff \in SUBSET Columns
        /\ \A c \in Columns : c \notin diff => venue[edit[e].venue][c] = edit[e].entity[c]
    OBVIOUS
  <2> HIDE DEF diff
  <2>3. /\ new \in Requests /\ new.pc = "saving" /\ new.dto = edit[e].dto
        /\ new.venue = edit[e].venue /\ new.owner = edit[e].owner
        /\ new.entity = edit[e].entity /\ new.old = edit[e].old
        /\ new.diff = diff /\ new.touched = edit[e].touched
    BY <1>0, <2>2 DEF Requests, Stages, Editing, Cleaning, Writes
  <2> HIDE DEF new
  <2>4. Consistent(new)
    BY <1>0, <2>1, <2>3 DEF Consistent, Posting, Editing, Cleaning
  <2>5. Proceeds(e, new)
    BY <2>1, <2>2, <2>3 DEF Proceeds
  <2> QED
    BY <1>2, <2>1, <2>3, <2>4, <2>5
<1>7. CASE LookForOthers(e)
  <2> DEFINE shown == Shown(e)
             new == [edit[e] EXCEPT !.pc = "cleaning", !.shared = shown]
  <2>1. UNCHANGED storeVars /\ edit[e].pc = "saved" /\ Step(e, new)
    BY <1>7 DEF LookForOthers
  <2>2. shown \in BOOLEAN
    BY DEF Shown
  <2>3. /\ new \in Requests /\ new.pc = "cleaning" /\ new.dto = edit[e].dto
        /\ new.venue = edit[e].venue /\ new.owner = edit[e].owner
        /\ new.entity = edit[e].entity /\ new.old = edit[e].old /\ new.shared = shown
    <3> HIDE DEF shown
    <3> QED
      BY <1>0, <2>2 DEF Requests, Stages, Editing, Cleaning, Writes
  <2> HIDE DEF new
  <2>4. Consistent(new)
    BY <1>0, <2>1, <2>3 DEF Consistent, Posting, Editing, Cleaning
  <2>5. Proceeds(e, new)
    BY <2>1, <2>3 DEF Proceeds
  <2> QED
    BY <1>2, <2>1, <2>3, <2>4, <2>5
<1>8. CASE Fail(e)
  BY <1>1, <1>8 DEF Fail
<1> QED
  BY <1>3, <1>4, <1>5, <1>6, <1>7, <1>8 DEF QuietStep

LEMMA QuietStepKeepsTypes == ASSUME Types, NEW e \in Edits, QuietStep(e) PROVE Types'
BY QuietEffects, TypesPass

\* A venue is written: by a POST, or by a PATCH that looks after its old logo next.
LEMMA InsertEffects ==
  ASSUME Types, NEW e \in Edits, NEW v \in Venues, Insert(e, v)
  PROVE  /\ edit[e].pc = "inserting" /\ edit[e].dto \in NewDtos /\ v \notin Created
         /\ \A u \in Venues \ {v} : venue'[u] = venue[u]
         /\ venue'[v] = [c \in Columns |-> IF c \in NewColumns THEN edit[e].dto[c] ELSE TRUE]
         /\ venue'[v] \in Row /\ venue' \in [Venues -> Row \cup {None}]
         /\ Created' = Created \cup {v}
         /\ \E W \in Writes : Leaves(W) /\ StepWriting(e, Idle, W)
<1>1. /\ edit[e].pc = "inserting" /\ v \notin Created
      /\ venue' = [venue EXCEPT ![v] = [c \in Columns |-> IF c \in NewColumns THEN edit[e].dto[c]
                                                           ELSE TRUE]]
  BY DEF Insert
<1>2. edit[e].dto \in NewDtos
  BY <1>1, RequestFacts DEF Consistent, Posting, Editing, Cleaning
<1>3. /\ venue'[v] = [c \in Columns |-> IF c \in NewColumns THEN edit[e].dto[c] ELSE TRUE]
      /\ \A u \in Venues \ {v} : venue'[u] = venue[u]
  BY <1>1 DEF Types, TypeOK
<1>4. venue'[v] \in Row
  BY <1>2, <1>3, InsertedIsRow
<1>5. venue' \in [Venues -> Row \cup {None}]
  BY <1>1, <1>3, <1>4 DEF Types, TypeOK
<1>6. Created' = Created \cup {v}
  BY <1>3, <1>4, RowFacts DEF Created
<1> DEFINE W == {<<v, c>> : c \in Columns}
<1>7. W \in Writes /\ Leaves(W)
  BY <1>3, <1>6, CreatedFacts DEF Writes, Leaves
<1>8. StepWriting(e, Idle, W)
  BY DEF Insert
<1> QED
  BY <1>1, <1>2, <1>3, <1>4, <1>5, <1>6, <1>7, <1>8

LEMMA InsertKeepsTypes ==
  ASSUME Types, NEW e \in Edits, NEW v \in Venues, Insert(e, v)
  PROVE  Types'
<1>1. venue' \in [Venues -> Row \cup {None}] /\ \A u \in Created : u \in Created'
  BY InsertEffects
<1>2. category' = category /\ file' = file
  BY DEF Insert
<1>4. PICK W \in Writes : StepWriting(e, Idle, W)
  BY InsertEffects
<1>3. file' \in [Logos -> {"unused", "stored", "deleted"}]
  BY <1>2 DEF Types, TypeOK
<1> QED
  BY <1>1, <1>2, <1>3, <1>4, IdleFacts, IdleConsistent, TypesStay

LEMMA SaveEffects ==
  ASSUME Types, NEW e \in Edits, Save(e)
  PROVE  LET v == edit[e].venue IN
         /\ edit[e].pc = "saving" /\ v \in Created /\ edit[e].entity \in Row
         /\ \A u \in Venues \ {v} : venue'[u] = venue[u]
         /\ \A c \in Columns :
              venue'[v][c] = IF c \in edit[e].diff THEN edit[e].entity[c] ELSE venue[v][c]
         /\ venue'[v] \in Row /\ venue' \in [Venues -> Row \cup {None}]
         /\ Created' = Created
<1> DEFINE v == edit[e].venue
<1>1. /\ edit[e].pc = "saving"
      /\ venue' = [venue EXCEPT ![v] = Written(e, venue[v])]
  BY DEF Save
<1>2. v \in Created /\ v \in Venues /\ edit[e].entity \in Row /\ venue[v] \in Row
  BY <1>1, RequestFacts, CreatedFacts DEF Consistent, Editing, Cleaning
<1> HIDE DEF v
<1>3. venue'[v] = Written(e, venue[v]) /\ \A u \in Venues \ {v} : venue'[u] = venue[u]
  BY <1>1, <1>2 DEF Types, TypeOK
<1>4. venue'[v] \in Row
  BY <1>2, <1>3, WrittenIsRow
<1>5. venue' \in [Venues -> Row \cup {None}]
  BY <1>1, <1>3, <1>4 DEF Types, TypeOK
<1>6. Created' = Created
  BY <1>2, <1>3, <1>4, RowFacts DEF Created
<1>7. \A c \in Columns :
        venue'[v][c] = IF c \in edit[e].diff THEN edit[e].entity[c] ELSE venue[v][c]
  BY <1>3 DEF Written
<1> QED
  BY <1>1, <1>2, <1>3, <1>4, <1>5, <1>6, <1>7 DEF v

\* The request is then over, or looks after the old logo.
LEMMA SavedFacts ==
  ASSUME Types, NEW e \in Edits, Save(e)
  PROVE  /\ UNCHANGED <<category, file>>
         /\ \E new \in Requests, W \in Writes :
              /\ Leaves(W) /\ StepWriting(e, new, W) /\ Consistent(new)
              /\ new.pc \in {"idle", "saved"} /\ new.owner = None
<1> DEFINE new == [Idle EXCEPT !.pc = "saved", !.venue = edit[e].venue, !.old = edit[e].old]
           W == {<<edit[e].venue, c>> : c \in edit[e].diff}
<1>0. edit[e] \in Requests /\ Consistent(edit[e])
  BY RequestFacts
<1>1. /\ edit[e].pc = "saving" /\ (StepWriting(e, new, W) \/ StepWriting(e, Idle, W))
      /\ UNCHANGED <<category, file>>
  BY DEF Save
<1>2. edit[e].venue \in Created /\ edit[e].venue \in Venues /\ edit[e].old \in Logos
      /\ edit[e].diff \subseteq Columns
  BY <1>0, <1>1 DEF Consistent, Editing, Requests
<1>3. /\ new \in Requests /\ new.pc = "saved" /\ new.owner = None
      /\ new.venue = edit[e].venue /\ new.old = edit[e].old
  BY <1>2, IdleFacts DEF Requests, Stages, Cleaning
<1>4. W \in Writes
  BY <1>2 DEF Writes
<1>5. ASSUME NEW v \in Created, NEW c \in Columns, <<v, c>> \notin W
      PROVE  venue'[v][c] = venue[v][c]
  <2>1. v \in Venues
    BY CreatedFacts
  <2>2. v # edit[e].venue \/ c \notin edit[e].diff
    BY <1>5
  <2> QED
    BY <2>1, <2>2, SaveEffects
<1> HIDE DEF new, W
<1>6. Leaves(W)
  BY <1>5, SaveEffects DEF Leaves
<1>7. Consistent(new)
  BY <1>2, <1>3 DEF Consistent, Posting, Editing, Cleaning
<1> QED
  BY <1>1, <1>3, <1>4, <1>6, <1>7, IdleFacts, IdleConsistent

LEMMA SaveKeepsTypes == ASSUME Types, NEW e \in Edits, Save(e) PROVE Types'
<1>1. venue' \in [Venues -> Row \cup {None}] /\ \A u \in Created : u \in Created'
  BY SaveEffects
<1>2. category' = category /\ file' \in [Logos -> {"unused", "stored", "deleted"}]
  BY SavedFacts DEF Types, TypeOK
<1> QED
  BY <1>1, <1>2, SavedFacts, TypesStay

\* A clean-up deletes the old logo, or nothing.
LEMMA CleanUpEffects ==
  ASSUME Types, NEW e \in Edits, CleanUp(e)
  PROVE  /\ edit[e].pc = "cleaning" /\ Step(e, Idle) /\ UNCHANGED <<venue, category>>
         /\ file' \in [Logos -> {"unused", "stored", "deleted"}]
         /\ \A l \in Logos : file'[l] # file[l] => ~edit[e].shared /\ l = edit[e].old
BY DEF CleanUp, Types, TypeOK

LEMMA CleanUpKeepsTypes == ASSUME Types, NEW e \in Edits, CleanUp(e) PROVE Types'
<1>1. venue' \in [Venues -> Row \cup {None}] /\ \A u \in Created : u \in Created'
  BY CleanUpEffects DEF Types, TypeOK, Created
<1>2. StepWriting(e, Idle, {}) /\ {} \in Writes
  BY CleanUpEffects, StepIsWriting DEF Writes
<1> QED
  BY <1>1, <1>2, CleanUpEffects, IdleFacts, IdleConsistent, TypesStay

\* The steps there are, for each invariant.
LEMMA Steps ==
  ASSUME Next
  PROVE  \/ OthersStep
         \/ \E e \in Edits, v \in Venues, d \in Dtos, o \in Merchants \cup {None} : AskAs(e, o, v, d)
         \/ \E e \in Edits, d \in NewDtos : AskToCreate(e, d)
         \/ \E e \in Edits, v \in Venues : Insert(e, v)
         \/ \E e \in Edits : QuietStep(e) \/ Save(e) \/ CleanUp(e)
<1>1. ASSUME NEW e \in Edits, NEW v \in Venues, NEW d \in Dtos, AskAsAdmin(e, v, d)
      PROVE  AskAs(e, None, v, d)
  <2>1. ASSUME NEW x \in Requests, x.owner = None
        PROVE  [x EXCEPT !.pc = "asked", !.venue = v, !.dto = d] =
                 [x EXCEPT !.pc = "asked", !.owner = None, !.venue = v, !.dto = d]
    BY <2>1 DEF Requests
  <2>2. [Idle EXCEPT !.pc = "asked", !.venue = v, !.dto = d] = AskedAs(None, v, d)
    BY <2>1, IdleFacts DEF AskedAs
  <2> QED
    BY <1>1, <2>2 DEF AskAsAdmin, AskAs
<1>2. ASSUME NEW e \in Edits, NEW v \in Venues, NEW d \in Dtos, NEW m \in Merchants,
             AskAsOwner(e, m, v, d)
      PROVE  AskAs(e, m, v, d)
  BY <1>2 DEF AskAsOwner, AskAs, AskedAs
<1> QED
  BY <1>1, <1>2 DEF Next, OthersStep, EditStep, QuietStep

LEMMA TypesNext == Types /\ [Next]_vars => Types'
<1> SUFFICES ASSUME Types, [Next]_vars PROVE Types'
  OBVIOUS
<1>1. CASE UNCHANGED vars
  BY <1>1 DEF vars, storeVars, Types, TypeOK, Consistent, Created
<1>2. CASE Next
  <2>1. CASE OthersStep
    BY <2>1, OthersKeepTypes
  <2>2. ASSUME NEW e \in Edits, NEW v \in Venues, NEW d \in Dtos,
               NEW o \in Merchants \cup {None}, AskAs(e, o, v, d)
        PROVE  Types'
    BY <2>2, AskKeepsTypes
  <2>3. ASSUME NEW e \in Edits, NEW d \in NewDtos, AskToCreate(e, d) PROVE Types'
    BY <2>3, AskToCreateKeepsTypes
  <2>4. ASSUME NEW e \in Edits, NEW v \in Venues, Insert(e, v) PROVE Types'
    BY <2>4, InsertKeepsTypes
  <2>5. ASSUME NEW e \in Edits, QuietStep(e) PROVE Types'
    BY <2>5, QuietStepKeepsTypes
  <2>6. ASSUME NEW e \in Edits, Save(e) \/ CleanUp(e) PROVE Types'
    BY <2>6, SaveKeepsTypes, CleanUpKeepsTypes
  <2> QED
    BY <1>2, <2>1, <2>2, <2>3, <2>4, <2>5, <2>6, Steps
<1> QED
  BY <1>1, <1>2

LEMMA TypesHold == Spec => []Types
BY TypesInit, TypesNext, PTL DEF Spec

\* Every row, file and request holds what it can hold: a venue that requests assigned
\* and saved column by column is a whole row again.
THEOREM VenueTypesHold == Spec => []TypeOK
<1>1. Types => TypeOK
  BY DEF Types
<1> QED
  BY <1>1, TypesHold, PTL

-------------------------------------------------------------------------------
(* Categories.                                                               *)

\* A request goes on, and venues carry ids there were.
LEMMA NamedStay ==
  ASSUME Types, NamedInv, NEW e \in Edits, NEW new \in Requests, NEW W \in Writes,
         StepWriting(e, new, W), Consistent(new),
         Named(new), \A k \in Categories : category[k] # "unused" => category'[k] # "unused",
         \A v \in Created' : \A k \in venue'[v].categories :
           k \in Categories /\ category[k] # "unused"
  PROVE  NamedInv'
<1>1. \A v \in Created' : \A k \in venue'[v].categories : category'[k] # "unused"
  OBVIOUS
<1>2. ASSUME NEW f \in Edits PROVE Named(edit[f])'
  <2>2. PICK x : x = edit'[f] /\ Named(x) /\ Consistent(x)
    <3>1. CASE f = e
      BY <3>1, StepFacts
    <3>2. CASE f # e
      <4>1. /\ edit'[f] = Noted(edit[f], W) /\ edit[f] \in Requests /\ Consistent(edit[f])
            /\ Named(edit[f])
        BY <3>2, StepFacts, RequestFacts DEF NamedInv
      <4> QED
        BY <4>1, NotedFacts DEF Consistent, Named
    <3> QED
      BY <3>1, <3>2
  <2>3. x.pc = "inserting" => x.dto["categories"] \in SUBSET Categories
    BY <2>2, NewDtoFacts DEF Consistent, Posting
  <2>4. x.pc \in Editing => x.entity["categories"] \in SUBSET Categories
    BY <2>2, RowFacts DEF Consistent
  <2>5. /\ x.pc = "inserting" => \A k \in x.dto.categories : category'[k] # "unused"
        /\ x.pc \in Editing => \A k \in x.entity.categories : category'[k] # "unused"
    BY <2>2, <2>3, <2>4 DEF Named
  <2> QED
    BY <2>2, <2>5 DEF Named
<1> QED
  BY <1>1, <1>2 DEF NamedInv, NoMadeUpCategory

\* What venues carry are categories there were.
LEMMA VenuesNamed ==
  ASSUME Types, NamedInv
  PROVE  \A v \in Created : \A k \in venue[v].categories : k \in Categories /\ category[k] # "unused"
BY CreatedFacts, RowFacts DEF NamedInv, NoMadeUpCategory

LEMMA NamedPass ==
  ASSUME Types, NamedInv, NEW e \in Edits, NEW new \in Requests, Step(e, new), Consistent(new),
         Named(new), UNCHANGED storeVars
  PROVE  NamedInv'
<1>1. UNCHANGED <<venue, category>> /\ Created' = Created
  BY DEF storeVars, Created
<1>2. StepWriting(e, new, {}) /\ {} \in Writes
  BY StepIsWriting DEF Writes
<1> QED
  BY <1>1, <1>2, VenuesNamed, NamedStay

LEMMA IdleNamed == Named(Idle)
BY IdleFacts DEF Named, Editing

LEMMA NamedInit == Init => NamedInv
<1> SUFFICES ASSUME Init PROVE NamedInv
  OBVIOUS
<1>1. \A v \in Created : venue[v].categories = {}
  BY DEF Init, Created
<1>2. \A e \in Edits : edit[e] = Idle
  BY DEF Init
<1> QED
  BY <1>1, <1>2, IdleNamed DEF NamedInv, NoMadeUpCategory

LEMMA NamedOthers == ASSUME Types, NamedInv, OthersStep PROVE NamedInv'
<1>1. /\ Created' = Created
      /\ \A v \in Created : venue'[v]["categories"] \subseteq venue[v]["categories"]
      /\ \A k \in Categories : category[k] # "unused" => category'[k] # "unused"
  BY OthersEffects
<1>2. NoMadeUpCategory'
  BY <1>1, VenuesNamed DEF NoMadeUpCategory
<1>3. ASSUME NEW e \in Edits PROVE Named(edit[e])'
  <2>1. Consistent(edit[e]) /\ Named(edit[e])
    BY RequestFacts DEF NamedInv
  <2>2. edit[e].pc = "inserting" => edit[e].dto["categories"] \in SUBSET Categories
    BY <2>1, NewDtoFacts DEF Consistent, Posting
  <2>3. edit[e].pc \in Editing => edit[e].entity["categories"] \in SUBSET Categories
    BY <2>1, RowFacts DEF Consistent
  <2>4. PICK W \in Writes : edit' = [f \in Edits |-> Noted(edit[f], W)]
    BY OthersEffects
  <2>5. /\ edit'[e].pc = edit[e].pc /\ edit'[e].dto = edit[e].dto
        /\ edit'[e].entity = edit[e].entity
    BY <2>4, RequestFacts, NotedFacts
  <2> QED
    BY <1>1, <2>1, <2>2, <2>3, <2>5 DEF Named
<1> QED
  BY <1>2, <1>3 DEF NamedInv

LEMMA NamedQuiet == ASSUME Types, NamedInv, NEW e \in Edits, QuietStep(e) PROVE NamedInv'
<1>0. edit[e] \in Requests /\ Consistent(edit[e]) /\ Named(edit[e])
  BY RequestFacts DEF NamedInv
<1>1. PICK new \in Requests : /\ Step(e, new) /\ UNCHANGED storeVars /\ Consistent(new)
                              /\ new = Idle \/ Proceeds(e, new)
  BY QuietEffects
<1>2. CASE new = Idle
  BY <1>1, <1>2, IdleNamed, NamedPass
<1>3. CASE Proceeds(e, new)
  <2> SUFFICES Named(new)
    BY <1>1, NamedPass
  <2>1. CASE new.pc = "inserting"
    BY <1>3, <2>1 DEF Proceeds, Named, Editing, CategoriesExist
  <2>2. CASE new.pc = "loaded"
    <3>1. new.venue \in Created /\ new.entity = venue[new.venue]
      BY <1>3, <2>2 DEF Proceeds, MayEdit
    <3> QED
      BY <2>2, <3>1, VenuesNamed DEF Named, Editing
  <2>3. CASE new.pc = "checked"
    <3>1. /\ edit[e].pc = "loaded"
          /\ Has(e, "categories") => CategoriesExist(new.dto.categories)
          /\ new.entity["categories"] = IF Has(e, "categories") THEN new.dto["categories"]
                                        ELSE edit[e].entity["categories"]
      BY <1>3, <2>3 DEF Proceeds, Columns
    <3> QED
      BY <1>0, <2>3, <3>1 DEF Named, Editing, CategoriesExist
  <2>4. CASE new.pc \in {"saving", "cleaning"}
    BY <1>0, <1>3, <2>4 DEF Proceeds, Named, Editing
  <2> QED
    BY <1>3, <2>1, <2>2, <2>3, <2>4 DEF Proceeds
<1> QED
  BY <1>1, <1>2, <1>3

LEMMA NamedNext == Types /\ NamedInv /\ [Next]_vars => NamedInv'
<1> SUFFICES ASSUME Types, NamedInv, [Next]_vars PROVE NamedInv'
  OBVIOUS
<1>1. CASE UNCHANGED vars
  BY <1>1 DEF vars, storeVars, NamedInv, NoMadeUpCategory, Named, Created
<1>2. CASE Next
  <2>1. CASE OthersStep
    BY <2>1, NamedOthers
  <2>2. ASSUME NEW e \in Edits, NEW v \in Venues, NEW d \in Dtos,
               NEW o \in Merchants \cup {None}, AskAs(e, o, v, d)
        PROVE  NamedInv'
    <3>1. PICK x \in Requests : /\ x.pc = "asked" /\ x.dto = d /\ x.venue = v
                                /\ Step(e, x) /\ UNCHANGED storeVars
      BY <2>2, AskedFacts DEF AskAs
    <3>2. Consistent(x) /\ Named(x)
      BY <3>1 DEF Consistent, Named, Posting, Editing, Cleaning
    <3> QED
      BY <3>1, <3>2, NamedPass
  <2>3. ASSUME NEW e \in Edits, NEW d \in NewDtos, AskToCreate(e, d) PROVE NamedInv'
    <3>1. PICK x \in Requests : /\ x.pc = "new" /\ x.dto = d
                                /\ Step(e, x) /\ UNCHANGED storeVars
      BY <2>3, NewFacts DEF AskToCreate
    <3>2. Consistent(x) /\ Named(x)
      BY <3>1 DEF Consistent, Named, Posting, Editing, Cleaning
    <3> QED
      BY <3>1, <3>2, NamedPass
  <2>4. ASSUME NEW e \in Edits, NEW v \in Venues, Insert(e, v) PROVE NamedInv'
    <3>1. category' = category /\ \E W \in Writes : StepWriting(e, Idle, W)
      BY <2>4, InsertEffects DEF Insert
    <3>2. /\ edit[e].pc = "inserting" /\ edit[e].dto \in NewDtos
          /\ venue'[v] = [c \in Columns |-> IF c \in NewColumns THEN edit[e].dto[c] ELSE TRUE]
          /\ \A u \in Venues \ {v} : venue'[u] = venue[u]
          /\ Created' = Created \cup {v}
      BY <2>4, InsertEffects
    <3>3. \A k \in edit[e].dto.categories : k \in Categories /\ category[k] # "unused"
      BY <3>2, NewDtoFacts DEF NamedInv, Named
    <3>4. venue'[v]["categories"] = edit[e].dto["categories"]
      BY <3>2 DEF Columns, NewColumns
    <3>5. \A u \in Created : u \in Venues /\ u # v
      BY <3>2, <2>4, InsertEffects, CreatedFacts
    <3>6. \A u \in Created' : \A k \in venue'[u].categories :
            k \in Categories /\ category[k] # "unused"
      BY <3>2, <3>3, <3>4, <3>5, VenuesNamed
    <3> QED
      BY <3>1, <3>6, IdleFacts, IdleConsistent, IdleNamed, NamedStay
  <2>5. ASSUME NEW e \in Edits, QuietStep(e) PROVE NamedInv'
    BY <2>5, NamedQuiet
  <2>6. ASSUME NEW e \in Edits, Save(e) PROVE NamedInv'
    <3>1. PICK new \in Requests, W \in Writes :
            /\ StepWriting(e, new, W) /\ Consistent(new) /\ category' = category
            /\ new.pc \in {"idle", "saved"}
      BY <2>6, SavedFacts
    <3>2. Named(new)
      BY <3>1 DEF Named, Editing
    <3>3. \A k \in edit[e].entity.categories : k \in Categories /\ category[k] # "unused"
      BY <2>6, SaveEffects, RowFacts DEF NamedInv, Named, Editing
    <3>4. \A u \in Created' : \A k \in venue'[u].categories :
            k \in Categories /\ category[k] # "unused"
      <4> DEFINE v == edit[e].venue
      <4>1. /\ v \in Created /\ \A u \in Venues \ {v} : venue'[u] = venue[u]
            /\ venue'[v]["categories"] \in {edit[e].entity["categories"], venue[v]["categories"]}
            /\ Created' = Created
        BY <2>6, SaveEffects DEF Columns
      <4> HIDE DEF v
      <4> QED
        BY <3>3, <4>1, VenuesNamed, CreatedFacts
    <3> QED
      BY <3>1, <3>2, <3>4, NamedStay
  <2>7. ASSUME NEW e \in Edits, CleanUp(e) PROVE NamedInv'
    <3>1. Step(e, Idle) /\ category' = category /\ Created' = Created /\ venue' = venue
      BY <2>7 DEF CleanUp, Created
    <3>2. StepWriting(e, Idle, {}) /\ {} \in Writes
      BY <3>1, StepIsWriting DEF Writes
    <3> QED
      BY <3>1, <3>2, VenuesNamed, IdleFacts, IdleConsistent, IdleNamed, NamedStay
  <2> QED
    BY <1>2, <2>1, <2>2, <2>3, <2>4, <2>5, <2>6, <2>7, Steps
<1> QED
  BY <1>1, <1>2

\* A venue's categories are some there are or were (assertCategoriesExist comes before
\* each write), whatever requests run at once: no id a client made up is kept.
THEOREM NoMadeUpCategoryHolds == Spec => []NoMadeUpCategory
<1>1. Init => Types /\ NamedInv
  BY TypesInit, NamedInit
<1>2. (Types /\ NamedInv) /\ [Next]_vars => (Types /\ NamedInv)'
  BY TypesNext, NamedNext
<1>3. Types /\ NamedInv => NoMadeUpCategory
  BY DEF NamedInv
<1> QED
  BY <1>1, <1>2, <1>3, PTL DEF Spec

-------------------------------------------------------------------------------
(* What a request relies on.                                                 *)

\* A request that others' writes reach notes them, so that what is said of it stays so.
LEMMA NotedSound ==
  ASSUME Types, NEW x \in Requests, Consistent(x), Sound(x, venue), NEW W \in Writes, Leaves(W)
  PROVE  Sound(Noted(x, W), venue')
<1> DEFINE y == Noted(x, W)
<1>1. /\ y.pc = x.pc /\ y.owner = x.owner /\ y.venue = x.venue /\ y.dto = x.dto
      /\ y.entity = x.entity /\ y.old = x.old /\ y.diff = x.diff /\ y.shared = x.shared
      /\ x.pc \in Relying => y.touched = x.touched \cup W
  BY NotedFacts
<1> HIDE DEF y
<1>2. x.pc \in Editing => x.venue \in Created /\ x.pc \in Relying
  BY DEF Consistent, Editing, Relying
<1>3. x.pc \in Editing => \A c \in Columns : <<x.venue, c>> \notin y.touched =>
        <<x.venue, c>> \notin x.touched /\ venue'[x.venue][c] = venue[x.venue][c]
  BY <1>1, <1>2 DEF Leaves
<1>4. Apart(y, venue')
  BY <1>1, <1>3 DEF Sound, Apart
<1>5. Owned(y, venue')
  BY <1>1, <1>2, <1>3 DEF Sound, Owned, Columns
<1>6. Alone(y, venue')
  <2>1. ASSUME x.pc = "cleaning", ~x.shared, NEW v \in There(venue'), venue'[v].logo = x.old
        PROVE  <<v, "logo">> \in y.touched
    <3>1. y.touched = x.touched \cup W
      BY <1>1, <2>1 DEF Relying
    <3>2. v \in Created'
      BY DEF There, Created
    <3>3. CASE v \notin Created
      BY <3>1, <3>2, <3>3 DEF Leaves, Columns
    <3>4. CASE v \in Created
      <4>1. <<v, "logo">> \in W \/ venue[v]["logo"] = x.old
        BY <2>1, <3>4 DEF Leaves, Columns
      <4>2. v \in There(venue)
        BY <3>4 DEF There, Created
      <4> QED
        BY <2>1, <3>1, <4>1, <4>2 DEF Sound, Alone
    <3> QED
      BY <3>3, <3>4
  <2> QED
    BY <1>1, <2>1 DEF Alone
<1> QED
  BY <1>4, <1>5, <1>6 DEF Sound, y

\* A request goes on, and the others note what it writes.
LEMMA ApartStay ==
  ASSUME Types, ApartInv, NEW e \in Edits, NEW new \in Requests, NEW W \in Writes,
         StepWriting(e, new, W), Leaves(W), Sound(new, venue')
  PROVE  ApartInv'
<1>1. ASSUME NEW f \in Edits PROVE Sound(edit'[f], venue')
  <2>1. CASE f = e
    BY <2>1, StepFacts
  <2>2. CASE f # e
    <3>1. edit'[f] = Noted(edit[f], W)
      BY <2>2, StepFacts
    <3>2. edit[f] \in Requests /\ Consistent(edit[f]) /\ Sound(edit[f], venue)
      BY RequestFacts DEF ApartInv
    <3> QED
      BY <3>1, <3>2, NotedSound
  <2> QED
    BY <2>1, <2>2
<1> QED
  BY <1>1 DEF ApartInv

LEMMA ApartPass ==
  ASSUME Types, ApartInv, NEW e \in Edits, NEW new \in Requests, Step(e, new),
         UNCHANGED venue, Sound(new, venue)
  PROVE  ApartInv'
<1>1. StepWriting(e, new, {}) /\ {} \in Writes /\ Leaves({})
  BY StepIsWriting DEF Writes, Leaves, Created
<1>2. Sound(new, venue')
  OBVIOUS
<1> QED
  BY <1>1, <1>2, ApartStay

\* A request that has read nothing relies on nothing.
LEMMA NothingRead ==
  ASSUME NEW x, NEW tab, x.pc \in {"idle", "new", "inserting", "asked", "saved"},
         x.owner # None /\ x.pc = "asked" => DOMAIN x.dto \cap AdminColumns = {}
  PROVE  Sound(x, tab)
BY DEF Sound, Apart, Owned, Alone, Editing

LEMMA IdleSound == ASSUME NEW tab PROVE Sound(Idle, tab)
BY IdleFacts, NothingRead

LEMMA ApartInit == Init => ApartInv
<1> SUFFICES ASSUME Init PROVE ApartInv
  OBVIOUS
<1>1. \A e \in Edits : edit[e] = Idle
  BY DEF Init
<1> QED
  BY <1>1, IdleSound DEF ApartInv

LEMMA ApartOthers == ASSUME Types, ApartInv, OthersStep PROVE ApartInv'
<1>1. PICK W \in Writes : Leaves(W) /\ edit' = [e \in Edits |-> Noted(edit[e], W)]
  BY OthersEffects
<1>2. ASSUME NEW e \in Edits PROVE Sound(edit'[e], venue')
  <2>1. edit[e] \in Requests /\ Consistent(edit[e]) /\ Sound(edit[e], venue)
    BY RequestFacts DEF ApartInv
  <2> QED
    BY <1>1, <2>1, NotedSound
<1> QED
  BY <1>2 DEF ApartInv

LEMMA ApartQuiet == ASSUME Types, ApartInv, NEW e \in Edits, QuietStep(e) PROVE ApartInv'
<1>0. edit[e] \in Requests /\ Consistent(edit[e]) /\ Sound(edit[e], venue)
  BY RequestFacts DEF ApartInv
<1>1. PICK new \in Requests : /\ Step(e, new) /\ UNCHANGED storeVars /\ Consistent(new)
                              /\ new = Idle \/ Proceeds(e, new)
  BY QuietEffects
<1>u. UNCHANGED venue
  BY <1>1 DEF storeVars
<1>2. CASE new = Idle
  BY <1>1, <1>u, <1>2, IdleSound, ApartPass
<1>3. CASE Proceeds(e, new)
  <2> SUFFICES Sound(new, venue)
    BY <1>1, <1>u, ApartPass
  <2>0. new.dto = edit[e].dto /\ new.venue = edit[e].venue /\ new.owner = edit[e].owner
    BY <1>3 DEF Proceeds
  <2>1. CASE new.pc = "inserting"
    BY <2>1, NothingRead
  <2>2. CASE new.pc = "loaded"
    <3>1. edit[e].pc = "asked" /\ MayEdit(e) /\ new.entity = venue[new.venue]
      BY <1>3, <2>2 DEF Proceeds
    <3>2. new.owner \in {None, venue[new.venue].merchant}
      BY <2>0, <3>1 DEF MayEdit
    <3>3. Apart(new, venue) /\ Alone(new, venue)
      BY <2>2, <3>1 DEF Apart, Alone
    <3>4. Owned(new, venue)
      BY <1>0, <2>0, <2>2, <3>1, <3>2 DEF Sound, Owned
    <3> QED
      BY <3>3, <3>4 DEF Sound
  <2>3. CASE new.pc = "checked"
    <3>1. /\ edit[e].pc = "loaded" /\ new.touched = edit[e].touched
          /\ \A c \in Columns :
               new.entity[c] = IF c \in DOMAIN new.dto THEN new.dto[c] ELSE edit[e].entity[c]
      BY <1>3, <2>0, <2>3 DEF Proceeds, Has
    <3>2. \A c \in Columns : <<new.venue, c>> \notin new.touched =>
            edit[e].entity[c] = venue[new.venue][c]
      BY <1>0, <2>0, <3>1 DEF Sound, Apart, Editing
    <3>3. Apart(new, venue) /\ Alone(new, venue)
      BY <2>3, <3>1, <3>2 DEF Apart, Alone
    <3>4. Owned(new, venue)
      BY <1>0, <2>0, <2>3, <3>1 DEF Sound, Owned, Editing
    <3> QED
      BY <3>3, <3>4 DEF Sound
  <2>4. CASE new.pc = "saving"
    <3>1. /\ edit[e].pc = "checked" /\ new.touched = edit[e].touched
          /\ new.entity = edit[e].entity
          /\ \A c \in Columns : c \notin new.diff => venue[new.venue][c] = new.entity[c]
      BY <1>3, <2>4 DEF Proceeds
    <3>2. \A c \in Columns : <<new.venue, c>> \notin new.touched =>
            new.entity[c] = IF c \in DOMAIN new.dto THEN new.dto[c] ELSE venue[new.venue][c]
      BY <1>0, <2>0, <3>1 DEF Sound, Apart, Editing
    <3>3. Apart(new, venue) /\ Alone(new, venue)
      BY <2>4, <3>1, <3>2 DEF Apart, Alone
    <3>4. Owned(new, venue)
      BY <1>0, <2>0, <2>4, <3>1 DEF Sound, Owned, Editing
    <3> QED
      BY <3>3, <3>4 DEF Sound
  <2>5. CASE new.pc = "cleaning"
    <3>1. new.shared = Shown(e) /\ new.old = edit[e].old
      BY <1>3, <2>5 DEF Proceeds
    <3>2. ~new.shared => \A v \in There(venue) : venue[v].logo # new.old
      BY <3>1 DEF Shown, Created, There
    <3> QED
      BY <2>5, <3>2 DEF Sound, Apart, Owned, Alone, Editing
  <2> QED
    BY <1>3, <2>1, <2>2, <2>3, <2>4, <2>5 DEF Proceeds
<1> QED
  BY <1>1, <1>2, <1>3

LEMMA ApartNext == Types /\ ApartInv /\ [Next]_vars => ApartInv'
<1> SUFFICES ASSUME Types, ApartInv, [Next]_vars PROVE ApartInv'
  OBVIOUS
<1>1. CASE UNCHANGED vars
  BY <1>1 DEF vars, storeVars, ApartInv
<1>2. CASE Next
  <2>1. CASE OthersStep
    BY <2>1, ApartOthers
  <2>2. ASSUME NEW e \in Edits, NEW v \in Venues, NEW d \in Dtos,
               NEW o \in Merchants \cup {None}, AskAs(e, o, v, d)
        PROVE  ApartInv'
    <3>1. PICK x \in Requests : /\ x.pc = "asked" /\ x.dto = d /\ x.owner = o
                                /\ Step(e, x) /\ UNCHANGED storeVars
      BY <2>2, AskedFacts DEF AskAs
    <3>2. Sound(x, venue)
      BY <2>2, <3>1, NothingRead DEF AskAs
    <3> QED
      BY <3>1, <3>2, ApartPass DEF storeVars
  <2>3. ASSUME NEW e \in Edits, NEW d \in NewDtos, AskToCreate(e, d) PROVE ApartInv'
    <3>1. PICK x \in Requests : x.pc = "new" /\ Step(e, x) /\ UNCHANGED storeVars
      BY <2>3, NewFacts DEF AskToCreate
    <3>2. Sound(x, venue)
      BY <3>1, NothingRead
    <3> QED
      BY <3>1, <3>2, ApartPass DEF storeVars
  <2>4. ASSUME NEW e \in Edits, NEW v \in Venues, Insert(e, v) PROVE ApartInv'
    BY <2>4, InsertEffects, IdleFacts, IdleSound, ApartStay
  <2>5. ASSUME NEW e \in Edits, QuietStep(e) PROVE ApartInv'
    BY <2>5, ApartQuiet
  <2>6. ASSUME NEW e \in Edits, Save(e) PROVE ApartInv'
    <3>1. PICK new \in Requests, W \in Writes :
            /\ Leaves(W) /\ StepWriting(e, new, W)
            /\ new.pc \in {"idle", "saved"}
      BY <2>6, SavedFacts
    <3>2. Sound(new, venue')
      BY <3>1, NothingRead
    <3> QED
      BY <3>1, <3>2, ApartStay
  <2>7. ASSUME NEW e \in Edits, CleanUp(e) PROVE ApartInv'
    BY <2>7, CleanUpEffects, IdleFacts, IdleSound, ApartPass
  <2> QED
    BY <1>2, <2>1, <2>2, <2>3, <2>4, <2>5, <2>6, <2>7, Steps
<1> QED
  BY <1>1, <1>2

LEMMA ApartHolds == Spec => [](Types /\ ApartInv)
<1>1. Init => Types /\ ApartInv
  BY TypesInit, ApartInit
<1>2. (Types /\ ApartInv) /\ [Next]_vars => (Types /\ ApartInv)'
  BY TypesNext, ApartNext
<1> QED
  BY <1>1, <1>2, PTL DEF Spec

-------------------------------------------------------------------------------
(* What a PATCH does.                                                        *)

\* The step that takes a request on from its UPDATE, and writes, is that UPDATE.
LEMMA SavesItself ==
  ASSUME Types, [Next]_vars, NEW e \in Edits, NEW v \in Venues, Saves(e, v)
  PROVE  Save(e)
<1>0. edit[e].pc = "saving" /\ edit'[e].pc # "saving" /\ venue' # venue
  BY DEF Saves
<1>1. Next
  BY <1>0 DEF vars, storeVars
<1>2. ASSUME NEW W \in Writes PROVE edit'[e] # Noted(edit[e], W)
  BY <1>0, RequestFacts, NotedFacts
<1>3. ~OthersStep
  BY <1>2, OthersEffects
<1>4. \A f \in Edits, u \in Venues, d \in Dtos, o \in Merchants \cup {None} : ~AskAs(f, o, u, d)
  BY <1>0 DEF AskAs, storeVars
<1>5. \A f \in Edits, d \in NewDtos : ~AskToCreate(f, d)
  BY <1>0 DEF AskToCreate, storeVars
<1>6. ASSUME NEW f \in Edits, NEW new \in Requests, NEW W \in Writes, StepWriting(f, new, W)
      PROVE  f = e
  BY <1>2, <1>6, StepFacts
<1>7. \A f \in Edits, u \in Venues : ~Insert(f, u)
  <2>1. SUFFICES ASSUME NEW f \in Edits, NEW u \in Venues, Insert(f, u) PROVE FALSE
    OBVIOUS
  <2>2. f = e
    BY <1>6, <2>1, InsertEffects, IdleFacts
  <2> QED
    BY <1>0, <2>1, <2>2, InsertEffects
<1>8. \A f \in Edits : ~QuietStep(f) /\ ~CleanUp(f)
  BY <1>0, QuietEffects DEF CleanUp, storeVars
<1>9. PICK f \in Edits : Save(f)
  BY <1>1, <1>3, <1>4, <1>5, <1>7, <1>8, Steps
<1>10. f = e
  BY <1>6, <1>9, SavedFacts
<1> QED
  BY <1>9, <1>10

\* However many requests run at once: in a column that no other writes meanwhile, a PATCH
\* does what it was sent, and nothing where it was sent nothing. An owner's is sent
\* nothing of what only administrators set (applyUpdate and the whitelist of the pipe).
THEOREM ColumnsAreApartHolds == Spec => ColumnsAreApart
<1> DEFINE A == \A e \in Edits, v \in Venues : Saves(e, v) =>
                  \A c \in Columns : <<v, c>> \notin edit[e].touched =>
                    venue'[v][c] = IF Sent(e, c) THEN edit[e].dto[c] ELSE venue[v][c]
<1>1. ASSUME Types, ApartInv, [Next]_vars PROVE A
  <2> SUFFICES ASSUME NEW e \in Edits, NEW v \in Venues, Saves(e, v), NEW c \in Columns,
                      <<v, c>> \notin edit[e].touched
               PROVE  venue'[v][c] = IF Sent(e, c) THEN edit[e].dto[c] ELSE venue[v][c]
    OBVIOUS
  <2>1. Save(e) /\ v = edit[e].venue /\ edit[e].pc = "saving"
    BY <1>1, SavesItself DEF Saves
  <2>2. venue'[v][c] = IF c \in edit[e].diff THEN edit[e].entity[c] ELSE venue[v][c]
    BY <1>1, <2>1, SaveEffects
  <2>3. Sound(edit[e], venue)
    BY <1>1 DEF ApartInv
  <2>4. /\ edit[e].entity[c] = IF c \in DOMAIN edit[e].dto THEN edit[e].dto[c] ELSE venue[v][c]
        /\ c \notin edit[e].diff => venue[v][c] = edit[e].entity[c]
    BY <2>1, <2>3 DEF Sound, Apart, Editing
  <2>5. Sent(e, c) <=> c \in DOMAIN edit[e].dto
    BY <2>1, <2>3 DEF Sound, Owned, Editing, Sent, Has
  <2> QED
    BY <2>2, <2>4, <2>5
<1>2. Types /\ ApartInv /\ [Next]_vars => [A]_vars
  BY <1>1
<1> QED
  BY <1>2, ApartHolds, PTL DEF Spec, ColumnsAreApart

\* An owner's UPDATE, by id alone, is of a venue that is the owner's, because updateOwn
\* looked for it with the owner's id, unless it was given away after that.
THEOREM OwnersEditTheirOwnHolds == Spec => OwnersEditTheirOwn
<1> DEFINE A == \A e \in Edits, v \in Venues : Saves(e, v) /\ edit[e].owner # None =>
                  venue[v].merchant = edit[e].owner \/ <<v, "merchant">> \in edit[e].touched
<1>1. ASSUME Types, ApartInv, [Next]_vars PROVE A
  <2> SUFFICES ASSUME NEW e \in Edits, NEW v \in Venues, Saves(e, v), edit[e].owner # None
               PROVE  venue[v].merchant = edit[e].owner \/ <<v, "merchant">> \in edit[e].touched
    OBVIOUS
  <2>1. edit[e].pc = "saving" /\ edit[e].venue = v /\ Sound(edit[e], venue)
    BY <1>1 DEF Saves, ApartInv
  <2> QED
    BY <2>1 DEF Sound, Owned, Editing
<1>2. Types /\ ApartInv /\ [Next]_vars => [A]_vars
  BY <1>1
<1> QED
  BY <1>2, ApartHolds, PTL DEF Spec, OwnersEditTheirOwn

\* The step in which a request's file is deleted is its clean-up.
LEMMA DeletesItself ==
  ASSUME Types, [Next]_vars, NEW e \in Edits, NEW l \in Logos, Deletes(e, l)
  PROVE  ~edit[e].shared /\ l = edit[e].old
<1>0. edit'[e] # edit[e] /\ file[l] = "stored" /\ file'[l] = "deleted"
  BY DEF Deletes
<1>1. Next
  BY <1>0 DEF vars, storeVars
<1>2. ~OthersStep
  BY <1>0, OthersEffects
<1>3. \A f \in Edits, u \in Venues, d \in Dtos, o \in Merchants \cup {None} : ~AskAs(f, o, u, d)
  BY <1>0 DEF AskAs, storeVars
<1>4. \A f \in Edits, d \in NewDtos : ~AskToCreate(f, d)
  BY <1>0 DEF AskToCreate, storeVars
<1>5. \A f \in Edits, u \in Venues : ~Insert(f, u)
  BY <1>0 DEF Insert
<1>6. \A f \in Edits : ~QuietStep(f) /\ ~Save(f)
  BY <1>0, QuietEffects, SavedFacts DEF storeVars
<1>7. PICK f \in Edits : CleanUp(f)
  BY <1>1, <1>2, <1>3, <1>4, <1>5, <1>6, Steps
<1>8. Step(f, Idle) /\ (file'[l] # file[l] => ~edit[f].shared /\ l = edit[f].old)
  BY <1>7, CleanUpEffects
<1>9. f = e
  BY <1>0, <1>8 DEF Step, Types, TypeOK
<1> QED
  BY <1>0, <1>8, <1>9

\* However many requests run at once, with saves that fail and clean-ups that never run:
\* a venue whose logo was not written since a request's exists() does not lose its file to
\* that request (applyUpdate). One that was just given the logo can.
THEOREM UntouchedLogosStayHolds == Spec => UntouchedLogosStay
<1> DEFINE A == \A e \in Edits, l \in Logos : Deletes(e, l) =>
                  \A v \in Created : venue[v].logo = l => <<v, "logo">> \in edit[e].touched
<1>1. ASSUME Types, ApartInv, [Next]_vars PROVE A
  <2> SUFFICES ASSUME NEW e \in Edits, NEW l \in Logos, Deletes(e, l), NEW v \in Created,
                      venue[v].logo = l
               PROVE  <<v, "logo">> \in edit[e].touched
    OBVIOUS
  <2>1. edit[e].pc = "cleaning" /\ ~edit[e].shared /\ l = edit[e].old
    BY <1>1, DeletesItself DEF Deletes
  <2>2. Sound(edit[e], venue) /\ v \in There(venue)
    BY <1>1 DEF ApartInv, Created, There
  <2> QED
    BY <2>1, <2>2 DEF Sound, Alone
<1>2. Types /\ ApartInv /\ [Next]_vars => [A]_vars
  BY <1>1
<1> QED
  BY <1>2, ApartHolds, PTL DEF Spec, UntouchedLogosStay

-------------------------------------------------------------------------------
(* The split of merchants and venues.                                       *)

\* The split database meets the constraints of the new schema: the foreign keys
\* name rows that are there, an account has one merchant.
THEOREM UpFits ==
  ASSUME NEW db, Before(db)
  PROVE  After(up(db))
<1>1. PICK S \in SUBSET Ids :
        /\ db \in [merchants : [S -> [front : Storefronts, merchantTelegramId : Accounts,
                                      isActive : BOOLEAN]],
                   orders : [Orders -> [merchantId : S]],
                   certificates : [Certificates -> [merchantId : S]]]
        /\ \A i, j \in DOMAIN db.merchants :
             db.merchants[i].merchantTelegramId = db.merchants[j].merchantTelegramId => i = j
  BY DEF Before, OneRowEach
<1>2. DOMAIN db.merchants = S
  BY <1>1
<1>3. up(db).venues \in [S -> [front : Storefronts, merchantId : S, isActive : BOOLEAN]]
  BY <1>1, <1>2 DEF up
<1>4. up(db).merchants \in [S -> [telegramId : Accounts, isActive : BOOLEAN]]
  BY <1>1, <1>2 DEF up
<1>5. up(db).orders \in [Orders -> [venueId : S, merchantId : S]]
  BY <1>1, <1>2 DEF up
<1>6. up(db).certificates \in [Certificates -> [venueId : S]]
  BY <1>1, <1>2 DEF up
<1>7. \A i, j \in DOMAIN up(db).merchants :
        up(db).merchants[i].telegramId = up(db).merchants[j].telegramId => i = j
  BY <1>1, <1>2 DEF up
<1>8. up(db) \in [venues : [S -> [front : Storefronts, merchantId : S, isActive : BOOLEAN]],
                  merchants : [S -> [telegramId : Accounts, isActive : BOOLEAN]],
                  orders : [Orders -> [venueId : S, merchantId : S]],
                  certificates : [Certificates -> [venueId : S]]]
  BY <1>3, <1>4, <1>5, <1>6 DEF up
<1> QED
  BY <1>7, <1>8 DEF After, OneRowEach

\* Nobody notices: the same storefronts are seen, by the same accounts' ownership,
\* and every order is paid out to the account it was to be paid out to.
THEOREM UpIsSilent ==
  ASSUME NEW db, Before(db)
  PROVE  /\ \A v \in DOMAIN db.merchants :
              /\ SeenAfter(up(db), v) = SeenBefore(db, v)
              /\ OwnerAfter(up(db), v) = OwnerBefore(db, v)
         /\ \A o \in Orders : PayeeAfter(up(db), o) = PayeeBefore(db, o)
<1>1. PICK S \in SUBSET Ids :
        db \in [merchants : [S -> [front : Storefronts, merchantTelegramId : Accounts,
                                   isActive : BOOLEAN]],
                orders : [Orders -> [merchantId : S]],
                certificates : [Certificates -> [merchantId : S]]]
  BY DEF Before
<1>2. DOMAIN db.merchants = S
  BY <1>1
<1>3. ASSUME NEW v \in S
      PROVE  /\ SeenAfter(up(db), v) = SeenBefore(db, v)
             /\ OwnerAfter(up(db), v) = OwnerBefore(db, v)
  BY <1>1, <1>2, <1>3 DEF up, SeenAfter, SeenBefore, OwnerAfter, OwnerBefore
<1>4. ASSUME NEW o \in Orders
      PROVE  PayeeAfter(up(db), o) = PayeeBefore(db, o)
  <2>1. db.orders[o].merchantId \in S
    BY <1>1
  <2> QED
    BY <2>1, <1>1, <1>2 DEF up, PayeeAfter, PayeeBefore, OwnerBefore
<1> QED
  BY <1>2, <1>3, <1>4

\* Taking it back right away gives the database there was.
THEOREM DownUndoesUp ==
  ASSUME NEW db, Before(db)
  PROVE  Revertible(up(db)) /\ down(up(db)) = db
<1>1. PICK S \in SUBSET Ids :
        db \in [merchants : [S -> [front : Storefronts, merchantTelegramId : Accounts,
                                   isActive : BOOLEAN]],
                orders : [Orders -> [merchantId : S]],
                certificates : [Certificates -> [merchantId : S]]]
  BY DEF Before
<1>2. DOMAIN db.merchants = S
  BY <1>1
<1>3. Revertible(up(db))
  BY <1>1, <1>2 DEF Revertible, up
<1>4. down(up(db)).merchants = db.merchants
  BY <1>1, <1>2 DEF up, down
<1>5. down(up(db)).orders = db.orders
  BY <1>1, <1>2 DEF up, down
<1>6. down(up(db)).certificates = db.certificates
  BY <1>1, <1>2 DEF up, down
<1> QED
  BY <1>1, <1>3, <1>4, <1>5, <1>6 DEF down

\* Taking it back later, when it is not refused, gives a database the old schema
\* takes, in which the same storefronts are seen and owned by the same accounts.
THEOREM DownFits ==
  ASSUME NEW db, After(db), Revertible(db)
  PROVE  /\ Before(down(db))
         /\ \A v \in DOMAIN db.venues :
              /\ SeenBefore(down(db), v) = SeenAfter(db, v)
              /\ OwnerBefore(down(db), v) = OwnerAfter(db, v)
<1>1. PICK V \in SUBSET Ids, M \in SUBSET Ids :
        /\ db \in [venues : [V -> [front : Storefronts, merchantId : M, isActive : BOOLEAN]],
                   merchants : [M -> [telegramId : Accounts, isActive : BOOLEAN]],
                   orders : [Orders -> [venueId : V, merchantId : M]],
                   certificates : [Certificates -> [venueId : V]]]
        /\ \A i, j \in DOMAIN db.merchants :
             db.merchants[i].telegramId = db.merchants[j].telegramId => i = j
  BY DEF After, OneRowEach
<1>2. DOMAIN db.venues = V /\ DOMAIN db.merchants = M
  BY <1>1
<1>3. \A v \in V : db.venues[v].merchantId \in M
  BY <1>1
<1>4. down(db).merchants \in [V -> [front : Storefronts, merchantTelegramId : Accounts,
                                    isActive : BOOLEAN]]
  BY <1>1, <1>2, <1>3 DEF down
<1>5. down(db).orders \in [Orders -> [merchantId : V]]
  BY <1>1 DEF down
<1>6. down(db).certificates \in [Certificates -> [merchantId : V]]
  BY <1>1 DEF down
<1>7. ASSUME NEW i \in V, NEW j \in V,
             down(db).merchants[i].merchantTelegramId = down(db).merchants[j].merchantTelegramId
      PROVE  i = j
  <2>1. db.merchants[db.venues[i].merchantId].telegramId
          = db.merchants[db.venues[j].merchantId].telegramId
    BY <1>2, <1>7 DEF down
  <2>2. db.venues[i].merchantId = db.venues[j].merchantId
    BY <1>1, <1>2, <1>3, <2>1
  <2> QED
    BY <1>2, <2>2 DEF Revertible
<1>8. Before(down(db))
  <2>1. down(db) \in [merchants : [V -> [front : Storefronts, merchantTelegramId : Accounts,
                                         isActive : BOOLEAN]],
                      orders : [Orders -> [merchantId : V]],
                      certificates : [Certificates -> [merchantId : V]]]
    BY <1>4, <1>5, <1>6 DEF down
  <2>2. DOMAIN down(db).merchants = V
    BY <1>4
  <2> QED
    BY <1>7, <2>1, <2>2 DEF Before, OneRowEach
<1>9. \A v \in V : /\ SeenBefore(down(db), v) = SeenAfter(db, v)
                   /\ OwnerBefore(down(db), v) = OwnerAfter(db, v)
  BY <1>2 DEF down, SeenBefore, SeenAfter, OwnerBefore, OwnerAfter
<1> QED
  BY <1>2, <1>8, <1>9
===============================================================================
