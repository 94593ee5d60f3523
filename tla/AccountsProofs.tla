---------------------------- MODULE AccountsProofs -----------------------------
(***************************************************************************)
(* Theorems about Accounts for any number of accounts, merchants, devices  *)
(* and edits: a log-in writes the role it worked out from what was true of *)
(* the account while it ran.                                               *)
(***************************************************************************)
EXTENDS Accounts, TLAPS

Roles == {"none", "user", "merchant", "admin"}
Possessions == {"none", "inactive", "active"}

\* A request in the middle of logIn() has seen what the account owns now, and has
\* worked its role out from something it owned since the request came in.  Its
\* account is an administrator's exactly if it found one.
Knows(d) ==
  LET a == AccountOf[d]
      l == logIn[d]
  IN
  /\ l.pc = "idle" => l = Idle
  /\ l.pc # "idle" => Owns(a) \in during[d] /\ (l.user = "admin" <=> role[a] = "admin")
  /\ l.pc \in {"insert", "update", "sign"} => \E o \in during[d] : l.role = Role(l.user, o)
  /\ l.pc = "insert" => l.user = "none"
  /\ l.pc = "update" => l.user # "none" /\ l.role # l.user

LogInsKnow == \A d \in Devices : Knows(d)

\* An edit under way has a merchant, which is never deleted.
EditsLoaded ==
  \A e \in Edits :
    /\ edit[e].id # None => edit[e].entity \in Row /\ merchant[edit[e].id] \in Row
    /\ edit[e].row # None => edit[e].id # None

Inv == TypeOK /\ LogInsKnow /\ EditsLoaded

-------------------------------------------------------------------------------
LEMMA RoleFacts ==
  ASSUME NEW u \in Roles, NEW o \in Possessions
  PROVE  /\ Role(u, o) \in Roles \ {"none"}
         /\ Role(u, o) = "admin" <=> u = "admin"
         /\ u \in {"none", "user"} /\ Role(u, o) = "merchant" => o = "active"
         /\ u = "merchant" /\ Role(u, o) = "merchant" => o # "none"
         /\ u \in {"none", "user"} /\ Role(u, o) = "user" => o # "active"
         /\ u = "merchant" /\ Role(u, o) = "user" => o = "none"
BY DEF Role, Roles, Possessions

LEMMA OwnsOne == \A a : Owns(a) \in Possessions
BY DEF Owns, Possessions

\* What an account owns changes with the merchants only.
LEMMA OwnsStays == ASSUME UNCHANGED merchant PROVE \A a : Owns(a)' = Owns(a)
BY DEF Owns, Owned

LEMMA LogInRecords ==
  ASSUME Inv, NEW d \in Devices
  PROVE  /\ AccountOf[d] \in Accounts /\ role[AccountOf[d]] \in Roles
         /\ logIn[d] \in [pc : {"idle", "merchant", "insert", "update", "sign"},
                          user : Roles, role : Roles]
         /\ during[d] \subseteq Possessions /\ Knows(d)
BY AccountAssumption DEF Inv, TypeOK, Roles, Possessions, LogInsKnow

-------------------------------------------------------------------------------
(* What a step of one device does to the others.                             *)

\* Nobody becomes an administrator, or stops being one, by logging in.
AdminsStay == \A a \in Accounts : role'[a] = "admin" <=> role[a] = "admin"

LEMMA OthersKnow ==
  ASSUME Inv, UNCHANGED merchant, AdminsStay,
         NEW c \in Devices, logIn'[c] = logIn[c], during'[c] = during[c]
  PROVE  Knows(c)'
<1>1. Owns(AccountOf[c])' = Owns(AccountOf[c])
  BY OwnsStays
<1>2. AccountOf[c] \in Accounts /\ Knows(c)
  BY LogInRecords
<1> QED
  BY <1>1, <1>2 DEF Knows, AdminsStay

\* The log-in of one device goes on, or is over.
Requests ==
  [pc : {"idle", "merchant", "insert", "update", "sign"}, user : Roles, role : Roles]

LEMMA LogInGoesOn ==
  ASSUME Inv, NEW d \in Devices, UNCHANGED <<merchant, edit, changes>>, AdminsStay,
         NEW l \in Requests, logIn' = [logIn EXCEPT ![d] = l],
         NEW D \in SUBSET Possessions, during' = [during EXCEPT ![d] = D],
         Knows(d)', role' \in [Accounts -> Roles], app' \in [Devices -> {"fresh", "old"}],
         token' \in [Devices -> Roles], faults' \in 0..MaxFaults
  PROVE  Inv'
<1>1. logIn \in [Devices -> Requests] /\ during \in [Devices -> SUBSET Possessions]
  BY DEF Inv, TypeOK, Requests, Roles, Possessions
<1>2. logIn' \in [Devices -> Requests] /\ during' \in [Devices -> SUBSET Possessions]
  BY <1>1
<1>3. TypeOK'
  BY <1>2 DEF Inv, TypeOK, Requests, Roles, Possessions
<1>4. ASSUME NEW c \in Devices PROVE Knows(c)'
  <2>1. CASE c = d
    BY <2>1
  <2>2. CASE c # d
    <3>1. logIn'[c] = logIn[c] /\ during'[c] = during[c]
      BY <1>1, <2>2
    <3> QED
      BY <3>1, OthersKnow
  <2> QED
    BY <2>1, <2>2
<1>5. EditsLoaded'
  BY DEF Inv, EditsLoaded
<1> QED
  BY <1>3, <1>4, <1>5 DEF Inv, LogInsKnow

\* A request that is over knows nothing.
LEMMA EndKeeps ==
  ASSUME Inv, NEW d \in Devices, UNCHANGED <<merchant, app, edit, changes>>, AdminsStay,
         End(d), role' \in [Accounts -> Roles], token' \in [Devices -> Roles],
         faults' \in 0..MaxFaults
  PROVE  Inv'
<1>1. Idle \in Requests /\ Idle.pc = "idle"
  BY DEF Idle, Requests, Roles
<1>2. /\ logIn' = [logIn EXCEPT ![d] = Idle] /\ during' = [during EXCEPT ![d] = {}]
      /\ app' \in [Devices -> {"fresh", "old"}]
  BY DEF End, Inv, TypeOK
<1>3. logIn'[d] = Idle
  BY <1>2 DEF Inv, TypeOK
<1>4. Knows(d)'
  BY <1>1, <1>3 DEF Knows
<1>5. {} \in SUBSET Possessions
  OBVIOUS
<1>6. UNCHANGED <<merchant, edit, changes>>
  OBVIOUS
<1> QED
  BY <1>1, <1>2, <1>4, <1>5, <1>6, LogInGoesOn

-------------------------------------------------------------------------------
(* The actions, one by one.                                                  *)

\* The Mini App is opened, grows old, or drops its token.
LEMMA AppKeeps ==
  ASSUME Inv, NEW d \in Devices, Open(d) \/ Age(d) \/ Expire(d)
  PROVE  Inv'
<1>1. UNCHANGED <<role, merchant, logIn, edit, during, changes, faults>>
  BY DEF Open, Age, Expire
<1>2. app' \in [Devices -> {"fresh", "old"}] /\ token' \in [Devices -> Roles]
  BY DEF Open, Age, Expire, Inv, TypeOK, Roles
<1>3. TypeOK'
  BY <1>1, <1>2 DEF Inv, TypeOK, Roles
<1>4. ASSUME NEW c \in Devices PROVE Knows(c)'
  BY <1>1, OthersKnow DEF AdminsStay
<1> QED
  BY <1>1, <1>3, <1>4 DEF Inv, LogInsKnow, EditsLoaded

LEMMA AskKeeps == ASSUME Inv, NEW d \in Devices, Ask(d) PROVE Inv'
<1> DEFINE a == AccountOf[d]
           l == [logIn[d] EXCEPT !.pc = "merchant", !.user = FindUser(a)]
<1>1. /\ logIn' = [logIn EXCEPT ![d] = l] /\ during' = [during EXCEPT ![d] = {Owns(a)}]
      /\ UNCHANGED <<role, merchant, app, token, edit, changes, faults>>
  BY DEF Ask, clientVars
<1>2. FindUser(a) = role[a] /\ role[a] \in Roles /\ Owns(a) \in Possessions
  BY LogInRecords, OwnsOne DEF FindUser
<1>3. logIn[d] \in Requests
  BY LogInRecords DEF Requests
<1> HIDE DEF a
<1>4. l \in Requests /\ l.pc = "merchant" /\ l.user = role[a]
  BY <1>2, <1>3 DEF Requests
<1> HIDE DEF l
<1>5. logIn'[d] = l /\ during'[d] = {Owns(a)}
  BY <1>1 DEF Inv, TypeOK
<1>6. Knows(d)'
  <2>1. Owns(a)' = Owns(a) /\ role'[a] = role[a]
    BY <1>1, OwnsStays
  <2> QED
    BY <1>4, <1>5, <2>1 DEF Knows, a
<1>7. AdminsStay /\ {Owns(a)} \in SUBSET Possessions
  BY <1>1, <1>2 DEF AdminsStay
<1> QED
  BY <1>1, <1>4, <1>6, <1>7, LogInGoesOn DEF Inv, TypeOK, Roles

LEMMA ReadMerchantKeeps == ASSUME Inv, NEW d \in Devices, ReadMerchant(d) PROVE Inv'
<1> DEFINE a == AccountOf[d]
           user == logIn[d].user
           new == Role(user, Owns(a))
           next == IF user = "none" THEN "insert" ELSE IF new # user THEN "update" ELSE "sign"
           l == [logIn[d] EXCEPT !.pc = next, !.role = new]
<1>1. /\ logIn[d].pc = "merchant" /\ logIn' = [logIn EXCEPT ![d] = l]
      /\ UNCHANGED <<role, merchant, app, token, edit, during, changes, faults>>
  BY DEF ReadMerchant, clientVars
<1>2. /\ logIn[d] \in Requests /\ user \in Roles /\ during[d] \in SUBSET Possessions
      /\ Owns(a) \in during[d] /\ (user = "admin" <=> role[a] = "admin")
  BY <1>1, LogInRecords DEF Requests, Knows
<1>3. new \in Roles
  BY <1>2, OwnsOne, RoleFacts
<1>4. l \in Requests /\ l.pc = next /\ l.role = new /\ l.user = user
  <2> HIDE DEF new, user, a
  <2> QED
    BY <1>2, <1>3 DEF Requests, user
<1> HIDE DEF l, a, user
<1>5. logIn'[d] = l /\ during'[d] = during[d] /\ during' = [during EXCEPT ![d] = during[d]]
  BY <1>1 DEF Inv, TypeOK
<1>6. Knows(d)'
  <2>1. Owns(a)' = Owns(a) /\ role'[a] = role[a]
    BY <1>1, OwnsStays
  <2>2. next \in {"insert", "update", "sign"}
    OBVIOUS
  <2>3. next = "insert" => user = "none"
    OBVIOUS
  <2>4. next = "update" => user # "none" /\ new # user
    OBVIOUS
  <2> HIDE DEF next, new
  <2>5. \E o \in during'[d] : l.role = Role(l.user, o)
    BY <1>2, <1>4, <1>5 DEF new
  <2> QED
    BY <1>2, <1>4, <1>5, <2>1, <2>2, <2>3, <2>4, <2>5 DEF Knows, a
<1>7. AdminsStay
  BY <1>1 DEF AdminsStay
<1> QED
  BY <1>1, <1>2, <1>4, <1>5, <1>6, <1>7, LogInGoesOn DEF Inv, TypeOK, Roles

\* The role worked out by a request that is about to write it.
LEMMA RoleToWrite ==
  ASSUME Inv, NEW d \in Devices, logIn[d].pc \in {"insert", "update", "sign"}
  PROVE  \E o \in during[d] \cap Possessions :
           logIn[d].role = Role(logIn[d].user, o) /\ logIn[d].user \in Roles
BY LogInRecords DEF Knows

\* Written for the first time, or over an older one: never an administrator's.
LEMMA RoleWritten ==
  ASSUME Inv, NEW d \in Devices, role' = [role EXCEPT ![AccountOf[d]] = logIn[d].role],
         \/ logIn[d].pc = "insert" /\ role[AccountOf[d]] = "none"
         \/ logIn[d].pc = "update"
  PROVE  /\ role' \in [Accounts -> Roles] /\ AdminsStay
         /\ role[AccountOf[d]] # "admin" /\ role'[AccountOf[d]] = logIn[d].role
         /\ logIn[d].role \in {"user", "merchant"}
<1> DEFINE a == AccountOf[d]
<1>1. PICK o \in during[d] \cap Possessions :
        logIn[d].role = Role(logIn[d].user, o) /\ logIn[d].user \in Roles
  BY RoleToWrite
<1>2. /\ logIn[d].role \in Roles \ {"none"}
      /\ logIn[d].role = "admin" <=> logIn[d].user = "admin"
  BY <1>1, RoleFacts
<1>3. /\ logIn[d].user = "admin" <=> role[a] = "admin"
      /\ logIn[d].pc = "update" => logIn[d].role # logIn[d].user
      /\ a \in Accounts
  BY LogInRecords DEF Knows
<1>4. role[a] # "admin" /\ logIn[d].role # "admin"
  BY <1>2, <1>3
<1>5. role \in [Accounts -> Roles]
  BY DEF Inv, TypeOK, Roles
<1>6. role' \in [Accounts -> Roles] /\ role'[a] = logIn[d].role
  BY <1>2, <1>3, <1>5
<1>7. AdminsStay
  BY <1>4, <1>5, <1>6 DEF AdminsStay
<1> QED
  BY <1>2, <1>4, <1>6, <1>7 DEF Roles

\* The role is written, and the token comes next.
LEMMA SignsNext ==
  ASSUME Inv, NEW d \in Devices, logIn[d].pc \in {"insert", "update"},
         logIn' = [logIn EXCEPT ![d].pc = "sign"], AdminsStay, role' \in [Accounts -> Roles],
         UNCHANGED <<merchant, clientVars, edit, during, changes, faults>>
  PROVE  Inv'
<1> DEFINE a == AccountOf[d]
           l == [logIn[d] EXCEPT !.pc = "sign"]
<1>1. /\ logIn' = [logIn EXCEPT ![d] = l]
      /\ UNCHANGED <<merchant, app, token, edit, during, changes, faults>>
  BY DEF clientVars
<1>2. /\ logIn[d] \in Requests /\ during[d] \in SUBSET Possessions /\ Knows(d)
      /\ a \in Accounts
  BY LogInRecords DEF Requests
<1>3. l \in Requests /\ l.pc = "sign" /\ l.role = logIn[d].role /\ l.user = logIn[d].user
  BY <1>2 DEF Requests
<1> HIDE DEF l, a
<1>4. logIn'[d] = l /\ during'[d] = during[d] /\ during' = [during EXCEPT ![d] = during[d]]
  BY <1>1 DEF Inv, TypeOK
<1>5. Knows(d)'
  <2>1. Owns(a)' = Owns(a) /\ (role'[a] = "admin" <=> role[a] = "admin")
    BY <1>1, <1>2, OwnsStays DEF AdminsStay
  <2> QED
    BY <1>2, <1>3, <1>4, <2>1 DEF Knows, a
<1>6. /\ app' \in [Devices -> {"fresh", "old"}] /\ token' \in [Devices -> Roles]
      /\ faults' \in 0..MaxFaults /\ UNCHANGED <<merchant, edit, changes>>
  BY <1>1 DEF Inv, TypeOK, Roles
<1> QED
  BY <1>1, <1>2, <1>3, <1>4, <1>5, <1>6, LogInGoesOn

LEMMA InsertKeeps == ASSUME Inv, NEW d \in Devices, Insert(d) PROVE Inv'
<1>1. logIn[d].pc = "insert" /\ UNCHANGED <<merchant, clientVars, edit, changes, faults>>
  BY DEF Insert
<1>2. CASE role[AccountOf[d]] = "none"
  <2>1. /\ role' = [role EXCEPT ![AccountOf[d]] = logIn[d].role]
        /\ logIn' = [logIn EXCEPT ![d].pc = "sign"] /\ UNCHANGED during
    BY <1>2 DEF Insert
  <2>2. role' \in [Accounts -> Roles] /\ AdminsStay
    BY <1>1, <1>2, <2>1, RoleWritten
  <2> QED
    BY <1>1, <2>1, <2>2, SignsNext
<1>3. CASE role[AccountOf[d]] # "none"
  <2>1. End(d) /\ UNCHANGED <<role, merchant, app, token, edit, changes, faults>>
    BY <1>1, <1>3 DEF Insert, clientVars
  <2> QED
    BY <2>1, EndKeeps DEF AdminsStay, Inv, TypeOK, Roles
<1> QED
  BY <1>2, <1>3

LEMMA UpdateKeeps == ASSUME Inv, NEW d \in Devices, Update(d) PROVE Inv'
<1>1. /\ logIn[d].pc = "update" /\ UNCHANGED <<merchant, clientVars, edit, during, changes, faults>>
      /\ role' = [role EXCEPT ![AccountOf[d]] = logIn[d].role]
      /\ logIn' = [logIn EXCEPT ![d].pc = "sign"]
  BY DEF Update
<1>2. role' \in [Accounts -> Roles] /\ AdminsStay
  BY <1>1, RoleWritten
<1> QED
  BY <1>1, <1>2, SignsNext

LEMMA SignKeeps == ASSUME Inv, NEW d \in Devices, Sign(d) PROVE Inv'
<1>1. /\ End(d) /\ UNCHANGED <<role, merchant, app, edit, changes, faults>>
      /\ token' = [token EXCEPT ![d] = logIn[d].role]
  BY DEF Sign
<1>2. token' \in [Devices -> Roles]
  BY <1>1, LogInRecords DEF Inv, TypeOK, Roles
<1> QED
  BY <1>1, <1>2, EndKeeps DEF AdminsStay, Inv, TypeOK, Roles

LEMMA DieKeeps == ASSUME Inv, NEW d \in Devices, Die(d) PROVE Inv'
<1>1. /\ End(d) /\ UNCHANGED <<role, merchant, app, token, edit, changes>>
  BY DEF Die, clientVars
<1>2. faults' \in 0..MaxFaults
  BY AccountAssumption DEF Die, Inv, TypeOK
<1> QED
  BY <1>1, <1>2, EndKeeps DEF AdminsStay, Inv, TypeOK, Roles

\* A row of merchants is written: who is logging in has owned that too.
LEMMA WriteKnows ==
  ASSUME Inv, NEW m \in Merchants, NEW r \in Row, Write(m, r), UNCHANGED <<role, logIn>>
  PROVE  /\ merchant' \in [Merchants -> Row \cup {None}]
         /\ \A n \in Merchants : merchant[n] \in Row => merchant'[n] \in Row
         /\ during' \in [Devices -> SUBSET Possessions] /\ LogInsKnow'
<1>1. /\ merchant' = [merchant EXCEPT ![m] = r]
      /\ during' = [d \in Devices |->
            IF logIn[d] = Idle THEN {} ELSE during[d] \cup {Owns(AccountOf[d])'}]
  BY DEF Write
<1>2. merchant \in [Merchants -> Row \cup {None}]
  BY DEF Inv, TypeOK
<1>3. \A d \in Devices : Owns(AccountOf[d])' \in Possessions
  BY DEF Owns, Possessions
<1>4. during' \in [Devices -> SUBSET Possessions]
  BY <1>1, <1>3 DEF Inv, TypeOK, Possessions
<1>5. ASSUME NEW d \in Devices PROVE Knows(d)'
  <2>1. Knows(d) /\ logIn'[d] = logIn[d] /\ role'[AccountOf[d]] = role[AccountOf[d]]
    BY LogInRecords
  <2>2. CASE logIn[d] = Idle
    BY <2>1, <2>2 DEF Knows, Idle
  <2>3. CASE logIn[d] # Idle
    <3>1. during'[d] = during[d] \cup {Owns(AccountOf[d])'}
      BY <1>1, <2>3
    <3> QED
      BY <2>1, <2>3, <3>1 DEF Knows
  <2> QED
    BY <2>2, <2>3
<1> QED
  BY <1>1, <1>2, <1>4, <1>5 DEF LogInsKnow

LEMMA CreateKeeps ==
  ASSUME Inv, NEW m \in Merchants, NEW a \in Accounts, Create(m, a) PROVE Inv'
<1>1. [account |-> a, active |-> TRUE] \in Row
  BY DEF Row
<1>2. /\ Write(m, [account |-> a, active |-> TRUE])
      /\ UNCHANGED <<role, app, token, logIn, edit, faults>> /\ changes' \in 0..MaxChanges
  BY AccountAssumption DEF Create, clientVars, Inv, TypeOK
<1>3. /\ merchant' \in [Merchants -> Row \cup {None}]
      /\ \A n \in Merchants : merchant[n] \in Row => merchant'[n] \in Row
      /\ during' \in [Devices -> SUBSET Possessions] /\ LogInsKnow'
  BY <1>1, <1>2, WriteKnows
<1>4. TypeOK'
  BY <1>2, <1>3 DEF Inv, TypeOK, Possessions
<1>5. EditsLoaded'
  BY <1>2, <1>3 DEF Inv, EditsLoaded, TypeOK
<1> QED
  BY <1>3, <1>4, <1>5 DEF Inv

\* An edit goes on: the merchants and the log-ins are as they were.
Edited == [id : Merchants \cup {None}, entity : Row \cup {None}, row : Row \cup {None}]

LEMMA EditGoesOn ==
  ASSUME Inv, NEW e \in Edits, NEW new \in Edited, edit' = [edit EXCEPT ![e] = new],
         new.id # None => new.entity \in Row /\ merchant[new.id] \in Row,
         new.row # None => new.id # None,
         UNCHANGED <<role, merchant, app, token, logIn, during, faults>>,
         changes' \in 0..MaxChanges
  PROVE  Inv'
<1>1. edit \in [Edits -> Edited]
  BY DEF Inv, TypeOK, Edited
<1>2. edit' \in [Edits -> Edited]
  BY <1>1
<1>3. TypeOK'
  BY <1>2 DEF Inv, TypeOK, Edited
<1>4. ASSUME NEW d \in Devices PROVE Knows(d)'
  BY OthersKnow DEF AdminsStay
<1>5. ASSUME NEW f \in Edits
      PROVE  /\ edit'[f].id # None => edit'[f].entity \in Row /\ merchant'[edit'[f].id] \in Row
             /\ edit'[f].row # None => edit'[f].id # None
  <2>1. CASE f = e
    BY <1>1, <2>1
  <2>2. CASE f # e
    <3>1. edit'[f] = edit[f]
      BY <1>1, <2>2
    <3> QED
      BY <3>1 DEF Inv, EditsLoaded
  <2> QED
    BY <2>1, <2>2
<1> QED
  BY <1>3, <1>4, <1>5 DEF Inv, LogInsKnow, EditsLoaded

LEMMA LoadKeeps ==
  ASSUME Inv, NEW e \in Edits, NEW m \in Merchants, NEW form \in Forms, Load(e, m, form)
  PROVE  Inv'
<1> DEFINE entity == [account |-> IF form.account = None THEN merchant[m].account ELSE form.account,
                      active |-> IF form.active = None THEN merchant[m].active ELSE form.active]
           new == [id |-> m, row |-> None, entity |-> entity]
<1>1. /\ merchant[m] # None /\ edit' = [edit EXCEPT ![e] = new]
      /\ UNCHANGED <<role, merchant, app, token, logIn, during, faults>>
  BY DEF Load, clientVars
<1>2. changes' \in 0..MaxChanges
  BY AccountAssumption DEF Load, Inv, TypeOK
<1>3. merchant[m] \in Row
  BY <1>1 DEF Inv, TypeOK
<1>4. entity \in Row
  BY <1>3 DEF Row, Forms
<1> HIDE DEF entity
<1>5. new \in Edited /\ new.id = m /\ new.entity = entity /\ new.row = None
  BY <1>4 DEF Edited
<1> HIDE DEF new
<1> QED
  BY <1>1, <1>2, <1>3, <1>4, <1>5, EditGoesOn

LEMMA RereadKeeps == ASSUME Inv, NEW e \in Edits, Reread(e) PROVE Inv'
<1> DEFINE new == [edit[e] EXCEPT !.row = merchant[edit[e].id]]
<1>1. /\ edit[e].id # None /\ edit' = [edit EXCEPT ![e] = new]
      /\ UNCHANGED <<role, merchant, app, token, logIn, during, changes, faults>>
  BY DEF Reread, clientVars
<1>2. /\ edit[e] \in Edited /\ edit[e].entity \in Row /\ merchant[edit[e].id] \in Row
      /\ changes \in 0..MaxChanges
  BY <1>1 DEF Inv, TypeOK, Edited, EditsLoaded
<1>3. new \in Edited /\ new.id = edit[e].id /\ new.entity = edit[e].entity
  BY <1>2 DEF Edited
<1> HIDE DEF new
<1> QED
  BY <1>1, <1>2, <1>3, EditGoesOn

LEMMA SaveKeeps == ASSUME Inv, NEW e \in Edits, Save(e) PROVE Inv'
<1> DEFINE m == edit[e].id
<1>1. /\ edit[e].row # None /\ edit' = [edit EXCEPT ![e] = NoEdit]
      /\ Write(m, Saved(e)) \/ UNCHANGED <<merchant, during>>
      /\ UNCHANGED <<role, app, token, logIn, changes, faults>>
  BY DEF Save, clientVars
<1>2. /\ m \in Merchants /\ edit[e] \in Edited
      /\ edit[e].entity \in Row /\ merchant[m] \in Row
  BY <1>1 DEF Inv, TypeOK, Edited, EditsLoaded
<1>3. Saved(e) \in Row
  <2> DEFINE account == IF edit[e].entity.account # edit[e].row.account
                        THEN edit[e].entity.account ELSE merchant[m].account
             active == IF edit[e].entity.active # edit[e].row.active
                       THEN edit[e].entity.active ELSE merchant[m].active
  <2>1. account \in Accounts /\ active \in BOOLEAN
    BY <1>2 DEF Row
  <2>2. Saved(e) = [merchant[m] EXCEPT !.account = account, !.active = active]
    BY DEF Saved
  <2> HIDE DEF account, active
  <2> QED
    BY <1>2, <2>1, <2>2 DEF Row
<1>4. CASE UNCHANGED <<merchant, during>>
  <2>1. NoEdit \in Edited /\ NoEdit.id = None /\ NoEdit.row = None
    BY DEF NoEdit, Edited
  <2>2. changes' \in 0..MaxChanges
    BY <1>1 DEF Inv, TypeOK
  <2> QED
    BY <1>1, <1>4, <2>1, <2>2, EditGoesOn
<1>5. CASE Write(m, Saved(e))
  <2>1. /\ merchant' \in [Merchants -> Row \cup {None}]
        /\ \A n \in Merchants : merchant[n] \in Row => merchant'[n] \in Row
        /\ during' \in [Devices -> SUBSET Possessions] /\ LogInsKnow'
    BY <1>1, <1>2, <1>3, <1>5, WriteKnows
  <2>2. NoEdit \in Edited /\ NoEdit.id = None /\ NoEdit.row = None
    BY DEF NoEdit, Edited
  <2>3. edit \in [Edits -> Edited]
    BY DEF Inv, TypeOK, Edited
  <2>4. edit' \in [Edits -> Edited] /\ \A f \in Edits : edit'[f] = IF f = e THEN NoEdit ELSE edit[f]
    BY <1>1, <2>2, <2>3
  <2>5. TypeOK'
    BY <1>1, <2>1, <2>4 DEF Inv, TypeOK, Possessions, Edited
  <2>6. ASSUME NEW f \in Edits
        PROVE  /\ edit'[f].id # None =>
                    edit'[f].entity \in Row /\ merchant'[edit'[f].id] \in Row
               /\ edit'[f].row # None => edit'[f].id # None
    <3>1. CASE f = e
      BY <2>2, <2>4, <3>1
    <3>2. CASE f # e
      <4>1. edit'[f] = edit[f] /\ edit[f] \in Edited
        BY <2>3, <2>4, <3>2
      <4>2. /\ edit[f].id # None => edit[f].entity \in Row /\ merchant[edit[f].id] \in Row
            /\ edit[f].row # None => edit[f].id # None
        BY DEF Inv, EditsLoaded
      <4> QED
        BY <2>1, <4>1, <4>2 DEF Edited
    <3> QED
      BY <3>1, <3>2
  <2> QED
    BY <2>1, <2>5, <2>6 DEF Inv, EditsLoaded
<1> QED
  BY <1>1, <1>4, <1>5

-------------------------------------------------------------------------------
(* The theorems.                                                             *)

LEMMA InvInit == Init => Inv
<1> SUFFICES ASSUME Init PROVE Inv
  OBVIOUS
<1>1. TypeOK
  BY AccountAssumption DEF Init, TypeOK, Idle, NoEdit
<1>2. LogInsKnow
  BY DEF Init, LogInsKnow, Knows, Idle
<1>3. EditsLoaded
  BY DEF Init, EditsLoaded, NoEdit
<1> QED
  BY <1>1, <1>2, <1>3 DEF Inv

LEMMA InvNext == Inv /\ [Next]_vars => Inv'
<1> SUFFICES ASSUME Inv, [Next]_vars PROVE Inv'
  OBVIOUS
<1>1. CASE UNCHANGED vars
  <2>1. TypeOK' /\ EditsLoaded'
    BY <1>1 DEF vars, clientVars, Inv, TypeOK, EditsLoaded
  <2>2. ASSUME NEW d \in Devices PROVE Knows(d)'
    BY <1>1, OthersKnow DEF vars, AdminsStay
  <2> QED
    BY <2>1, <2>2 DEF Inv, LogInsKnow
<1>2. ASSUME NEW d \in Devices,
             Open(d) \/ Age(d) \/ Expire(d) \/ Ask(d) \/ LogInStep(d) \/ Die(d)
      PROVE  Inv'
  BY <1>2, AppKeeps, AskKeeps, ReadMerchantKeeps, InsertKeeps, UpdateKeeps, SignKeeps, DieKeeps
     DEF LogInStep
<1>3. ASSUME NEW m \in Merchants, NEW a \in Accounts, Create(m, a) PROVE Inv'
  BY <1>3, CreateKeeps
<1>4. ASSUME NEW e \in Edits, Reread(e) \/ Save(e) \/ \E m \in Merchants, f \in Forms : Load(e, m, f)
      PROVE  Inv'
  BY <1>4, LoadKeeps, RereadKeeps, SaveKeeps
<1> QED
  BY <1>1, <1>2, <1>3, <1>4 DEF Next

LEMMA InvHolds == Spec => []Inv
BY InvInit, InvNext, PTL DEF Spec

\* Every row, token and request of log-ins and edits holds what it can hold.
THEOREM AccountTypesHold == Spec => []TypeOK
<1>1. Inv => TypeOK
  BY DEF Inv
<1> QED BY <1>1, InvHolds, PTL

\* Why a log-in may write this role: what its account owned meanwhile.
LEMMA RoleEarned ==
  ASSUME Inv, NEW a \in Accounts, NEW d \in Devices, role'[a] # role[a],
         Insert(d) \/ Update(d)
  PROVE  /\ AccountOf[d] = a
         /\ CASE role'[a] = "merchant" -> "active" \in during[d]
              [] role[a] = "merchant" -> "none" \in during[d]
              [] OTHER -> role[a] = "none" /\ during[d] # {"active"}
<1>1. /\ role' = [role EXCEPT ![AccountOf[d]] = logIn[d].role]
      /\ \/ logIn[d].pc = "insert" /\ role[AccountOf[d]] = "none"
         \/ logIn[d].pc = "update"
  BY DEF Insert, Update
<1>2. AccountOf[d] = a
  BY <1>1 DEF Inv, TypeOK
<1>3. PICK o \in during[d] \cap Possessions :
        logIn[d].role = Role(logIn[d].user, o) /\ logIn[d].user \in Roles
  BY <1>1, RoleToWrite
<1>4. role[a] # "admin" /\ role'[a] = logIn[d].role /\ role'[a] \in {"user", "merchant"}
  BY <1>1, <1>2, RoleWritten
<1>5. /\ Owns(a) \in during[d] /\ (logIn[d].user = "admin" <=> role[a] = "admin")
      /\ logIn[d].pc = "insert" => logIn[d].user = "none"
      /\ logIn[d].pc = "update" => logIn[d].user # "none" /\ logIn[d].role # logIn[d].user
      /\ role[a] \in Roles
  BY <1>1, <1>2, LogInRecords DEF Knows
<1>6. CASE role'[a] = "merchant"
  <2>1. logIn[d].user \in {"none", "user"}
    BY <1>1, <1>3, <1>4, <1>5, <1>6 DEF Roles
  <2>2. o = "active"
    BY <1>3, <1>4, <1>6, <2>1, RoleFacts
  <2> QED
    BY <1>2, <1>6, <2>2
<1>7. CASE role'[a] = "user"
  <2>1. CASE logIn[d].pc = "insert"
    <3>1. o # "active" /\ role[a] = "none"
      BY <1>1, <1>2, <1>3, <1>4, <1>5, <1>7, <2>1, RoleFacts
    <3> QED
      BY <1>2, <1>7, <3>1
  <2>2. CASE logIn[d].pc = "update"
    <3>1. logIn[d].user = "merchant"
      BY <1>3, <1>4, <1>5, <1>7, <2>2 DEF Roles
    <3>2. o = "none"
      BY <1>3, <1>4, <1>7, <3>1, RoleFacts
    <3>3. role[a] \in {"none", "merchant"}
      BY <1>4, <1>5, <1>7 DEF Roles
    <3> QED
      BY <1>2, <1>7, <3>2, <3>3
  <2> QED
    BY <1>1, <2>1, <2>2
<1> QED
  BY <1>4, <1>6, <1>7

\* And why it may sign this token.
LEMMA TokenEarned ==
  ASSUME Inv, NEW d \in Devices, Sign(d)
  PROVE  CASE token'[d] = "merchant" -> during[d] # {"none"}
           [] token'[d] = "user" -> during[d] # {"active"}
           [] OTHER -> role[AccountOf[d]] = "admin"
<1>1. logIn[d].pc = "sign" /\ token' = [token EXCEPT ![d] = logIn[d].role]
  BY DEF Sign
<1>2. token'[d] = logIn[d].role
  BY <1>1 DEF Inv, TypeOK
<1>3. PICK o \in during[d] \cap Possessions :
        logIn[d].role = Role(logIn[d].user, o) /\ logIn[d].user \in Roles
  BY <1>1, RoleToWrite
<1>4. logIn[d].user = "admin" <=> role[AccountOf[d]] = "admin"
  BY <1>1, LogInRecords DEF Knows
<1>5. token'[d] \in Roles \ {"none"}
  BY <1>2, <1>3, RoleFacts
<1>6. CASE token'[d] = "merchant"
  <2>1. o # "none"
    BY <1>2, <1>3, <1>6, RoleFacts DEF Roles
  <2> QED
    BY <1>6, <2>1
<1>7. CASE token'[d] = "user"
  <2>1. o # "active"
    BY <1>2, <1>3, <1>7, RoleFacts DEF Roles
  <2> QED
    BY <1>7, <2>1
<1>8. CASE token'[d] = "admin"
  BY <1>2, <1>3, <1>4, <1>8, RoleFacts
<1> QED
  BY <1>5, <1>6, <1>7, <1>8 DEF Roles

\* However log-ins and edits interleave, roles and tokens change only for what was
\* true of the account at some moment of the very log-in that changes them, and
\* no log-in touches an administrator.
THEOREM RolesAreEarnedHolds == Spec => RolesAreEarned
<1> DEFINE RoleOf(a) ==
             role'[a] # role[a] =>
               \E d \in Devices : /\ AccountOf[d] = a
                                  /\ CASE role'[a] = "merchant" -> "active" \in during[d]
                                       [] role[a] = "merchant" -> "none" \in during[d]
                                       [] OTHER -> role[a] = "none" /\ during[d] # {"active"}
           TokenOf(d) ==
             token'[d] \notin {"none", token[d]} =>
               CASE token'[d] = "merchant" -> during[d] # {"none"}
                 [] token'[d] = "user" -> during[d] # {"active"}
                 [] OTHER -> role[AccountOf[d]] = "admin"
<1>1. ASSUME Inv, [Next]_vars, NEW a \in Accounts PROVE RoleOf(a)
  <2>1. CASE \E d \in Devices : Insert(d) \/ Update(d)
    BY <1>1, <2>1, RoleEarned
  <2>2. CASE ~ \E d \in Devices : Insert(d) \/ Update(d)
    <3>1. UNCHANGED role
      BY <1>1, <2>2 DEF Next, LogInStep, Open, Age, Expire, Ask, ReadMerchant, Sign, Die, Create,
         Load, Reread, Save, vars
    <3> QED
      BY <3>1
  <2> QED
    BY <2>1, <2>2
<1>2. ASSUME Inv, [Next]_vars, NEW d \in Devices PROVE TokenOf(d)
  <2>1. CASE Sign(d)
    BY <1>2, <2>1, TokenEarned
  <2>2. CASE ~Sign(d)
    <3>1. token'[d] \in {"none", token[d]}
      BY <1>2, <2>2 DEF Next, LogInStep, Open, Age, Expire, Ask, ReadMerchant, Insert, Update, Sign,
         Die, Create, Load, Reread, Save, vars, clientVars, Inv, TypeOK
    <3> QED
      BY <3>1
  <2> QED
    BY <2>1, <2>2
<1>3. Inv /\ [Next]_vars =>
        [/\ \A a \in Accounts : RoleOf(a)
         /\ \A d \in Devices : TokenOf(d)]_vars
  <2> HIDE DEF RoleOf, TokenOf
  <2> QED
    BY <1>1, <1>2
<1> QED
  BY <1>3, InvHolds, PTL DEF Spec, RolesAreEarned
===============================================================================
