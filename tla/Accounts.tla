-------------------------------- MODULE Accounts -------------------------------
(***************************************************************************)
(* Log-in and roles.  A Mini App sends the initData it was opened with, is *)
(* looked up in users and in merchants by two statements, and gets a token *)
(* that carries its role for two hours.  An administrator, meanwhile,      *)
(* creates merchants, moves them between Telegram accounts and             *)
(* deactivates them.  The role of an account follows its merchant, but     *)
(* only when it logs in.                                                   *)
(***************************************************************************)
EXTENDS Naturals

CONSTANTS
  Accounts,    \* Telegram accounts
  Merchants,
  Registered,  \* the merchants there are to begin with
  Devices,     \* Mini Apps, each of one account
  AccountOf,
  Edits,       \* PATCH /admin/merchants/:id requests
  MaxChanges,  \* bound: changes the administrators make
  MaxFaults,   \* bound: log-ins that die half-way
  None

Row == [account : Accounts, active : BOOLEAN]

ASSUME AccountAssumption ==
  /\ AccountOf \in [Devices -> Accounts]
  /\ Registered \in [Merchants -> Row \cup {None}]
  /\ \A m, n \in Merchants : Registered[m] # None /\ Registered[n] # None
                             /\ Registered[m].account = Registered[n].account => m = n
  /\ None \notin Accounts \cup Merchants \cup BOOLEAN
  /\ MaxChanges \in Nat /\ MaxFaults \in Nat

VARIABLES
  role,      \* users.role by telegramId, "none" where there is no row
  merchant,  \* rows of merchants
  app,       \* whether the initData it has is of the last day
  token,     \* the role in the token the app holds
  logIn,     \* POST /auth/log-in, per app
  edit,      \* the administrators' requests
  during,    \* ghost: what the account owned at some moment of its log-in
  changes, faults

clientVars == <<app, token>>
vars == <<role, merchant, clientVars, logIn, edit, during, changes, faults>>

Idle == [pc |-> "idle", user |-> "none", role |-> "none"]
NoEdit == [id |-> None, entity |-> None, row |-> None]

Owned(a) == {m \in Merchants : merchant[m] # None /\ merchant[m].account = a}

Owns(a) ==
  IF Owned(a) = {} THEN "none"
  ELSE IF \E m \in Owned(a) : merchant[m].active THEN "active" ELSE "inactive"

\* Administrators are made by hand, in the database.
Init ==
  /\ \E A \in SUBSET {AccountOf[d] : d \in Devices} :
       role = [a \in Accounts |-> IF a \in A THEN "admin" ELSE "none"]
  /\ merchant = Registered
  /\ app = [d \in Devices |-> "old"]
  /\ token = [d \in Devices |-> "none"]
  /\ logIn = [d \in Devices |-> Idle]
  /\ edit = [e \in Edits |-> NoEdit]
  /\ during = [d \in Devices |-> {}]
  /\ changes = 0 /\ faults = 0

-------------------------------------------------------------------------------
(* The Mini App.                                                             *)

\* Opened anew, with new initData.
Open(d) ==
  /\ logIn[d] = Idle
  /\ app' = [app EXCEPT ![d] = "fresh"]
  /\ token' = [token EXCEPT ![d] = "none"]
  /\ UNCHANGED <<role, merchant, logIn, edit, during, changes, faults>>

\* Telegram does not refresh initData while the app stays open.
Age(d) ==
  /\ app[d] = "fresh"
  /\ app' = [app EXCEPT ![d] = "old"]
  /\ UNCHANGED <<role, merchant, token, logIn, edit, during, changes, faults>>

\* Two hours later: 401, and the app drops it.
Expire(d) ==
  /\ token[d] # "none"
  /\ token' = [token EXCEPT ![d] = "none"]
  /\ UNCHANGED <<role, merchant, app, logIn, edit, during, changes, faults>>

\* JwtGuard and RolesGuard look at the token only ...
LoggedIn(d) == token[d] # "none"
Allowed(d, roles) == token[d] \in roles

\* ... and GET merchants/me then for the merchant of its telegramId.
Cabinet(d) ==
  CASE ~LoggedIn(d) -> 401
    [] LoggedIn(d) /\ ~Allowed(d, {"merchant"}) -> 403
    [] Allowed(d, {"merchant"}) /\ Owned(AccountOf[d]) = {} -> 404
    [] OTHER -> 200

-------------------------------------------------------------------------------
(* logIn().  verifyInitData lets through what Telegram signed for this bot   *)
(* within the last day.                                                      *)

Verified(d) == app[d] = "fresh"

\* Regression: telegramId is compared as text, and the row never found.
FindUserNever(a) == "none"
FindUser(a) == role[a]

\* The request comes in and its first statement looks up the user ...
Ask(d) ==
  /\ Verified(d) /\ token[d] = "none" /\ logIn[d] = Idle
  /\ logIn' = [logIn EXCEPT ![d].pc = "merchant", ![d].user = FindUser(AccountOf[d])]
  /\ during' = [during EXCEPT ![d] = {Owns(AccountOf[d])}]
  /\ UNCHANGED <<role, merchant, clientVars, edit, changes, faults>>

\* Regression: a deactivated merchant's owner is demoted.
RoleActiveOnly(user, owns) ==
  IF user = "admin" THEN user ELSE IF owns = "active" THEN "merchant" ELSE "user"
\* Regression: an account that is known keeps its role.
RoleOfFirstLogIn(user, owns) ==
  IF user = "none" THEN (IF owns = "active" THEN "merchant" ELSE "user") ELSE user

\* The role a log-in ends with, from the one found and what the account owns.
Role(user, owns) ==
  CASE user = "none" -> IF owns = "active" THEN "merchant" ELSE "user"
    [] user = "user" /\ owns = "active" -> "merchant"
    [] user = "merchant" /\ owns = "none" -> "user"
    [] OTHER -> user

\* ... the second its merchant, of any status.
ReadMerchant(d) ==
  LET user == logIn[d].user
      new == Role(user, Owns(AccountOf[d]))
      next == IF user = "none" THEN "insert" ELSE IF new # user THEN "update" ELSE "sign"
  IN
  /\ logIn[d].pc = "merchant"
  /\ logIn' = [logIn EXCEPT ![d].pc = next, ![d].role = new]
  /\ UNCHANGED <<role, merchant, clientVars, edit, during, changes, faults>>

\* The request is over.
End(d) ==
  /\ logIn' = [logIn EXCEPT ![d] = Idle]
  /\ during' = [during EXCEPT ![d] = {}]

\* telegramId is UNIQUE: another device may have been first, 409.
Insert(d) ==
  LET a == AccountOf[d] IN
  /\ logIn[d].pc = "insert"
  /\ IF role[a] = "none"
     THEN /\ role' = [role EXCEPT ![a] = logIn[d].role]
          /\ logIn' = [logIn EXCEPT ![d].pc = "sign"]
          /\ UNCHANGED during
     ELSE End(d) /\ UNCHANGED role
  /\ UNCHANGED <<merchant, clientVars, edit, changes, faults>>

\* UPDATE users SET role ... WHERE id: whatever the role is by now.
Update(d) ==
  /\ logIn[d].pc = "update"
  /\ role' = [role EXCEPT ![AccountOf[d]] = logIn[d].role]
  /\ logIn' = [logIn EXCEPT ![d].pc = "sign"]
  /\ UNCHANGED <<merchant, clientVars, edit, during, changes, faults>>

Sign(d) ==
  /\ logIn[d].pc = "sign"
  /\ token' = [token EXCEPT ![d] = logIn[d].role]
  /\ End(d)
  /\ UNCHANGED <<role, merchant, app, edit, changes, faults>>

Die(d) ==
  /\ logIn[d] # Idle /\ faults < MaxFaults
  /\ faults' = faults + 1
  /\ End(d)
  /\ UNCHANGED <<role, merchant, clientVars, edit, changes>>

-------------------------------------------------------------------------------
(* The administrators.                                                       *)

Free(a, m) == Owned(a) \subseteq {m}

\* A row of merchants is written.
Write(m, r) ==
  /\ merchant' = [merchant EXCEPT ![m] = r]
  /\ during' = [d \in Devices |->
       IF logIn[d] = Idle THEN {} ELSE during[d] \cup {Owns(AccountOf[d])'}]

\* POST /admin/merchants; 409 if the account has one.
Create(m, a) ==
  /\ changes < MaxChanges /\ changes' = changes + 1
  /\ merchant[m] = None /\ Free(a, m)
  /\ Write(m, [account |-> a, active |-> TRUE])
  /\ UNCHANGED <<role, clientVars, logIn, edit, faults>>

\* PATCH: the row with the fields of the form put over it ...
Load(e, m, form) ==
  /\ changes < MaxChanges /\ changes' = changes + 1
  /\ edit[e] = NoEdit /\ merchant[m] # None
  /\ edit' = [edit EXCEPT ![e] = [id |-> m, row |-> None, entity |->
       [account |-> IF form.account = None THEN merchant[m].account ELSE form.account,
        active |-> IF form.active = None THEN merchant[m].active ELSE form.active]]]
  /\ UNCHANGED <<role, merchant, clientVars, logIn, during, faults>>

\* ... and saved: TypeORM reads the row again ...
Reread(e) ==
  /\ edit[e].id # None /\ edit[e].row = None
  /\ edit' = [edit EXCEPT ![e].row = merchant[edit[e].id]]
  /\ UNCHANGED <<role, merchant, clientVars, logIn, during, changes, faults>>

Saved(e) ==
  [merchant[edit[e].id] EXCEPT
     !.account = IF edit[e].entity.account # edit[e].row.account THEN edit[e].entity.account ELSE @,
     !.active = IF edit[e].entity.active # edit[e].row.active THEN edit[e].entity.active ELSE @]

\* ... and updates the columns that differ; 409 if the account has another merchant.
Save(e) ==
  LET m == edit[e].id IN
  /\ edit[e].row # None
  /\ IF Free(Saved(e).account, m) THEN Write(m, Saved(e)) ELSE UNCHANGED <<merchant, during>>
  /\ edit' = [edit EXCEPT ![e] = NoEdit]
  /\ UNCHANGED <<role, clientVars, logIn, changes, faults>>

-------------------------------------------------------------------------------
LogInStep(d) == ReadMerchant(d) \/ Insert(d) \/ Update(d) \/ Sign(d)

Forms == [account : Accounts \cup {None}, active : BOOLEAN \cup {None}]

Next ==
  \/ \E d \in Devices : Open(d) \/ Age(d) \/ Expire(d)
                        \/ Ask(d) \/ LogInStep(d) \/ Die(d)
  \/ \E m \in Merchants, a \in Accounts : Create(m, a)
  \/ \E e \in Edits : Reread(e) \/ Save(e) \/ \E m \in Merchants, f \in Forms : Load(e, m, f)

Spec == Init /\ [][Next]_vars

\* Requests are served, tokens expire, and an app without one logs in again.
FairSpec ==
  Spec /\ \A d \in Devices : WF_vars(LogInStep(d)) /\ WF_vars(Expire(d)) /\ WF_vars(Ask(d))

-------------------------------------------------------------------------------
\* Every row, app and request holds what it can hold.
TypeOK ==
  /\ role \in [Accounts -> {"none", "user", "merchant", "admin"}]
  /\ merchant \in [Merchants -> Row \cup {None}]
  /\ app \in [Devices -> {"fresh", "old"}]
  /\ token \in [Devices -> {"none", "user", "merchant", "admin"}]
  /\ logIn \in [Devices -> [pc : {"idle", "merchant", "insert", "update", "sign"},
                            user : {"none", "user", "merchant", "admin"},
                            role : {"none", "user", "merchant", "admin"}]]
  /\ edit \in [Edits -> [id : Merchants \cup {None}, entity : Row \cup {None},
                         row : Row \cup {None}]]
  /\ during \in [Devices -> SUBSET {"none", "inactive", "active"}]
  /\ changes \in 0..MaxChanges /\ faults \in 0..MaxFaults

\* However log-ins of one account race each other and an administrator, no one
\* becomes a merchant, or stops being one, or is told so, but for what was true
\* of the account at some moment of that very log-in: an active merchant makes
\* it one, only owning none at all ends it, a deactivated owner keeps the role,
\* and no log-in touches an administrator.
RolesAreEarned ==
  [][/\ \A a \in Accounts : role'[a] # role[a] =>
          \E d \in Devices : /\ AccountOf[d] = a
                             /\ CASE role'[a] = "merchant" -> "active" \in during[d]
                                  [] role[a] = "merchant" -> "none" \in during[d]
                                  [] OTHER -> role[a] = "none" /\ during[d] # {"active"}
     /\ \A d \in Devices : token'[d] \notin {"none", token[d]} =>
          CASE token'[d] = "merchant" -> during[d] # {"none"}
            [] token'[d] = "user" -> during[d] # {"active"}
            [] OTHER -> role[AccountOf[d]] = "admin"]_vars

\* An app that is open with initData of today is let in, also when two devices
\* of a new account race to create its row.
GetsIn ==
  \A d \in Devices : app[d] = "fresh" /\ token[d] = "none"
                       ~> app[d] # "fresh" \/ token[d] # "none"

\* Whatever stale roles races leave behind, they heal: once an account owns an
\* active merchant for good, its open app gets to the cabinet again and again,
\* and once it owns none for good, no token of it says "merchant" any more.
RolesFollowMerchants ==
  \A d \in Devices :
    LET a == AccountOf[d] IN
    /\ <>[](Owns(a) = "active" /\ app[d] = "fresh" /\ role[a] # "admin")
         => []<>(Cabinet(d) = 200) /\ <>[](Cabinet(d) # 403)
    /\ <>[](Owns(a) = "none") => <>[](token[d] # "merchant")
===============================================================================
