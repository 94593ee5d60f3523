-------------------------------- MODULE Migration ------------------------------
(***************************************************************************)
(* SplitMerchantsAndVenues: the migration that made a venue and its owner  *)
(* two tables, and the one that takes it back.  A schema is a record of    *)
(* its tables, a table a function from its keys; columns that are only     *)
(* carried along are one value.  Each way is one transaction that locks    *)
(* the tables, so it is a function of what it finds.                       *)
(***************************************************************************)
CONSTANTS
  Ids,            \* values of the sequences
  Accounts,       \* Telegram accounts
  Storefronts,    \* slug, texts, logo, nominals, categories, validity: carried along
  Orders, Certificates

\* No account has two rows of a table: the UNIQUE columns.
OneRowEach(table, account(_)) ==
  \A i, j \in DOMAIN table : account(table[i]) = account(table[j]) => i = j

\* Before: a merchant is a storefront with its owner.
Before(db) ==
  \E S \in SUBSET Ids :
    /\ db \in [merchants : [S -> [front : Storefronts, merchantTelegramId : Accounts,
                                  isActive : BOOLEAN]],
               orders : [Orders -> [merchantId : S]],
               certificates : [Certificates -> [merchantId : S]]]
    /\ OneRowEach(db.merchants, LAMBDA row : row.merchantTelegramId)

\* After: venues of merchants; an order remembers who owned its venue.
After(db) ==
  \E V, M \in SUBSET Ids :
    /\ db \in [venues : [V -> [front : Storefronts, merchantId : M, isActive : BOOLEAN]],
               merchants : [M -> [telegramId : Accounts, isActive : BOOLEAN]],
               orders : [Orders -> [venueId : V, merchantId : M]],
               certificates : [Certificates -> [venueId : V]]]
    /\ OneRowEach(db.merchants, LAMBDA row : row.telegramId)

up(db) ==
  LET venues == [v \in DOMAIN db.merchants |->
        [front |-> db.merchants[v].front, merchantId |-> v, isActive |-> TRUE]]
  IN [venues |-> venues,
      merchants |-> [m \in DOMAIN db.merchants |->
        [telegramId |-> db.merchants[m].merchantTelegramId,
         isActive |-> db.merchants[m].isActive]],
      orders |-> [o \in Orders |->
        [venueId |-> db.orders[o].merchantId,
         merchantId |-> venues[db.orders[o].merchantId].merchantId]],
      certificates |-> [c \in Certificates |-> [venueId |-> db.certificates[c].merchantId]]]

\* No merchant owns several venues; otherwise down throws.
Revertible(db) ==
  \A v, w \in DOMAIN db.venues : db.venues[v].merchantId = db.venues[w].merchantId => v = w

down(db) ==
  [merchants |-> [v \in DOMAIN db.venues |->
     [front |-> db.venues[v].front,
      merchantTelegramId |-> db.merchants[db.venues[v].merchantId].telegramId,
      isActive |-> db.venues[v].isActive /\ db.merchants[db.venues[v].merchantId].isActive]],
   orders |-> [o \in Orders |-> [merchantId |-> db.orders[o].venueId]],
   certificates |-> [c \in Certificates |-> [merchantId |-> db.certificates[c].venueId]]]

-------------------------------------------------------------------------------
\* Who sees a storefront in the app, and which account owns it.
SeenBefore(db, v) == db.merchants[v].isActive
SeenAfter(db, v) == db.venues[v].isActive /\ db.merchants[db.venues[v].merchantId].isActive

OwnerBefore(db, v) == db.merchants[v].merchantTelegramId
OwnerAfter(db, v) == db.merchants[db.venues[v].merchantId].telegramId

\* Whom an order is paid out to.
PayeeBefore(db, o) == OwnerBefore(db, db.orders[o].merchantId)
PayeeAfter(db, o) == db.merchants[db.orders[o].merchantId].telegramId
===============================================================================
