--------------------------- MODULE CatalogDishes ---------------------------
(* The catalog of dishes as the office edits it.  A page carries the dish's     *)
(* updated_at; saving reads the dish once more (the edit form has no status      *)
(* field, so the status is taken from there) and only then sends the command,    *)
(* which runs alone and compares the page's updated_at with the row.  Other      *)
(* pages save in between.  One dish; dishes do not meet.                         *)
EXTENDS Integers, Sequences

CONSTANTS
    Clerks,
    Prices,
    MaxDishWrites       \* bound: writes to the dish, one updated_at each

ASSUME DishWritesBound == MaxDishWrites \in Nat

VARIABLES
    dish,       \* the row: price, active, updatedAt; edition: which save wrote its texts
    prices,     \* catalog_price_history: old and new price, in the order of changes
    dishPage,   \* per clerk: the open page and what its save has read
    onOffer     \* whether the last status command activated the dish

catalogVars == <<dish, prices, dishPage, onOffer>>

NoDish == [price |-> 0, active |-> FALSE, updatedAt |-> 0, edition |-> 0]
NoDishPage == [at |-> "none", updatedAt |-> 0, edition |-> 0, active |-> FALSE]

\* A new dish is inactive; its first price has no entry.
CreateDish(price) ==
    /\ dish = NoDish
    /\ dish' = [price |-> price, active |-> FALSE, updatedAt |-> 1, edition |-> 1]
    /\ UNCHANGED <<prices, dishPage, onOffer>>

OpenDish(c) ==
    /\ dish # NoDish
    /\ dishPage' = [dishPage EXCEPT ![c] = [NoDishPage EXCEPT
                      !.at = "open", !.updatedAt = dish.updatedAt, !.edition = dish.edition]]
    /\ UNCHANGED <<dish, prices, onOffer>>

\* The whole of what was read is the precondition of the save, its stamp too.
ReadAsPrecondition(c) ==
    /\ dishPage[c].at = "open"
    /\ dishPage' = [dishPage EXCEPT ![c] =
         [@ EXCEPT !.at = "read", !.active = dish.active, !.updatedAt = dish.updatedAt]]
    /\ UNCHANGED <<dish, prices, onOffer>>

\* A clerk saves: the panel reads the dish for its status.
ReadDish(c) ==
    /\ dishPage[c].at = "open"
    /\ dishPage' = [dishPage EXCEPT ![c] = [@ EXCEPT !.at = "read", !.active = dish.active]]
    /\ UNCHANGED <<dish, prices, onOffer>>

StatusToSave(c) == dishPage[c].active

NextStamp == dish.updatedAt + 1
CanWrite == NextStamp <= MaxDishWrites
Current(c) == dishPage[c].updatedAt = dish.updatedAt
Leave(c) == dishPage' = [dishPage EXCEPT ![c] = NoDishPage]

Priced(price) == IF price = dish.price THEN prices
                 ELSE Append(prices, [old |-> dish.price, new |-> price])

WriteDish(c, price) ==
    dish' = [price |-> price, active |-> StatusToSave(c), updatedAt |-> NextStamp,
             edition |-> dish.edition + 1]

UpdateDish(c, price) ==
    /\ dishPage[c].at = "read"
    /\ IF Current(c)
       THEN CanWrite /\ WriteDish(c, price) /\ prices' = Priced(price)
       ELSE UNCHANGED <<dish, prices>>
    /\ Leave(c)
    /\ UNCHANGED onOffer

\* Aktivieren, Deaktivieren: nothing is written when the dish is there already.
SetActive(c, active) ==
    /\ dishPage[c].at = "open"
    /\ IF Current(c) /\ dish.active # active
       THEN /\ CanWrite
            /\ dish' = [dish EXCEPT !.active = active, !.updatedAt = NextStamp]
            /\ onOffer' = active
       ELSE UNCHANGED <<dish, onOffer>>
    /\ Leave(c)
    /\ UNCHANGED prices

CatalogInit ==
    /\ dish = NoDish
    /\ prices = <<>>
    /\ dishPage = [c \in Clerks |-> NoDishPage]
    /\ onOffer = FALSE

CatalogNext ==
    \/ \E price \in Prices : CreateDish(price)
    \/ \E c \in Clerks :
         \/ OpenDish(c) \/ ReadDish(c)
         \/ \E price \in Prices : UpdateDish(c, price)
         \/ \E active \in BOOLEAN : SetActive(c, active)

CatalogSpec == CatalogInit /\ [][CatalogNext]_catalogVars

\* A dish is on offer exactly when the last status command said so: no save of
\* its texts or price switches it, though a save writes the status too and got
\* it from a read that another clerk's command may have followed.
StatusIsAsAsked == dish.active = onOffer

\* The price history explains the price: each entry continues the one before
\* and the last one leads to the price in force, also when saves were refused.
PricesAreAChain ==
    /\ \A n \in 1..Len(prices) - 1 : prices[n].new = prices[n + 1].old
    /\ prices # <<>> => prices[Len(prices)].new = dish.price

\* Nobody replaces texts that his page did not show him.
NobodyOverwritesUnseen ==
    [][dish # NoDish /\ dish'.edition # dish.edition =>
         \E c \in Clerks : /\ dishPage[c].edition = dish.edition
                           /\ dishPage'[c] = NoDishPage /\ dishPage[c] # NoDishPage]_catalogVars

\* A save changes what its page showed and nothing else, whatever other clerks do
\* between the reads of the panel and its command.
SavesAreAsAsked ==
    /\ [](StatusIsAsAsked /\ PricesAreAChain)
    /\ NobodyOverwritesUnseen

=============================================================================
