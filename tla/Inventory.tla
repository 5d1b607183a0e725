------------------------------ MODULE Inventory ------------------------------
(***************************************************************************)
(* One article in one organization, in services/foundation-erp             *)
(* (domain/inv/inventoryService.ts): its quantity, value and average cost, *)
(* and what is promised of it, by hard reservations, to a bin and to a     *)
(* lot, while a cycle count is under way.  Every operation is one          *)
(* transaction.  Money and quantities are whole; money is rounded where    *)
(* the code rounds it, half up.                                            *)
(***************************************************************************)
EXTENDS Integers

CONSTANTS
  Methods,       \* out of "moving_average", "standard"
  UnitCosts,     \* costs that a caller may give, the first standard cost among them
  Keys, NoKey,   \* correlation keys; a call repeated with its key is a retry
  MaxQuantity,   \* bound on the quantity on hand
  MaxValue       \* bound on its value: a receipt that costs more than the standard
                 \* leaves the difference in it for good

ASSUME StockAssumption ==
  /\ Methods \subseteq {"moving_average", "standard"} /\ UnitCosts \subseteq Nat
  /\ NoKey \notin Keys /\ MaxQuantity \in Nat /\ MaxValue \in Nat

VARIABLES
  method,     \* inv_sku.valuation_method
  standard,   \* inv_sku.standard_cost
  onHand,     \* inv_on_hand: quantity, value, moving average
  moved,      \* the sum of the quantities of inv_movement
  usedKeys,   \* the correlation keys in inv_movement
  reserved,   \* active hard reservations
  binned,     \* inv_bin_balance of the bin
  tracked,    \* what is left of the lot
  count,      \* inv_cycle_count and its line
  revalued,   \* the quantity on hand when the average was last computed
  loose       \* stock was taken that was promised, or a count was posted that was stale

stock == <<method, standard, onHand, moved, usedKeys, revalued>>
inventoryVars == <<method, standard, onHand, moved, usedKeys, reserved, binned, tracked,
                   count, revalued, loose>>

-----------------------------------------------------------------------------
Quantities == 1..MaxQuantity
Nonnegative(n) == IF n > 0 THEN n ELSE 0
Magnitude(n) == IF n < 0 THEN -n ELSE n
Rounded(value, quantity) == (2 * value + quantity) \div (2 * quantity)
NoCount == [status |-> "none", scope |-> "bin", expected |-> 0, counted |-> 0, stale |-> FALSE]

InventoryInit ==
  /\ method \in Methods /\ standard \in UnitCosts
  /\ onHand = [quantity |-> 0, value |-> 0, average |-> 0]
  /\ moved = 0 /\ usedKeys = {} /\ reserved = 0 /\ binned = 0 /\ tracked = 0
  /\ count = NoCount /\ revalued = 0 /\ loose = FALSE

\* What is promised of the stock, and whether a quantity falls short of it.
Short(quantity) == quantity < reserved \/ quantity < binned \/ quantity < tracked
\* A change of the bin makes a count of the bin stale, one of the stock any count.
Staled(scopes) ==
  count' = [count EXCEPT !.stale = @ \/ count.scope \in scopes]

CurrentCost == IF method = "standard" THEN standard ELSE onHand.average

-----------------------------------------------------------------------------
\* Movements.

\* Mutant: the quantity of a retried movement is booked before the key is found taken.
BookTwice(k, quantity, change) ==
  /\ onHand' = change
  /\ IF k \in usedKeys
     THEN UNCHANGED <<moved, usedKeys, loose>>
     ELSE /\ moved' = moved + quantity
          /\ usedKeys' = usedKeys \cup ({k} \ {NoKey})
          /\ loose' = (loose \/ (quantity < 0 /\ Short(change.quantity)))
\* The end of postInventoryMovement: a key that is taken rolls everything back.
Book(k, quantity, change) ==
  IF k \in usedKeys
  THEN UNCHANGED <<onHand, moved, usedKeys, loose>>
  ELSE /\ onHand' = change
       /\ moved' = moved + quantity
       /\ usedKeys' = usedKeys \cup ({k} \ {NoKey})
       /\ loose' = (loose \/ (quantity < 0 /\ Short(change.quantity)))

\* The stock after a movement of q at unit cost c; averaging: the average is computed
\* anew.
Changed(q, c, averaging) ==
  LET quantity == onHand.quantity + q
      value == Nonnegative(onHand.value + q * c)
  IN  [quantity |-> quantity, value |-> value,
       average |-> CASE method = "standard" -> standard
                     [] method # "standard" /\ quantity = 0 -> 0
                     [] method # "standard" /\ quantity # 0 /\ averaging ->
                          Rounded(value, quantity)
                     [] OTHER -> onHand.average]

\* A receipt, or an adjustment upwards.
Receive(k) ==
  /\ \E q \in Quantities, c \in UnitCosts \cup {CurrentCost} :
       /\ onHand.quantity + q <= MaxQuantity /\ onHand.value + q * c <= MaxValue
       /\ Book(k, q, Changed(q, c, TRUE))
       /\ revalued' = IF k \in usedKeys THEN revalued ELSE onHand.quantity + q
  /\ Staled({"organization"})
  /\ UNCHANGED <<method, standard, reserved, binned, tracked>>

\* An issue, or an adjustment downwards.
Issue(k) ==
  /\ \E q \in Quantities :
       q <= onHand.quantity /\ Book(k, -q, Changed(-q, CurrentCost, FALSE))
  /\ Staled({"organization"})
  /\ UNCHANGED <<method, standard, reserved, binned, tracked, revalued>>

UpdateCost(k) ==
  /\ \E c \in UnitCosts :
       LET updated == [onHand EXCEPT !.value = onHand.quantity * c, !.average = c] IN
       /\ Book(k, 0, updated)
       /\ standard' = IF k \in usedKeys THEN standard ELSE c
  /\ UNCHANGED <<method, reserved, binned, tracked, count, revalued>>

-----------------------------------------------------------------------------
\* Promises.

Reserve ==
  /\ \E q \in Quantities : q <= onHand.quantity - reserved /\ reserved' = reserved + q
  /\ UNCHANGED <<stock, binned, tracked, count, loose>>

ReleaseReservation ==
  /\ \E q \in Quantities : q <= reserved /\ reserved' = reserved - q
  /\ UNCHANGED <<stock, binned, tracked, count, loose>>

Putaway ==
  /\ \E q \in Quantities : q <= onHand.quantity - binned /\ binned' = binned + q
  /\ Staled({"bin"})
  /\ UNCHANGED <<stock, reserved, tracked, loose>>

\* Mutant: the bin's balance is not asked.
PickUnchecked ==
  /\ \E q \in Quantities : binned' = binned - q
  /\ Staled({"bin"})
  /\ UNCHANGED <<stock, reserved, tracked, loose>>
Pick ==
  /\ \E q \in Quantities : q <= binned /\ binned' = binned - q
  /\ Staled({"bin"})
  /\ UNCHANGED <<stock, reserved, tracked, loose>>

CreateLot ==
  /\ \E q \in Quantities : q <= onHand.quantity - tracked /\ tracked' = tracked + q
  /\ UNCHANGED <<stock, reserved, binned, count, loose>>

ConsumeLot ==
  /\ \E q \in Quantities : q <= tracked /\ tracked' = tracked - q
  /\ UNCHANGED <<stock, reserved, binned, count, loose>>

-----------------------------------------------------------------------------
\* Cycle counts: of the bin, or of all that is on hand.

CreateCycleCount ==
  /\ count.status = "none"
  /\ \E s \in {"bin", "organization"} : count' = [NoCount EXCEPT !.status = "Open", !.scope = s]
  /\ UNCHANGED <<stock, reserved, binned, tracked, loose>>

RecordCycleCountLine ==
  /\ count.status \in {"Open", "Counted"}
  /\ \E n \in 0..MaxQuantity :
       count' = [count EXCEPT !.status = "Counted", !.counted = n, !.stale = FALSE,
                   !.expected = IF count.scope = "bin" THEN binned ELSE onHand.quantity]
  /\ UNCHANGED <<stock, reserved, binned, tracked, loose>>

\* The variance found when counting goes to the stock, and what was counted to the
\* bin, whatever has moved since; a count without a variance changes nothing.
PostCycleCount ==
  LET variance == count.counted - count.expected
      quantity == onHand.quantity + variance
      cost == CurrentCost
  IN  /\ count.status = "Counted"
      /\ quantity \in 0..MaxQuantity
      /\ onHand' = IF variance = 0 THEN onHand
                   ELSE [quantity |-> quantity,
                         value |-> Nonnegative(onHand.value + variance * cost),
                         average |-> CASE method = "standard" -> standard
                                       [] method # "standard" /\ quantity = 0 -> 0
                                       [] OTHER -> onHand.average]
      /\ moved' = moved + variance
      /\ binned' = IF count.scope = "bin" /\ variance # 0 THEN count.counted ELSE binned
      /\ loose' = (loose \/ count.stale \/ (quantity < reserved \/ quantity < tracked
                                            \/ quantity < binned'))
      /\ count' = NoCount
      /\ UNCHANGED <<method, standard, usedKeys, reserved, tracked, revalued>>

-----------------------------------------------------------------------------
InventoryNext ==
  \/ \E k \in Keys \cup {NoKey} :
       \/ Receive(k)
       \/ Issue(k)
       \/ UpdateCost(k)
  \/ Reserve
  \/ ReleaseReservation
  \/ Putaway
  \/ Pick
  \/ CreateLot
  \/ ConsumeLot
  \/ CreateCycleCount
  \/ RecordCycleCountLine
  \/ PostCycleCount

InventorySpec == InventoryInit /\ [][InventoryNext]_inventoryVars

-----------------------------------------------------------------------------
InventoryTypeOK ==
  /\ method \in Methods /\ standard \in Nat
  /\ onHand \in [quantity : 0..MaxQuantity, value : Nat, average : Nat]
  /\ moved \in Int /\ usedKeys \subseteq Keys
  /\ reserved \in Nat /\ binned \in Nat /\ tracked \in Nat
  /\ count \in [status : {"none", "Open", "Counted"}, scope : {"bin", "organization"},
                expected : Nat, counted : Nat, stale : BOOLEAN]
  /\ revalued \in Nat /\ loose \in BOOLEAN

\* What is on hand is the sum of the movements, however calls are repeated; and it
\* covers each kind of promise, unless an issue, which looks at none of them, or the
\* posting of a count that was overtaken took it away.
OnHandAgrees ==
  /\ onHand.quantity = moved
  /\ ~loose => reserved <= onHand.quantity /\ binned <= onHand.quantity
                 /\ tracked <= onHand.quantity

\* By moving average, the value of the stock differs from quantity times average by
\* no more than the rounding of the last average: issues and counts never add to it,
\* and a stock of nothing is worth no more than that.
ValueFollowsAverage ==
  method = "moving_average" =>
    2 * Magnitude(onHand.value - onHand.quantity * onHand.average) <= revalued

\* The stock is what its movements say, in quantity and in value.
StockAgrees == OnHandAgrees /\ ValueFollowsAverage
=============================================================================
