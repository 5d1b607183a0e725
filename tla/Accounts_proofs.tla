-------------------------- MODULE Accounts_proofs ---------------------------
(***************************************************************************)
(* Theorems about the accounting services, for all documents, articles and *)
(* bounds.                                                                 *)
(*   Inventory: the stock of an article and its value.                     *)
(*   GeneralLedger: the ledger follows the journals, and every account     *)
(*   balances.                                                             *)
(*   Contractors: labour is costed once, and what is owed for it agrees    *)
(*   from the approved hours to the payment.                               *)
(***************************************************************************)
EXTENDS Inventory, GeneralLedger, Contractors, SetLemmas

-----------------------------------------------------------------------------
(* Inventory.  InventoryTypeOK, OnHandAgrees and ValueFollowsAverage are   *)
(* inductive together: the value needs the quantity's range, the quantity  *)
(* what the typed variables hold.                                          *)

\* The three invariants.
StockInv == InventoryTypeOK /\ OnHandAgrees /\ ValueFollowsAverage

-----------------------------------------------------------------------------
\* Division by a positive number.
LEMMA Division ==
  ASSUME NEW n \in Nat, NEW d \in Nat, d > 0
  PROVE  /\ n \div d \in Nat /\ n % d \in 0..(d - 1)
         /\ n = d * (n \div d) + (n % d)
<1>1. n % d \in 0..(d - 1)
  BY SMT
<1>2. n = d * (n \div d) + (n % d)
  BY SMT
<1>3. n \div d \in Int
  BY SMT
<1>4. n \div d >= 0
  BY SMTT(60)
<1> QED
  BY <1>1, <1>2, <1>3, <1>4

\* Rounding half up: a natural number that is off by no more than half the divisor.
LEMMA RoundedIsClose ==
  ASSUME NEW v \in Nat, NEW q \in Nat, q > 0
  PROVE  /\ Rounded(v, q) \in Nat
         /\ 2 * Magnitude(v - q * Rounded(v, q)) <= q
<1>1. PICK r \in Nat, m \in 0..(2 * q - 1) :
        r = Rounded(v, q) /\ 2 * v + q = 2 * q * r + m
  BY Division DEF Rounded
<1>2. PICK p \in Nat : p = q * r /\ 2 * q * r = 2 * p
  BY <1>1
<1>3. 2 * (v - p) \in -q..q
  BY <1>1, <1>2
<1> QED
  BY <1>1, <1>2, <1>3 DEF Magnitude

-----------------------------------------------------------------------------
\* Taking q out of a stock at its average leaves what the value is off by as it was,
\* or, where the value would become negative, makes it smaller.
LEMMA IssueKeepsOff ==
  ASSUME NEW v \in Nat, NEW n \in Nat, NEW a \in Nat, NEW q \in 0..n
  PROVE  Magnitude(Nonnegative(v - q * a) - (n - q) * a) <= Magnitude(v - n * a)
<1>1. PICK x \in Nat, y \in Nat :
        x = q * a /\ y = (n - q) * a /\ n * a = x + y
  BY SMT
<1>2. Magnitude(Nonnegative(v - x) - y) <= Magnitude(v - (x + y))
  BY DEF Magnitude, Nonnegative
<1> QED
  BY <1>1, <1>2

\* So does adding q at the average.
LEMMA AddKeepsOff ==
  ASSUME NEW v \in Nat, NEW n \in Nat, NEW a \in Nat, NEW q \in Nat
  PROVE  Magnitude(Nonnegative(v + q * a) - (n + q) * a) <= Magnitude(v - n * a)
<1>1. PICK x \in Nat, y \in Nat :
        x = q * a /\ y = n * a /\ (n + q) * a = x + y
  BY SMT
<1>2. Magnitude(Nonnegative(v + x) - (x + y)) <= Magnitude(v - y)
  BY DEF Magnitude, Nonnegative
<1> QED
  BY <1>1, <1>2

-----------------------------------------------------------------------------
\* The cost of what moves is a natural number, and by moving average the average.
LEMMA CostIsNatural ==
  ASSUME InventoryTypeOK
  PROVE  CurrentCost \in Nat /\ (method = "moving_average" => CurrentCost = onHand.average)
BY StockAssumption DEF InventoryTypeOK, CurrentCost

\* What OnHandAgrees says, without the Boolean.
LEMMA Agreeing ==
  ASSUME OnHandAgrees
  PROVE  /\ onHand.quantity = moved
         /\ ~loose => reserved <= onHand.quantity /\ binned <= onHand.quantity
                      /\ tracked <= onHand.quantity
BY Zenon DEF OnHandAgrees

\* Each movement keeps the invariants.
LEMMA ReceiveStep ==
  ASSUME StockInv, NEW k \in Keys \cup {NoKey}, Receive(k)
  PROVE  StockInv'
<1> USE StockAssumption DEF StockInv
<1>1. PICK q \in Quantities, c \in UnitCosts \cup {CurrentCost} :
        /\ onHand.quantity + q <= MaxQuantity
        /\ Book(k, q, Changed(q, c, TRUE))
        /\ revalued' = IF k \in usedKeys THEN revalued ELSE onHand.quantity + q
  BY DEF Receive
<1>2. c \in Nat /\ q \in 1..MaxQuantity /\ q * c \in Nat
  BY CostIsNatural DEF Quantities
<1>3. UNCHANGED <<method, standard, reserved, binned, tracked>>
  BY DEF Receive
<1>4. count' = [count EXCEPT !.stale = @ \/ count.scope \in {"organization"}]
  BY DEF Receive, Staled
<1>5. count' \in [status : {"none", "Open", "Counted"}, scope : {"bin", "organization"},
                  expected : Nat, counted : Nat, stale : BOOLEAN]
  BY <1>4 DEF InventoryTypeOK
<1>6. CASE k \in usedKeys
  BY <1>1, <1>3, <1>5, <1>6
     DEF Book, InventoryTypeOK, OnHandAgrees, ValueFollowsAverage, Magnitude
<1>7. CASE k \notin usedKeys
  <2>1. /\ onHand' = Changed(q, c, TRUE) /\ moved' = moved + q
        /\ usedKeys' \subseteq Keys /\ revalued' = onHand.quantity + q
    BY <1>1, <1>7 DEF Book, InventoryTypeOK
  <2>2. loose' = loose
    <3>1. loose' = (loose \/ (q < 0 /\ Short(Changed(q, c, TRUE).quantity))) /\ loose \in BOOLEAN
      BY <1>1, <1>7, Zenon DEF Book, InventoryTypeOK
    <3>2. ~(q < 0)
      BY <1>2
    <3> QED
      BY <3>1, <3>2, Zenon
  <2>3. /\ onHand'.quantity = onHand.quantity + q /\ onHand'.quantity \in 1..MaxQuantity
        /\ onHand'.value = onHand.value + q * c
    BY <1>1, <1>2, <2>1 DEF Changed, Nonnegative, InventoryTypeOK
  <2>4. onHand'.average = IF method = "standard" THEN standard
                          ELSE Rounded(onHand'.value, onHand'.quantity)
    BY <1>2, <2>1, <2>3 DEF Changed, InventoryTypeOK
  <2>5. onHand'.value \in Nat /\ onHand'.quantity \in Nat /\ onHand'.quantity > 0
    BY <1>2, <2>3 DEF InventoryTypeOK
  <2>6. onHand'.average \in Nat
    BY <2>4, <2>5, RoundedIsClose DEF InventoryTypeOK
  <2>7. onHand' \in [quantity : 0..MaxQuantity, value : Nat, average : Nat]
    BY <2>1, <2>3, <2>5, <2>6 DEF Changed
  <2>8. InventoryTypeOK'
    <3>1. method' \in Methods /\ standard' \in Nat
      BY <1>3 DEF InventoryTypeOK
    <3>2. moved' \in Int
      BY <1>2, <2>1 DEF InventoryTypeOK
    <3>3. reserved' \in Nat /\ binned' \in Nat /\ tracked' \in Nat
      BY <1>3 DEF InventoryTypeOK
    <3>4. revalued' \in Nat
      BY <2>1, <2>3, <1>2 DEF InventoryTypeOK
    <3>5. loose' \in BOOLEAN
      BY <2>2 DEF InventoryTypeOK
    <3> QED
      BY <1>5, <2>1, <2>7, <3>1, <3>2, <3>3, <3>4, <3>5 DEF InventoryTypeOK
  <2>9. OnHandAgrees'
    <3>1. onHand'.quantity = moved' /\ onHand'.quantity > onHand.quantity
      <4>1. onHand.quantity = moved /\ moved \in Int
        BY Agreeing DEF InventoryTypeOK
      <4>2. onHand'.quantity = onHand.quantity + q /\ moved' = moved + q
        BY <2>1, <2>3
      <4> QED
        BY <4>1, <4>2, <1>2
    <3>2. ASSUME ~loose' PROVE reserved <= onHand.quantity /\ binned <= onHand.quantity
                 /\ tracked <= onHand.quantity
      BY <3>2, <2>2 DEF OnHandAgrees
    <3> QED
      BY <1>3, <3>1, <3>2, <2>3 DEF OnHandAgrees, InventoryTypeOK
  <2>10. ValueFollowsAverage'
    BY <1>3, <2>1, <2>3, <2>4, <2>5, RoundedIsClose DEF ValueFollowsAverage
  <2> QED
    BY <2>8, <2>9, <2>10
<1> QED
  BY <1>6, <1>7

LEMMA IssueStep ==
  ASSUME StockInv, NEW k \in Keys \cup {NoKey}, Issue(k)
  PROVE  StockInv'
<1> USE StockAssumption DEF StockInv
<1>1. PICK q \in Quantities :
        q <= onHand.quantity /\ Book(k, -q, Changed(-q, CurrentCost, FALSE))
  BY DEF Issue
<1>2. PICK c \in Nat : c = CurrentCost /\ (method = "moving_average" => c = onHand.average)
  BY CostIsNatural
<1>3. q \in 1..onHand.quantity /\ (-q) * c = -(q * c) /\ q * c \in Nat
  BY <1>1, <1>2 DEF Quantities, InventoryTypeOK
<1>4. UNCHANGED <<method, standard, reserved, binned, tracked, revalued>>
  BY DEF Issue
<1>5. count' = [count EXCEPT !.stale = @ \/ count.scope \in {"organization"}]
  BY DEF Issue, Staled
<1>6. count' \in [status : {"none", "Open", "Counted"}, scope : {"bin", "organization"},
                  expected : Nat, counted : Nat, stale : BOOLEAN]
  BY <1>5 DEF InventoryTypeOK
<1>7. CASE k \in usedKeys
  BY <1>1, <1>4, <1>6, <1>7
     DEF Book, InventoryTypeOK, OnHandAgrees, ValueFollowsAverage, Magnitude
<1>8. CASE k \notin usedKeys
  <2>1. /\ onHand' = Changed(-q, c, FALSE) /\ moved' = moved - q
        /\ usedKeys' \subseteq Keys
        /\ loose' = (loose \/ (-q < 0 /\ Short(Changed(-q, c, FALSE).quantity)))
    BY <1>1, <1>2, <1>3, <1>8 DEF Book, InventoryTypeOK
  <2>2. /\ onHand'.quantity = onHand.quantity - q /\ onHand'.quantity \in 0..MaxQuantity
        /\ onHand'.value = Nonnegative(onHand.value - q * c)
    BY <1>3, <2>1 DEF Changed, InventoryTypeOK
  <2>3. onHand'.value \in Nat
    BY <1>3, <2>2 DEF Nonnegative, InventoryTypeOK
  <2>4. onHand'.average = IF method = "standard" THEN standard
                          ELSE IF onHand'.quantity = 0 THEN 0 ELSE onHand.average
    BY <2>1, <2>2 DEF Changed
  <2>5. onHand' \in [quantity : 0..MaxQuantity, value : Nat, average : Nat]
    BY <2>1, <2>2, <2>3, <2>4 DEF Changed, InventoryTypeOK
  <2>6. loose' \in BOOLEAN
    BY <2>1 DEF Short, InventoryTypeOK
  <2>7. ~loose' => ~loose /\ ~Short(onHand'.quantity)
    <3>1. -q < 0 /\ Changed(-q, c, FALSE).quantity = onHand'.quantity
      BY <1>3, <2>1
    <3> QED
      BY <2>1, <3>1, Zenon
  <2>8. InventoryTypeOK'
    <3>1. method' \in Methods /\ standard' \in Nat
      BY <1>4 DEF InventoryTypeOK
    <3>2. moved' \in Int
      BY <1>3, <2>1 DEF InventoryTypeOK
    <3>3. reserved' \in Nat /\ binned' \in Nat /\ tracked' \in Nat /\ revalued' \in Nat
      BY <1>4 DEF InventoryTypeOK
    <3> QED
      BY <1>6, <2>1, <2>5, <2>6, <3>1, <3>2, <3>3 DEF InventoryTypeOK
  <2>9. OnHandAgrees'
    <3>1. onHand'.quantity = moved'
      BY <1>3, <2>1, <2>2, Agreeing DEF InventoryTypeOK
    <3>2. ASSUME ~Short(onHand'.quantity)
          PROVE  reserved <= onHand'.quantity /\ binned <= onHand'.quantity
                   /\ tracked <= onHand'.quantity
      BY <3>2, <2>2 DEF Short, InventoryTypeOK
    <3> QED
      BY <1>4, <2>7, <3>1, <3>2 DEF OnHandAgrees
  <2>10. ASSUME method = "moving_average"
         PROVE  Magnitude(onHand'.value - onHand'.quantity * onHand'.average)
                  <= Magnitude(onHand.value - onHand.quantity * onHand.average)
    <3> DEFINE v == onHand.value
               n == onHand.quantity
               a == onHand.average
    <3>1. v \in Nat /\ n \in Nat /\ a \in Nat /\ q \in 0..n /\ c = a
      BY <1>2, <1>3, <2>10 DEF InventoryTypeOK
    <3>2. Magnitude(Nonnegative(v - q * a) - (n - q) * a) <= Magnitude(v - n * a)
      BY <3>1, IssueKeepsOff
    <3>3. onHand'.quantity * onHand'.average = (n - q) * a
      <4>1. CASE n - q = 0
        <5>1. onHand'.average \in Nat
          BY <2>5
        <5> QED
          BY <2>2, <3>1, <4>1, <5>1
      <4>2. CASE n - q # 0
        BY <2>2, <2>4, <2>10, <3>1, <4>2
      <4> QED
        BY <4>1, <4>2
    <3> QED
      BY <2>2, <3>1, <3>2, <3>3
  <2>11. ValueFollowsAverage'
    <3> SUFFICES ASSUME method = "moving_average"
                 PROVE  2 * Magnitude(onHand'.value - onHand'.quantity * onHand'.average)
                          <= revalued
      BY <1>4 DEF ValueFollowsAverage
    <3>1. PICK x \in Int, y \in Int :
            /\ x = onHand'.value - onHand'.quantity * onHand'.average
            /\ y = onHand.value - onHand.quantity * onHand.average
      BY <2>5 DEF InventoryTypeOK
    <3>2. 2 * Magnitude(y) <= revalued /\ Magnitude(x) <= Magnitude(y)
      BY <2>10, <3>1 DEF ValueFollowsAverage
    <3> QED
      BY <3>1, <3>2 DEF Magnitude, InventoryTypeOK
  <2> QED
    BY <2>8, <2>9, <2>11
<1> QED
  BY <1>7, <1>8

LEMMA UpdateCostStep ==
  ASSUME StockInv, NEW k \in Keys \cup {NoKey}, UpdateCost(k)
  PROVE  StockInv'
<1> USE StockAssumption DEF StockInv
<1>1. PICK c \in UnitCosts :
        /\ Book(k, 0, [onHand EXCEPT !.value = onHand.quantity * c, !.average = c])
        /\ standard' = IF k \in usedKeys THEN standard ELSE c
  BY DEF UpdateCost
<1>2. UNCHANGED <<method, reserved, binned, tracked, count, revalued>>
  BY DEF UpdateCost
<1>3. c \in Nat /\ onHand.quantity * c \in Nat
  BY DEF InventoryTypeOK
<1>4. CASE k \in usedKeys
  BY <1>1, <1>2, <1>4
     DEF Book, InventoryTypeOK, OnHandAgrees, ValueFollowsAverage, Magnitude
<1>5. CASE k \notin usedKeys
  <2>1. /\ onHand' = [onHand EXCEPT !.value = onHand.quantity * c, !.average = c]
        /\ moved' = moved /\ usedKeys' \subseteq Keys /\ loose' = loose
    BY <1>1, <1>5 DEF Book, InventoryTypeOK
  <2>2. InventoryTypeOK'
    BY <1>1, <1>2, <1>3, <1>5, <2>1 DEF InventoryTypeOK
  <2>3. OnHandAgrees'
    BY <1>2, <2>1 DEF OnHandAgrees, InventoryTypeOK
  <2>4. onHand'.value = onHand'.quantity * onHand'.average /\ onHand'.value \in Nat
    BY <1>3, <2>1 DEF InventoryTypeOK
  <2>5. ValueFollowsAverage'
    BY <1>2, <2>4 DEF ValueFollowsAverage, Magnitude, InventoryTypeOK
  <2> QED
    BY <2>2, <2>3, <2>5
<1> QED
  BY <1>4, <1>5

\* So do the promises, which change no quantity.
LEMMA PromiseStep ==
  ASSUME StockInv,
         Reserve \/ ReleaseReservation \/ Putaway \/ Pick \/ CreateLot \/ ConsumeLot
  PROVE  StockInv'
<1> USE DEF StockInv
<1>1. UNCHANGED <<stock, loose>>
  BY DEF Reserve, ReleaseReservation, Putaway, Pick, CreateLot, ConsumeLot, Staled
<1>2. count' \in [status : {"none", "Open", "Counted"}, scope : {"bin", "organization"},
                  expected : Nat, counted : Nat, stale : BOOLEAN]
  BY DEF Reserve, ReleaseReservation, Putaway, Pick, CreateLot, ConsumeLot, Staled,
         InventoryTypeOK
<1>3. /\ onHand.quantity \in Nat /\ reserved \in Nat /\ binned \in Nat /\ tracked \in Nat
      /\ reserved' \in Nat /\ binned' \in Nat /\ tracked' \in Nat
      /\ reserved <= onHand.quantity => reserved' <= onHand.quantity
      /\ binned <= onHand.quantity => binned' <= onHand.quantity
      /\ tracked <= onHand.quantity => tracked' <= onHand.quantity
  BY StockAssumption DEF Reserve, ReleaseReservation, Putaway, Pick, CreateLot, ConsumeLot,
         Quantities, InventoryTypeOK
<1>4. InventoryTypeOK'
  BY <1>1, <1>2, <1>3 DEF InventoryTypeOK, stock
<1>5. OnHandAgrees'
  BY <1>1, <1>3, Agreeing DEF OnHandAgrees, stock
<1>6. ValueFollowsAverage'
  BY <1>1 DEF ValueFollowsAverage, stock
<1> QED
  BY <1>4, <1>5, <1>6

\* And the counts.
LEMMA CountStep ==
  ASSUME StockInv, CreateCycleCount \/ RecordCycleCountLine
  PROVE  StockInv'
<1> USE DEF StockInv
<1>1. UNCHANGED <<stock, reserved, binned, tracked, loose>>
  BY DEF CreateCycleCount, RecordCycleCountLine
<1>2. count' \in [status : {"none", "Open", "Counted"}, scope : {"bin", "organization"},
                  expected : Nat, counted : Nat, stale : BOOLEAN]
  <2>1. CASE CreateCycleCount
    <3>1. PICK s \in {"bin", "organization"} :
            count' = [NoCount EXCEPT !.status = "Open", !.scope = s]
      BY <2>1 DEF CreateCycleCount
    <3> QED
      BY <3>1 DEF NoCount
  <2>2. CASE RecordCycleCountLine
    <3>1. PICK n \in 0..MaxQuantity :
            count' = [count EXCEPT !.status = "Counted", !.counted = n, !.stale = FALSE,
                        !.expected = IF count.scope = "bin" THEN binned ELSE onHand.quantity]
      BY <2>2 DEF RecordCycleCountLine
    <3>2. n \in Nat /\ binned \in Nat /\ onHand.quantity \in Nat
      BY StockAssumption DEF InventoryTypeOK
    <3> QED
      BY <3>1, <3>2 DEF InventoryTypeOK
  <2> QED
    BY <2>1, <2>2
<1> QED
  BY <1>1, <1>2 DEF InventoryTypeOK, OnHandAgrees, ValueFollowsAverage, stock

LEMMA PostCycleCountStep ==
  ASSUME StockInv, PostCycleCount
  PROVE  StockInv'
<1> USE DEF StockInv
<1>1. PICK d \in Int : d = count.counted - count.expected
  BY DEF InventoryTypeOK
<1>2. PICK c \in Nat : c = CurrentCost /\ (method = "moving_average" => c = onHand.average)
  BY CostIsNatural
<1>3. /\ onHand.quantity + d \in 0..MaxQuantity /\ moved' = moved + d
      /\ onHand' = IF d = 0 THEN onHand
                   ELSE [quantity |-> onHand.quantity + d,
                         value |-> Nonnegative(onHand.value + d * c),
                         average |-> CASE method = "standard" -> standard
                                       [] method # "standard" /\ onHand.quantity + d = 0 -> 0
                                       [] OTHER -> onHand.average]
      /\ binned' = IF count.scope = "bin" /\ d # 0 THEN count.counted ELSE binned
      /\ loose' = (loose \/ count.stale
                    \/ (onHand.quantity + d < reserved \/ onHand.quantity + d < tracked
                        \/ onHand.quantity + d < binned'))
      /\ UNCHANGED <<method, standard, usedKeys, reserved, tracked, revalued>>
      /\ count' = NoCount
  BY <1>1, <1>2 DEF PostCycleCount
<1>4. /\ onHand'.quantity = onHand.quantity + d
      /\ onHand' \in [quantity : 0..MaxQuantity, value : Nat, average : Nat]
  <2>1. onHand.quantity \in Nat /\ onHand.value + d * c \in Int
    BY <1>1, <1>2, StockAssumption DEF InventoryTypeOK
  <2> QED
    BY <1>3, <2>1 DEF InventoryTypeOK, Nonnegative
<1>5. binned' \in Nat /\ loose' \in BOOLEAN /\ moved' \in Int
  <2>1. binned' \in Nat /\ moved' \in Int
    BY <1>3 DEF InventoryTypeOK
  <2>2. loose' \in BOOLEAN
    BY <1>3, Zenon
  <2> QED
    BY <2>1, <2>2
<1>6. InventoryTypeOK'
  <2>1. count' \in [status : {"none", "Open", "Counted"}, scope : {"bin", "organization"},
                    expected : Nat, counted : Nat, stale : BOOLEAN]
    BY <1>3 DEF NoCount
  <2>2. /\ method' \in Methods /\ standard' \in Nat /\ reserved' \in Nat /\ tracked' \in Nat
        /\ revalued' \in Nat /\ usedKeys' \subseteq Keys
    BY <1>3 DEF InventoryTypeOK
  <2> QED
    BY <1>4, <1>5, <2>1, <2>2 DEF InventoryTypeOK
<1>7. OnHandAgrees'
  <2>1. onHand'.quantity = moved'
    <3>1. onHand.quantity = moved
      BY Agreeing
    <3> QED
      BY <3>1, <1>3, <1>4
  <2>2. ASSUME ~loose'
        PROVE  ~(onHand'.quantity < reserved') /\ ~(onHand'.quantity < tracked')
                 /\ ~(onHand'.quantity < binned')
    BY <1>3, <1>4, <2>2, Zenon
  <2>3. /\ onHand'.quantity \in Int /\ reserved' \in Int /\ tracked' \in Int
        /\ binned' \in Int
    BY <1>4, <1>6, <1>5 DEF InventoryTypeOK
  <2>4. ASSUME ~loose'
        PROVE  reserved' <= onHand'.quantity /\ binned' <= onHand'.quantity
                 /\ tracked' <= onHand'.quantity
    BY <2>2, <2>3, <2>4
  <2> QED
    BY <2>1, <2>4 DEF OnHandAgrees
<1>8. ValueFollowsAverage'
  <2> SUFFICES ASSUME method = "moving_average"
               PROVE  2 * Magnitude(onHand'.value - onHand'.quantity * onHand'.average)
                        <= revalued
    BY <1>3 DEF ValueFollowsAverage
  <2> DEFINE v == onHand.value
             n == onHand.quantity
             a == onHand.average
  <2>1. v \in Nat /\ n \in Nat /\ a \in Nat /\ c = a
    BY <1>2, StockAssumption DEF InventoryTypeOK
  <2>2. /\ onHand'.quantity * onHand'.average = (n + d) * a
        /\ onHand'.value = Nonnegative(v + d * a)
    <3>1. CASE d = 0
      BY <1>3, <2>1, <3>1 DEF Nonnegative
    <3>2. CASE d # 0 /\ n + d = 0
      <4>1. (n + d) * a = 0 /\ onHand'.quantity = 0 /\ onHand'.average = 0
        BY <1>3, <2>1, <3>2
      <4> QED
        BY <1>3, <2>1, <3>2, <4>1
    <3>3. CASE d # 0 /\ n + d # 0
      BY <1>3, <2>1, <3>3
    <3> QED
      BY <3>1, <3>2, <3>3
  <2>3. Magnitude(Nonnegative(v + d * a) - (n + d) * a) <= Magnitude(v - n * a)
    <3>1. CASE d >= 0
      <4>1. PICK q \in Nat : q = d
        BY <3>1
      <4>2. Magnitude(Nonnegative(v + q * a) - (n + q) * a) <= Magnitude(v - n * a)
        BY <2>1, AddKeepsOff
      <4>3. Magnitude(v - n * a) \in Int
        BY <2>1 DEF Magnitude
      <4> QED
        BY <4>1, <4>2, <4>3
    <3>2. CASE d < 0
      <4>1. PICK q \in 0..n : q = -d
        BY <1>3, <2>1, <3>2
      <4>2. Magnitude(Nonnegative(v - q * a) - (n - q) * a) <= Magnitude(v - n * a)
        BY <2>1, IssueKeepsOff
      <4>3. v - q * a = v + d * a /\ n - q = n + d
        BY <2>1, <4>1
      <4> QED
        BY <4>2, <4>3
    <3> QED
      BY <3>1, <3>2
  <2>4. 2 * Magnitude(v - n * a) <= revalued
    BY DEF ValueFollowsAverage
  <2>5. PICK x \in Int, y \in Int :
          /\ x = onHand'.value - onHand'.quantity * onHand'.average /\ y = v - n * a
    BY <1>4, <2>1
  <2>6. Magnitude(x) <= Magnitude(y) /\ 2 * Magnitude(y) <= revalued
    BY <2>2, <2>3, <2>4, <2>5
  <2> QED
    BY <2>5, <2>6 DEF Magnitude, InventoryTypeOK
<1> QED
  BY <1>6, <1>7, <1>8

-----------------------------------------------------------------------------
\* The stock is what its movements say and covers what is promised of it, and by moving
\* average it is worth what it cost on average, up to the last rounding
\* (inventoryService.ts): whatever is moved, retried, promised, counted or repriced,
\* for all costs and bounds.
THEOREM StockIsSound ==
  InventorySpec => [](InventoryTypeOK /\ StockAgrees)
<1>1. InventoryInit => StockInv
  <2> SUFFICES ASSUME InventoryInit PROVE StockInv
    OBVIOUS
  <2>1. /\ onHand = [quantity |-> 0, value |-> 0, average |-> 0] /\ method \in Methods
        /\ standard \in Nat /\ count = NoCount /\ loose = FALSE
        /\ moved = 0 /\ usedKeys = {} /\ reserved = 0 /\ binned = 0 /\ tracked = 0
        /\ revalued = 0
    BY StockAssumption DEF InventoryInit
  <2>2. InventoryTypeOK
    <3>1. NoCount \in [status : {"none", "Open", "Counted"}, scope : {"bin", "organization"},
                       expected : Nat, counted : Nat, stale : BOOLEAN]
      BY DEF NoCount
    <3>2. onHand \in [quantity : 0..MaxQuantity, value : Nat, average : Nat]
      BY <2>1, StockAssumption
    <3>3. moved \in Int /\ usedKeys \subseteq Keys
      BY <2>1
    <3>4. loose \in BOOLEAN
      BY <2>1, Zenon
    <3> QED
      BY <2>1, <3>1, <3>2, <3>3, <3>4 DEF InventoryTypeOK
  <2>3. OnHandAgrees /\ ValueFollowsAverage
    BY <2>1 DEF OnHandAgrees, ValueFollowsAverage, Magnitude
  <2> QED
    BY <2>2, <2>3 DEF StockInv
<1>2. StockInv /\ [InventoryNext]_inventoryVars => StockInv'
  <2> SUFFICES ASSUME StockInv, [InventoryNext]_inventoryVars PROVE StockInv'
    OBVIOUS
  <2>1. CASE InventoryNext
    BY <2>1, ReceiveStep, IssueStep, UpdateCostStep, PromiseStep, CountStep, PostCycleCountStep
       DEF InventoryNext
  <2>2. CASE UNCHANGED inventoryVars
    BY <2>2 DEF StockInv, InventoryTypeOK, OnHandAgrees, ValueFollowsAverage, inventoryVars
  <2> QED
    BY <2>1, <2>2
<1>3. StockInv => InventoryTypeOK /\ StockAgrees
  BY DEF StockInv, StockAgrees
<1> QED
  BY <1>1, <1>2, <1>3, PTL DEF InventorySpec

-----------------------------------------------------------------------------
(* GeneralLedger: the ledger follows the journals and the documents.       *)

\* A journal that reverses another is posted, so no handler takes it for a new one.
ReversalsPosted ==
  \A j \in Journals : reversal[j] # NoJournal =>
    journal[reversal[j]].state \in {"Posted", "Reversed"}

\* The inductive invariant.
GLInv == GeneralLedgerTypeOK /\ LedgerFollowsJournals /\ ReversalsPosted

-----------------------------------------------------------------------------
\* The two lines of a document's journal are lines.
LEMMA LinesOfTwo ==
  ASSUME NEW n \in Nets
  PROVE  <<Line(DebitAccount, n), Line(CreditAccount, 0 - n)>> \in Seq(LineType)
<1>1. Line(DebitAccount, n) \in LineType /\ Line(CreditAccount, 0 - n) \in LineType
  BY GeneralLedgerAssumption DEF Line, LineType
<1> QED
  BY <1>1

\* Mirrored lines are lines.
LEMMA MirrorType ==
  ASSUME NEW lines \in Seq(LineType)
  PROVE  Mirrored(lines) \in Seq(LineType)
<1>1. ASSUME NEW i \in 1 .. Len(lines)
      PROVE  Line(lines[i].account, 0 - lines[i].net) \in LineType
  <2>1. lines[i] \in LineType
    OBVIOUS
  <2> QED
    BY <2>1 DEF Line, LineType
<1>2. Mirrored(lines) = [i \in 1 .. Len(lines) |-> Line(lines[i].account, 0 - lines[i].net)]
  BY DEF Mirrored
<1> QED
  BY <1>1, <1>2

-----------------------------------------------------------------------------
\* Posting a new journal: what the handlers of documents have in common.
LEMMA PostKeepsEntries ==
  ASSUME GLInv, NEW j \in SystemJournals, NEW p \in Periods, NEW lines \in Seq(LineType),
         journal[j].state = "None",
         NEW others, others \in [Journals -> [state : {"None", "Draft", "Posted", "Reversed", "Cancelled"},
                                             period : Periods \cup {0}, lines : Seq(LineType)]],
         \A i \in Journals \ {j} :
            /\ others[i].lines = journal[i].lines
            /\ others[i].state \in {"Posted", "Reversed"} <=> journal[i].state \in {"Posted", "Reversed"},
         Post(j, p, lines, others)
  PROVE  /\ period' \in [Periods -> {"None", "Open", "Closing", "Closed", "Locked"}]
         /\ journal' \in [Journals -> [state : {"None", "Draft", "Posted", "Reversed", "Cancelled"},
                                       period : Periods \cup {0}, lines : Seq(LineType)]]
         /\ entries' \in [Journals -> Seq(LineType)]
         /\ EntriesFollow'
<1> j \in Journals
  BY DEF Journals
<1>1. /\ period' \in [Periods -> {"None", "Open", "Closing", "Closed", "Locked"}]
      /\ journal' \in [Journals -> [state : {"None", "Draft", "Posted", "Reversed", "Cancelled"},
                                    period : Periods \cup {0}, lines : Seq(LineType)]]
      /\ entries' \in [Journals -> Seq(LineType)]
  BY DEF GLInv, GeneralLedgerTypeOK, Post
<1>2. EntriesFollow'
  BY DEF GLInv, GeneralLedgerTypeOK, LedgerFollowsJournals, EntriesFollow, Post
<1> QED
  BY <1>1, <1>2

-----------------------------------------------------------------------------
\* The initial ledger is empty.
LEMMA GLInvInit == GeneralLedgerInit => GLInv
<1> SUFFICES ASSUME GeneralLedgerInit PROVE GLInv
  OBVIOUS
<1>1. GeneralLedgerTypeOK
  BY DEF GeneralLedgerInit, NewJournal, GeneralLedgerTypeOK
<1>2. LedgerFollowsJournals
  BY DEF GeneralLedgerInit, NewJournal, LedgerFollowsJournals, EntriesFollow,
         ReversalsMirror, JournalsAreOwn, DocumentsArePosted
<1>3. ReversalsPosted
  BY DEF GeneralLedgerInit, ReversalsPosted
<1> QED
  BY <1>1, <1>2, <1>3 DEF GLInv

\* Every step keeps the invariant.
LEMMA GLInvNext == GLInv /\ [GeneralLedgerNext]_glVars => GLInv'
<1> SUFFICES ASSUME GLInv, [GeneralLedgerNext]_glVars PROVE GLInv'
  OBVIOUS
<1> USE DEF GLInv, LedgerFollowsJournals
<1>1. ASSUME NEW p \in Periods, CreateFiscalPeriod(p) PROVE GLInv'
  BY <1>1 DEF CreateFiscalPeriod, GeneralLedgerTypeOK, EntriesFollow, ReversalsMirror,
              JournalsAreOwn, DocumentsArePosted, ReversalsPosted
<1>2. ASSUME NEW p \in Periods, NEW to \in {"Closing", "Closed", "Locked"},
             UpdateFiscalPeriodState(p, to)
      PROVE GLInv'
  BY <1>2 DEF UpdateFiscalPeriodState, GeneralLedgerTypeOK, EntriesFollow, ReversalsMirror,
              JournalsAreOwn, DocumentsArePosted, ReversalsPosted
<1>3. ASSUME NEW j \in ManualJournals, NEW p \in Periods, CreateJournal(j, p) PROVE GLInv'
  <2> j \in Journals
    BY DEF Journals
  <2>1. GeneralLedgerTypeOK'
    BY <1>3 DEF CreateJournal, GeneralLedgerTypeOK
  <2>2. EntriesFollow' /\ JournalsAreOwn'
    BY <1>3 DEF CreateJournal, GeneralLedgerTypeOK, EntriesFollow, JournalsAreOwn
  <2>3. ReversalsMirror' /\ ReversalsPosted'
    BY <1>3 DEF CreateJournal, GeneralLedgerTypeOK, ReversalsMirror, ReversalsPosted
  <2>4. DocumentsArePosted'
    BY <1>3 DEF CreateJournal, GeneralLedgerTypeOK, DocumentsArePosted
  <2> QED
    BY <2>1, <2>2, <2>3, <2>4
<1>4. ASSUME NEW j \in Journals, NEW a \in Accounts, NEW n \in Int, AddJournalLine(j, a, n)
      PROVE GLInv'
  <2>1. Line(a, n) \in LineType
    BY DEF Line, LineType
  <2>2. GeneralLedgerTypeOK'
    <3>1. Append(journal[j].lines, Line(a, n)) \in Seq(LineType)
      BY <2>1 DEF GeneralLedgerTypeOK
    <3> QED
      BY <1>4, <3>1 DEF AddJournalLine, GeneralLedgerTypeOK
  <2>3. EntriesFollow' /\ JournalsAreOwn'
    BY <1>4 DEF AddJournalLine, GeneralLedgerTypeOK, EntriesFollow, JournalsAreOwn
  <2>4. ReversalsMirror' /\ ReversalsPosted'
    BY <1>4 DEF AddJournalLine, GeneralLedgerTypeOK, ReversalsMirror, ReversalsPosted
  <2>5. DocumentsArePosted'
    BY <1>4 DEF AddJournalLine, GeneralLedgerTypeOK, DocumentsArePosted
  <2> QED
    BY <2>2, <2>3, <2>4, <2>5
<1>5. ASSUME NEW j \in Journals, PostJournal(j) PROVE GLInv'
  <2>1. GeneralLedgerTypeOK'
    BY <1>5 DEF PostJournal, GeneralLedgerTypeOK
  <2>2. EntriesFollow' /\ JournalsAreOwn'
    BY <1>5 DEF PostJournal, GeneralLedgerTypeOK, EntriesFollow, JournalsAreOwn
  <2>3. ReversalsPosted'
    BY <1>5 DEF PostJournal, GeneralLedgerTypeOK, ReversalsPosted
  <2>4. ReversalsMirror'
    BY <1>5 DEF PostJournal, GeneralLedgerTypeOK, ReversalsMirror, ReversalsPosted
  <2>5. DocumentsArePosted'
    BY <1>5 DEF PostJournal, GeneralLedgerTypeOK, DocumentsArePosted
  <2> QED
    BY <2>1, <2>2, <2>3, <2>4, <2>5
<1>6. ASSUME NEW j \in Journals, ReverseJournal(j) PROVE GLInv'
  <2>1. GeneralLedgerTypeOK'
    BY <1>6 DEF ReverseJournal, GeneralLedgerTypeOK
  <2>2. EntriesFollow' /\ JournalsAreOwn'
    BY <1>6 DEF ReverseJournal, GeneralLedgerTypeOK, EntriesFollow, JournalsAreOwn
  <2>3. ReversalsMirror' /\ ReversalsPosted'
    BY <1>6 DEF ReverseJournal, GeneralLedgerTypeOK, ReversalsMirror, ReversalsPosted
  <2>4. DocumentsArePosted'
    BY <1>6 DEF ReverseJournal, GeneralLedgerTypeOK, DocumentsArePosted
  <2> QED
    BY <2>1, <2>2, <2>3, <2>4
<1>7. ASSUME NEW j \in Journals, CancelJournal(j) PROVE GLInv'
  <2>1. GeneralLedgerTypeOK'
    BY <1>7 DEF CancelJournal, GeneralLedgerTypeOK
  <2>2. EntriesFollow' /\ JournalsAreOwn'
    BY <1>7 DEF CancelJournal, GeneralLedgerTypeOK, EntriesFollow, JournalsAreOwn
  <2>3. ReversalsMirror' /\ ReversalsPosted'
    BY <1>7 DEF CancelJournal, GeneralLedgerTypeOK, ReversalsMirror, ReversalsPosted
  <2>4. DocumentsArePosted'
    BY <1>7 DEF CancelJournal, GeneralLedgerTypeOK, DocumentsArePosted
  <2> QED
    BY <2>1, <2>2, <2>3, <2>4
<1>8. ASSUME NEW d \in Documents, NEW j \in SystemJournals, NEW p \in Periods, NEW n \in Nets,
             PostDocument(d, j, p, n)
      PROVE GLInv'
  <2> j \in Journals
    BY DEF Journals
  <2> DEFINE lines == <<Line(DebitAccount, n), Line(CreditAccount, 0 - n)>>
  <2>1. lines \in Seq(LineType)
    BY LinesOfTwo
  <2>2. journal[j].state = "None" /\ Post(j, p, lines, journal)
    BY <1>8 DEF PostDocument
  <2> HIDE DEF lines
  <2>3. /\ period' \in [Periods -> {"None", "Open", "Closing", "Closed", "Locked"}]
        /\ journal' \in [Journals -> [state : {"None", "Draft", "Posted", "Reversed", "Cancelled"},
                                      period : Periods \cup {0}, lines : Seq(LineType)]]
        /\ entries' \in [Journals -> Seq(LineType)]
        /\ EntriesFollow'
    BY <2>1, <2>2, PostKeepsEntries DEF GeneralLedgerTypeOK
  <2>4. /\ document[d].state = "Draft" /\ reversal' = reversal
        /\ document' = [document EXCEPT ![d] = [state |-> "Posted", journal |-> j]]
    BY <1>8 DEF PostDocument
  <2>5. GeneralLedgerTypeOK'
    BY <2>3, <2>4 DEF GeneralLedgerTypeOK
  <2>6. /\ journal'[j].state = "Posted"
        /\ \A i \in Journals \ {j} : journal'[i] = journal[i] /\ entries'[i] = entries[i]
    BY <2>2 DEF Post, GeneralLedgerTypeOK
  <2>7. ReversalsPosted' /\ ReversalsMirror'
    <3>1. reversal[j] = NoJournal
      BY <2>2 DEF ReversalsMirror
    <3>2. \A i \in Journals : reversal[i] # NoJournal => reversal[i] \in Journals \ {j}
      BY <2>2 DEF GeneralLedgerTypeOK, ReversalsPosted
    <3>3. ReversalsPosted'
      BY <2>4, <2>6, <3>1, <3>2 DEF ReversalsPosted
    <3>4. ReversalsMirror'
      BY <2>4, <2>6, <3>1, <3>2 DEF ReversalsMirror
    <3> QED
      BY <3>3, <3>4
  <2>8. JournalsAreOwn'
    BY <2>2, <2>4 DEF GeneralLedgerTypeOK, JournalsAreOwn, DocumentsArePosted
  <2>9. DocumentsArePosted'
    BY <2>2, <2>4, <2>6, GeneralLedgerAssumption DEF GeneralLedgerTypeOK, DocumentsArePosted
  <2> QED
    BY <2>3, <2>5, <2>7, <2>8, <2>9
<1>9. ASSUME NEW d \in Documents, NEW k \in SystemJournals, NEW p \in Periods,
             CancelDocument(d, k, p)
      PROVE GLInv'
  <2> k \in Journals
    BY DEF Journals
  <2>1. PICK j \in Journals : j = document[d].journal
    BY <1>9, GeneralLedgerAssumption DEF CancelDocument, GeneralLedgerTypeOK, DocumentsArePosted
  <2>2. /\ document[d].state = "Posted" /\ journal[k].state = "None"
        /\ journal[j].state = "Posted" /\ reversal[j] = NoJournal
        /\ reversal' = [reversal EXCEPT ![j] = k]
        /\ document' = [document EXCEPT ![d].state = "Cancelled"]
    BY <1>9, <2>1 DEF CancelDocument
  <2> DEFINE lines == Mirrored(journal[j].lines)
             others == [journal EXCEPT ![j].state = "Reversed"]
  <2>3. lines \in Seq(LineType) /\ Post(k, p, lines, others)
    BY <1>9, <2>1, MirrorType DEF CancelDocument, GeneralLedgerTypeOK
  <2>4. /\ others \in [Journals -> [state : {"None", "Draft", "Posted", "Reversed", "Cancelled"},
                                   period : Periods \cup {0}, lines : Seq(LineType)]]
        /\ \A i \in Journals \ {k} :
             /\ others[i].lines = journal[i].lines
             /\ others[i].state \in {"Posted", "Reversed"} <=> journal[i].state \in {"Posted", "Reversed"}
        /\ others[j].state = "Reversed"
        /\ \A i \in Journals \ {j} : others[i] = journal[i]
    BY <2>2 DEF GeneralLedgerTypeOK
  <2>5. lines = Mirrored(entries[j])
    BY <2>2 DEF EntriesFollow
  <2> HIDE DEF lines, others
  <2>6. /\ period' \in [Periods -> {"None", "Open", "Closing", "Closed", "Locked"}]
        /\ journal' \in [Journals -> [state : {"None", "Draft", "Posted", "Reversed", "Cancelled"},
                                      period : Periods \cup {0}, lines : Seq(LineType)]]
        /\ entries' \in [Journals -> Seq(LineType)]
        /\ EntriesFollow'
    BY <2>2, <2>3, <2>4, PostKeepsEntries
  <2>7. GeneralLedgerTypeOK'
    BY <2>2, <2>6 DEF GeneralLedgerTypeOK
  <2>8. /\ k # j
        /\ journal'[k].state = "Posted" /\ entries'[k] = lines
        /\ journal'[j].state = "Reversed"
        /\ \A i \in Journals \ {j, k} : journal'[i] = journal[i]
        /\ \A i \in Journals \ {k} : entries'[i] = entries[i]
    BY <2>2, <2>3, <2>4 DEF Post, GeneralLedgerTypeOK
  <2>9. ReversalsPosted'
    BY <2>2, <2>8 DEF GeneralLedgerTypeOK, ReversalsPosted
  <2>10. ReversalsMirror'
    BY <2>2, <2>5, <2>8 DEF GeneralLedgerTypeOK, ReversalsPosted, ReversalsMirror
  <2>11. JournalsAreOwn'
    <3>1. \A i \in Journals : reversal[i] # k
      BY <2>2, GeneralLedgerAssumption DEF ReversalsPosted
    <3>2. \A e \in Documents : document'[e].journal = document[e].journal
      BY <2>2 DEF GeneralLedgerTypeOK
    <3> QED
      BY <2>2, <3>1, <3>2 DEF GeneralLedgerTypeOK, JournalsAreOwn
  <2>12. DocumentsArePosted'
    <3>1. ASSUME NEW e \in Documents
          PROVE  /\ document'[e].journal = document[e].journal
                 /\ document'[e].state = IF e = d THEN "Cancelled" ELSE document[e].state
      BY <2>2 DEF GeneralLedgerTypeOK
    <3>2. ASSUME NEW i \in Journals, journal[i].state \in {"Posted", "Reversed"}
          PROVE  /\ journal'[i].state \in {"Posted", "Reversed"}
                 /\ reversal[i] # NoJournal => reversal'[i] # NoJournal
      BY <2>2, <2>8, <3>2, GeneralLedgerAssumption DEF GeneralLedgerTypeOK
    <3>3. \A e \in Documents : document[e].state # "Draft" => document[e].journal \in Journals
      BY DEF GeneralLedgerTypeOK, DocumentsArePosted
    <3>4. reversal'[j] # NoJournal
      BY <2>2, GeneralLedgerAssumption DEF GeneralLedgerTypeOK
    <3> QED
      BY <2>1, <2>2, <3>1, <3>2, <3>3, <3>4 DEF DocumentsArePosted
  <2> QED
    BY <2>6, <2>7, <2>9, <2>10, <2>11, <2>12
<1>10. ASSUME UNCHANGED glVars PROVE GLInv'
  BY <1>10 DEF glVars, GeneralLedgerTypeOK, EntriesFollow, ReversalsMirror,
               JournalsAreOwn, DocumentsArePosted, ReversalsPosted
<1>11. \A n \in Nets : n \in Int /\ 0 - n \in Int
  BY GeneralLedgerAssumption
<1> QED
  BY <1>1, <1>2, <1>3, <1>4, <1>5, <1>6, <1>7, <1>8, <1>9, <1>10, <1>11 DEF GeneralLedgerNext

-----------------------------------------------------------------------------
\* The invariant holds in every state of every behaviour.
LEMMA GLInvAlways == GeneralLedgerSpec => []GLInv
<1> QED
  BY GLInvInit, GLInvNext, PTL DEF GeneralLedgerSpec

\* Every table of the ledger holds what its columns allow.
THEOREM GeneralLedgerTypeCorrect == GeneralLedgerSpec => []GeneralLedgerTypeOK
<1>1. GLInv => GeneralLedgerTypeOK
  BY DEF GLInv
<1> QED
  BY GLInvAlways, <1>1, PTL

\* The ledger follows the journals, the documents and their cancellations.
THEOREM LedgerIsFollowed == GeneralLedgerSpec => []LedgerFollowsJournals
<1>1. GLInv => LedgerFollowsJournals
  BY DEF GLInv
<1> QED
  BY GLInvAlways, <1>1, PTL

-----------------------------------------------------------------------------
(* GeneralLedger: the books balance.                                       *)

\* What a journal has in the ledger adds up to nothing.
EntriesBalance == \A j \in Journals : NetOf(entries[j]) = 0

NetsOf(lines) == [i \in DOMAIN lines |-> lines[i].net]

\* What a sum over the lines of a journal runs over.
LEMMA LinesFinite ==
  ASSUME NEW lines \in Seq(LineType)
  PROVE  /\ DOMAIN lines = 1 .. Len(lines) /\ IsFiniteSet(DOMAIN lines)
         /\ \A i \in DOMAIN lines : /\ lines[i] \in LineType
                                    /\ NetsOf(lines)[i] = lines[i].net /\ NetsOf(lines)[i] \in Int
         /\ NetOf(lines) = SumFunctionOnSet(NetsOf(lines), DOMAIN lines)
<1>1. DOMAIN lines = 1 .. Len(lines) /\ Len(lines) \in Nat
  OBVIOUS
<1>2. IsFiniteSet(1 .. Len(lines))
  BY <1>1, FS_Interval
<1>3. \A i \in DOMAIN lines : lines[i] \in LineType
  OBVIOUS
<1>4. DOMAIN NetsOf(lines) = DOMAIN lines
  BY DEF NetsOf
<1>5. NetOf(lines) = SumFunctionOnSet(NetsOf(lines), DOMAIN lines)
  BY <1>4, Zenon DEF NetOf, NetsOf, SumFunction
<1>6. \A i \in DOMAIN lines : NetsOf(lines)[i] = lines[i].net /\ NetsOf(lines)[i] \in Int
  BY <1>3 DEF NetsOf, LineType
<1>7. IsFiniteSet(DOMAIN lines)
  BY <1>1, <1>2, Zenon
<1> QED
  BY <1>1, <1>3, <1>5, <1>6, <1>7

\* The lines of a journal on one account
LinesOn(lines, a) == {i \in DOMAIN lines : lines[i].account = a}
LEMMA OnAccountSum ==
  ASSUME NEW lines, NEW a
  PROVE  OnAccount(lines, a) = SumFunctionOnSet(NetsOf(lines), LinesOn(lines, a))
BY Zenon DEF OnAccount, NetsOf, LinesOn

\* What a journal's lines have on the accounts is what they have together.
LEMMA AccountsMakeNet ==
  ASSUME NEW lines \in Seq(LineType)
  PROVE  /\ \A a \in Accounts : OnAccount(lines, a) \in Int
         /\ SumFunctionOnSet([a \in Accounts |-> OnAccount(lines, a)], Accounts) = NetOf(lines)
<1> DEFINE D == DOMAIN lines
           f == NetsOf(lines)
           m == [i \in D |-> [a \in Accounts |-> IF lines[i].account = a THEN f[i] ELSE 0]]
           col(a) == [i \in D |-> m[i][a]]
<1>1. /\ IsFiniteSet(D) /\ IsFiniteSet(Accounts)
      /\ \A i \in D : f[i] \in Int /\ lines[i].account \in Accounts
  BY LinesFinite, GeneralLedgerAssumption DEF LineType
<1>2. ASSUME NEW a \in Accounts
      PROVE  OnAccount(lines, a) = SumFunctionOnSet(col(a), D) /\ OnAccount(lines, a) \in Int
  <2> DEFINE T == LinesOn(lines, a)
             g == col(a)
  <2>1. T \subseteq D
    BY DEF LinesOn
  <2>2. \A i \in D : f[i] \in Int
    BY <1>1
  <2>3. Filtered(g, f, D, T)
    BY <2>2 DEF LinesOn, Filtered
  <2>4. IsFiniteSet(D)
    BY <1>1
  <2>5. OnAccount(lines, a) = SumFunctionOnSet(f, T)
    BY OnAccountSum
  <2> HIDE DEF D, T, f, g
  <2>6. SumFunctionOnSet(g, D) = SumFunctionOnSet(f, D \cap T)
    BY <2>3, <2>4, SumFiltered
  <2>7. D \cap T = T
    BY <2>1
  <2>8. SumFunctionOnSet(g, D) = SumFunctionOnSet(f, T)
    BY <2>6, <2>7, Zenon
  <2>9. IsFiniteSet(T) /\ \A i \in T : f[i] \in Int
    BY <2>1, <2>2, <2>4, FS_Subset
  <2>10. SumFunctionOnSet(f, T) \in Int
    BY <2>9, SumType
  <2> QED
    BY <2>5, <2>8, <2>10 DEF g
<1>3. ASSUME NEW i \in D PROVE f[i] = SumFunctionOnSet([a \in Accounts |-> m[i][a]], Accounts)
  <2> DEFINE c == lines[i].account
             row == [a \in Accounts |-> m[i][a]]
  <2>1. c \in Accounts /\ row[c] = f[i] /\ f[i] \in Int /\ \A a \in Accounts \ {c} : row[a] = 0
    BY <1>1
  <2> HIDE DEF c, row
  <2>2. SumFunctionOnSet(row, Accounts) = row[c]
    BY <2>1, <1>1, SumSingle
  <2> QED
    BY <2>1, <2>2 DEF row
<1>4. \A i \in D, a \in Accounts : m[i][a] \in Int
  BY <1>1
<1>5. SumFunctionOnSet(f, D) = SumFunctionOnSet([a \in Accounts |-> SumFunctionOnSet(col(a), D)], Accounts)
  <2> DEFINE columns == [a \in Accounts |-> SumFunctionOnSet(col(a), D)]
  <2>1. Tabulated(m, D, Accounts, f, columns)
    <3>1. \A a \in Accounts : columns[a] = SumFunctionOnSet([i \in D |-> m[i][a]], D)
      OBVIOUS
    <3> HIDE DEF D, m, f, columns
    <3> QED
      BY <1>3, <1>4, <3>1 DEF Tabulated
  <2> HIDE DEF D, m, f, columns
  <2>2. SumFunctionOnSet(f, D) = SumFunctionOnSet(columns, Accounts)
    BY <2>1, <1>1, SumByColumns
  <2> QED
    BY <2>2 DEF columns
<1>6. [a \in Accounts |-> SumFunctionOnSet(col(a), D)] = [a \in Accounts |-> OnAccount(lines, a)]
  <2> HIDE DEF D, col
  <2> QED
    BY <1>2
<1>7. NetOf(lines) = SumFunctionOnSet(f, D)
  BY LinesFinite
<1>8. SumFunctionOnSet([a \in Accounts |-> OnAccount(lines, a)], Accounts) = NetOf(lines)
  BY <1>5, <1>6, <1>7, Zenon
<1> QED
  BY <1>2, <1>8

\* Mirrored lines undo what they mirror, together and on every account.
LEMMA MirroredUndoes ==
  ASSUME NEW lines \in Seq(LineType)
  PROVE  /\ NetOf(Mirrored(lines)) = 0 - NetOf(lines)
         /\ \A a : OnAccount(Mirrored(lines), a) = 0 - OnAccount(lines, a)
         /\ \A a : OnAccount(lines, a) \in Int
<1> DEFINE f == NetsOf(lines)
           mirror == Mirrored(lines)
           g == NetsOf(mirror)
           D == DOMAIN lines
<1>1. /\ IsFiniteSet(D)
      /\ \A i \in D : f[i] = lines[i].net /\ f[i] \in Int
      /\ NetOf(lines) = SumFunctionOnSet(f, D)
  BY LinesFinite
<1>2. /\ DOMAIN mirror = D
      /\ \A i \in D : mirror[i].account = lines[i].account /\ mirror[i].net = 0 - lines[i].net
  BY DEF Mirrored, Line
<1>3. /\ \A i \in D : g[i] = 0 - f[i]
      /\ NetOf(mirror) = SumFunctionOnSet(g, D)
  <2>1. \A i \in DOMAIN mirror : g[i] = mirror[i].net
    BY DEF NetsOf
  <2>2. mirror \in Seq(LineType)
    BY MirrorType
  <2>3. NetOf(mirror) = SumFunctionOnSet(g, DOMAIN mirror)
    BY <2>2, LinesFinite
  <2>4. NetOf(mirror) = SumFunctionOnSet(g, D)
    BY <2>3, <1>2, Zenon
  <2>5. ASSUME NEW i \in D PROVE g[i] = 0 - f[i]
    BY <2>1, <1>1, <1>2
  <2> QED
    BY <2>4, <2>5
<1>4. \A a : LinesOn(mirror, a) = LinesOn(lines, a)
  BY <1>2 DEF LinesOn
<1>5. \A a : OnAccount(mirror, a) = SumFunctionOnSet(g, LinesOn(mirror, a))
  BY OnAccountSum
<1>6. \A a : OnAccount(lines, a) = SumFunctionOnSet(f, LinesOn(lines, a)) /\ LinesOn(lines, a) \subseteq D
  BY OnAccountSum DEF LinesOn
<1> HIDE DEF mirror, f, g, D
<1>7. SumFunctionOnSet(g, D) = 0 - SumFunctionOnSet(f, D)
  BY <1>1, <1>3, SumNegated
<1>8. ASSUME NEW a
      PROVE  OnAccount(mirror, a) = 0 - OnAccount(lines, a) /\ OnAccount(lines, a) \in Int
  <2> DEFINE T == LinesOn(lines, a)
  <2>1. IsFiniteSet(T) /\ \A i \in T : f[i] \in Int /\ g[i] = 0 - f[i]
    BY <1>1, <1>3, <1>6, FS_Subset
  <2>2. OnAccount(mirror, a) = SumFunctionOnSet(g, T) /\ OnAccount(lines, a) = SumFunctionOnSet(f, T)
    BY <1>4, <1>5, <1>6, Zenon
  <2> HIDE DEF T
  <2>3. SumFunctionOnSet(g, T) = 0 - SumFunctionOnSet(f, T)
    BY <2>1, SumNegated
  <2>4. SumFunctionOnSet(f, T) \in Int
    BY <2>1, SumType
  <2> QED
    BY <2>2, <2>3, <2>4
<1> QED
  BY <1>1, <1>3, <1>7, <1>8 DEF mirror

\* The two lines of a document balance.
LEMMA TwoLinesBalance ==
  ASSUME NEW n \in Nets
  PROVE  NetOf(<<Line(DebitAccount, n), Line(CreditAccount, 0 - n)>>) = 0
<1> DEFINE lines == <<Line(DebitAccount, n), Line(CreditAccount, 0 - n)>>
           f == NetsOf(lines)
<1>1. n \in Int /\ 0 - n \in Int
  BY GeneralLedgerAssumption
<1>2. lines \in Seq(LineType)
  BY LinesOfTwo
<1>3. DOMAIN lines = {1} \cup {2}
  OBVIOUS
<1>4. f[1] = n /\ f[2] = 0 - n
  BY <1>3 DEF NetsOf, Line
<1>5. NetOf(lines) = SumFunctionOnSet(f, DOMAIN lines)
  BY <1>2, LinesFinite
<1>6. NetOf(lines) = SumFunctionOnSet(f, {1} \cup {2})
  BY <1>3, <1>5, Zenon
<1> HIDE DEF f, lines
<1>7. SumFunctionOnSet(f, {1}) = n
  <2>1. IsFiniteSet({1})
    BY FS_Singleton
  <2> QED
    BY <1>1, <1>4, <2>1, SumSingle
<1>8. SumFunctionOnSet(f, {1} \cup {2}) = SumFunctionOnSet(f, {1}) + f[2]
  <2>1. IsFiniteSet({1}) /\ 2 \notin {1} /\ \A x \in {1} \cup {2} : f[x] \in Int
    BY <1>1, <1>4, FS_Singleton
  <2> QED
    BY <2>1, SumAdded
<1>9. NetOf(lines) = 0
  BY <1>1, <1>4, <1>6, <1>7, <1>8
<1> QED
  BY <1>9 DEF lines

\* Nothing is posted yet.
LEMMA EntriesBalanceInit == GeneralLedgerInit => EntriesBalance
<1>1. NetOf(<<>>) = 0
  <2>1. <<>> \in Seq(LineType) /\ DOMAIN <<>> = {}
    OBVIOUS
  <2>2. NetOf(<<>>) = SumFunctionOnSet(NetsOf(<<>>), DOMAIN <<>>)
    BY <2>1, LinesFinite
  <2>3. NetOf(<<>>) = SumFunctionOnSet(NetsOf(<<>>), {})
    BY <2>1, <2>2, Zenon
  <2> QED
    BY <2>3, SumEmpty
<1>2. ASSUME GeneralLedgerInit, NEW j \in Journals PROVE NetOf(entries[j]) = 0
  <2>1. entries[j] = <<>>
    BY <1>2 DEF GeneralLedgerInit
  <2> QED
    BY <2>1, <1>1, Zenon
<1> QED
  BY <1>2 DEF EntriesBalance

\* Only balanced lines are posted.
LEMMA EntriesBalanceNext ==
  GLInv /\ EntriesBalance /\ [GeneralLedgerNext]_glVars => EntriesBalance'
<1> SUFFICES ASSUME GLInv, EntriesBalance, [GeneralLedgerNext]_glVars PROVE EntriesBalance'
  OBVIOUS
<1>1. ASSUME UNCHANGED entries PROVE EntriesBalance'
  BY <1>1 DEF EntriesBalance
<1>2. ASSUME NEW j \in Journals, NEW lines, NetOf(lines) = 0,
             entries' = [entries EXCEPT ![j] = lines]
      PROVE  EntriesBalance'
  <2>1. entries \in [Journals -> Seq(LineType)]
    BY DEF GLInv, GeneralLedgerTypeOK
  <2>2. \A k \in Journals : entries'[k] = lines \/ entries'[k] = entries[k]
    BY <1>2, <2>1
  <2> QED
    BY <1>2, <2>2, Zenon DEF EntriesBalance
<1>3. ASSUME NEW j \in Journals, PostJournal(j) PROVE EntriesBalance'
  BY <1>3, <1>2 DEF PostJournal, Balanced
<1>4. ASSUME NEW d \in Documents, NEW j \in SystemJournals, NEW p \in Periods, NEW n \in Nets,
             PostDocument(d, j, p, n)
      PROVE EntriesBalance'
  <2> DEFINE lines == <<Line(DebitAccount, n), Line(CreditAccount, 0 - n)>>
  <2>1. j \in Journals /\ entries' = [entries EXCEPT ![j] = lines]
    BY <1>4 DEF PostDocument, Post, Journals
  <2>2. NetOf(lines) = 0
    BY TwoLinesBalance
  <2> HIDE DEF lines
  <2> QED
    BY <2>1, <2>2, <1>2
<1>5. ASSUME NEW d \in Documents, NEW k \in SystemJournals, NEW p \in Periods,
             CancelDocument(d, k, p)
      PROVE EntriesBalance'
  <2>1. PICK j \in Journals : j = document[d].journal
    BY <1>5, GeneralLedgerAssumption
       DEF CancelDocument, GLInv, LedgerFollowsJournals, GeneralLedgerTypeOK, DocumentsArePosted
  <2> DEFINE lines == journal[j].lines
  <2>2. /\ k \in Journals /\ journal[j].state = "Posted"
        /\ entries' = [entries EXCEPT ![k] = Mirrored(lines)]
    BY <1>5, <2>1 DEF CancelDocument, Post, Journals
  <2>3. lines \in Seq(LineType) /\ entries[j] = lines
    BY <2>2 DEF GLInv, LedgerFollowsJournals, GeneralLedgerTypeOK, EntriesFollow
  <2>4. NetOf(lines) = 0
    BY <2>3, Zenon DEF EntriesBalance
  <2> HIDE DEF lines
  <2>5. NetOf(Mirrored(lines)) = 0
    BY <2>3, <2>4, MirroredUndoes
  <2> QED
    BY <2>2, <2>5, <1>2
<1>6. ASSUME NEW p \in Periods, CreateFiscalPeriod(p) PROVE EntriesBalance'
  BY <1>6, <1>1 DEF CreateFiscalPeriod
<1>7. ASSUME NEW p \in Periods, NEW to \in {"Closing", "Closed", "Locked"}, UpdateFiscalPeriodState(p, to)
      PROVE EntriesBalance'
  BY <1>7, <1>1 DEF UpdateFiscalPeriodState
<1>8. ASSUME NEW j \in ManualJournals, NEW p \in Periods, CreateJournal(j, p) PROVE EntriesBalance'
  BY <1>8, <1>1 DEF CreateJournal
<1>9. ASSUME NEW j \in Journals, NEW a \in Accounts, NEW n, AddJournalLine(j, a, n) PROVE EntriesBalance'
  BY <1>9, <1>1 DEF AddJournalLine
<1>10. ASSUME NEW j \in Journals, ReverseJournal(j) \/ CancelJournal(j) PROVE EntriesBalance'
  BY <1>10, <1>1 DEF ReverseJournal, CancelJournal
<1>11. ASSUME UNCHANGED glVars PROVE EntriesBalance'
  BY <1>11, <1>1 DEF glVars
<1> QED
  BY <1>3, <1>4, <1>5, <1>6, <1>7, <1>8, <1>9, <1>10, <1>11 DEF GeneralLedgerNext

\* Where every journal's entries balance, so do the books.
LEMMA BalancedBooks == GLInv /\ EntriesBalance => BooksBalance
<1> SUFFICES ASSUME GLInv, EntriesBalance PROVE BooksBalance
  OBVIOUS
<1>1. entries \in [Journals -> Seq(LineType)]
  BY DEF GLInv, GeneralLedgerTypeOK
<1>2. ASSUME NEW p \in Periods PROVE SumFunction(TrialBalance(p)) = 0
  <2> DEFINE U == UpTo(p)
             m == [a \in Accounts |-> [j \in Journals |-> OnAccount(entries[j], a)]]
             rows == TrialBalance(p)
             col(j) == [a \in Accounts |-> m[a][j]]
             totals == [j \in U |-> SumFunctionOnSet(col(j), Accounts)]
  <2>1. /\ U \subseteq Journals /\ IsFiniteSet(Journals) /\ IsFiniteSet(Accounts)
    BY GeneralLedgerAssumption DEF UpTo
  <2>2. IsFiniteSet(U)
    BY <2>1, FS_Subset
  <2>3. ASSUME NEW j \in U PROVE SumFunctionOnSet(col(j), Accounts) = 0
    <3>1. j \in Journals /\ entries[j] \in Seq(LineType)
      BY <1>1, <2>1
    <3>2. NetOf(entries[j]) = 0
      BY <3>1, Zenon DEF EntriesBalance
    <3>3. col(j) = [a \in Accounts |-> OnAccount(entries[j], a)]
      BY <3>1
    <3> HIDE DEF col
    <3> QED
      BY <3>1, <3>2, <3>3, AccountsMakeNet
  <2>4. \A a \in Accounts, j \in U : m[a][j] \in Int
    BY <1>1, <2>1, AccountsMakeNet
  <2>5. ASSUME NEW a \in Accounts PROVE rows[a] = SumFunctionOnSet([j \in U |-> m[a][j]], U)
    <3> DEFINE f == [j \in Journals |-> OnAccount(entries[j], a)]
               g == [j \in U |-> m[a][j]]
    <3>1. rows[a] = SumFunctionOnSet(f, U)
      BY DEF TrialBalance
    <3>2. \A j \in U : f[j] = g[j]
      BY <2>1
    <3> HIDE DEF f, g, U
    <3>3. SumFunctionOnSet(f, U) = SumFunctionOnSet(g, U)
      BY <2>2, <3>2, SumSame
    <3> QED
      BY <3>1, <3>3 DEF g
  <2>6. \A j \in U : totals[j] = 0
    BY <2>3
  <2>7. DOMAIN rows = Accounts
    BY DEF TrialBalance
  <2>8. Tabulated(m, Accounts, U, rows, totals)
    <3>1. \A j \in U : totals[j] = SumFunctionOnSet([a \in Accounts |-> m[a][j]], Accounts)
      OBVIOUS
    <3> HIDE DEF U, m, rows, totals
    <3> QED
      BY <2>4, <2>5, <3>1 DEF Tabulated
  <2> HIDE DEF U, m, rows, totals
  <2>9. SumFunctionOnSet(rows, Accounts) = SumFunctionOnSet(totals, U)
    BY <2>1, <2>2, <2>8, SumByColumns
  <2> HIDE DEF totals
  <2>10. SumFunctionOnSet(totals, U) = 0
    BY <2>2, <2>6, SumZero
  <2>11. SumFunction(rows) = SumFunctionOnSet(rows, Accounts)
    BY <2>7, Zenon DEF SumFunction
  <2> QED
    BY <2>9, <2>10, <2>11 DEF rows
<1>3. ASSUME NEW d \in Documents, document[d].state = "Cancelled", NEW a \in Accounts
      PROVE  OnAccount(entries[document[d].journal], a)
               + OnAccount(entries[reversal[document[d].journal]], a) = 0
  <2>1. PICK j \in Journals : j = document[d].journal /\ reversal[j] # NoJournal
    BY <1>3, GeneralLedgerAssumption
       DEF GLInv, LedgerFollowsJournals, GeneralLedgerTypeOK, DocumentsArePosted
  <2>2. entries[reversal[j]] = Mirrored(entries[j]) /\ entries[j] \in Seq(LineType)
    BY <2>1, <1>1 DEF GLInv, LedgerFollowsJournals, ReversalsMirror
  <2>3. OnAccount(entries[reversal[j]], a) = 0 - OnAccount(entries[j], a) /\ OnAccount(entries[j], a) \in Int
    BY <2>2, MirroredUndoes
  <2>4. OnAccount(entries[j], a) + OnAccount(entries[reversal[j]], a) = 0
    BY <2>3
  <2> QED
    BY <2>1, <2>4, Zenon
<1> QED
  BY <1>2, <1>3 DEF BooksBalance

\* The trial balance of every period adds up to nothing, at every moment, and a
\* cancelled document leaves nothing on any account.
THEOREM BooksAlwaysBalance == GeneralLedgerSpec => []BooksBalance
<1>1. GeneralLedgerSpec => []EntriesBalance
  BY EntriesBalanceInit, EntriesBalanceNext, GLInvAlways, PTL DEF GeneralLedgerSpec
<1> QED
  BY <1>1, GLInvAlways, BalancedBooks, PTL

-----------------------------------------------------------------------------
(* Contractors: LabourCosted.  It is inductive with the types of the       *)
(* records and two facts: only what has been accrued is matched to an      *)
(* invoice, so that refreshing a status never makes an accrual up, and     *)
(* every payment that exists is of some invoice.                           *)

\* The rows of the tables, by type.
Accruals == {"None", "Accrued", "Invoiced", "Paid"}
Sheets == [status : {"Draft", "Submitted", "Approved", "Rejected"}, lines : Seq(Lines)]
Invoices == [state : InvoiceStates, due : Nat, paid : Nat,
             journal : {"none", "posted", "reversed"}, matched : [Lines -> Nat]]
Payments == [state : {"None", "Draft", "Received", "Applied", "Reconciled", "Cancelled"},
             invoice : SupplierInvoices \cup {NoSupplierInvoice}, amount : Nat]

Shape ==
  /\ sheet \in [Timesheets -> Sheets]
  /\ labour \in [Lines -> {0, 1}]
  /\ accrual \in [Lines -> Accruals]
  /\ invoice \in [SupplierInvoices -> Invoices]
  /\ apPayment \in [ApPayments -> Payments]

\* Only what was accrued is matched.
MatchedIsAccrued ==
  \A i \in SupplierInvoices : \A l \in Lines :
    invoice[i].matched[l] > 0 => accrual[l] # "None"

\* A payment that exists names its invoice.
PaymentIsOfInvoice ==
  \A p \in ApPayments : apPayment[p].state # "None" => apPayment[p].invoice \in SupplierInvoices

\* What LabourCosted says of a line.
LineCosted ==
  \A l \in Lines : accrual[l] # "None" <=> labour[l] = 1 /\ LineKind[l] = "contractor"

\* And of a timesheet.
SheetCosted ==
  \A t \in Timesheets : sheet[t].status = "Approved" =>
    \A l \in Set(sheet[t].lines) : OfProject(l) => labour[l] = 1

\* The inductive invariant of the costing.
CostingInv == Shape /\ MatchedIsAccrued /\ PaymentIsOfInvoice /\ LineCosted /\ SheetCosted

-----------------------------------------------------------------------------
\* The named parts make the invariant of the run.
LEMMA CostingInvImplies == CostingInv => LabourCosted
<1> SUFFICES ASSUME CostingInv PROVE LabourCosted
  OBVIOUS
<1>1. ASSUME NEW l \in Lines
      PROVE  /\ labour[l] \in {0, 1}
             /\ (accrual[l] # "None") = (labour[l] = 1 /\ LineKind[l] = "contractor")
  <2>1. labour[l] \in {0, 1}
    BY DEF CostingInv, Shape
  <2>2. accrual[l] # "None" <=> labour[l] = 1 /\ LineKind[l] = "contractor"
    BY DEF CostingInv, LineCosted
  <2> QED
    BY <2>1, <2>2, Zenon
<1> QED
  BY <1>1, Zenon DEF LabourCosted, CostingInv, SheetCosted

\* A refreshed status is one of an accrual, and none is made up where there was none.
LEMMA RefreshKeeps ==
  ASSUME CostingInv, NEW i \in SupplierInvoices, NEW inv, Refresh(Matched(i), inv)
  PROVE  /\ accrual' \in [Lines -> Accruals]
         /\ \A l \in Lines : accrual'[l] # "None" <=> accrual[l] # "None"
<1> DEFINE new(l) == IF l \in Matched(i) /\ accrual[l] # "Paid" THEN Refreshed(l, inv)
                                                            ELSE accrual[l]
<1>1. accrual' = [l \in Lines |-> new(l)]
  BY DEF Refresh
<1>2. ASSUME NEW l \in Lines
      PROVE  new(l) \in Accruals /\ (new(l) # "None" <=> accrual[l] # "None")
  <2>1. Refreshed(l, inv) \in {"Paid", "Invoiced", "Accrued"}
    BY DEF Refreshed
  <2>2. accrual[l] \in Accruals
    BY DEF CostingInv, Shape
  <2>3. l \in Matched(i) => accrual[l] # "None"
    BY DEF Matched, CostingInv, MatchedIsAccrued
  <2> QED
    BY <2>1, <2>2, <2>3 DEF Accruals
<1> HIDE DEF new
<1> QED
  BY <1>1, <1>2

-----------------------------------------------------------------------------
\* Timesheets.

LEMMA AddStep ==
  ASSUME CostingInv, NEW t \in Timesheets, NEW l \in Lines, AddTimesheetLine(t, l)
  PROVE  CostingInv'
<1> USE DEF CostingInv
<1>1. /\ sheet' = [sheet EXCEPT ![t].lines = Append(@, l)] /\ sheet[t].status = "Draft"
      /\ UNCHANGED <<labour, accrual, invoice, apPayment>>
  BY DEF AddTimesheetLine, invoicing
<1>2. Shape'
  <2>1. sheet[t] \in Sheets /\ Append(sheet[t].lines, l) \in Seq(Lines)
    BY DEF Shape, Sheets
  <2>2. [sheet[t] EXCEPT !.lines = Append(@, l)] \in Sheets
    BY <2>1 DEF Sheets
  <2>3. sheet' \in [Timesheets -> Sheets]
    BY <1>1, <2>2 DEF Shape
  <2> QED
    BY <1>1, <2>3 DEF Shape
<1>3. SheetCosted'
  <2> SUFFICES ASSUME NEW u \in Timesheets, sheet'[u].status = "Approved"
               PROVE  \A m \in Set(sheet'[u].lines) : OfProject(m) => labour[m] = 1
    BY <1>1 DEF SheetCosted, OfProject, Set
  <2>1. sheet[t] \in Sheets /\ sheet[u] \in Sheets
    BY DEF Shape
  <2>2. u # t
    BY <1>1, <2>1 DEF Shape, Sheets
  <2>3. sheet'[u] = sheet[u]
    BY <1>1, <2>2 DEF Shape
  <2> QED
    BY <2>3 DEF SheetCosted
<1> QED
  BY <1>1, <1>2, <1>3 DEF MatchedIsAccrued, PaymentIsOfInvoice, LineCosted

LEMMA MoveStep ==
  ASSUME CostingInv, NEW t \in Timesheets,
         SubmitTimesheet(t) \/ RejectTimesheet(t) \/ ReopenTimesheet(t)
  PROVE  CostingInv'
<1> USE DEF CostingInv
<1>1. PICK to \in {"Draft", "Submitted", "Rejected"} :
        /\ sheet' = [sheet EXCEPT ![t].status = to]
        /\ UNCHANGED <<labour, accrual, invoice, apPayment>>
  BY DEF SubmitTimesheet, RejectTimesheet, ReopenTimesheet, MoveTimesheet, invoicing
<1>2. sheet' \in [Timesheets -> Sheets]
  BY <1>1 DEF Shape, Sheets
<1>3. SheetCosted'
  <2> SUFFICES ASSUME NEW u \in Timesheets, sheet'[u].status = "Approved"
               PROVE  \A m \in Set(sheet'[u].lines) : OfProject(m) => labour[m] = 1
    BY <1>1 DEF SheetCosted, OfProject, Set
  <2>1. u # t
    BY <1>1 DEF Shape, Sheets
  <2>2. sheet'[u] = sheet[u]
    BY <1>1, <2>1 DEF Shape
  <2> QED
    BY <2>2 DEF SheetCosted
<1> QED
  BY <1>1, <1>2, <1>3 DEF Shape, MatchedIsAccrued, PaymentIsOfInvoice, LineCosted

LEMMA ApproveStep ==
  ASSUME CostingInv, NEW t \in Timesheets, ApproveTimesheet(t)
  PROVE  CostingInv'
<1> USE DEF CostingInv
<1>1. PICK n \in 0..Len(sheet[t].lines) :
        LET posted == Uncosted(t) \cap {sheet[t].lines[k] : k \in 1..n} IN
        /\ \A l \in posted : Postable(l)
        /\ PostLabour(posted)
        /\ sheet' = [sheet EXCEPT ![t].status = IF n = Len(sheet[t].lines) THEN "Approved" ELSE @]
  BY DEF ApproveTimesheet
<1>2. PICK posted :
        /\ posted = Uncosted(t) \cap {sheet[t].lines[k] : k \in 1..n}
        /\ PostLabour(posted)
        /\ sheet' = [sheet EXCEPT ![t].status = IF n = Len(sheet[t].lines) THEN "Approved" ELSE @]
  BY <1>1
<1>3. UNCHANGED <<invoice, apPayment>>
  BY DEF ApproveTimesheet, invoicing
<1>4. /\ sheet[t] \in Sheets /\ sheet[t].lines \in Seq(Lines)
      /\ sheet[t].status = "Submitted"
  BY DEF Shape, Sheets, ApproveTimesheet
<1>5. ASSUME NEW l \in Lines
      PROVE  /\ labour'[l] \in {0, 1} /\ accrual'[l] \in Accruals
             /\ accrual[l] # "None" => accrual'[l] # "None"
             /\ labour[l] = 1 => labour'[l] = 1
             /\ l \in posted => labour'[l] = 1
             /\ accrual'[l] # "None" <=> labour'[l] = 1 /\ LineKind[l] = "contractor"
  <2>1. /\ labour'[l] = IF l \in posted THEN labour[l] + 1 ELSE labour[l]
        /\ accrual'[l] = IF l \in posted /\ LineKind[l] = "contractor" THEN "Accrued"
                                                                     ELSE accrual[l]
    BY <1>2 DEF PostLabour, Contracted
  <2>2. l \in posted => labour[l] = 0
    BY <1>2 DEF Uncosted
  <2>3. /\ labour[l] \in {0, 1} /\ accrual[l] \in Accruals
        /\ accrual[l] # "None" <=> labour[l] = 1 /\ LineKind[l] = "contractor"
    BY DEF Shape, LineCosted
  <2> QED
    BY <2>1, <2>2, <2>3 DEF Accruals
<1>6. Shape'
  <2>1. labour' \in [Lines -> {0, 1}] /\ accrual' \in [Lines -> Accruals]
    BY <1>2, <1>5 DEF PostLabour
  <2>2. sheet' \in [Timesheets -> Sheets]
    BY <1>2, <1>4 DEF Shape, Sheets
  <2> QED
    BY <1>3, <2>1, <2>2 DEF Shape
<1>7. MatchedIsAccrued'
  BY <1>3, <1>5 DEF MatchedIsAccrued
<1>8. PaymentIsOfInvoice'
  BY <1>3 DEF PaymentIsOfInvoice
<1>9. LineCosted'
  BY <1>5 DEF LineCosted
<1>10. SheetCosted'
  <2> SUFFICES ASSUME NEW u \in Timesheets, sheet'[u].status = "Approved",
                      NEW l \in Set(sheet'[u].lines), OfProject(l)
               PROVE  labour'[l] = 1
    BY DEF SheetCosted, OfProject, Set
  <2>1. sheet'[u].lines = sheet[u].lines /\ sheet[u].lines \in Seq(Lines)
    BY <1>2 DEF Shape, Sheets
  <2>2. l \in Set(sheet[u].lines) /\ l \in Lines
    BY <2>1 DEF Set
  <2>3. CASE u = t
    <3>1. n = Len(sheet[t].lines)
      BY <1>2, <1>4, <2>3 DEF Shape
    <3>2. PICK k \in 1..n : l = sheet[t].lines[k]
      BY <1>4, <2>2, <2>3, <3>1 DEF Set
    <3>3. labour[l] = 0 => l \in posted
      BY <1>2, <2>2, <2>3, <3>2 DEF Uncosted
    <3> QED
      BY <1>5, <2>2, <3>3 DEF Shape
  <2>4. CASE u # t
    <3>1. sheet[u].status = "Approved"
      BY <1>2, <2>4 DEF Shape
    <3> QED
      BY <1>5, <2>2, <3>1 DEF SheetCosted
  <2> QED
    BY <2>3, <2>4
<1> QED
  BY <1>6, <1>7, <1>8, <1>9, <1>10

-----------------------------------------------------------------------------
\* Invoices and payments.  What they leave of the invariant to show: the new records
\* have their types, and what is matched has been accrued.
LEMMA InvoicingKeeps ==
  ASSUME CostingInv, UNCHANGED <<sheet, labour>>,
         invoice' \in [SupplierInvoices -> Invoices], apPayment' \in [ApPayments -> Payments],
         accrual' \in [Lines -> Accruals],
         \A l \in Lines : accrual'[l] # "None" <=> accrual[l] # "None",
         \A i \in SupplierInvoices : \A l \in Lines :
           invoice'[i].matched[l] > 0 => invoice[i].matched[l] > 0 \/ accrual[l] # "None",
         PaymentIsOfInvoice'
  PROVE  CostingInv'
<1> USE DEF CostingInv
<1>1. Shape'
  BY DEF Shape
<1>2. MatchedIsAccrued'
  BY DEF MatchedIsAccrued
<1>3. LineCosted'
  BY DEF LineCosted
<1>4. SheetCosted'
  BY DEF SheetCosted, OfProject, Set
<1> QED
  BY <1>1, <1>2, <1>3, <1>4

LEMMA CreateInvoiceStep ==
  ASSUME CostingInv, NEW i \in SupplierInvoices, CreateSupplierInvoice(i) \/ ValidateInvoice(i)
  PROVE  CostingInv'
<1>1. UNCHANGED <<sheet, labour, accrual, apPayment>>
  BY DEF CreateSupplierInvoice, ValidateInvoice, timesheets
<1>2. /\ invoice' \in [SupplierInvoices -> Invoices]
      /\ \A j \in SupplierInvoices : invoice'[j].matched = invoice[j].matched
  <2>1. CASE CreateSupplierInvoice(i)
    <3>1. PICK a \in Nat : invoice' = [invoice EXCEPT ![i].state = "Draft", ![i].due = a]
      BY <2>1, ContractorsAssumption DEF CreateSupplierInvoice
    <3> QED
      BY <3>1 DEF CostingInv, Shape, Invoices, InvoiceStates
  <2>2. CASE ValidateInvoice(i)
    BY <2>2 DEF ValidateInvoice, CostingInv, Shape, Invoices, InvoiceStates
  <2> QED
    BY <2>1, <2>2
<1>3. PaymentIsOfInvoice'
  BY <1>1 DEF CostingInv, PaymentIsOfInvoice
<1> QED
  BY <1>1, <1>2, <1>3, InvoicingKeeps DEF CostingInv, Shape

LEMMA MatchStep ==
  ASSUME CostingInv, NEW i \in SupplierInvoices, MatchInvoice(i)
  PROVE  CostingInv'
<1>1. UNCHANGED <<sheet, labour, accrual, apPayment>>
  BY DEF MatchInvoice, timesheets
<1>2. PICK ls \in SUBSET Lines \ {{}} : \E alloc \in [ls -> Amounts] :
        /\ Allocatable(i, alloc)
        /\ invoice' = [invoice EXCEPT ![i].matched =
                         [l \in Lines |-> IF l \in ls THEN alloc[l] ELSE 0]]
  BY DEF MatchInvoice
<1>3. PICK alloc \in [ls -> Amounts] :
        /\ Allocatable(i, alloc)
        /\ invoice' = [invoice EXCEPT ![i].matched =
                         [l \in Lines |-> IF l \in ls THEN alloc[l] ELSE 0]]
  BY <1>2
<1>4. PICK m \in [Lines -> Nat] :
        /\ invoice' = [invoice EXCEPT ![i].matched = m]
        /\ \A l \in Lines : m[l] > 0 => accrual[l] # "None"
  <2> DEFINE m == [l \in Lines |-> IF l \in ls THEN alloc[l] ELSE 0]
  <2>1. m \in [Lines -> Nat]
    BY ContractorsAssumption
  <2>2. ASSUME NEW l \in Lines, m[l] > 0 PROVE accrual[l] # "None"
    <3>1. l \in DOMAIN alloc
      BY <2>2
    <3> QED
      BY <1>3, <3>1 DEF Allocatable
  <2> QED
    BY <1>3, <2>1, <2>2
<1>5. /\ invoice' \in [SupplierInvoices -> Invoices]
      /\ \A j \in SupplierInvoices : \A l \in Lines :
           invoice'[j].matched[l] > 0 => invoice[j].matched[l] > 0 \/ accrual[l] # "None"
  BY <1>4 DEF CostingInv, Shape, Invoices
<1>6. PaymentIsOfInvoice'
  BY <1>1 DEF CostingInv, PaymentIsOfInvoice
<1> QED
  BY <1>1, <1>5, <1>6, InvoicingKeeps DEF CostingInv, Shape

LEMMA PostStep ==
  ASSUME CostingInv, NEW i \in SupplierInvoices, PostInvoice(i) \/ CancelInvoiceOf(i)
  PROVE  CostingInv'
<1>1. UNCHANGED <<sheet, labour, apPayment>>
  BY DEF PostInvoice, CancelInvoiceOf, timesheets
<1>2. \E inv : Refresh(Matched(i), inv)
  BY DEF PostInvoice, CancelInvoiceOf
<1>3. /\ accrual' \in [Lines -> Accruals]
      /\ \A l \in Lines : accrual'[l] # "None" <=> accrual[l] # "None"
  BY <1>2, RefreshKeeps
<1>4. /\ invoice' \in [SupplierInvoices -> Invoices]
      /\ \A j \in SupplierInvoices : \A l \in Lines :
           invoice'[j].matched[l] > 0 => invoice[j].matched[l] > 0
  <2>1. CASE PostInvoice(i)
    BY <2>1 DEF PostInvoice, CostingInv, Shape, Invoices, InvoiceStates
  <2>2. CASE CancelInvoiceOf(i)
    <3>1. PICK z \in [Lines -> Nat], j \in {"none", "posted", "reversed"} :
            /\ z = [l \in Lines |-> 0]
            /\ invoice' = [invoice EXCEPT ![i].state = "Cancelled", ![i].journal = j,
                                          ![i].matched = z]
      <4>1. invoice[i].journal \in {"none", "posted", "reversed"}
        BY DEF CostingInv, Shape, Invoices
      <4> QED
        BY <2>2, <4>1 DEF CancelInvoiceOf
    <3>2. invoice[i] \in Invoices
      BY DEF CostingInv, Shape
    <3>3. PICK r \in Invoices :
            r = [invoice[i] EXCEPT !.state = "Cancelled", !.journal = j, !.matched = z]
      BY <3>2 DEF Invoices, InvoiceStates
    <3>4. invoice' = [invoice EXCEPT ![i] = r] /\ r.matched = z
      BY <3>1, <3>2, <3>3 DEF CostingInv, Shape, Invoices
    <3>5. \A l \in Lines : ~(z[l] > 0)
      BY <3>1
    <3> QED
      BY <3>4, <3>5 DEF CostingInv, Shape
  <2> QED
    BY <2>1, <2>2
<1>5. PaymentIsOfInvoice'
  BY <1>1 DEF CostingInv, PaymentIsOfInvoice
<1> QED
  BY <1>1, <1>3, <1>4, <1>5, InvoicingKeeps DEF CostingInv, Shape

LEMMA PaymentStep ==
  ASSUME CostingInv, NEW p \in ApPayments,
         \/ \E i \in SupplierInvoices : CreateApPayment(p, i)
         \/ \E to \in {"Received", "Cancelled", "Reconciled"} : MoveApPayment(p, to)
  PROVE  CostingInv'
<1>1. UNCHANGED <<sheet, labour, accrual, invoice>>
  BY DEF CreateApPayment, MoveApPayment, timesheets
<1>2. apPayment' \in [ApPayments -> Payments] /\ PaymentIsOfInvoice'
  <2>1. CASE \E i \in SupplierInvoices : CreateApPayment(p, i)
    BY <2>1, ContractorsAssumption
       DEF CreateApPayment, CostingInv, Shape, Payments, PaymentIsOfInvoice
  <2>2. CASE \E to \in {"Received", "Cancelled", "Reconciled"} : MoveApPayment(p, to)
    <3>1. PICK to \in {"Received", "Cancelled", "Reconciled"} : MoveApPayment(p, to)
      BY <2>2
    <3>2. apPayment[p].state # "None" /\ apPayment' = [apPayment EXCEPT ![p].state = to]
      BY <3>1 DEF MoveApPayment
    <3> QED
      BY <3>2 DEF CostingInv, Shape, Payments, PaymentIsOfInvoice
  <2> QED
    BY <2>1, <2>2
<1> QED
  BY <1>1, <1>2, InvoicingKeeps DEF CostingInv, Shape

LEMMA ApplyStep ==
  ASSUME CostingInv, NEW p \in ApPayments, ApplyApPayment(p)
  PROVE  CostingInv'
<1>1. /\ UNCHANGED <<sheet, labour>>
      /\ apPayment[p].state = "Received"
      /\ apPayment' = [apPayment EXCEPT ![p].state = "Applied"]
  BY DEF ApplyApPayment, timesheets
<1>2. PICK i \in SupplierInvoices : i = apPayment[p].invoice
  BY <1>1 DEF CostingInv, PaymentIsOfInvoice
<1>3. PICK paid \in Nat, st \in {"Paid", "Posted"} :
        invoice' = [invoice EXCEPT ![i].paid = paid, ![i].state = st]
  <2>1. invoice[i].paid + apPayment[p].amount \in Nat
    BY DEF CostingInv, Shape, Invoices, Payments
  <2> QED
    BY <1>2, <2>1 DEF ApplyApPayment
<1>4. \E inv : Refresh(Matched(i), inv)
  BY <1>2 DEF ApplyApPayment
<1>5. /\ accrual' \in [Lines -> Accruals]
      /\ \A l \in Lines : accrual'[l] # "None" <=> accrual[l] # "None"
  BY <1>4, RefreshKeeps
<1>6. /\ invoice' \in [SupplierInvoices -> Invoices]
      /\ \A j \in SupplierInvoices : invoice'[j].matched = invoice[j].matched
  BY <1>3 DEF CostingInv, Shape, Invoices, InvoiceStates
<1>7. apPayment' \in [ApPayments -> Payments] /\ PaymentIsOfInvoice'
  BY <1>1 DEF CostingInv, Shape, Payments, PaymentIsOfInvoice
<1> QED
  BY <1>1, <1>5, <1>6, <1>7, InvoicingKeeps DEF CostingInv, Shape

-----------------------------------------------------------------------------
\* The invariant holds in every state of every behaviour.
LEMMA CostingAlways == ContractorsSpec => []CostingInv
<1>1. ContractorsInit => CostingInv
  BY DEF ContractorsInit, CostingInv, Shape, Sheets, Accruals, Invoices, InvoiceStates, NoInvoice,
         Payments, NoPayment, MatchedIsAccrued, PaymentIsOfInvoice, LineCosted, SheetCosted
<1>2. CostingInv /\ [ContractorsNext]_contractorVars => CostingInv'
  <2> SUFFICES ASSUME CostingInv, [ContractorsNext]_contractorVars PROVE CostingInv'
    OBVIOUS
  <2>1. CASE HoldOrResume \/ UNCHANGED contractorVars
    <3>1. UNCHANGED <<sheet, labour, accrual, invoice, apPayment>>
      BY <2>1 DEF HoldOrResume, contractorVars, invoicing
    <3> QED
      BY <3>1 DEF CostingInv, Shape, MatchedIsAccrued, PaymentIsOfInvoice, LineCosted,
                  SheetCosted, Set, OfProject
  <2>2. CASE ContractorsNext /\ ~HoldOrResume
    BY <2>2, AddStep, MoveStep, ApproveStep, CreateInvoiceStep, MatchStep, PostStep,
       PaymentStep, ApplyStep DEF ContractorsNext
  <2> QED
    BY <2>1, <2>2
<1> QED
  BY <1>1, <1>2, PTL DEF ContractorsSpec

\* No line is ever posted as labour twice, an accrual exists exactly for a contractor's
\* posted line, and an approved timesheet has no line left out
\* (timesheetService.ts:735-811, projectService.ts postLaborCost): for all timesheets,
\* lines, invoices and payments, wherever approvals were cut short.
THEOREM LabourIsCostedOnce == ContractorsSpec => []LabourCosted
BY CostingAlways, CostingInvImplies, PTL

-----------------------------------------------------------------------------
(* Contractors: PayablesAgree.                                             *)

\* Invoices that count towards what is payable, and those with a journal in force.
Standing == {"Posted", "Paid"}
PostedIn(inv) == {i \in SupplierInvoices : inv[i].journal = "posted"}
OpenIn(inv) == {i \in SupplierInvoices : inv[i].state \in Standing}

\* What the state of an invoice says of its other fields.
InvoiceSound(r) ==
  /\ r.state \in {"None", "Cancelled"} => \A l \in Lines : r.matched[l] = 0
  /\ r.state \notin Standing => r.paid = 0 /\ r.journal # "posted"
  /\ r.state \in Standing /\ r.journal # "posted" => r.paid > 0
  /\ r.state = "Paid" => r.paid >= r.due

InvoicesSound == \A i \in SupplierInvoices : InvoiceSound(invoice[i])

\* Nothing is paid without an amount.
PaymentsPositive == \A p \in ApPayments : apPayment[p].state # "None" => apPayment[p].amount > 0

\* The functions that the figures are sums of
MatchesOf(l, inv) == [j \in SupplierInvoices |-> inv[j].matched[l]]
Taken(inv) == [i \in SupplierInvoices |-> Total(inv[i].matched, Lines)]
Owed(inv) == [i \in SupplierInvoices |-> inv[i].due - inv[i].paid]
Costed(lab) == Contracted({l \in Lines : lab[l] > 0})

\* AccrualStatusAgrees, part by part
NotBeyond == \A l \in Lines : Total(MatchesOf(l, invoice), SupplierInvoices) <= LineCost[l]
StatusCurrent == \A l \in Lines : accrual[l] # "None" => accrual[l] = Refreshed(l, invoice)

\* PayablesReconcile, part by part
LiabilityIs ==
  liability = Total(LineCost, Costed(labour)) - Total(Taken(invoice), PostedIn(invoice))
PayableIs ==
  OpenIn(invoice) \subseteq PostedIn(invoice) => payable = Total(Owed(invoice), OpenIn(invoice))

\* Inductive where the types and CostingInv hold.
PayablesInv ==
  /\ InvoicesSound /\ PaymentsPositive
  /\ NotBeyond /\ StatusCurrent
  /\ liability \in Int /\ payable \in Int /\ LiabilityIs /\ PayableIs

-----------------------------------------------------------------------------
LEMMA PayablesInvImplies == PayablesInv => PayablesAgree
<1>1. PayablesInv => AccrualStatusAgrees
  BY DEF PayablesInv, NotBeyond, StatusCurrent, AccrualStatusAgrees, MatchesOf
<1>2. PayablesInv => PayablesReconcile
  BY DEF PayablesInv, LiabilityIs, PayableIs, PayablesReconcile, Costed, Taken, Owed,
         PostedIn, OpenIn, Standing
<1> QED
  BY <1>1, <1>2 DEF PayablesAgree

\* What the sums run over is finite, and the figures are numbers.
LEMMA Figures ==
  ASSUME NEW inv \in [SupplierInvoices -> Invoices]
  PROVE  /\ IsFiniteSet(Lines) /\ IsFiniteSet(SupplierInvoices)
         /\ \A S \in SUBSET SupplierInvoices : IsFiniteSet(S)
         /\ \A S \in SUBSET Lines : IsFiniteSet(S)
         /\ \A l \in Lines : \A j \in SupplierInvoices :
              MatchesOf(l, inv)[j] = inv[j].matched[l] /\ inv[j].matched[l] \in Nat
         /\ \A j \in SupplierInvoices :
              /\ Taken(inv)[j] = Total(inv[j].matched, Lines) /\ Taken(inv)[j] \in Nat
              /\ Owed(inv)[j] = inv[j].due - inv[j].paid /\ Owed(inv)[j] \in Int
         /\ \A l \in Lines : LineCost[l] \in Nat
<1>1. /\ IsFiniteSet(Lines) /\ IsFiniteSet(SupplierInvoices)
      /\ \A l \in Lines : LineCost[l] \in Nat
  BY ContractorsAssumption
<1>2. /\ \A S \in SUBSET SupplierInvoices : IsFiniteSet(S)
      /\ \A S \in SUBSET Lines : IsFiniteSet(S)
  BY <1>1, FS_Subset
<1>3. \A l \in Lines : \A j \in SupplierInvoices :
        MatchesOf(l, inv)[j] = inv[j].matched[l] /\ inv[j].matched[l] \in Nat
  BY DEF MatchesOf, Invoices
<1>4. ASSUME NEW j \in SupplierInvoices
      PROVE  /\ Taken(inv)[j] = Total(inv[j].matched, Lines) /\ Taken(inv)[j] \in Nat
             /\ Owed(inv)[j] = inv[j].due - inv[j].paid /\ Owed(inv)[j] \in Int
  <2>1. \A l \in Lines : inv[j].matched[l] \in Nat
    BY <1>3
  <2>2. Total(inv[j].matched, Lines) \in Nat
    BY <2>1, <1>1, SumIsNat DEF Total
  <2>3. inv[j].due \in Nat /\ inv[j].paid \in Nat
    BY DEF Invoices
  <2> QED
    BY <2>2, <2>3 DEF Taken, Owed
<1> QED
  BY <1>1, <1>2, <1>3, <1>4

\* The invoices that hold an accrual, and whether they hold all of it.
Holders(l, inv) == {j \in SupplierInvoices : inv[j].matched[l] > 0}
LEMMA RefreshedIs ==
  ASSUME NEW inv \in [SupplierInvoices -> Invoices], NEW l \in Lines
  PROVE  LET full == Total(MatchesOf(l, inv), SupplierInvoices) >= LineCost[l]
             of == Holders(l, inv)
         IN  Refreshed(l, inv) =
               IF full /\ \A j \in of : inv[j].state = "Paid" THEN "Paid"
               ELSE IF full /\ \A j \in of : inv[j].state \in Standing THEN "Invoiced"
               ELSE "Accrued"
<1> DEFINE of == Holders(l, inv)
           f == MatchesOf(l, inv)
<1>1. /\ IsFiniteSet(SupplierInvoices) /\ of \subseteq SupplierInvoices
      /\ \A j \in SupplierInvoices : f[j] \in Int
      /\ \A j \in SupplierInvoices \ of : f[j] = 0
  BY Figures DEF Holders
<1>2. SumFunctionOnSet(f, SupplierInvoices) = SumFunctionOnSet(f, of)
  <2> HIDE DEF f, of
  <2> QED
    BY <1>1, SumWithoutZeros
<1> DEFINE full == Total(f, of) >= LineCost[l]
<1>3. Refreshed(l, inv) =
        CASE full /\ \A j \in of : inv[j].state = "Paid" -> "Paid"
          [] full /\ (\A j \in of : inv[j].state \in {"Posted", "Paid"})
               /\ (\E j \in of : inv[j].state # "Paid") -> "Invoiced"
          [] OTHER -> "Accrued"
  BY DEF Refreshed, Holders, MatchesOf
<1>4. full = (Total(MatchesOf(l, inv), SupplierInvoices) >= LineCost[l])
  BY <1>2 DEF Total
<1> HIDE DEF full, of, f
<1>5. Refreshed(l, inv) =
        IF full /\ \A j \in of : inv[j].state = "Paid" THEN "Paid"
        ELSE IF full /\ \A j \in of : inv[j].state \in Standing THEN "Invoiced"
        ELSE "Accrued"
  BY <1>3 DEF Standing
<1> QED
  BY <1>4, <1>5 DEF of

\* The status asks nothing else of the invoices than this.
LEMMA RefreshedSame ==
  ASSUME NEW inv \in [SupplierInvoices -> Invoices], NEW jnv \in [SupplierInvoices -> Invoices],
         NEW l \in Lines,
         \A j \in SupplierInvoices :
           /\ jnv[j].matched[l] = inv[j].matched[l]
           /\ inv[j].matched[l] > 0 =>
                /\ jnv[j].state = "Paid" <=> inv[j].state = "Paid"
                /\ jnv[j].state \in Standing <=> inv[j].state \in Standing
  PROVE  Refreshed(l, jnv) = Refreshed(l, inv)
<1>1. MatchesOf(l, inv) = MatchesOf(l, jnv)
  BY DEF MatchesOf
<1>2. Holders(l, inv) = Holders(l, jnv)
  BY DEF Holders
<1>3. /\ (\A j \in Holders(l, inv) : inv[j].state = "Paid")
           <=> (\A j \in Holders(l, jnv) : jnv[j].state = "Paid")
      /\ (\A j \in Holders(l, inv) : inv[j].state \in Standing)
           <=> (\A j \in Holders(l, jnv) : jnv[j].state \in Standing)
  BY DEF Holders
<1> QED
  BY <1>1, <1>3, RefreshedIs, Zenon

-----------------------------------------------------------------------------
\* What an invoice has in either control account
InLiability(inv, i) == IF inv[i].journal = "posted" THEN Taken(inv)[i] ELSE 0
InPayable(inv, i) == IF inv[i].state \in Standing THEN Owed(inv)[i] ELSE 0

\* What all invoices have in either is what it says of them.
LEMMA AllInvoices ==
  ASSUME NEW inv \in [SupplierInvoices -> Invoices]
  PROVE  /\ Total(Taken(inv), PostedIn(inv))
              = Total([i \in SupplierInvoices |-> InLiability(inv, i)], SupplierInvoices)
         /\ Total(Owed(inv), OpenIn(inv))
              = Total([i \in SupplierInvoices |-> InPayable(inv, i)], SupplierInvoices)
         /\ \A i \in SupplierInvoices : InLiability(inv, i) \in Int /\ InPayable(inv, i) \in Int
         /\ Total(Taken(inv), PostedIn(inv)) \in Int /\ Total(Owed(inv), OpenIn(inv)) \in Int
<1> DEFINE P == PostedIn(inv)
           O == OpenIn(inv)
           f == [i \in SupplierInvoices |-> InLiability(inv, i)]
           g == [i \in SupplierInvoices |-> InPayable(inv, i)]
<1>1. /\ IsFiniteSet(SupplierInvoices) /\ P \in SUBSET SupplierInvoices /\ O \in SUBSET SupplierInvoices
      /\ SupplierInvoices \cap P = P /\ SupplierInvoices \cap O = O
      /\ IsFiniteSet(P) /\ IsFiniteSet(O)
      /\ \A i \in SupplierInvoices : Taken(inv)[i] \in Int /\ Owed(inv)[i] \in Int
  BY Figures DEF PostedIn, OpenIn
<1>2. Filtered(f, Taken(inv), SupplierInvoices, P)
  BY <1>1 DEF Filtered, InLiability, PostedIn
<1>3. Filtered(g, Owed(inv), SupplierInvoices, O)
  BY <1>1 DEF Filtered, InPayable, OpenIn
<1>4. \A i \in SupplierInvoices : InLiability(inv, i) \in Int /\ InPayable(inv, i) \in Int
  BY <1>1 DEF InLiability, InPayable
<1> HIDE DEF P, O, f, g
<1>5. Total(Taken(inv), P) = Total(f, SupplierInvoices)
  <2>1. Total(f, SupplierInvoices) = Total(Taken(inv), SupplierInvoices \cap P)
    BY <1>1, <1>2, SumFiltered DEF Total
  <2> QED
    BY <2>1, <1>1, Zenon
<1>6. Total(Owed(inv), O) = Total(g, SupplierInvoices)
  <2>1. Total(g, SupplierInvoices) = Total(Owed(inv), SupplierInvoices \cap O)
    BY <1>1, <1>3, SumFiltered DEF Total
  <2> QED
    BY <2>1, <1>1, Zenon
<1>7. Total(Taken(inv), P) \in Int
  <2>1. \A i \in P : Taken(inv)[i] \in Int
    BY <1>1
  <2> QED
    BY <2>1, <1>1, SumType DEF Total
<1>8. Total(Owed(inv), O) \in Int
  <2>1. \A i \in O : Owed(inv)[i] \in Int
    BY <1>1
  <2> QED
    BY <2>1, <1>1, SumType DEF Total
<1> QED
  BY <1>4, <1>5, <1>6, <1>7, <1>8 DEF P, O, f, g

\* If one invoice changes, so do the sums over all of them by what it changes.
LEMMA OneInvoice ==
  ASSUME NEW inv \in [SupplierInvoices -> Invoices], NEW jnv \in [SupplierInvoices -> Invoices],
         NEW i \in SupplierInvoices, \A j \in SupplierInvoices \ {i} : jnv[j] = inv[j]
  PROVE  /\ Total(Taken(jnv), PostedIn(jnv))
              = Total(Taken(inv), PostedIn(inv)) - InLiability(inv, i) + InLiability(jnv, i)
         /\ Total(Owed(jnv), OpenIn(jnv))
              = Total(Owed(inv), OpenIn(inv)) - InPayable(inv, i) + InPayable(jnv, i)
<1> DEFINE f(k) == [j \in SupplierInvoices |-> InLiability(k, j)]
           g(k) == [j \in SupplierInvoices |-> InPayable(k, j)]
           fi == f(inv)
           fj == f(jnv)
           gi == g(inv)
           gj == g(jnv)
<1>1. ASSUME NEW j \in SupplierInvoices \ {i}
      PROVE  fj[j] = fi[j] /\ gj[j] = gi[j]
  <2>1. jnv[j] = inv[j] /\ j \in SupplierInvoices
    OBVIOUS
  <2>2. Taken(jnv)[j] = Taken(inv)[j]
    <3>1. Taken(jnv)[j] = Total(jnv[j].matched, Lines) /\ Taken(inv)[j] = Total(inv[j].matched, Lines)
      BY <2>1 DEF Taken
    <3> QED
      BY <3>1, <2>1, Zenon
  <2>3. Owed(jnv)[j] = Owed(inv)[j]
    BY <2>1 DEF Owed
  <2> QED
    BY <2>1, <2>2, <2>3 DEF InLiability, InPayable
<1>2. \A j \in SupplierInvoices : /\ fi[j] \in Int /\ fj[j] \in Int
                                  /\ gi[j] \in Int /\ gj[j] \in Int
  BY AllInvoices
<1>3. /\ fi[i] = InLiability(inv, i) /\ fj[i] = InLiability(jnv, i)
      /\ gi[i] = InPayable(inv, i) /\ gj[i] = InPayable(jnv, i)
  OBVIOUS
<1>4. IsFiniteSet(SupplierInvoices)
  BY Figures
<1>5. /\ Total(Taken(inv), PostedIn(inv)) = Total(fi, SupplierInvoices)
      /\ Total(Taken(jnv), PostedIn(jnv)) = Total(fj, SupplierInvoices)
      /\ Total(Owed(inv), OpenIn(inv)) = Total(gi, SupplierInvoices)
      /\ Total(Owed(jnv), OpenIn(jnv)) = Total(gj, SupplierInvoices)
  BY AllInvoices
<1> HIDE DEF fi, fj, gi, gj
<1>6. Total(fj, SupplierInvoices) = Total(fi, SupplierInvoices) - fi[i] + fj[i]
  BY <1>1, <1>2, <1>4, SumChanged DEF Total
<1>7. Total(gj, SupplierInvoices) = Total(gi, SupplierInvoices) - gi[i] + gj[i]
  BY <1>1, <1>2, <1>4, SumChanged DEF Total
<1> QED
  BY <1>3, <1>5, <1>6, <1>7

\* What a handler that changes one invoice must show.
LEMMA InvoiceStep ==
  ASSUME PayablesInv, invoice \in [SupplierInvoices -> Invoices],
         invoice' \in [SupplierInvoices -> Invoices],
         NEW i \in SupplierInvoices, \A j \in SupplierInvoices \ {i} : invoice'[j] = invoice[j],
         UNCHANGED labour,
         InvoiceSound(invoice'[i]), PaymentsPositive',
         NotBeyond', StatusCurrent',
         liability' = liability + InLiability(invoice, i) - InLiability(invoice', i),
         payable' \in Int,
         invoice[i].state \in Standing /\ invoice[i].journal # "posted" =>
           invoice'[i].state \in Standing /\ invoice'[i].journal # "posted",
         OpenIn(invoice') \subseteq PostedIn(invoice') =>
           payable' = payable - InPayable(invoice, i) + InPayable(invoice', i)
  PROVE  PayablesInv'
<1>1. InvoicesSound'
  <2>1. \A j \in SupplierInvoices \ {i} : InvoiceSound(invoice'[j])
    BY DEF PayablesInv, InvoicesSound
  <2>2. \A j \in SupplierInvoices : InvoiceSound(invoice'[j])
    BY <2>1
  <2> QED
    BY <2>2 DEF InvoicesSound, InvoiceSound
<1>2. /\ InLiability(invoice, i) \in Int /\ InLiability(invoice', i) \in Int
      /\ InPayable(invoice, i) \in Int /\ InPayable(invoice', i) \in Int
      /\ Total(Taken(invoice), PostedIn(invoice)) \in Int
      /\ Total(Owed(invoice), OpenIn(invoice)) \in Int
  BY AllInvoices
<1>3. Total(LineCost, Costed(labour)) \in Int
  <2>1. IsFiniteSet(Costed(labour)) /\ \A l \in Costed(labour) : LineCost[l] \in Int
    <3>1. Costed(labour) \in SUBSET Lines
      BY DEF Costed, Contracted
    <3> QED
      BY <3>1, Figures
  <2> QED
    BY <2>1, SumType DEF Total
<1>4. LiabilityIs' /\ liability' \in Int
  <2>1. Total(Taken(invoice'), PostedIn(invoice'))
          = Total(Taken(invoice), PostedIn(invoice)) - InLiability(invoice, i) + InLiability(invoice', i)
    BY OneInvoice
  <2>2. liability' \in Int
    BY <1>2 DEF PayablesInv
  <2>3. liability' = Total(LineCost, Costed(labour')) - Total(Taken(invoice'), PostedIn(invoice'))
    <3>1. Costed(labour') = Costed(labour)
      OBVIOUS
    <3>2. Total(LineCost, Costed(labour')) = Total(LineCost, Costed(labour))
      BY <3>1, Zenon
    <3>3. liability = Total(LineCost, Costed(labour)) - Total(Taken(invoice), PostedIn(invoice))
      BY DEF PayablesInv, LiabilityIs
    <3> QED
      BY <3>2, <3>3, <2>1, <1>2, <1>3 DEF PayablesInv
  <2> QED
    BY <2>2, <2>3 DEF LiabilityIs
<1>5. PayableIs'
  <2> SUFFICES ASSUME OpenIn(invoice') \subseteq PostedIn(invoice')
               PROVE  payable' = Total(Owed(invoice'), OpenIn(invoice'))
    BY DEF PayableIs
  <2>1. OpenIn(invoice) \subseteq PostedIn(invoice)
    <3> SUFFICES ASSUME NEW j \in OpenIn(invoice), j \notin PostedIn(invoice) PROVE FALSE
      OBVIOUS
    <3>1. j \in SupplierInvoices /\ invoice[j].state \in Standing /\ invoice[j].journal # "posted"
      BY DEF OpenIn, PostedIn
    <3>2. j \in OpenIn(invoice') /\ j \notin PostedIn(invoice')
      BY <3>1 DEF OpenIn, PostedIn
    <3> QED
      BY <3>2
  <2>2. Total(Owed(invoice'), OpenIn(invoice'))
          = Total(Owed(invoice), OpenIn(invoice)) - InPayable(invoice, i) + InPayable(invoice', i)
    BY OneInvoice
  <2>3. payable = Total(Owed(invoice), OpenIn(invoice))
    BY <2>1 DEF PayablesInv, PayableIs
  <2> QED
    BY <1>2, <2>2, <2>3 DEF PayablesInv
<1> QED
  BY <1>1, <1>4, <1>5 DEF PayablesInv

-----------------------------------------------------------------------------
\* The approval of a timesheet.
LEMMA ApprovePayables ==
  ASSUME CostingInv, CostingInv', PayablesInv, NEW t \in Timesheets, ApproveTimesheet(t)
  PROVE  PayablesInv'
<1>1. PICK n \in 0..Len(sheet[t].lines) :
        LET posted == Uncosted(t) \cap {sheet[t].lines[k] : k \in 1..n} IN
        /\ \A l \in posted : Postable(l)
        /\ PostLabour(posted)
        /\ sheet' = [sheet EXCEPT ![t].status = IF n = Len(sheet[t].lines) THEN "Approved" ELSE @]
  BY DEF ApproveTimesheet
<1>2. PICK posted :
        /\ posted = Uncosted(t) \cap {sheet[t].lines[k] : k \in 1..n}
        /\ \A l \in posted : Postable(l)
        /\ PostLabour(posted)
  BY <1>1
<1>3. UNCHANGED <<invoice, apPayment, payable>>
  BY DEF ApproveTimesheet, invoicing
<1>4. /\ invoice \in [SupplierInvoices -> Invoices] /\ labour \in [Lines -> {0, 1}]
      /\ \A j \in SupplierInvoices : \A l \in Lines :
           invoice[j].matched[l] > 0 => accrual[l] # "None"
      /\ \A l \in Lines : accrual[l] # "None" <=> labour[l] = 1 /\ LineKind[l] = "contractor"
      /\ \A k \in DOMAIN sheet[t].lines : sheet[t].lines[k] \in Lines
  BY DEF CostingInv, Shape, MatchedIsAccrued, LineCosted, Sheets
<1>5. \A l \in posted : l \in Lines /\ labour[l] = 0 /\ LineCost[l] > 0
  BY <1>2, <1>4 DEF Uncosted, Set, Postable
<1> DEFINE new == Contracted(posted)
<1>6. /\ labour' = [l \in Lines |-> IF l \in posted THEN labour[l] + 1 ELSE labour[l]]
      /\ accrual' = [l \in Lines |-> IF l \in new THEN "Accrued" ELSE accrual[l]]
      /\ liability' = liability + Total(LineCost, new)
  BY <1>2 DEF PostLabour
<1>7. InvoicesSound' /\ PaymentsPositive' /\ NotBeyond' /\ PayableIs' /\ payable' \in Int
  BY <1>3 DEF PayablesInv, InvoicesSound, InvoiceSound, PaymentsPositive, NotBeyond, PayableIs,
              MatchesOf, Owed, OpenIn, PostedIn
<1>8. StatusCurrent'
  <2> SUFFICES ASSUME NEW l \in Lines, accrual'[l] # "None"
               PROVE  accrual'[l] = Refreshed(l, invoice)
    BY <1>3 DEF StatusCurrent, Refreshed
  <2>1. CASE l \in new
    <3>1. l \in posted /\ LineCost[l] > 0 /\ accrual[l] = "None" /\ LineCost[l] \in Nat
      BY <1>4, <1>5, <2>1, Figures DEF Contracted
    <3>2. \A j \in SupplierInvoices : MatchesOf(l, invoice)[j] = 0
      BY <1>4, <3>1, Figures
    <3>3. Total(MatchesOf(l, invoice), SupplierInvoices) = 0
      BY <1>4, <3>2, Figures, SumZero DEF Total
    <3>4. ~ (Total(MatchesOf(l, invoice), SupplierInvoices) >= LineCost[l])
      BY <3>1, <3>3
    <3>5. Refreshed(l, invoice) = "Accrued"
      BY <1>4, <3>4, RefreshedIs
    <3> QED
      BY <1>6, <2>1, <3>5
  <2>2. CASE l \notin new
    BY <1>6, <2>2 DEF PayablesInv, StatusCurrent
  <2> QED
    BY <2>1, <2>2
<1>9. LiabilityIs' /\ liability' \in Int
  <2> DEFINE old == Costed(labour)
  <2>1. Costed(labour') = old \cup new /\ old \cap new = {}
    <3>1. \A l \in Lines : labour'[l] > 0 <=> labour[l] > 0 \/ l \in posted
      BY <1>4, <1>5, <1>6
    <3>2. \A l \in posted : ~ (labour[l] > 0)
      BY <1>5
    <3> QED
      BY <1>5, <3>1, <3>2 DEF Costed, Contracted
  <2>2. IsFiniteSet(old) /\ IsFiniteSet(new) /\ \A l \in old \cup new : LineCost[l] \in Int
    <3>1. old \in SUBSET Lines /\ new \in SUBSET Lines
      BY <1>5 DEF Costed, Contracted
    <3> QED
      BY <1>4, <3>1, Figures
  <2>3. Total(Taken(invoice), PostedIn(invoice)) \in Int
    BY <1>4, AllInvoices
  <2>4. liability = Total(LineCost, old) - Total(Taken(invoice), PostedIn(invoice))
    BY DEF PayablesInv, LiabilityIs
  <2> HIDE DEF old, new
  <2>5. Total(LineCost, old \cup new) = Total(LineCost, old) + Total(LineCost, new)
    BY <2>1, <2>2, SumOfParts DEF Total
  <2>6. Total(LineCost, old) \in Int /\ Total(LineCost, new) \in Int
    BY <2>2, SumType DEF Total
  <2>7. Total(LineCost, Costed(labour')) = Total(LineCost, old) + Total(LineCost, new)
    BY <2>1, <2>5, Zenon
  <2>8. liability' = Total(LineCost, Costed(labour')) - Total(Taken(invoice), PostedIn(invoice))
    BY <1>6, <2>3, <2>4, <2>6, <2>7
  <2>9. liability' \in Int
    BY <2>3, <2>6, <2>7, <2>8
  <2> QED
    BY <1>3, <2>8, <2>9 DEF LiabilityIs
<1> QED
  BY <1>7, <1>8, <1>9 DEF PayablesInv

\* The invoices are as they were but for i, which holds no line that it did not hold; and
\* if it was Paid, it still is and holds what it held.
RefreshesAfter(i, inv) ==
  /\ \A j \in SupplierInvoices \ {i} : inv[j] = invoice[j]
  /\ \A l \in Lines : invoice[i].matched[l] = 0 => inv[i].matched[l] = 0
  /\ \/ invoice[i].state # "Paid"
     \/ inv[i].state = "Paid" /\ inv[i].matched = invoice[i].matched

\* The status of an accrual after a refresh.  One that is Paid is not refreshed: its
\* status must be right without.
LEMMA RefreshCurrent ==
  ASSUME CostingInv, PayablesInv, NEW i \in SupplierInvoices,
         NEW inv \in [SupplierInvoices -> Invoices], Refresh(Matched(i), inv),
         RefreshesAfter(i, inv)
  PROVE  \A l \in Lines : accrual'[l] # "None" => accrual'[l] = Refreshed(l, inv)
<1> USE DEF RefreshesAfter
<1> SUFFICES ASSUME NEW l \in Lines, accrual'[l] # "None"
             PROVE  accrual'[l] = Refreshed(l, inv)
  OBVIOUS
<1>1. /\ invoice \in [SupplierInvoices -> Invoices]
      /\ \A j \in SupplierInvoices : invoice[j].matched[l] \in Nat /\ inv[j].matched[l] \in Nat
      /\ accrual'[l] = IF l \in Matched(i) /\ accrual[l] # "Paid" THEN Refreshed(l, inv)
                                                                   ELSE accrual[l]
  BY DEF CostingInv, Shape, Invoices, Refresh
<1>2. CASE l \in Matched(i) /\ accrual[l] # "Paid"
  BY <1>1, <1>2
<1>3. CASE l \notin Matched(i)
  <2>1. accrual'[l] = Refreshed(l, invoice)
    BY <1>1, <1>3 DEF PayablesInv, StatusCurrent
  <2>2. invoice[i].matched[l] = 0 /\ inv[i].matched[l] = 0
    BY <1>1, <1>3 DEF Matched
  <2>3. Refreshed(l, inv) = Refreshed(l, invoice)
    BY <1>1, <2>2, RefreshedSame
  <2> QED
    BY <2>1, <2>3
<1>4. CASE l \in Matched(i) /\ accrual[l] = "Paid"
  <2>1. Refreshed(l, invoice) = "Paid"
    BY <1>4 DEF PayablesInv, StatusCurrent
  <2>2. i \in Holders(l, invoice)
    BY <1>4 DEF Matched, Holders
  <2>3. \A j \in Holders(l, invoice) : invoice[j].state = "Paid"
    BY <1>1, <2>1, RefreshedIs
  <2>4. inv[i].state = "Paid" /\ inv[i].matched = invoice[i].matched /\ invoice[i].state = "Paid"
    BY <2>2, <2>3
  <2>5. Refreshed(l, inv) = Refreshed(l, invoice)
    BY <1>1, <2>4, RefreshedSame
  <2> QED
    BY <1>1, <1>4, <2>1, <2>5
<1> QED
  BY <1>2, <1>3, <1>4

-----------------------------------------------------------------------------
\* A new invoice, and one that is validated: nothing is matched yet, or nothing of it
\* changes but that it is validated.
LEMMA CreatePayables ==
  ASSUME CostingInv, CostingInv', PayablesInv, NEW i \in SupplierInvoices,
         CreateSupplierInvoice(i) \/ ValidateInvoice(i)
  PROVE  PayablesInv'
<1>1. /\ UNCHANGED <<labour, accrual, apPayment, liability, payable>>
      /\ \A j \in SupplierInvoices \ {i} : invoice'[j] = invoice[j]
  BY DEF CreateSupplierInvoice, ValidateInvoice, timesheets, CostingInv, Shape
<1>2. invoice \in [SupplierInvoices -> Invoices] /\ invoice' \in [SupplierInvoices -> Invoices]
  BY DEF CostingInv, Shape
<1>3. /\ invoice[i].state \in {"None", "Draft"} /\ invoice'[i].state \in {"Draft", "Validated"}
      /\ invoice'[i].matched = invoice[i].matched
      /\ invoice'[i].paid = invoice[i].paid /\ invoice'[i].journal = invoice[i].journal
  <2>1. CASE CreateSupplierInvoice(i)
    BY <2>1, <1>2 DEF CreateSupplierInvoice, Invoices
  <2>2. CASE ValidateInvoice(i)
    BY <2>2, <1>2 DEF ValidateInvoice, Invoices
  <2> QED
    BY <2>1, <2>2
<1>4. InvoiceSound(invoice[i])
  BY DEF PayablesInv, InvoicesSound
<1>5. InvoiceSound(invoice'[i])
  BY <1>3, <1>4 DEF InvoiceSound, Standing
<1>6. PaymentsPositive'
  BY <1>1 DEF PayablesInv, PaymentsPositive
<1>7. NotBeyond'
  <2>1. \A l \in Lines : MatchesOf(l, invoice') = MatchesOf(l, invoice)
    BY <1>1, <1>3 DEF MatchesOf
  <2> QED
    BY <2>1, Zenon DEF PayablesInv, NotBeyond
<1>8. StatusCurrent'
  <2>1. \A l \in Lines : Refreshed(l, invoice') = Refreshed(l, invoice)
    BY <1>1, <1>2, <1>3, RefreshedSame DEF Standing
  <2> QED
    BY <1>1, <2>1 DEF PayablesInv, StatusCurrent
<1>9. /\ InLiability(invoice, i) = 0 /\ InLiability(invoice', i) = 0
      /\ InPayable(invoice, i) = 0 /\ InPayable(invoice', i) = 0
  BY <1>3, <1>4, <1>5 DEF InLiability, InPayable, InvoiceSound, Standing
<1>10. liability \in Int /\ payable \in Int
  BY DEF PayablesInv
<1>11. invoice[i].state \notin Standing
  BY <1>3 DEF Standing
<1> QED
  BY <1>1, <1>2, <1>5, <1>6, <1>7, <1>8, <1>9, <1>10, <1>11, InvoiceStep

\* A match takes no more of an accrual than the other invoices leave, and something of
\* it: so the accrual was not invoiced in full before.
LEMMA MatchPayables ==
  ASSUME CostingInv, CostingInv', PayablesInv, NEW i \in SupplierInvoices, MatchInvoice(i)
  PROVE  PayablesInv'
<1>1. /\ UNCHANGED <<labour, accrual, apPayment, liability, payable>>
      /\ \A j \in SupplierInvoices \ {i} : invoice'[j] = invoice[j]
      /\ invoice[i].state \in {"Draft", "Validated"} /\ Matched(i) = {}
  BY DEF MatchInvoice, timesheets, CostingInv, Shape
<1>2. /\ invoice \in [SupplierInvoices -> Invoices] /\ invoice' \in [SupplierInvoices -> Invoices]
      /\ accrual \in [Lines -> Accruals]
  BY DEF CostingInv, Shape
<1>3. PICK ls, alloc :
        /\ ls \in SUBSET Lines /\ alloc \in [ls -> Amounts]
        /\ Allocatable(i, alloc)
        /\ invoice' = [invoice EXCEPT ![i].matched =
                         [l \in Lines |-> IF l \in ls THEN alloc[l] ELSE 0]]
  BY Zenon DEF MatchInvoice
<1>4. /\ invoice'[i].state = invoice[i].state /\ invoice'[i].paid = invoice[i].paid
      /\ invoice'[i].journal = invoice[i].journal /\ invoice'[i].due = invoice[i].due
      /\ \A l \in Lines : /\ invoice[i].matched[l] = 0
                          /\ invoice'[i].matched[l] = IF l \in ls THEN alloc[l] ELSE 0
  <2>1. \A l \in Lines : invoice[i].matched[l] \in Nat /\ ~ (invoice[i].matched[l] > 0)
    BY <1>1, <1>2 DEF Matched, Invoices
  <2> QED
    BY <1>2, <1>3, <2>1 DEF Invoices
<1>5. ASSUME NEW l \in ls
      PROVE  /\ l \in Lines /\ alloc[l] \in Nat \ {0} /\ accrual[l] \in {"Accrued", "Invoiced"}
             /\ Total(MatchesOf(l, invoice), SupplierInvoices) + alloc[l] <= LineCost[l]
  <2>1. /\ l \in Lines /\ alloc[l] \in Nat \ {0} /\ accrual[l] \in {"Accrued", "Invoiced"}
        /\ alloc[l] <= Available(l, i)
    BY <1>3, ContractorsAssumption DEF Allocatable
  <2> DEFINE f == MatchesOf(l, invoice)
             others == {j \in SupplierInvoices \ {i} : invoice[j].state # "Cancelled"}
  <2>2. Available(l, i) = LineCost[l] - Total(f, others)
    BY DEF Available, MatchesOf
  <2>3. /\ IsFiniteSet(SupplierInvoices) /\ others \subseteq SupplierInvoices
        /\ \A j \in SupplierInvoices : f[j] \in Int
        /\ \A j \in SupplierInvoices \ others : f[j] = 0
    <3>1. \A j \in SupplierInvoices : f[j] = invoice[j].matched[l] /\ f[j] \in Int
      BY <1>2, <2>1, Figures
    <3>2. ASSUME NEW j \in SupplierInvoices \ others PROVE f[j] = 0
      <4>1. CASE j = i
        BY <1>4, <2>1, <3>1, <4>1
      <4>2. CASE invoice[j].state = "Cancelled"
        BY <2>1, <3>1, <4>2 DEF PayablesInv, InvoicesSound, InvoiceSound
      <4> QED
        BY <4>1, <4>2
    <3> QED
      BY <1>2, <3>1, <3>2, Figures
  <2> HIDE DEF f, others
  <2>4. Total(f, SupplierInvoices) = Total(f, others)
    BY <2>3, SumWithoutZeros DEF Total
  <2>5. Total(f, SupplierInvoices) \in Int /\ LineCost[l] \in Nat
    BY <1>2, <2>1, <2>3, SumType, Figures DEF Total
  <2>6. Total(f, SupplierInvoices) + alloc[l] <= LineCost[l]
    BY <2>1, <2>2, <2>4, <2>5
  <2> QED
    BY <2>1, <2>6 DEF f
<1>6. InvoiceSound(invoice[i])
  BY DEF PayablesInv, InvoicesSound
<1>7. InvoiceSound(invoice'[i])
  BY <1>1, <1>4, <1>6 DEF InvoiceSound, Standing
<1>8. PaymentsPositive'
  BY <1>1 DEF PayablesInv, PaymentsPositive
<1>9. NotBeyond'
  <2> SUFFICES ASSUME NEW l \in Lines
               PROVE  Total(MatchesOf(l, invoice'), SupplierInvoices) <= LineCost[l]
    BY DEF NotBeyond
  <2> DEFINE f == MatchesOf(l, invoice)
             g == MatchesOf(l, invoice')
  <2>1. /\ IsFiniteSet(SupplierInvoices)
        /\ \A j \in SupplierInvoices : f[j] \in Int /\ g[j] \in Int
        /\ \A j \in SupplierInvoices \ {i} : g[j] = f[j]
        /\ f[i] = 0 /\ g[i] = IF l \in ls THEN alloc[l] ELSE 0
    BY <1>1, <1>2, <1>4, Figures
  <2> HIDE DEF f, g
  <2>2. Total(g, SupplierInvoices) = Total(f, SupplierInvoices) - f[i] + g[i]
    BY <2>1, SumChanged DEF Total
  <2>3. Total(f, SupplierInvoices) \in Int
    BY <2>1, SumType DEF Total
  <2>4. Total(f, SupplierInvoices) <= LineCost[l]
    BY DEF PayablesInv, NotBeyond, f
  <2>5. l \in ls => Total(f, SupplierInvoices) + alloc[l] <= LineCost[l]
    BY <1>5 DEF f
  <2>6. Total(g, SupplierInvoices) <= LineCost[l]
    <3>1. CASE l \in ls
      <4>1. alloc[l] \in Nat
        BY <1>5, <3>1
      <4> QED
        BY <2>1, <2>2, <2>3, <2>5, <3>1, <4>1
    <3>2. CASE l \notin ls
      BY <2>1, <2>2, <2>3, <2>4, <3>2
    <3> QED
      BY <3>1, <3>2
  <2> QED
    BY <2>6 DEF g
<1>10. StatusCurrent'
  <2> SUFFICES ASSUME NEW l \in Lines, accrual[l] # "None"
               PROVE  accrual[l] = Refreshed(l, invoice')
    BY <1>1 DEF StatusCurrent, Refreshed
  <2>1. accrual[l] = Refreshed(l, invoice)
    BY DEF PayablesInv, StatusCurrent
  <2>2. CASE l \in ls
    <3>1. Total(MatchesOf(l, invoice), SupplierInvoices) \in Int /\ LineCost[l] \in Nat
      <4>1. \A j \in SupplierInvoices : MatchesOf(l, invoice)[j] \in Int
        BY <1>2, Figures
      <4> QED
        BY <1>2, <4>1, Figures, SumType DEF Total
    <3>2. ~ (Total(MatchesOf(l, invoice), SupplierInvoices) >= LineCost[l])
      BY <1>5, <2>2, <3>1
    <3>3. Refreshed(l, invoice) = "Accrued"
      BY <1>2, <3>2, RefreshedIs
    <3>4. i \in Holders(l, invoice') /\ invoice'[i].state \notin Standing /\ invoice'[i].state # "Paid"
      BY <1>1, <1>4, <1>5, <2>2 DEF Holders, Standing
    <3>5. Refreshed(l, invoice') = "Accrued"
      BY <1>2, <3>4, RefreshedIs
    <3> QED
      BY <2>1, <3>3, <3>5
  <2>3. CASE l \notin ls
    <3>1. Refreshed(l, invoice') = Refreshed(l, invoice)
      BY <1>1, <1>2, <1>4, <2>3, RefreshedSame
    <3> QED
      BY <2>1, <3>1
  <2> QED
    BY <2>2, <2>3
<1>11. /\ InLiability(invoice, i) = 0 /\ InLiability(invoice', i) = 0
       /\ InPayable(invoice, i) = 0 /\ InPayable(invoice', i) = 0
       /\ invoice[i].state \notin Standing
  BY <1>1, <1>4, <1>6, <1>7 DEF InLiability, InPayable, InvoiceSound, Standing
<1>12. liability \in Int /\ payable \in Int
  BY DEF PayablesInv
<1> QED
  BY <1>1, <1>2, <1>7, <1>8, <1>9, <1>10, <1>11, <1>12, InvoiceStep

\* Where no match grows, no accrual comes to be held beyond its amount.
LEMMA NotBeyondKept ==
  ASSUME PayablesInv, invoice \in [SupplierInvoices -> Invoices],
         invoice' \in [SupplierInvoices -> Invoices],
         \A j \in SupplierInvoices : \A l \in Lines : invoice'[j].matched[l] <= invoice[j].matched[l]
  PROVE  NotBeyond'
<1> SUFFICES ASSUME NEW l \in Lines
             PROVE  Total(MatchesOf(l, invoice'), SupplierInvoices) <= LineCost[l]
  BY DEF NotBeyond
<1> DEFINE f == MatchesOf(l, invoice)
           g == MatchesOf(l, invoice')
<1>1. /\ IsFiniteSet(SupplierInvoices)
      /\ \A j \in SupplierInvoices : g[j] \in Int /\ f[j] \in Int /\ g[j] <= f[j]
  BY Figures
<1>2. Total(f, SupplierInvoices) <= LineCost[l] /\ LineCost[l] \in Nat
  BY Figures DEF PayablesInv, NotBeyond
<1> HIDE DEF f, g
<1>3. Total(g, SupplierInvoices) <= Total(f, SupplierInvoices)
  BY <1>1, SumMonotone DEF Total
<1>4. Total(f, SupplierInvoices) \in Int /\ Total(g, SupplierInvoices) \in Int
  <2>1. (\A j \in SupplierInvoices : f[j] \in Int) /\ (\A j \in SupplierInvoices : g[j] \in Int)
    BY <1>1
  <2> QED
    BY <2>1, <1>1, SumType DEF Total
<1>5. Total(g, SupplierInvoices) <= LineCost[l]
  BY <1>2, <1>3, <1>4
<1> QED
  BY <1>5 DEF g

\* Posting moves what an invoice was matched to from the accrued liability to the payable.
LEMMA PostPayables ==
  ASSUME CostingInv, CostingInv', PayablesInv, NEW i \in SupplierInvoices, PostInvoice(i)
  PROVE  PayablesInv'
<1>1. /\ UNCHANGED <<labour, apPayment>> /\ invoice[i].state = "Validated"
      /\ invoice' = [invoice EXCEPT ![i].state = "Posted", ![i].journal = "posted"]
      /\ liability' = liability - Total(invoice[i].matched, Lines)
      /\ payable' = payable + invoice[i].due
      /\ Refresh(Matched(i), invoice')
  BY DEF PostInvoice, timesheets
<1>2. invoice \in [SupplierInvoices -> Invoices] /\ invoice' \in [SupplierInvoices -> Invoices]
  BY DEF CostingInv, Shape
<1>3. /\ \A j \in SupplierInvoices \ {i} : invoice'[j] = invoice[j]
      /\ invoice'[i].state = "Posted" /\ invoice'[i].journal = "posted"
      /\ invoice'[i].matched = invoice[i].matched
      /\ invoice'[i].paid = invoice[i].paid /\ invoice'[i].due = invoice[i].due
      /\ \A l \in Lines : invoice[i].matched[l] \in Nat
      /\ invoice[i].due \in Nat
  BY <1>1, <1>2 DEF Invoices
<1>4. invoice[i].paid = 0 /\ invoice[i].journal # "posted"
  BY <1>1 DEF PayablesInv, InvoicesSound, InvoiceSound, Standing
<1>5. InvoiceSound(invoice'[i])
  BY <1>3 DEF InvoiceSound, Standing
<1>6. PaymentsPositive'
  BY <1>1 DEF PayablesInv, PaymentsPositive
<1>7. NotBeyond'
  <2>1. \A j \in SupplierInvoices : \A l \in Lines : invoice'[j].matched[l] <= invoice[j].matched[l]
    BY <1>2, <1>3 DEF Invoices
  <2> QED
    BY <1>2, <2>1, NotBeyondKept
<1>8. StatusCurrent'
  <2>1. RefreshesAfter(i, invoice')
    BY <1>1, <1>3 DEF RefreshesAfter
  <2>2. \A l \in Lines : accrual'[l] # "None" => accrual'[l] = Refreshed(l, invoice')
    BY <1>1, <1>2, <2>1, RefreshCurrent
  <2> QED
    BY <2>2 DEF StatusCurrent, Refreshed
<1>9. /\ InLiability(invoice, i) = 0
      /\ InLiability(invoice', i) = Total(invoice[i].matched, Lines)
      /\ Total(invoice[i].matched, Lines) \in Int
      /\ InPayable(invoice, i) = 0 /\ InPayable(invoice', i) = invoice[i].due
  <2>1. /\ Taken(invoice')[i] = Total(invoice'[i].matched, Lines) /\ Taken(invoice')[i] \in Nat
        /\ Owed(invoice')[i] = invoice'[i].due - invoice'[i].paid
    BY <1>2, Figures
  <2>2. Total(invoice'[i].matched, Lines) = Total(invoice[i].matched, Lines)
    BY <1>3, Zenon
  <2> QED
    BY <1>1, <1>3, <1>4, <2>1, <2>2 DEF InLiability, InPayable, Standing
<1>10. liability \in Int /\ payable \in Int
  BY DEF PayablesInv
<1>11. /\ liability' = liability + InLiability(invoice, i) - InLiability(invoice', i)
       /\ payable' = payable - InPayable(invoice, i) + InPayable(invoice', i)
       /\ payable' \in Int /\ invoice[i].state \notin Standing
  BY <1>1, <1>3, <1>9, <1>10 DEF Standing
<1> QED
  BY <1>1, <1>2, <1>3, <1>5, <1>6, <1>7, <1>8, <1>11, InvoiceStep

\* Cancelling moves it back, if it was there: an invoice that was posted and is not paid.
LEMMA CancelPayables ==
  ASSUME CostingInv, CostingInv', PayablesInv, NEW i \in SupplierInvoices, CancelInvoiceOf(i)
  PROVE  PayablesInv'
<1> DEFINE sign == IF invoice[i].journal = "posted" THEN 1 ELSE 0
<1>1. /\ UNCHANGED <<labour, apPayment>>
      /\ invoice[i].state \in {"Draft", "Validated", "Posted"} /\ invoice[i].paid = 0
      /\ invoice' = [invoice EXCEPT ![i].state = "Cancelled",
                                    ![i].journal = IF @ = "posted" THEN "reversed" ELSE @,
                                    ![i].matched = [l \in Lines |-> 0]]
      /\ liability' = liability + sign * Total(invoice[i].matched, Lines)
      /\ payable' = payable - sign * invoice[i].due
      /\ Refresh(Matched(i), invoice')
  BY DEF CancelInvoiceOf, timesheets
<1>2. invoice \in [SupplierInvoices -> Invoices] /\ invoice' \in [SupplierInvoices -> Invoices]
  BY DEF CostingInv, Shape
<1>3. /\ \A j \in SupplierInvoices \ {i} : invoice'[j] = invoice[j]
      /\ invoice'[i].state = "Cancelled" /\ invoice'[i].journal # "posted"
      /\ \A l \in Lines : invoice'[i].matched[l] = 0
      /\ invoice'[i].paid = 0
      /\ \A l \in Lines : invoice[i].matched[l] \in Nat
      /\ invoice[i].due \in Nat
  <2>1. invoice[i] \in Invoices
    BY <1>2
  <2>2. invoice'[i].matched = [l \in Lines |-> 0]
    BY <1>1, <1>2, <2>1 DEF Invoices
  <2> QED
    BY <1>1, <1>2, <2>1, <2>2 DEF Invoices
<1>4. InvoiceSound(invoice[i])
  BY DEF PayablesInv, InvoicesSound
<1>5. InvoiceSound(invoice'[i])
  BY <1>3 DEF InvoiceSound, Standing
<1>6. PaymentsPositive'
  BY <1>1 DEF PayablesInv, PaymentsPositive
<1>7. NotBeyond'
  <2>1. \A j \in SupplierInvoices : \A l \in Lines : invoice'[j].matched[l] <= invoice[j].matched[l]
    BY <1>2, <1>3 DEF Invoices
  <2> QED
    BY <1>2, <2>1, NotBeyondKept
<1>8. StatusCurrent'
  <2>1. invoice[i].state # "Paid" /\ \A l \in Lines : invoice'[i].matched[l] = 0
    BY <1>1, <1>3
  <2>2. RefreshesAfter(i, invoice')
    BY <1>1, <1>3, <2>1 DEF RefreshesAfter
  <2>3. \A l \in Lines : accrual'[l] # "None" => accrual'[l] = Refreshed(l, invoice')
    BY <1>1, <1>2, <2>2, RefreshCurrent
  <2> QED
    BY <2>3 DEF StatusCurrent, Refreshed
<1>9. /\ InLiability(invoice, i) = sign * Total(invoice[i].matched, Lines)
      /\ InLiability(invoice, i) \in Int /\ InLiability(invoice', i) = 0
      /\ InPayable(invoice, i) = sign * invoice[i].due /\ InPayable(invoice', i) = 0
  <2>1. /\ Taken(invoice)[i] = Total(invoice[i].matched, Lines) /\ Taken(invoice)[i] \in Nat
        /\ Owed(invoice)[i] = invoice[i].due - invoice[i].paid
    BY <1>2, Figures
  <2>2. invoice[i].journal = "posted" <=> invoice[i].state \in Standing
    BY <1>1, <1>4 DEF InvoiceSound
  <2> DEFINE taken == Total(invoice[i].matched, Lines)
             due == invoice[i].due
  <2>3. /\ taken \in Nat /\ due \in Nat
        /\ InLiability(invoice, i) = IF invoice[i].journal = "posted" THEN taken ELSE 0
        /\ InPayable(invoice, i) = IF invoice[i].journal = "posted" THEN due ELSE 0
        /\ InLiability(invoice', i) = 0 /\ InPayable(invoice', i) = 0
    <3>1. invoice[i].paid = 0
      BY <1>1
    <3>2. taken \in Nat /\ Taken(invoice)[i] = taken
      BY <2>1
    <3>3. due \in Nat /\ due - 0 = due
      BY <1>3
    <3>4. Owed(invoice)[i] = due
      BY <2>1, <3>1, <3>3
    <3>5. InLiability(invoice', i) = 0 /\ InPayable(invoice', i) = 0
      BY <1>3 DEF InLiability, InPayable, Standing
    <3> HIDE DEF taken, due
    <3> QED
      BY <2>2, <3>2, <3>3, <3>4, <3>5 DEF InLiability, InPayable
  <2> HIDE DEF taken, due
  <2>4. /\ sign * taken = IF invoice[i].journal = "posted" THEN taken ELSE 0
        /\ sign * due = IF invoice[i].journal = "posted" THEN due ELSE 0
    BY <2>3
  <2>5. /\ InLiability(invoice, i) = sign * taken /\ InLiability(invoice, i) \in Int
        /\ InPayable(invoice, i) = sign * due
    BY <2>3, <2>4
  <2> QED
    BY <2>3, <2>5 DEF taken, due
<1>10. liability \in Int /\ payable \in Int
  BY DEF PayablesInv
<1>11. /\ liability' = liability + InLiability(invoice, i) - InLiability(invoice', i)
       /\ payable' = payable - InPayable(invoice, i) + InPayable(invoice', i)
       /\ payable' \in Int
  <2>1. sign * invoice[i].due \in Int
    BY <1>3
  <2> HIDE DEF sign
  <2> QED
    BY <1>1, <1>9, <1>10, <2>1
<1>12. ~ (invoice[i].state \in Standing /\ invoice[i].journal # "posted")
  BY <1>1, <1>4 DEF InvoiceSound
<1> QED
  BY <1>1, <1>2, <1>3, <1>5, <1>6, <1>7, <1>8, <1>11, <1>12, InvoiceStep

\* A payment lowers the payable by its amount, and the invoice is Paid or Posted by what
\* has been paid of it.
LEMMA ApplyPayables ==
  ASSUME CostingInv, CostingInv', PayablesInv, NEW p \in ApPayments, ApplyApPayment(p)
  PROVE  PayablesInv'
<1>1. PICK i \in SupplierInvoices : i = apPayment[p].invoice
  BY DEF CostingInv, PaymentIsOfInvoice, ApplyApPayment
<1> DEFINE a == apPayment[p].amount
           paid == invoice[i].paid + a
<1>2. /\ UNCHANGED <<labour, liability>>
      /\ apPayment[p].state = "Received"
      /\ apPayment' = [apPayment EXCEPT ![p].state = "Applied"]
      /\ invoice' = [invoice EXCEPT ![i].paid = paid,
                                    ![i].state = IF paid >= invoice[i].due THEN "Paid" ELSE "Posted"]
      /\ payable' = payable - a
      /\ Refresh(Matched(i), invoice')
  BY <1>1 DEF ApplyApPayment, timesheets
<1>3. /\ invoice \in [SupplierInvoices -> Invoices] /\ invoice' \in [SupplierInvoices -> Invoices]
      /\ apPayment \in [ApPayments -> Payments]
  BY DEF CostingInv, Shape
<1>4. a \in Nat /\ a > 0
  BY <1>2, <1>3 DEF PayablesInv, PaymentsPositive, Payments
<1>5. /\ \A j \in SupplierInvoices \ {i} : invoice'[j] = invoice[j]
      /\ invoice'[i].paid = paid /\ paid \in Nat /\ paid > 0
      /\ invoice'[i].state = IF paid >= invoice[i].due THEN "Paid" ELSE "Posted"
      /\ invoice'[i].journal = invoice[i].journal
      /\ invoice'[i].matched = invoice[i].matched
      /\ invoice'[i].due = invoice[i].due
      /\ invoice[i].paid \in Nat /\ invoice[i].due \in Nat
      /\ \A l \in Lines : invoice[i].matched[l] \in Nat
  <2>1. invoice[i] \in Invoices
    BY <1>3
  <2>2. invoice[i].paid \in Nat /\ paid \in Nat /\ paid > 0
    BY <1>4, <2>1 DEF Invoices
  <2> HIDE DEF paid
  <2> QED
    BY <1>2, <1>3, <2>1, <2>2 DEF Invoices
<1>6. InvoiceSound(invoice[i])
  BY DEF PayablesInv, InvoicesSound
<1>7. InvoiceSound(invoice'[i])
  <2> HIDE DEF paid
  <2> QED
    BY <1>5 DEF InvoiceSound, Standing
<1>8. PaymentsPositive'
  BY <1>2, <1>3 DEF PayablesInv, PaymentsPositive, Payments
<1>9. NotBeyond'
  <2>1. \A j \in SupplierInvoices : \A l \in Lines : invoice'[j].matched[l] <= invoice[j].matched[l]
    BY <1>3, <1>5 DEF Invoices
  <2> QED
    BY <1>3, <2>1, NotBeyondKept
<1>10. StatusCurrent'
  <2>1. invoice[i].state = "Paid" => invoice'[i].state = "Paid"
    BY <1>4, <1>5, <1>6 DEF InvoiceSound
  <2>2. RefreshesAfter(i, invoice')
    BY <1>5, <2>1 DEF RefreshesAfter
  <2>3. \A l \in Lines : accrual'[l] # "None" => accrual'[l] = Refreshed(l, invoice')
    BY <1>2, <1>3, <2>2, RefreshCurrent
  <2> QED
    BY <2>3 DEF StatusCurrent, Refreshed
<1>11. liability' = liability + InLiability(invoice, i) - InLiability(invoice', i)
  <2>1. /\ Taken(invoice')[i] = Total(invoice'[i].matched, Lines) /\ Taken(invoice')[i] \in Nat
        /\ Taken(invoice)[i] = Total(invoice[i].matched, Lines)
    BY <1>3, Figures
  <2>2. Total(invoice'[i].matched, Lines) = Total(invoice[i].matched, Lines)
    BY <1>5, Zenon
  <2>3. InLiability(invoice, i) = InLiability(invoice', i) /\ InLiability(invoice, i) \in Int
    BY <1>5, <2>1, <2>2 DEF InLiability
  <2>4. liability \in Int
    BY DEF PayablesInv
  <2> QED
    BY <1>2, <2>3, <2>4
<1>12. payable' \in Int
  BY <1>2, <1>4 DEF PayablesInv
<1>13. ASSUME OpenIn(invoice') \subseteq PostedIn(invoice')
       PROVE  payable' = payable - InPayable(invoice, i) + InPayable(invoice', i)
  <2>1. invoice'[i].state \in Standing
    BY <1>5 DEF Standing
  <2>2. invoice[i].journal = "posted"
    BY <1>5, <1>13, <2>1 DEF OpenIn, PostedIn
  <2>3. invoice[i].state \in Standing
    BY <1>6, <2>2 DEF InvoiceSound
  <2>4. /\ InPayable(invoice, i) = invoice[i].due - invoice[i].paid
        /\ InPayable(invoice', i) = invoice[i].due - paid
    BY <1>3, <1>5, <2>1, <2>3 DEF InPayable, Owed
  <2>5. payable \in Int
    BY DEF PayablesInv
  <2> QED
    BY <1>2, <1>4, <1>5, <2>4, <2>5
<1>14. invoice'[i].state \in Standing
  BY <1>5 DEF Standing
<1> HIDE DEF paid, a
<1> QED
  BY <1>2, <1>3, <1>5, <1>7, <1>8, <1>9, <1>10, <1>11, <1>12, <1>13, <1>14, InvoiceStep

\* The other steps change neither an invoice nor a figure.
LEMMA OtherPayables ==
  ASSUME CostingInv, PayablesInv, UNCHANGED <<labour, accrual, invoice, liability, payable>>,
         PaymentsPositive'
  PROVE  PayablesInv'
BY DEF PayablesInv, InvoicesSound, InvoiceSound, NotBeyond, StatusCurrent, LiabilityIs, PayableIs,
       MatchesOf, Taken, Owed, Costed, Contracted, OpenIn, PostedIn, Refreshed, Total

LEMMA PaymentPayables ==
  ASSUME CostingInv, PayablesInv, NEW p \in ApPayments,
         \/ \E i \in SupplierInvoices : CreateApPayment(p, i)
         \/ \E to \in {"Received", "Cancelled", "Reconciled"} : MoveApPayment(p, to)
  PROVE  PayablesInv'
<1>1. UNCHANGED <<labour, accrual, invoice, liability, payable>>
  BY DEF CreateApPayment, MoveApPayment, timesheets
<1>2. PaymentsPositive'
  <2>1. CASE \E i \in SupplierInvoices : CreateApPayment(p, i)
    BY <2>1, ContractorsAssumption
       DEF CreateApPayment, CostingInv, Shape, Payments, PayablesInv, PaymentsPositive
  <2>2. CASE \E to \in {"Received", "Cancelled", "Reconciled"} : MoveApPayment(p, to)
    <3>1. PICK to \in {"Received", "Cancelled", "Reconciled"} : MoveApPayment(p, to)
      BY <2>2
    <3>2. apPayment[p].state # "None" /\ apPayment' = [apPayment EXCEPT ![p].state = to]
      BY <3>1 DEF MoveApPayment
    <3> QED
      BY <3>2 DEF CostingInv, Shape, Payments, PayablesInv, PaymentsPositive
  <2> QED
    BY <2>1, <2>2
<1> QED
  BY <1>1, <1>2, OtherPayables

\* Nothing has been posted yet.
LEMMA PayablesInvInit == ContractorsInit /\ CostingInv => PayablesInv
<1> SUFFICES ASSUME ContractorsInit, CostingInv PROVE PayablesInv
  OBVIOUS
<1>1. /\ invoice \in [SupplierInvoices -> Invoices]
      /\ \A i \in SupplierInvoices : invoice[i] = NoInvoice
      /\ \A l \in Lines : labour[l] = 0 /\ accrual[l] = "None"
      /\ \A p \in ApPayments : apPayment[p].state = "None"
      /\ liability = 0 /\ payable = 0
  BY DEF ContractorsInit, NoPayment, CostingInv, Shape
<1>2. InvoicesSound
  BY <1>1 DEF InvoicesSound, InvoiceSound, NoInvoice, Standing
<1>3. NotBeyond
  <2> SUFFICES ASSUME NEW l \in Lines
               PROVE  Total(MatchesOf(l, invoice), SupplierInvoices) <= LineCost[l]
    BY DEF NotBeyond
  <2>1. \A j \in SupplierInvoices : MatchesOf(l, invoice)[j] = 0
    BY <1>1 DEF MatchesOf, NoInvoice
  <2>2. Total(MatchesOf(l, invoice), SupplierInvoices) = 0
    BY <1>1, <2>1, Figures, SumZero DEF Total
  <2>3. LineCost[l] \in Nat
    BY <1>1, Figures
  <2> QED
    BY <2>2, <2>3
<1>4. StatusCurrent
  BY <1>1 DEF StatusCurrent
<1>5. LiabilityIs /\ PayableIs
  <2>1. PostedIn(invoice) = {} /\ OpenIn(invoice) = {} /\ Costed(labour) = {}
    BY <1>1 DEF PostedIn, OpenIn, Costed, Contracted, NoInvoice, Standing
  <2>2. /\ Total(Taken(invoice), {}) = 0 /\ Total(Owed(invoice), {}) = 0
        /\ Total(LineCost, {}) = 0
    BY SumEmpty DEF Total
  <2>3. /\ Total(Taken(invoice), PostedIn(invoice)) = 0 /\ Total(Owed(invoice), OpenIn(invoice)) = 0
        /\ Total(LineCost, Costed(labour)) = 0
    BY <2>1, <2>2, Zenon
  <2> QED
    BY <1>1, <2>3 DEF LiabilityIs, PayableIs
<1>6. PaymentsPositive
  BY <1>1 DEF PaymentsPositive
<1> QED
  BY <1>1, <1>2, <1>3, <1>4, <1>5, <1>6 DEF PayablesInv

LEMMA PayablesInvNext ==
  CostingInv /\ CostingInv' /\ PayablesInv /\ [ContractorsNext]_contractorVars => PayablesInv'
<1> SUFFICES ASSUME CostingInv, CostingInv', PayablesInv, [ContractorsNext]_contractorVars
             PROVE  PayablesInv'
  OBVIOUS
<1>1. CASE HoldOrResume \/ UNCHANGED contractorVars
  <2>1. UNCHANGED <<labour, accrual, invoice, apPayment, liability, payable>>
    BY <1>1 DEF HoldOrResume, contractorVars, invoicing
  <2>2. PaymentsPositive'
    BY <2>1 DEF PayablesInv, PaymentsPositive
  <2> QED
    BY <2>1, <2>2, OtherPayables
<1>2. ASSUME NEW t \in Timesheets,
             \/ \E l \in Lines : AddTimesheetLine(t, l)
             \/ SubmitTimesheet(t) \/ RejectTimesheet(t) \/ ReopenTimesheet(t)
      PROVE  PayablesInv'
  <2>1. UNCHANGED <<labour, accrual, invoice, apPayment, liability, payable>>
    BY <1>2 DEF AddTimesheetLine, SubmitTimesheet, RejectTimesheet, ReopenTimesheet,
                MoveTimesheet, invoicing
  <2>2. PaymentsPositive'
    BY <2>1 DEF PayablesInv, PaymentsPositive
  <2> QED
    BY <2>1, <2>2, OtherPayables
<1> QED
  BY <1>1, <1>2, ApprovePayables, CreatePayables, MatchPayables, PostPayables, CancelPayables,
     ApplyPayables, PaymentPayables DEF ContractorsNext

\* What is owed to contractors' agencies agrees from the labour to the payment.
THEOREM PayablesAlwaysAgree == ContractorsSpec => []PayablesAgree
<1>1. ContractorsSpec => []CostingInv
  BY CostingAlways
<1>2. ContractorsSpec => []PayablesInv
  BY <1>1, PayablesInvInit, PayablesInvNext, PTL DEF ContractorsSpec
<1> QED
  BY <1>2, PayablesInvImplies, PTL

\* A project is on hold or is not, whatever happens to its labour and its invoices.
LEMMA HoldTypes == ContractorsSpec => [](projectActive \in BOOLEAN)
<1>1. ContractorsInit => projectActive \in BOOLEAN
  BY DEF ContractorsInit
<1>2. projectActive \in BOOLEAN /\ [ContractorsNext]_contractorVars => (projectActive \in BOOLEAN)'
  <2> SUFFICES ASSUME projectActive \in BOOLEAN, [ContractorsNext]_contractorVars
               PROVE  (projectActive \in BOOLEAN)'
    OBVIOUS
  <2>1. CASE HoldOrResume
    BY <2>1 DEF HoldOrResume
  <2>2. CASE ~HoldOrResume
    <3>1. projectActive' = projectActive
      BY <2>2 DEF ContractorsNext, contractorVars, timesheets, AddTimesheetLine, MoveTimesheet,
         SubmitTimesheet, RejectTimesheet, ReopenTimesheet, ApproveTimesheet,
         CreateSupplierInvoice, MatchInvoice, ValidateInvoice, PostInvoice, CancelInvoiceOf,
         CreateApPayment, MoveApPayment, ApplyApPayment
    <3> QED
      BY <3>1
  <2> QED
    BY <2>1, <2>2
<1> QED
  BY <1>1, <1>2, PTL DEF ContractorsSpec

\* The tables of the timesheets, the invoices and the payments hold what they hold.
THEOREM ContractorsTypeCorrect == ContractorsSpec => []ContractorsTypeOK
<1>1. CostingInv /\ PayablesInv /\ projectActive \in BOOLEAN => ContractorsTypeOK
  <2> SUFFICES ASSUME Shape, PayablesInv, projectActive \in BOOLEAN PROVE ContractorsTypeOK
    BY DEF CostingInv
  <2>1. ASSUME NEW t \in Timesheets
        PROVE  /\ sheet[t].status \in {"Draft", "Submitted", "Approved", "Rejected"}
               /\ \A k \in DOMAIN sheet[t].lines : sheet[t].lines[k] \in Lines
    BY DEF Shape, Sheets
  <2>2. labour \in [Lines -> Nat] /\ accrual \in [Lines -> {"None", "Accrued", "Invoiced", "Paid"}]
    BY DEF Shape, Accruals
  <2>3. invoice \in [SupplierInvoices -> Invoices] /\ apPayment \in [ApPayments -> Payments]
    BY DEF Shape
  <2>4. liability \in Int /\ payable \in Int
    BY DEF PayablesInv
  <2> QED
    BY <2>1, <2>2, <2>3, <2>4 DEF ContractorsTypeOK, Invoices, Payments
<1>2. ContractorsSpec => []CostingInv
  BY CostingAlways
<1>3. ContractorsSpec => []PayablesInv
  BY <1>2, PayablesInvInit, PayablesInvNext, PTL DEF ContractorsSpec
<1> QED
  BY <1>1, <1>2, <1>3, HoldTypes, PTL
=============================================================================
