------------------------ MODULE MatchingEngineProofs ------------------------
(***************************************************************************)
(* For any number of clients, orders, prices and quantities, as long as no *)
(* two prices in use share an index of the level table: the tables of the  *)
(* order book stay consistent, every level is in time priority, the book   *)
(* is never crossed, and an order fills those before it first.  None of    *)
(* that depends on the tail of add.  As long as the tail sends nothing     *)
(* twice, what the subscribers and the clients make of the messages of the *)
(* order book is right.                                                    *)
(***************************************************************************)
EXTENDS MatchingEngine, TLAPS, WellFoundedInduction

(* priceToIndex tells the prices in use apart. *)
NoAliasing == \A p, r \in Prices : priceToIndex(p) = priceToIndex(r) => p = r

(* The resting orders are older than whatever comes next. *)
IdsInOrder ==
    /\ \A i \in Live : i < next_market_order_id_
    /\ adding # NULL => /\ adding.market_order_id = next_market_order_id_ - 1
                        /\ \A i \in Live : i < adding.market_order_id

Structure == LevelLists /\ PriceMapping /\ TimePriority /\ NotCrossed

BookInv == TypeOK /\ IdsInOrder /\ Structure

Increasing(s) == \A k, m \in 1 .. Len(s) : k < m => s[k] < s[m]

-----------------------------------------------------------------------------
(* Taking one element out of a list without repetitions. *)
LEMMA WithoutValue ==
    ASSUME NEW s \in Seq(MarketOrderIds), Increasing(s), NEW n \in 1 .. Len(s)
    PROVE  Without(s, s[n]) = [k \in 1 .. Len(s) - 1 |-> IF k < n THEN s[k] ELSE s[k + 1]]
  <1>1. \A k \in 1 .. Len(s) : s[k] \in Int
    BY BoundAssumption DEF MarketOrderIds
  <1>2. ASSUME NEW k \in 1 .. Len(s), s[k] = s[n] PROVE k = n
    <2>1. k \in Int /\ n \in Int
      OBVIOUS
    <2>2. ~(k < n) /\ ~(n < k)
      BY <1>1, <1>2 DEF Increasing
    <2> QED BY <2>1, <2>2
  <1>3. (CHOOSE k \in 1 .. Len(s) : s[k] = s[n]) = n
    BY <1>2
  <1> QED BY <1>3 DEF Without

LEMMA WithoutProperties ==
    ASSUME NEW s \in Seq(MarketOrderIds), Increasing(s), NEW n \in 1 .. Len(s)
    PROVE  /\ Without(s, s[n]) \in Seq(MarketOrderIds)
           /\ Len(Without(s, s[n])) = Len(s) - 1
           /\ \A k \in 1 .. Len(Without(s, s[n])) :
                /\ Without(s, s[n])[k] = s[IF k < n THEN k ELSE k + 1]
                /\ Without(s, s[n])[k] # s[n]
           /\ \A m \in 1 .. Len(s) : m # n =>
                \E k \in 1 .. Len(Without(s, s[n])) : Without(s, s[n])[k] = s[m]
  <1> DEFINE w == [k \in 1 .. Len(s) - 1 |-> IF k < n THEN s[k] ELSE s[k + 1]]
  <1>1. Without(s, s[n]) = w
    BY WithoutValue
  <1>2. Len(s) \in Nat /\ Len(s) - 1 \in Nat
    OBVIOUS
  <1>3. w \in Seq(MarketOrderIds) /\ Len(w) = Len(s) - 1
    <2>1. \A k \in 1 .. Len(s) - 1 : w[k] \in MarketOrderIds
      BY <1>2
    <2> QED BY <1>2, <2>1
  <1>4. \A k \in 1 .. Len(w) : w[k] = s[IF k < n THEN k ELSE k + 1]
    BY <1>3
  <1>5. ASSUME NEW m \in 1 .. Len(s), m # n PROVE \E k \in 1 .. Len(w) : w[k] = s[m]
    <2>1. CASE m < n
      BY <2>1, <1>2, <1>3, <1>4
    <2>2. CASE m > n
      <3>1. m - 1 \in 1 .. Len(w) /\ ~(m - 1 < n) /\ (m - 1) + 1 = m
        BY <2>2, <1>2, <1>3
      <3> QED BY <3>1, <1>4
    <2>3. m \in Int /\ n \in Int
      OBVIOUS
    <2>4. m < n \/ m > n
      BY <1>5, <2>3
    <2> QED BY <2>1, <2>2, <2>4
  <1>6. ASSUME NEW k \in 1 .. Len(w) PROVE w[k] # s[n]
    <2> DEFINE m == IF k < n THEN k ELSE k + 1
    <2>1. m \in 1 .. Len(s) /\ (m < n \/ n < m)
      BY <1>2, <1>3
    <2>2. s[m] < s[n] \/ s[n] < s[m]
      BY <2>1 DEF Increasing
    <2>3. s[m] \in Int /\ s[n] \in Int
      BY <2>1, BoundAssumption DEF MarketOrderIds
    <2>4. w[k] = s[m]
      BY <1>4
    <2> QED BY <2>2, <2>3, <2>4
  <1> HIDE DEF w
  <1> QED BY <1>1, <1>3, <1>4, <1>5, <1>6

(* A side that has levels has a best one. *)
LEMMA BestExists ==
    ASSUME TypeOK, LevelLists, NEW s \in Sides, by_price[s] # {}
    PROVE  \E x \in by_price[s] : IsBest(s, x)
  <1> DEFINE Rank(y) == IF s = "BUY" THEN MaxPrice - LevelPrice(y) ELSE LevelPrice(y)
             T == {Rank(y) : y \in by_price[s]}
  <1>1. \A y \in by_price[s] : LevelPrice(y) \in 0 .. MaxPrice /\ Rank(y) \in Nat
    <2> TAKE y \in by_price[s]
    <2>1. y \in Indices /\ price_orders_at_price_[y] \in MEOrdersAtPrice
      BY DEF TypeOK, LevelLists, Levels
    <2>2. LevelPrice(y) \in Prices
      BY <2>1 DEF LevelPrice, MEOrdersAtPrice
    <2>3. LevelPrice(y) \in 0 .. MaxPrice /\ MaxPrice \in Nat
      BY <2>2, PriceAssumption
    <2>4. MaxPrice - LevelPrice(y) \in Nat
      BY <2>3
    <2> QED BY <2>3, <2>4
  <1>2. T \subseteq Nat /\ T # {}
    BY <1>1
  <1>3. PICK t \in T : \A u \in T : ~(<<u, t>> \in OpToRel(<, Nat))
    BY <1>2, WFMin, NatLessThanWellFounded, Zenon
  <1>4. \A u \in T : ~(u < t)
    BY <1>2, <1>3, Zenon DEF OpToRel
  <1>5. PICK x \in by_price[s] : t = Rank(x)
    OBVIOUS
  <1>6. \A y \in by_price[s] : ~(Rank(y) < Rank(x))
    BY <1>4, <1>5
  <1>7. \A y \in by_price[s] : ~Better(s, LevelPrice(y), LevelPrice(x))
    BY <1>1, <1>6, PriceAssumption DEF Better
  <1> QED BY <1>7 DEF IsBest

-----------------------------------------------------------------------------
LEMMA PricesAreNumbers == Prices \subseteq Int
  <1>1. 0 .. MaxPrice \subseteq Int
    BY PriceAssumption
  <1> QED BY <1>1, PriceAssumption

(* The level table has an entry for every price. *)
LEMMA IndexInTable == ASSUME NEW p \in Prices PROVE priceToIndex(p) \in Indices
  <1>1. p \in Nat
    BY PriceAssumption
  <1> QED BY <1>1, LevelAssumption DEF priceToIndex, Indices

(* Facts read off the invariant for one level. *)
LEMMA LevelFacts ==
    ASSUME TypeOK, LevelLists, TimePriority, NEW x \in Levels
    PROVE  /\ x \in Indices
           /\ price_orders_at_price_[x] \in MEOrdersAtPrice
           /\ price_orders_at_price_[x].orders \in Seq(MarketOrderIds)
           /\ price_orders_at_price_[x].side_ \in Sides
           /\ LevelPrice(x) \in Prices
           /\ Increasing(price_orders_at_price_[x].orders)
           /\ Len(price_orders_at_price_[x].orders) > 0
  <1>1. x \in Indices /\ price_orders_at_price_[x] \in MEOrdersAtPrice
    BY DEF TypeOK, Levels
  <1> QED BY <1>1 DEF MEOrdersAtPrice, LevelPrice, LevelLists, TimePriority, Increasing

LEMMA OrderFacts ==
    ASSUME TypeOK, PriceMapping, NEW i \in Live
    PROVE  /\ i \in MarketOrderIds /\ order_pool_[i] \in MEOrder
           /\ priceToIndex(order_pool_[i].price_) \in Levels
           /\ i \in OrdersOf(priceToIndex(order_pool_[i].price_))
  <1>1. i \in MarketOrderIds /\ order_pool_[i] \in MEOrder
    BY DEF TypeOK, Live
  <1>2. order_pool_[i].price_ \in Prices
    BY <1>1 DEF MEOrder
  <1>3. priceToIndex(order_pool_[i].price_) \in Indices
    BY <1>2, IndexInTable
  <1> QED BY <1>1, <1>3 DEF PriceMapping, Levels

(* The book after an order is taken out of it. *)
LEMMA RemoveOrderStep ==
    ASSUME TypeOK, Structure, NEW id \in Live, removeOrder(id)
    PROVE  Structure' /\ Live' = Live \ {id}
           /\ order_pool_' \in [MarketOrderIds -> MEOrder \cup {NULL}]
           /\ price_orders_at_price_' \in [Indices -> MEOrdersAtPrice \cup {NULL}]
           /\ by_price' \in [Sides -> SUBSET Indices]
           /\ cid_oid_to_order_' \in [ClientIds -> [OrderIds -> MarketOrderIds \cup {NULL}]]
  <1>o. PICK order : order = order_pool_[id]
    OBVIOUS
  <1>x. PICK x : x = priceToIndex(order.price_)
    OBVIOUS
  <1>l. PICK level : level = price_orders_at_price_[x]
    OBVIOUS
  <1>0. LevelLists /\ PriceMapping /\ TimePriority /\ NotCrossed
    BY DEF Structure
  <1>1. id \in MarketOrderIds /\ order \in MEOrder /\ x \in Levels /\ id \in OrdersOf(x)
    BY <1>0, <1>o, <1>x, OrderFacts
  <1>2. /\ x \in Indices /\ level \in MEOrdersAtPrice /\ level # NULL
        /\ level.orders \in Seq(MarketOrderIds) /\ level.side_ \in Sides
        /\ Increasing(level.orders) /\ Len(level.orders) > 0
        /\ level.side_ = order.side_ /\ level.price_ = order.price_
    BY <1>0, <1>1, <1>o, <1>x, <1>l, LevelFacts DEF Levels, PriceMapping
  <1>3. PICK n \in 1 .. Len(level.orders) : level.orders[n] = id
    BY <1>1, <1>l DEF OrdersOf
  <1>4. order_pool_' = [order_pool_ EXCEPT ![id] = NULL]
    BY DEF removeOrder, unlinkOrder
  <1>5. Live' = Live \ {id} /\ \A i \in Live \ {id} : order_pool_'[i] = order_pool_[i]
    BY <1>1, <1>4 DEF Live, TypeOK
  <1>6. \A i \in Live \ {id} : order_pool_[i] \in MEOrder
    BY <1>0, OrderFacts
  <1>7. NotCrossed'
    BY <1>0, <1>5 DEF NotCrossed
  <1>8. /\ order_pool_' \in [MarketOrderIds -> MEOrder \cup {NULL}]
        /\ cid_oid_to_order_' \in [ClientIds -> [OrderIds -> MarketOrderIds \cup {NULL}]]
    BY <1>1, <1>4, <1>o DEF removeOrder, unlinkOrder, TypeOK, MEOrder
  <1>a. CASE Len(level.orders) = 1
    <2>1. /\ price_orders_at_price_' = [price_orders_at_price_ EXCEPT ![x] = NULL]
          /\ by_price' = IF by_price[level.side_] = {x}
                         THEN [by_price EXCEPT ![order.side_] = {}]
                         ELSE [by_price EXCEPT ![level.side_] = @ \ {x}]
      BY <1>a, <1>o, <1>x, <1>l DEF removeOrder, unlinkOrder, getOrdersAtPrice
    <2>2. by_price' = [by_price EXCEPT ![order.side_] = @ \ {x}]
      BY <1>2, <2>1 DEF TypeOK
    <2>3. OrdersOf(x) = {id}
      <3>1. n = 1
        BY <1>a, <1>3
      <3> QED BY <1>a, <1>3, <1>l, <3>1 DEF OrdersOf
    <2>4. Levels' = Levels \ {x}
          /\ \A y \in Levels \ {x} : price_orders_at_price_'[y] = price_orders_at_price_[y]
      BY <1>2, <2>1 DEF Levels, TypeOK
    <2>5. \A y \in Levels \ {x} : OrdersOf(y)' = OrdersOf(y) /\ LevelPrice(y)' = LevelPrice(y)
      BY <2>4 DEF OrdersOf, LevelPrice
    <2>6. \A y \in Levels \ {x} : id \notin OrdersOf(y)
      BY <1>0, <1>o, <1>x DEF LevelLists
    <2>7. \A s \in Sides : by_price'[s] = {y \in Levels' : price_orders_at_price_'[y].side_ = s}
      BY <1>0, <1>1, <1>2, <1>l, <2>2, <2>4 DEF LevelLists, TypeOK, MEOrder
    <2>8. LevelLists'
      BY <1>0, <1>5, <2>4, <2>5, <2>6, <2>7 DEF LevelLists
    <2>9. PriceMapping'
      <3> SUFFICES ASSUME NEW i \in Live \ {id},
                          NEW y, y = priceToIndex(order_pool_[i].price_)
                   PROVE  /\ price_orders_at_price_'[y] # NULL
                          /\ price_orders_at_price_'[y].price_ = order_pool_[i].price_
                          /\ price_orders_at_price_'[y].side_ = order_pool_[i].side_
                          /\ i \in OrdersOf(y)'
        BY <1>5 DEF PriceMapping
      <3>1. y \in Levels \ {x} /\ i \in OrdersOf(y)
        BY <1>0, <2>3, OrderFacts
      <3> QED BY <1>0, <2>4, <2>5, <3>1 DEF PriceMapping, Levels
    <2>10. TimePriority'
      <3> SUFFICES ASSUME NEW y \in Levels \ {x},
                          NEW k \in 1 .. Len(price_orders_at_price_[y].orders),
                          NEW m \in 1 .. Len(price_orders_at_price_[y].orders), k < m
                   PROVE  /\ price_orders_at_price_[y].orders[k] < price_orders_at_price_[y].orders[m]
                          /\ order_pool_'[price_orders_at_price_[y].orders[k]].priority_
                             < order_pool_'[price_orders_at_price_[y].orders[m]].priority_
        BY <2>4 DEF TimePriority
      <3>1. price_orders_at_price_[y].orders[k] \in Live \ {id}
            /\ price_orders_at_price_[y].orders[m] \in Live \ {id}
        BY <1>0, <2>6 DEF LevelLists, OrdersOf
      <3> QED BY <1>0, <1>5, <3>1 DEF TimePriority
    <2>11. price_orders_at_price_' \in [Indices -> MEOrdersAtPrice \cup {NULL}]
           /\ by_price' \in [Sides -> SUBSET Indices]
      BY <2>1, <2>2 DEF TypeOK
    <2> QED BY <1>5, <1>7, <1>8, <2>8, <2>9, <2>10, <2>11 DEF Structure
  <1>b. CASE Len(level.orders) # 1
    <2>r. PICK rest : rest = Without(level.orders, id)
      OBVIOUS
    <2>1. /\ price_orders_at_price_' =
               [price_orders_at_price_ EXCEPT ![x] = [level EXCEPT !.orders = rest]]
          /\ by_price' = by_price
      BY <1>b, <1>o, <1>x, <1>l, <2>r DEF removeOrder, unlinkOrder, getOrdersAtPrice
    <2>n. Len(level.orders) \in Nat /\ n \in Nat /\ n <= Len(level.orders)
      BY <1>2
    <2>p. Len(level.orders) >= 2
      <3>1. Len(level.orders) > 0 /\ Len(level.orders) # 1
        BY <1>2, <1>b
      <3>2. \A l \in Nat : l > 0 /\ l # 1 => l >= 2
        OBVIOUS
      <3> QED BY <2>n, <3>1, <3>2
    <2>2. /\ rest \in Seq(MarketOrderIds) /\ Len(rest) = Len(level.orders) - 1
          /\ \A k \in 1 .. Len(rest) : /\ rest[k] = level.orders[IF k < n THEN k ELSE k + 1]
                                        /\ rest[k] # id
          /\ \A m \in 1 .. Len(level.orders) : m # n => \E k \in 1 .. Len(rest) : rest[k] = level.orders[m]
      <3>1. rest = Without(level.orders, level.orders[n])
        BY <1>3, <2>r
      <3>2. PICK s \in Seq(MarketOrderIds) : s = level.orders
        BY <1>2
      <3>3. Increasing(s) /\ n \in 1 .. Len(s)
        BY <1>2, <3>2
      <3>4. /\ Without(s, s[n]) \in Seq(MarketOrderIds)
            /\ Len(Without(s, s[n])) = Len(s) - 1
            /\ \A k \in 1 .. Len(Without(s, s[n])) :
                 /\ Without(s, s[n])[k] = s[IF k < n THEN k ELSE k + 1]
                 /\ Without(s, s[n])[k] # s[n]
            /\ \A m \in 1 .. Len(s) : m # n =>
                 \E k \in 1 .. Len(Without(s, s[n])) : Without(s, s[n])[k] = s[m]
        BY <3>3, WithoutProperties
      <3>5. rest = Without(s, s[n]) /\ s[n] = id
        BY <1>3, <3>1, <3>2
      <3> QED BY <3>2, <3>4, <3>5
    <2>3. /\ price_orders_at_price_'[x] = [level EXCEPT !.orders = rest]
          /\ price_orders_at_price_'[x] \in MEOrdersAtPrice
          /\ price_orders_at_price_'[x].orders = rest
          /\ price_orders_at_price_'[x].side_ = level.side_
          /\ price_orders_at_price_'[x].price_ = level.price_
      BY <1>2, <2>1, <2>2 DEF TypeOK, MEOrdersAtPrice
    <2>4. Levels' = Levels
          /\ \A y \in Levels \ {x} : price_orders_at_price_'[y] = price_orders_at_price_[y]
      <3>1. price_orders_at_price_'[x] # NULL /\ price_orders_at_price_[x] # NULL
        BY <1>2, <1>l, <2>3, NullAssumption
      <3>2. \A y \in Indices \ {x} : price_orders_at_price_'[y] = price_orders_at_price_[y]
        BY <1>2, <2>1 DEF TypeOK
      <3> QED BY <1>2, <3>1, <3>2 DEF Levels
    <2>5. \A y \in Levels \ {x} : OrdersOf(y)' = OrdersOf(y)
      BY <2>4 DEF OrdersOf
    <2>6. OrdersOf(x)' = OrdersOf(x) \ {id}
      <3>1. OrdersOf(x)' = {rest[k] : k \in 1 .. Len(rest)}
        BY <2>3 DEF OrdersOf
      <3>2. OrdersOf(x) = {level.orders[k] : k \in 1 .. Len(level.orders)}
        BY <1>l DEF OrdersOf
      <3>3. \A k \in 1 .. Len(rest) : rest[k] \in OrdersOf(x) \ {id}
        <4> TAKE k \in 1 .. Len(rest)
        <4>1. (IF k < n THEN k ELSE k + 1) \in 1 .. Len(level.orders)
          BY <2>n, <2>2
        <4> QED BY <2>2, <3>2, <4>1
      <3>4. \A i \in OrdersOf(x) \ {id} : \E k \in 1 .. Len(rest) : rest[k] = i
        <4> TAKE i \in OrdersOf(x) \ {id}
        <4>1. PICK m \in 1 .. Len(level.orders) : level.orders[m] = i
          BY <3>2
        <4>2. m # n
          BY <1>3, <4>1
        <4> QED BY <2>2, <4>1, <4>2
      <3> QED BY <3>1, <3>3, <3>4
    <2>7. \A y \in Levels : LevelPrice(y)' = LevelPrice(y)
                          /\ price_orders_at_price_'[y].side_ = price_orders_at_price_[y].side_
      BY <1>l, <2>3, <2>4 DEF LevelPrice
    <2>8. \A y \in Levels \ {x} : id \notin OrdersOf(y)
      BY <1>0, <1>o, <1>x DEF LevelLists
    <2>9. LevelLists'
      <3>1. \A s \in Sides : by_price'[s] = {y \in Levels' : price_orders_at_price_'[y].side_ = s}
        BY <1>0, <2>1, <2>4, <2>7 DEF LevelLists
      <3>2. \A y \in Levels : Len(price_orders_at_price_'[y].orders) > 0
        <4>1. Len(rest) > 0
          BY <2>n, <2>p, <2>2
        <4> QED BY <1>0, <2>3, <2>4, <4>1 DEF LevelLists
      <3>3. \A y \in Levels : \A i \in OrdersOf(y)' : i \in OrdersOf(y) /\ i \in Live \ {id}
        BY <1>0, <2>5, <2>6, <2>8 DEF LevelLists
      <3> QED BY <1>0, <1>5, <2>4, <2>7, <3>1, <3>2, <3>3 DEF LevelLists
    <2>10. PriceMapping'
      <3> SUFFICES ASSUME NEW i \in Live \ {id},
                          NEW y, y = priceToIndex(order_pool_[i].price_)
                   PROVE  /\ price_orders_at_price_'[y] # NULL
                          /\ price_orders_at_price_'[y].price_ = order_pool_[i].price_
                          /\ price_orders_at_price_'[y].side_ = order_pool_[i].side_
                          /\ i \in OrdersOf(y)'
        BY <1>5 DEF PriceMapping
      <3>1. y \in Levels /\ i \in OrdersOf(y)
        BY <1>0, OrderFacts
      <3>2. i \in OrdersOf(y)'
        BY <2>5, <2>6, <3>1
      <3> QED BY <1>0, <2>4, <2>7, <3>1, <3>2 DEF PriceMapping, Levels, LevelPrice
    <2>11. TimePriority'
      <3> SUFFICES ASSUME NEW y \in Levels,
                          NEW k \in 1 .. Len(price_orders_at_price_'[y].orders),
                          NEW m \in 1 .. Len(price_orders_at_price_'[y].orders), k < m
                   PROVE  /\ price_orders_at_price_'[y].orders[k] < price_orders_at_price_'[y].orders[m]
                          /\ order_pool_'[price_orders_at_price_'[y].orders[k]].priority_
                             < order_pool_'[price_orders_at_price_'[y].orders[m]].priority_
        BY <2>4 DEF TimePriority
      <3>1. CASE y # x
        <4>1. price_orders_at_price_'[y] = price_orders_at_price_[y]
          BY <2>4, <3>1
        <4>2. price_orders_at_price_[y].orders[k] \in Live \ {id}
              /\ price_orders_at_price_[y].orders[m] \in Live \ {id}
          BY <1>0, <2>8, <3>1, <4>1 DEF LevelLists, OrdersOf
        <4> QED BY <1>0, <1>5, <4>1, <4>2 DEF TimePriority
      <3>2. CASE y = x
        <4> DEFINE kk == IF k < n THEN k ELSE k + 1
                   mm == IF m < n THEN m ELSE m + 1
        <4>1. kk \in 1 .. Len(level.orders) /\ mm \in 1 .. Len(level.orders) /\ kk < mm
          <5>1. k \in 1 .. Len(rest) /\ m \in 1 .. Len(rest)
            BY <2>3, <3>2
          <5> QED BY <2>n, <2>2, <5>1, SMTT(20)
        <4>2. price_orders_at_price_'[y].orders[k] = level.orders[kk]
              /\ price_orders_at_price_'[y].orders[m] = level.orders[mm]
          BY <2>2, <2>3, <3>2
        <4>3. level.orders[kk] \in Live \ {id} /\ level.orders[mm] \in Live \ {id}
          <5>1. level.orders[kk] \in OrdersOf(x) /\ level.orders[mm] \in OrdersOf(x)
            BY <1>l, <4>1 DEF OrdersOf
          <5>2. level.orders[kk] # id /\ level.orders[mm] # id
            BY <2>2, <2>3, <3>2, <4>2
          <5> QED BY <1>0, <1>1, <5>1, <5>2 DEF LevelLists
        <4>4. /\ level.orders[kk] < level.orders[mm]
              /\ order_pool_[level.orders[kk]].priority_ < order_pool_[level.orders[mm]].priority_
          BY <1>0, <1>1, <1>l, <4>1 DEF TimePriority
        <4> QED BY <1>5, <4>2, <4>3, <4>4
      <3> QED BY <3>1, <3>2
    <2>12. price_orders_at_price_' \in [Indices -> MEOrdersAtPrice \cup {NULL}]
           /\ by_price' \in [Sides -> SUBSET Indices]
      BY <1>2, <2>1, <2>3 DEF TypeOK
    <2> QED BY <1>5, <1>7, <1>8, <2>9, <2>10, <2>11, <2>12 DEF Structure
  <1> QED BY <1>a, <1>b

(* The book after an order that crosses nothing comes to rest in it. *)
LEMMA AddOrderStep ==
    ASSUME NoAliasing, TypeOK, Structure,
           NEW id \in MarketOrderIds, \A i \in Live : i < id,
           NEW order \in MEOrder, order.priority_ = getNextPriority(order.price_),
           \A j \in Live : order_pool_[j].side_ # order.side_ =>
                            Better(order_pool_[j].side_, order.price_, order_pool_[j].price_),
           addOrder(id, order)
    PROVE  Structure' /\ Live' = Live \cup {id}
           /\ order_pool_' \in [MarketOrderIds -> MEOrder \cup {NULL}]
           /\ price_orders_at_price_' \in [Indices -> MEOrdersAtPrice \cup {NULL}]
           /\ by_price' \in [Sides -> SUBSET Indices]
           /\ cid_oid_to_order_' \in [ClientIds -> [OrderIds -> MarketOrderIds \cup {NULL}]]
  <1>x. PICK x : x = priceToIndex(order.price_)
    OBVIOUS
  <1>l. PICK level : level = price_orders_at_price_[x]
    OBVIOUS
  <1>0. LevelLists /\ PriceMapping /\ TimePriority /\ NotCrossed
    BY DEF Structure
  <1>1. order.price_ \in Prices /\ order.side_ \in Sides /\ order # NULL
        /\ order.client_id_ \in ClientIds /\ order.client_order_id_ \in OrderIds
    BY NullAssumption DEF MEOrder
  <1>2. x \in Indices
    BY <1>1, <1>x, IndexInTable
  <1>3. order_pool_' = [order_pool_ EXCEPT ![id] = order]
    BY DEF addOrder
  <1>4. id \notin Live
    BY BoundAssumption DEF MarketOrderIds
  <1>5. Live' = Live \cup {id} /\ order_pool_'[id] = order
        /\ \A i \in Live : order_pool_'[i] = order_pool_[i]
    BY <1>1, <1>3, <1>4 DEF Live, TypeOK
  <1>6. \A i \in Live : /\ i \in MarketOrderIds /\ order_pool_[i] \in MEOrder
                        /\ order_pool_[i].side_ \in Sides /\ order_pool_[i].price_ \in Int
    <2> TAKE i \in Live
    <2>1. i \in MarketOrderIds /\ order_pool_[i] \in MEOrder
      BY <1>0, OrderFacts
    <2>2. order_pool_[i].side_ \in Sides /\ order_pool_[i].price_ \in Prices
      BY <2>1 DEF MEOrder
    <2>3. order_pool_[i].price_ \in Int
      BY <2>2, PricesAreNumbers
    <2> QED BY <2>1, <2>2, <2>3
  <1>7. NotCrossed'
    <2> SUFFICES ASSUME NEW i \in Live \cup {id}, NEW j \in Live \cup {id},
                        order_pool_'[i].side_ = "BUY", order_pool_'[j].side_ = "SELL"
                 PROVE  order_pool_'[i].price_ < order_pool_'[j].price_
      BY <1>5 DEF NotCrossed
    <2>1. CASE i \in Live /\ j \in Live
      BY <1>0, <1>5, <2>1 DEF NotCrossed
    <2>2. CASE i = id /\ j \in Live
      BY <1>5, <2>2 DEF Better
    <2>3. CASE j = id /\ i \in Live
      BY <1>5, <2>3 DEF Better
    <2>4. CASE i = id /\ j = id
      BY <2>4
    <2> QED BY <2>1, <2>2, <2>3, <2>4
  <1>8. /\ order_pool_' \in [MarketOrderIds -> MEOrder \cup {NULL}]
        /\ cid_oid_to_order_' \in [ClientIds -> [OrderIds -> MarketOrderIds \cup {NULL}]]
    BY <1>1, <1>3 DEF addOrder, TypeOK
  <1>9. \A y \in Levels : id \notin OrdersOf(y)
    BY <1>0, <1>4 DEF LevelLists
  <1>a. CASE level = NULL
    <2>1. /\ price_orders_at_price_' = [price_orders_at_price_ EXCEPT ![x] =
               [side_ |-> order.side_, price_ |-> order.price_, orders |-> <<id>>]]
          /\ by_price' = [by_price EXCEPT ![order.side_] = @ \cup {x}]
      BY <1>a, <1>x, <1>l DEF addOrder, getOrdersAtPrice
    <2>2. /\ price_orders_at_price_'[x].side_ = order.side_
          /\ price_orders_at_price_'[x].price_ = order.price_
          /\ price_orders_at_price_'[x].orders = <<id>>
          /\ price_orders_at_price_'[x] \in MEOrdersAtPrice
      BY <1>1, <1>2, <2>1 DEF TypeOK, MEOrdersAtPrice
    <2>3. x \notin Levels
      BY <1>a, <1>l DEF Levels
    <2>4. Levels' = Levels \cup {x}
          /\ \A y \in Levels : price_orders_at_price_'[y] = price_orders_at_price_[y]
      <3>1. \A y \in Indices \ {x} : price_orders_at_price_'[y] = price_orders_at_price_[y]
        BY <1>2, <2>1 DEF TypeOK
      <3>2. price_orders_at_price_'[x] # NULL
        BY <2>2, NullAssumption
      <3> QED BY <1>2, <2>3, <3>1, <3>2 DEF Levels
    <2>5. \A y \in Levels : OrdersOf(y)' = OrdersOf(y) /\ LevelPrice(y)' = LevelPrice(y)
      BY <2>4 DEF OrdersOf, LevelPrice
    <2>6. OrdersOf(x)' = {id} /\ LevelPrice(x)' = order.price_
      BY <2>2 DEF OrdersOf, LevelPrice
    <2>7. LevelLists'
      <3>1. \A s \in Sides : by_price'[s] = {y \in Levels' : price_orders_at_price_'[y].side_ = s}
        BY <1>0, <1>1, <2>1, <2>2, <2>3, <2>4 DEF LevelLists, TypeOK
      <3>2. \A y \in Levels' : /\ Len(price_orders_at_price_'[y].orders) > 0
                               /\ priceToIndex(LevelPrice(y)') = y
        BY <1>0, <1>x, <2>2, <2>4, <2>5, <2>6 DEF LevelLists
      <3>3. \A y \in Levels' : \A i \in OrdersOf(y)' :
              /\ i \in Live' /\ order_pool_'[i].price_ = LevelPrice(y)'
              /\ order_pool_'[i].side_ = price_orders_at_price_'[y].side_
        BY <1>0, <1>5, <2>2, <2>4, <2>5, <2>6 DEF LevelLists
      <3> QED BY <3>1, <3>2, <3>3 DEF LevelLists, priceToIndex
    <2>8. PriceMapping'
      <3> SUFFICES ASSUME NEW i \in Live \cup {id},
                          NEW y, y = priceToIndex(order_pool_'[i].price_)
                   PROVE  /\ price_orders_at_price_'[y] # NULL
                          /\ price_orders_at_price_'[y].price_ = order_pool_'[i].price_
                          /\ price_orders_at_price_'[y].side_ = order_pool_'[i].side_
                          /\ i \in OrdersOf(y)'
        BY <1>5 DEF PriceMapping, priceToIndex
      <3>1. CASE i = id
        BY <1>5, <1>x, <2>2, <2>6, <3>1, NullAssumption
      <3>2. CASE i \in Live
        <4>1. y \in Levels /\ i \in OrdersOf(y)
          BY <1>0, <1>5, <3>2, OrderFacts
        <4> QED BY <1>0, <1>5, <2>4, <2>5, <3>2, <4>1 DEF PriceMapping, Levels
      <3> QED BY <3>1, <3>2
    <2>9. TimePriority'
      <3> SUFFICES ASSUME NEW y \in Levels \cup {x},
                          NEW k \in 1 .. Len(price_orders_at_price_'[y].orders),
                          NEW m \in 1 .. Len(price_orders_at_price_'[y].orders), k < m
                   PROVE  /\ price_orders_at_price_'[y].orders[k] < price_orders_at_price_'[y].orders[m]
                          /\ order_pool_'[price_orders_at_price_'[y].orders[k]].priority_
                             < order_pool_'[price_orders_at_price_'[y].orders[m]].priority_
        BY <2>4 DEF TimePriority
      <3>1. CASE y = x
        BY <2>2, <3>1
      <3>2. CASE y \in Levels
        <4>1. price_orders_at_price_'[y] = price_orders_at_price_[y]
          BY <2>4, <3>2
        <4>2. price_orders_at_price_[y].orders[k] \in Live
              /\ price_orders_at_price_[y].orders[m] \in Live
          BY <1>0, <3>2, <4>1 DEF LevelLists, OrdersOf
        <4> QED BY <1>0, <1>5, <3>2, <4>1, <4>2 DEF TimePriority
      <3> QED BY <3>1, <3>2
    <2>10. price_orders_at_price_' \in [Indices -> MEOrdersAtPrice \cup {NULL}]
           /\ by_price' \in [Sides -> SUBSET Indices]
      <3>1. price_orders_at_price_' \in [Indices -> MEOrdersAtPrice \cup {NULL}]
        BY <1>2, <2>1, <2>2 DEF TypeOK
      <3>2. by_price' \in [Sides -> SUBSET Indices]
        BY <1>2, <2>1 DEF TypeOK
      <3> QED BY <3>1, <3>2
    <2> QED BY <1>5, <1>7, <1>8, <2>7, <2>8, <2>9, <2>10 DEF Structure
  <1>b. CASE level # NULL
    <2>1. x \in Levels
      BY <1>2, <1>b, <1>l DEF Levels
    <2>2. /\ level \in MEOrdersAtPrice /\ level.orders \in Seq(MarketOrderIds)
          /\ level.side_ \in Sides /\ level.price_ \in Prices
          /\ Increasing(level.orders) /\ Len(level.orders) > 0
      BY <1>0, <1>l, <2>1, LevelFacts DEF LevelPrice
    <2>n. PICK n \in Nat : n = Len(level.orders) /\ n >= 1
      BY <2>2
    <2>3. level.price_ = order.price_
      BY <1>0, <1>1, <1>x, <1>l, <2>1, <2>2 DEF LevelLists, LevelPrice, NoAliasing
    <2>4. PICK last \in Live : /\ last = level.orders[n] /\ last \in OrdersOf(x)
                              /\ order_pool_[last].price_ = level.price_
                              /\ order_pool_[last].side_ = level.side_
      BY <1>0, <1>l, <2>1, <2>n DEF LevelLists, LevelPrice, OrdersOf
    <2>5. level.side_ = order.side_
      BY <1>1, <1>6, <2>2, <2>3, <2>4 DEF Better, Sides
    <2>6. PICK longer : longer = Append(level.orders, id)
      OBVIOUS
    <2>7. /\ longer \in Seq(MarketOrderIds) /\ Len(longer) = n + 1 /\ longer[n + 1] = id
          /\ \A k \in 1 .. n : longer[k] = level.orders[k]
      BY <2>2, <2>6, <2>n
    <2>8. /\ price_orders_at_price_' =
               [price_orders_at_price_ EXCEPT ![x] = [level EXCEPT !.orders = longer]]
          /\ by_price' = by_price
      BY <1>b, <1>x, <1>l, <2>6 DEF addOrder, getOrdersAtPrice
    <2>9. /\ price_orders_at_price_'[x] \in MEOrdersAtPrice
          /\ price_orders_at_price_'[x].orders = longer
          /\ price_orders_at_price_'[x].side_ = level.side_
          /\ price_orders_at_price_'[x].price_ = level.price_
      BY <1>2, <2>2, <2>7, <2>8 DEF TypeOK, MEOrdersAtPrice
    <2>10. Levels' = Levels
           /\ \A y \in Levels \ {x} : price_orders_at_price_'[y] = price_orders_at_price_[y]
      <3>1. price_orders_at_price_'[x] # NULL /\ price_orders_at_price_[x] # NULL
        BY <1>b, <1>l, <2>9, NullAssumption
      <3>2. \A y \in Indices \ {x} : price_orders_at_price_'[y] = price_orders_at_price_[y]
        BY <1>2, <2>8 DEF TypeOK
      <3> QED BY <1>2, <3>1, <3>2 DEF Levels
    <2>11. \A y \in Levels \ {x} : OrdersOf(y)' = OrdersOf(y)
      BY <2>10 DEF OrdersOf
    <2>12. OrdersOf(x)' = OrdersOf(x) \cup {id}
      <3>1. OrdersOf(x)' = {longer[k] : k \in 1 .. n + 1}
        BY <2>7, <2>9 DEF OrdersOf
      <3>2. OrdersOf(x) = {level.orders[k] : k \in 1 .. n}
        BY <1>l, <2>n DEF OrdersOf
      <3>3. \A k \in 1 .. n + 1 : longer[k] \in OrdersOf(x) \cup {id}
        <4> TAKE k \in 1 .. n + 1
        <4>1. k \in 1 .. n \/ k = n + 1
          OBVIOUS
        <4> QED BY <2>7, <3>2, <4>1
      <3>4. \A i \in OrdersOf(x) \cup {id} : \E k \in 1 .. n + 1 : longer[k] = i
        <4> TAKE i \in OrdersOf(x) \cup {id}
        <4>1. CASE i = id
          BY <2>7, <4>1
        <4>2. CASE i \in OrdersOf(x)
          <5>1. PICK k \in 1 .. n : level.orders[k] = i
            BY <3>2, <4>2
          <5>2. k \in 1 .. n + 1
            OBVIOUS
          <5> QED BY <2>7, <5>1, <5>2
        <4> QED BY <4>1, <4>2
      <3> QED BY <3>1, <3>3, <3>4
    <2>13. \A y \in Levels : LevelPrice(y)' = LevelPrice(y)
                           /\ price_orders_at_price_'[y].side_ = price_orders_at_price_[y].side_
      BY <1>l, <2>9, <2>10 DEF LevelPrice
    <2>14. LevelLists'
      <3>1. \A s \in Sides : by_price'[s] = {y \in Levels' : price_orders_at_price_'[y].side_ = s}
        BY <1>0, <2>8, <2>10, <2>13 DEF LevelLists
      <3>2. \A y \in Levels : Len(price_orders_at_price_'[y].orders) > 0
        BY <1>0, <2>7, <2>9, <2>10 DEF LevelLists
      <3>3. \A y \in Levels : \A i \in OrdersOf(y)' :
              /\ i \in Live' /\ order_pool_'[i].price_ = LevelPrice(y)
              /\ order_pool_'[i].side_ = price_orders_at_price_[y].side_
        <4> TAKE y \in Levels
        <4> TAKE i \in OrdersOf(y)'
        <4>1. CASE i \in OrdersOf(y)
          BY <1>0, <1>5, <4>1 DEF LevelLists
        <4>2. CASE i \notin OrdersOf(y)
          <5>1. i = id /\ y = x
            BY <2>11, <2>12, <4>2
          <5> QED BY <1>5, <1>l, <2>3, <2>5, <5>1 DEF LevelPrice
        <4> QED BY <4>1, <4>2
      <3> QED BY <1>0, <2>10, <2>13, <3>1, <3>2, <3>3 DEF LevelLists, priceToIndex
    <2>15. PriceMapping'
      <3> SUFFICES ASSUME NEW i \in Live \cup {id},
                          NEW y, y = priceToIndex(order_pool_'[i].price_)
                   PROVE  /\ price_orders_at_price_'[y] # NULL
                          /\ price_orders_at_price_'[y].price_ = order_pool_'[i].price_
                          /\ price_orders_at_price_'[y].side_ = order_pool_'[i].side_
                          /\ i \in OrdersOf(y)'
        BY <1>5 DEF PriceMapping, priceToIndex
      <3>1. CASE i = id
        BY <1>5, <1>x, <2>3, <2>5, <2>9, <2>12, <3>1, NullAssumption
      <3>2. CASE i \in Live
        <4>1. y \in Levels /\ i \in OrdersOf(y)
          BY <1>0, <1>5, <3>2, OrderFacts
        <4>2. i \in OrdersOf(y)'
          BY <2>11, <2>12, <4>1
        <4> QED BY <1>0, <1>5, <2>10, <2>13, <3>2, <4>1, <4>2 DEF PriceMapping, Levels, LevelPrice
      <3> QED BY <3>1, <3>2
    <2>16. TimePriority'
      <3> SUFFICES ASSUME NEW y \in Levels,
                          NEW k \in 1 .. Len(price_orders_at_price_'[y].orders),
                          NEW m \in 1 .. Len(price_orders_at_price_'[y].orders), k < m
                   PROVE  /\ price_orders_at_price_'[y].orders[k] < price_orders_at_price_'[y].orders[m]
                          /\ order_pool_'[price_orders_at_price_'[y].orders[k]].priority_
                             < order_pool_'[price_orders_at_price_'[y].orders[m]].priority_
        BY <2>10 DEF TimePriority
      <3>1. CASE y # x
        <4>1. price_orders_at_price_'[y] = price_orders_at_price_[y]
          BY <2>10, <3>1
        <4>2. price_orders_at_price_[y].orders[k] \in Live
              /\ price_orders_at_price_[y].orders[m] \in Live
          BY <1>0, <4>1 DEF LevelLists, OrdersOf
        <4> QED BY <1>0, <1>5, <4>1, <4>2 DEF TimePriority
      <3>2. CASE y = x
        <4>1. k \in 1 .. n + 1 /\ m \in 1 .. n + 1
          BY <2>7, <2>9, <3>2
        <4>2. k \in 1 .. n /\ longer[k] = level.orders[k]
          BY <2>7, <4>1
        <4>3. level.orders[k] \in OrdersOf(x)
          BY <1>l, <2>n, <4>2 DEF OrdersOf
        <4>4. level.orders[k] \in Live
          BY <1>0, <2>1, <4>3 DEF LevelLists
        <4>5. CASE m \in 1 .. n
          <5>1. longer[m] = level.orders[m] /\ level.orders[m] \in OrdersOf(x)
            BY <1>l, <2>7, <2>n, <4>5 DEF OrdersOf
          <5>2. level.orders[m] \in Live
            BY <1>0, <2>1, <5>1 DEF LevelLists
          <5>3. /\ level.orders[k] < level.orders[m]
                /\ order_pool_[level.orders[k]].priority_ < order_pool_[level.orders[m]].priority_
            BY <1>0, <1>l, <2>1, <2>n, <4>2, <4>5 DEF TimePriority
          <5> QED BY <1>5, <2>9, <3>2, <4>2, <4>4, <5>1, <5>2, <5>3
        <4>6. CASE m = n + 1
          <5>1. level.orders[k] < id
            BY <4>4
          <5>2. order.priority_ = order_pool_[last].priority_ + 1
            BY <1>b, <1>x, <1>l, <2>4, <2>n DEF getNextPriority, getOrdersAtPrice
          <5>3. order_pool_[last].priority_ \in Nat /\ order_pool_[level.orders[k]].priority_ \in Nat
            BY <1>6, <4>4 DEF MEOrder
          <5>4. order_pool_[level.orders[k]].priority_ <= order_pool_[last].priority_
            <6>1. CASE k = n
              BY <2>4, <5>3, <6>1
            <6>2. CASE k < n
              <7>1. \A a, b \in 1 .. Len(price_orders_at_price_[x].orders) : a < b =>
                      order_pool_[price_orders_at_price_[x].orders[a]].priority_
                      < order_pool_[price_orders_at_price_[x].orders[b]].priority_
                BY <1>0, <2>1, Zenon DEF TimePriority
              <7>2. \A a, b \in 1 .. n : a < b =>
                      order_pool_[level.orders[a]].priority_ < order_pool_[level.orders[b]].priority_
                BY <1>l, <2>n, <7>1
              <7>3. n \in 1 .. n
                BY <4>2
              <7>4. order_pool_[level.orders[k]].priority_ < order_pool_[last].priority_
                BY <2>4, <4>2, <6>2, <7>2, <7>3
              <7> QED BY <5>3, <7>4
            <6> QED BY <4>2, <6>1, <6>2
          <5>5. order_pool_[level.orders[k]].priority_ < order.priority_
            BY <5>2, <5>3, <5>4
          <5> QED BY <1>5, <2>7, <2>9, <3>2, <4>2, <4>4, <4>6, <5>1, <5>5
        <4> QED BY <4>1, <4>5, <4>6
      <3> QED BY <3>1, <3>2
    <2>17. price_orders_at_price_' \in [Indices -> MEOrdersAtPrice \cup {NULL}]
           /\ by_price' \in [Sides -> SUBSET Indices]
      BY <1>2, <2>2, <2>7, <2>8, <2>9 DEF TypeOK
    <2> QED BY <1>5, <1>7, <1>8, <2>14, <2>15, <2>16, <2>17 DEF Structure
  <1> QED BY <1>a, <1>b
-----------------------------------------------------------------------------
LEMMA InitBookInv == Init => BookInv
  <1> SUFFICES ASSUME Init PROVE BookInv
    OBVIOUS
  <1>1. Live = {} /\ Levels = {}
    BY DEF Init, Live, Levels
  <1>2. TypeOK
    BY BoundAssumption DEF Init, TypeOK
  <1>3. IdsInOrder
    BY <1>1 DEF Init, IdsInOrder
  <1>4. Structure
    BY <1>1 DEF Init, Structure, LevelLists, PriceMapping, TimePriority, NotCrossed
  <1> QED BY <1>2, <1>3, <1>4 DEF BookInv

(* A step that leaves the tables of the book alone leaves them consistent. *)
LEMMA TablesUnchanged ==
    ASSUME Structure, UNCHANGED bookVars
    PROVE  Structure' /\ Live' = Live
  <1>1. Live' = Live /\ Levels' = Levels
    BY DEF bookVars, Live, Levels
  <1>2. \A y : OrdersOf(y)' = OrdersOf(y) /\ LevelPrice(y)' = LevelPrice(y)
    BY DEF bookVars, OrdersOf, LevelPrice
  <1>3. LevelLists'
    BY <1>1, <1>2 DEF Structure, LevelLists, bookVars, priceToIndex
  <1>4. PriceMapping'
    BY <1>1, <1>2 DEF Structure, PriceMapping, bookVars, priceToIndex
  <1>5. TimePriority' /\ NotCrossed'
    BY <1>1 DEF Structure, TimePriority, NotCrossed, bookVars
  <1> QED BY <1>1, <1>3, <1>4, <1>5 DEF Structure

LEMMA AcceptStep ==
    ASSUME BookInv, NEW c \in ClientIds, NEW o \in OrderIds, NEW s \in Sides,
           NEW p \in Prices, NEW q \in Qtys, Accept(c, o, s, p, q)
    PROVE  BookInv'
  <1>0. TypeOK /\ IdsInOrder /\ Structure
    BY DEF BookInv
  <1>1. Structure' /\ Live' = Live
    BY <1>0, TablesUnchanged DEF Accept
  <1>2. next_market_order_id_ \in MarketOrderIds /\ next_market_order_id_' = next_market_order_id_ + 1
        /\ adding'.market_order_id = next_market_order_id_ /\ adding' \in Adding
    BY QtyAssumption DEF Accept, Adding
  <1>3. TypeOK'
    <2>1. next_market_order_id_' \in 1 .. MaxOrders + 1
      BY <1>2, BoundAssumption DEF MarketOrderIds
    <2>2. last_oid' \in [ClientIds -> Nat]
      BY <1>0, BoundAssumption DEF Accept, TypeOK, OrderIds
    <2> QED BY <1>0, <1>2, <2>1, <2>2 DEF Accept, TypeOK, bookVars
  <1>4. IdsInOrder'
    BY <1>0, <1>1, <1>2, BoundAssumption DEF IdsInOrder, MarketOrderIds, Live
  <1> QED BY <1>1, <1>3, <1>4 DEF BookInv

(* One fill: the resting order shrinks in place or leaves the book. *)
LEMMA MatchKeepsBook ==
    ASSUME BookInv, NEW x \in Indices, Match(x)
    PROVE  BookInv'
  <1>i. PICK id : id = FirstOrder(x)
    OBVIOUS
  <1>o. PICK order : order = order_pool_[id]
    OBVIOUS
  <1>0. TypeOK /\ IdsInOrder /\ Structure /\ LevelLists /\ PriceMapping
        /\ TimePriority /\ NotCrossed
    BY DEF BookInv, Structure
  <1>1. adding \in Adding /\ adding # NULL /\ adding.leaves_qty \in Nat
        /\ adding.side \in Sides /\ x \in by_price[Opposite(adding.side)]
    BY <1>0 DEF Match, Matchable, IsBest, TypeOK, Adding
  <1>2. x \in Levels
    BY <1>0, <1>1 DEF LevelLists, Opposite, Sides
  <1>3. id \in Live
    <2>1. 1 \in 1 .. Len(price_orders_at_price_[x].orders)
      BY <1>0, <1>2, LevelFacts
    <2>2. id \in OrdersOf(x)
      BY <1>i, <2>1 DEF FirstOrder, OrdersOf
    <2> QED BY <1>0, <1>2, <2>2 DEF LevelLists
  <1>4. id \in MarketOrderIds /\ order \in MEOrder /\ order.qty_ \in Nat
    BY <1>0, <1>3, <1>o, OrderFacts DEF MEOrder
  <1>5. PICK fill \in Nat : /\ fill <= order.qty_ /\ fill <= adding.leaves_qty
                           /\ fill = IF adding.leaves_qty < order.qty_
                                     THEN adding.leaves_qty ELSE order.qty_
    BY <1>1, <1>4
  <1>6. adding' = [adding EXCEPT !.leaves_qty = adding.leaves_qty - fill]
        /\ UNCHANGED <<next_market_order_id_, last_oid>>
    BY <1>i, <1>o, <1>5 DEF Match, FillQty
  <1>7. adding' \in Adding /\ adding' # NULL /\ adding'.market_order_id = adding.market_order_id
    <2>1. adding.leaves_qty - fill \in Nat
      BY <1>1, <1>5
    <2>2. adding' \in Adding /\ adding'.market_order_id = adding.market_order_id
      BY <1>1, <1>6, <2>1 DEF Adding
    <2> QED BY <2>2, NullAssumption
  <1>a. CASE order.qty_ - fill = 0
    <2>1. removeOrder(id)
      BY <1>a, <1>i, <1>o, <1>5 DEF Match, FillQty
    <2>2. /\ Structure' /\ Live' = Live \ {id}
          /\ order_pool_' \in [MarketOrderIds -> MEOrder \cup {NULL}]
          /\ price_orders_at_price_' \in [Indices -> MEOrdersAtPrice \cup {NULL}]
          /\ by_price' \in [Sides -> SUBSET Indices]
          /\ cid_oid_to_order_' \in [ClientIds -> [OrderIds -> MarketOrderIds \cup {NULL}]]
      BY <1>0, <1>3, <2>1, RemoveOrderStep
    <2>3. TypeOK'
      BY <1>0, <1>6, <1>7, <2>2 DEF TypeOK
    <2>4. IdsInOrder'
      BY <1>0, <1>1, <1>6, <1>7, <2>2 DEF IdsInOrder
    <2> QED BY <2>2, <2>3, <2>4 DEF BookInv
  <1>b. CASE order.qty_ - fill # 0
    <2>1. /\ order_pool_' = [order_pool_ EXCEPT ![id].qty_ = order.qty_ - fill]
          /\ UNCHANGED <<price_orders_at_price_, by_price, cid_oid_to_order_>>
      BY <1>b, <1>i, <1>o, <1>5 DEF Match, FillQty
    <2>2. /\ order_pool_'[id] \in MEOrder
          /\ order_pool_'[id].side_ = order.side_ /\ order_pool_'[id].price_ = order.price_
          /\ order_pool_'[id].priority_ = order.priority_
          /\ order_pool_' \in [MarketOrderIds -> MEOrder \cup {NULL}]
      <3>1. order.qty_ - fill \in Nat
        BY <1>4, <1>5
      <3>2. [order EXCEPT !.qty_ = order.qty_ - fill] \in MEOrder
        BY <1>4, <3>1 DEF MEOrder
      <3>3. order_pool_' = [order_pool_ EXCEPT ![id] = [order EXCEPT !.qty_ = order.qty_ - fill]]
        BY <1>o, <2>1
      <3> QED BY <1>0, <1>4, <3>2, <3>3 DEF TypeOK, MEOrder
    <2>3. Live' = Live /\ \A i \in Live : /\ order_pool_'[i].side_ = order_pool_[i].side_
                                         /\ order_pool_'[i].price_ = order_pool_[i].price_
                                         /\ order_pool_'[i].priority_ = order_pool_[i].priority_
      <3>1. order_pool_'[id] # NULL
        BY <2>2, NullAssumption
      <3>2. \A i \in MarketOrderIds \ {id} : order_pool_'[i] = order_pool_[i]
        BY <1>0, <2>1 DEF TypeOK
      <3> QED BY <1>3, <1>o, <2>2, <3>1, <3>2 DEF Live
    <2>4. Levels' = Levels /\ \A y : OrdersOf(y)' = OrdersOf(y) /\ LevelPrice(y)' = LevelPrice(y)
      BY <2>1 DEF Levels, OrdersOf, LevelPrice
    <2>5. LevelLists'
      BY <1>0, <2>1, <2>3, <2>4 DEF LevelLists, priceToIndex
    <2>6. PriceMapping'
      BY <1>0, <2>1, <2>3, <2>4 DEF PriceMapping, priceToIndex
    <2>7. NotCrossed'
      BY <1>0, <2>3 DEF NotCrossed
    <2>8. TimePriority'
      <3>1. \A y \in Levels : \A k \in 1 .. Len(price_orders_at_price_[y].orders) :
              price_orders_at_price_[y].orders[k] \in Live
        BY <1>0 DEF LevelLists, OrdersOf
      <3> QED BY <1>0, <2>1, <2>3, <2>4, <3>1 DEF TimePriority
    <2>9. TypeOK'
      BY <1>0, <1>6, <1>7, <2>1, <2>2 DEF TypeOK
    <2>10. IdsInOrder'
      BY <1>0, <1>1, <1>6, <1>7, <2>3 DEF IdsInOrder
    <2> QED BY <2>5, <2>6, <2>7, <2>8, <2>9, <2>10 DEF BookInv, Structure
  <1> QED BY <1>a, <1>b

(* An order that found no counterpart crosses nothing. *)
LEMMA NothingToCross ==
    ASSUME TypeOK, Structure, NoMatch, adding.leaves_qty > 0,
           NEW j \in Live, order_pool_[j].side_ # adding.side
    PROVE  Better(order_pool_[j].side_, adding.price, order_pool_[j].price_)
  <1>0. LevelLists /\ PriceMapping /\ TimePriority /\ adding \in Adding
    BY DEF Structure, TypeOK, NoMatch
  <1>1. adding.side \in Sides /\ adding.price \in Int
    BY <1>0, PricesAreNumbers DEF Adding
  <1>2. order_pool_[j].side_ \in Sides /\ order_pool_[j].price_ \in Int
    <2>1. order_pool_[j] \in MEOrder
      BY <1>0, OrderFacts
    <2> QED BY <2>1, PricesAreNumbers DEF MEOrder
  <1>s. PICK s \in Sides : s = order_pool_[j].side_ /\ s = Opposite(adding.side)
    BY <1>1, <1>2 DEF Sides, Opposite
  <1>y. PICK y : y = priceToIndex(order_pool_[j].price_)
    OBVIOUS
  <1>3. y \in Levels /\ y \in by_price[s] /\ LevelPrice(y) = order_pool_[j].price_
    BY <1>0, <1>s, <1>y, OrderFacts, ZenonT(30) DEF PriceMapping, LevelLists, LevelPrice
  <1>4. PICK x \in by_price[s] : IsBest(s, x)
    BY <1>0, <1>3, BestExists
  <1>5. x \in Levels
    BY <1>0 DEF LevelLists
  <1>6. order_pool_[FirstOrder(x)].price_ = LevelPrice(x)
    <2>1. 1 \in 1 .. Len(price_orders_at_price_[x].orders)
      BY <1>0, <1>5, LevelFacts
    <2>2. FirstOrder(x) \in OrdersOf(x)
      BY <2>1 DEF FirstOrder, OrdersOf
    <2> QED BY <1>0, <1>5, <2>2 DEF LevelLists
  <1>7. LevelPrice(x) \in Int
    BY <1>0, <1>5, LevelFacts, PricesAreNumbers
  <1>8. Better(s, adding.price, LevelPrice(x))
    BY <1>s, <1>4, <1>6 DEF NoMatch, Matchable
  <1>9. ~Better(s, order_pool_[j].price_, LevelPrice(x))
    BY <1>3, <1>4 DEF IsBest
  <1> QED BY <1>1, <1>2, <1>s, <1>7, <1>8, <1>9 DEF Better

LEMMA NextPriorityIsNatural ==
    ASSUME TypeOK, Structure, NEW p \in Prices
    PROVE  getNextPriority(p) \in Nat
  <1>x. PICK x : x = priceToIndex(p)
    OBVIOUS
  <1>0. x \in Indices /\ LevelLists /\ PriceMapping /\ TimePriority
    BY <1>x, IndexInTable DEF Structure
  <1>1. CASE price_orders_at_price_[x] = NULL
    BY <1>x, <1>1 DEF getNextPriority, getOrdersAtPrice
  <1>2. CASE price_orders_at_price_[x] # NULL
    <2>1. x \in Levels
      BY <1>0, <1>2 DEF Levels
    <2>s. PICK s : s = price_orders_at_price_[x].orders
      OBVIOUS
    <2>2. Len(s) \in 1 .. Len(s)
      BY <1>0, <2>1, <2>s, LevelFacts
    <2>3. s[Len(s)] \in OrdersOf(x)
      BY <2>s, <2>2 DEF OrdersOf
    <2>4. s[Len(s)] \in Live
      BY <1>0, <2>1, <2>3 DEF LevelLists
    <2>5. order_pool_[s[Len(s)]].priority_ \in Nat
      BY <1>0, <2>4, OrderFacts DEF MEOrder
    <2> QED BY <1>x, <1>2, <2>s, <2>5 DEF getNextPriority, getOrdersAtPrice
  <1> QED BY <1>1, <1>2

LEMMA RestKeepsBook ==
    ASSUME NoAliasing, BookInv, Rest
    PROVE  BookInv' /\ Live' = Live \cup {adding.market_order_id}
  <1>0. TypeOK /\ IdsInOrder /\ Structure /\ NoMatch /\ adding # NULL /\ adding \in Adding
    BY DEF BookInv, Rest, NoMatch, TypeOK
  <1>i. PICK id \in MarketOrderIds : id = adding.market_order_id
    BY <1>0 DEF Adding
  <1>p. PICK priority \in Nat : priority = getNextPriority(adding.price)
    BY <1>0, NextPriorityIsNatural DEF Adding
  <1>o. PICK order : order = [client_id_ |-> adding.client_id,
                              client_order_id_ |-> adding.client_order_id,
                              side_ |-> adding.side, price_ |-> adding.price,
                              qty_ |-> adding.leaves_qty, priority_ |-> priority]
    OBVIOUS
  <1>1. order \in MEOrder
    BY <1>0, <1>p, <1>o DEF MEOrder, Adding
  <1>2. order.priority_ = getNextPriority(order.price_)
    BY <1>o, <1>p
  <1>3. \A i \in Live : i < id
    BY <1>0, <1>i DEF IdsInOrder
  <1>4. \A j \in Live : order_pool_[j].side_ # order.side_ =>
                         Better(order_pool_[j].side_, order.price_, order_pool_[j].price_)
    BY <1>0, <1>o, NothingToCross DEF Rest
  <1>5. addOrder(id, order)
    BY <1>i, <1>o, <1>p DEF Rest
  <1>6. /\ Structure' /\ Live' = Live \cup {id}
        /\ order_pool_' \in [MarketOrderIds -> MEOrder \cup {NULL}]
        /\ price_orders_at_price_' \in [Indices -> MEOrdersAtPrice \cup {NULL}]
        /\ by_price' \in [Sides -> SUBSET Indices]
        /\ cid_oid_to_order_' \in [ClientIds -> [OrderIds -> MarketOrderIds \cup {NULL}]]
    BY <1>0, <1>1, <1>2, <1>3, <1>4, <1>5, AddOrderStep
  <1>7. adding' = NULL /\ UNCHANGED <<next_market_order_id_, last_oid>>
    BY DEF Rest
  <1>8. TypeOK'
    BY <1>0, <1>6, <1>7 DEF TypeOK
  <1>9. IdsInOrder'
    <2>1. id = next_market_order_id_ - 1 /\ next_market_order_id_ \in 1 .. MaxOrders + 1
      BY <1>0, <1>i DEF IdsInOrder, TypeOK
    <2>2. id < next_market_order_id_
      BY <2>1, BoundAssumption
    <2> QED BY <1>0, <1>6, <1>7, <2>2 DEF IdsInOrder
  <1> QED BY <1>i, <1>6, <1>8, <1>9 DEF BookInv

LEMMA DoneKeepsBook ==
    ASSUME BookInv, UNCHANGED <<bookVars, next_market_order_id_, last_oid>>,
           adding' = NULL \/ adding' = adding
    PROVE  BookInv'
  <1>0. TypeOK /\ IdsInOrder /\ Structure
    BY DEF BookInv
  <1>1. Structure' /\ Live' = Live
    BY <1>0, TablesUnchanged
  <1>2. TypeOK'
    BY <1>0 DEF TypeOK, bookVars
  <1>3. IdsInOrder'
    BY <1>0, <1>1 DEF IdsInOrder
  <1> QED BY <1>1, <1>2, <1>3 DEF BookInv

LEMMA RemoveKeepsBook ==
    ASSUME BookInv, NEW id \in Live, removeOrder(id),
           UNCHANGED <<next_market_order_id_, last_oid, adding>>
    PROVE  BookInv' /\ Live' = Live \ {id}
  <1>0. TypeOK /\ IdsInOrder /\ Structure
    BY DEF BookInv
  <1>1. /\ Structure' /\ Live' = Live \ {id}
        /\ order_pool_' \in [MarketOrderIds -> MEOrder \cup {NULL}]
        /\ price_orders_at_price_' \in [Indices -> MEOrdersAtPrice \cup {NULL}]
        /\ by_price' \in [Sides -> SUBSET Indices]
        /\ cid_oid_to_order_' \in [ClientIds -> [OrderIds -> MarketOrderIds \cup {NULL}]]
    BY <1>0, RemoveOrderStep
  <1>2. TypeOK'
    BY <1>0, <1>1 DEF TypeOK
  <1>3. IdsInOrder'
    BY <1>0, <1>1 DEF IdsInOrder
  <1> QED BY <1>1, <1>2, <1>3 DEF BookInv

-----------------------------------------------------------------------------
(* The map from client order ids to orders. *)

(* What it points to is a resting order, of that client and of that id. *)
MapLive ==
    \A c \in ClientIds, o \in OrderIds : cid_oid_to_order_[c][o] # NULL =>
      /\ cid_oid_to_order_[c][o] \in Live
      /\ order_pool_[cid_oid_to_order_[c][o]].client_id_ = c
      /\ order_pool_[cid_oid_to_order_[c][o]].client_order_id_ = o

(* With clients that number their orders, every resting order is pointed to,*)
(* and its id is below the one the client uses next.                        *)
MapComplete ==
    FreshIds =>
      /\ \A i \in Live :
           /\ cid_oid_to_order_[order_pool_[i].client_id_][order_pool_[i].client_order_id_] = i
           /\ order_pool_[i].client_order_id_ <= last_oid[order_pool_[i].client_id_]
           /\ adding # NULL /\ adding.client_id = order_pool_[i].client_id_ =>
                order_pool_[i].client_order_id_ < adding.client_order_id
      /\ adding # NULL => adding.client_order_id = last_oid[adding.client_id]

IInv == BookInv /\ MapLive /\ MapComplete

(* The fields of an order that the map is about. *)
LEMMA OwnerFacts ==
    ASSUME BookInv, NEW i \in Live
    PROVE  /\ i \in MarketOrderIds /\ i # NULL
           /\ order_pool_[i].client_id_ \in ClientIds
           /\ order_pool_[i].client_order_id_ \in OrderIds
           /\ order_pool_[i].client_order_id_ \in Nat
  <1>1. order_pool_[i] \in MEOrder /\ i \in MarketOrderIds
    BY OrderFacts DEF BookInv, Structure
  <1> QED BY <1>1, NullAssumption, BoundAssumption DEF MEOrder, OrderIds

(* A step that changes neither the map nor who owns what. *)
LEMMA MapUnchanged ==
    ASSUME IInv, UNCHANGED <<cid_oid_to_order_, last_oid>>, Live' = Live,
           \A i \in Live : /\ order_pool_'[i].client_id_ = order_pool_[i].client_id_
                           /\ order_pool_'[i].client_order_id_ = order_pool_[i].client_order_id_,
           adding' = NULL \/ /\ adding # NULL /\ adding'.client_id = adding.client_id
                             /\ adding'.client_order_id = adding.client_order_id
                          \/ adding' = adding
    PROVE  MapLive' /\ MapComplete'
  <1>1. MapLive'
    BY DEF IInv, MapLive
  <1>2. MapComplete'
    BY DEF IInv, MapComplete
  <1> QED BY <1>1, <1>2

LEMMA MapAfterRemove ==
    ASSUME IInv, NEW id \in Live, removeOrder(id), Live' = Live \ {id},
           UNCHANGED last_oid,
           adding' = adding \/ /\ adding # NULL /\ adding' # NULL
                               /\ adding'.client_id = adding.client_id
                               /\ adding'.client_order_id = adding.client_order_id
    PROVE  MapLive' /\ MapComplete'
  <1>0. BookInv /\ MapLive /\ MapComplete /\ TypeOK
    BY DEF IInv, BookInv
  <1>c. PICK c \in ClientIds : c = order_pool_[id].client_id_
    BY <1>0, OwnerFacts
  <1>o. PICK o \in OrderIds : o = order_pool_[id].client_order_id_
    BY <1>0, OwnerFacts
  <1>1. cid_oid_to_order_' = [cid_oid_to_order_ EXCEPT ![c][o] = NULL]
    BY <1>c, <1>o DEF removeOrder, unlinkOrder
  <1>2. \A d \in ClientIds, n \in OrderIds :
          cid_oid_to_order_'[d][n] = IF d = c /\ n = o THEN NULL ELSE cid_oid_to_order_[d][n]
    BY <1>0, <1>1 DEF TypeOK
  <1>3. \A i \in Live \ {id} : order_pool_'[i] = order_pool_[i]
    BY <1>0 DEF removeOrder, unlinkOrder, TypeOK, Live
  <1>4. MapLive'
    <2> SUFFICES ASSUME NEW d \in ClientIds, NEW n \in OrderIds,
                        cid_oid_to_order_'[d][n] # NULL
                 PROVE  /\ cid_oid_to_order_'[d][n] \in Live'
                        /\ order_pool_'[cid_oid_to_order_'[d][n]].client_id_ = d
                        /\ order_pool_'[cid_oid_to_order_'[d][n]].client_order_id_ = n
      BY DEF MapLive
    <2>1. ~(d = c /\ n = o) /\ cid_oid_to_order_'[d][n] = cid_oid_to_order_[d][n]
      BY <1>2
    <2>2. /\ cid_oid_to_order_[d][n] \in Live
          /\ order_pool_[cid_oid_to_order_[d][n]].client_id_ = d
          /\ order_pool_[cid_oid_to_order_[d][n]].client_order_id_ = n
      BY <1>0, <2>1 DEF MapLive
    <2>3. cid_oid_to_order_[d][n] # id
      BY <1>c, <1>o, <2>1, <2>2
    <2> QED BY <1>3, <2>1, <2>2, <2>3
  <1>5. MapComplete'
    <2> SUFFICES ASSUME FreshIds PROVE MapComplete'
      BY DEF MapComplete
    <2>1. ASSUME NEW i \in Live \ {id}
          PROVE  cid_oid_to_order_'[order_pool_[i].client_id_][order_pool_[i].client_order_id_] = i
      <3>1. cid_oid_to_order_[order_pool_[i].client_id_][order_pool_[i].client_order_id_] = i
            /\ cid_oid_to_order_[c][o] = id
        BY <1>0, <1>c, <1>o DEF MapComplete
      <3>2. order_pool_[i].client_id_ \in ClientIds /\ order_pool_[i].client_order_id_ \in OrderIds
        BY <1>0, OwnerFacts
      <3>3. ~(order_pool_[i].client_id_ = c /\ order_pool_[i].client_order_id_ = o)
        BY <3>1
      <3> QED BY <1>2, <3>1, <3>2, <3>3
    <2> QED BY <1>0, <1>3, <2>1 DEF MapComplete
  <1> QED BY <1>4, <1>5

LEMMA MapAfterRest ==
    ASSUME IInv, Rest, Live' = Live \cup {adding.market_order_id}
    PROVE  MapLive' /\ MapComplete'
  <1>0. BookInv /\ MapLive /\ MapComplete /\ TypeOK /\ adding # NULL /\ adding \in Adding
    BY DEF IInv, BookInv, Rest, NoMatch, TypeOK
  <1>i. PICK id \in MarketOrderIds : id = adding.market_order_id
    BY <1>0 DEF Adding
  <1>c. PICK c \in ClientIds : c = adding.client_id
    BY <1>0 DEF Adding
  <1>o. PICK o \in OrderIds : o = adding.client_order_id
    BY <1>0 DEF Adding
  <1>1. cid_oid_to_order_' = [cid_oid_to_order_ EXCEPT ![c][o] = id]
        /\ UNCHANGED last_oid /\ adding' = NULL
    BY <1>i, <1>c, <1>o DEF Rest, addOrder
  <1>2. \A d \in ClientIds, n \in OrderIds :
          cid_oid_to_order_'[d][n] = IF d = c /\ n = o THEN id ELSE cid_oid_to_order_[d][n]
    BY <1>0, <1>1 DEF TypeOK
  <1>3. id \notin Live
    <2>1. \A i \in Live : i < id
      BY <1>0, <1>i DEF BookInv, IdsInOrder
    <2> QED BY <2>1, BoundAssumption DEF MarketOrderIds
  <1>4. /\ order_pool_'[id].client_id_ = c /\ order_pool_'[id].client_order_id_ = o
        /\ \A i \in Live : order_pool_'[i] = order_pool_[i]
    BY <1>0, <1>i, <1>c, <1>o, <1>3 DEF Rest, addOrder, TypeOK, Live
  <1>5. MapLive'
    <2> SUFFICES ASSUME NEW d \in ClientIds, NEW n \in OrderIds,
                        cid_oid_to_order_'[d][n] # NULL
                 PROVE  /\ cid_oid_to_order_'[d][n] \in Live'
                        /\ order_pool_'[cid_oid_to_order_'[d][n]].client_id_ = d
                        /\ order_pool_'[cid_oid_to_order_'[d][n]].client_order_id_ = n
      BY DEF MapLive
    <2>1. CASE d = c /\ n = o
      BY <1>i, <1>2, <1>4, <2>1
    <2>2. CASE ~(d = c /\ n = o)
      BY <1>0, <1>2, <1>4, <2>2 DEF MapLive
    <2> QED BY <2>1, <2>2
  <1>6. MapComplete'
    <2> SUFFICES ASSUME FreshIds PROVE MapComplete'
      BY DEF MapComplete
    <2>1. o = last_oid[c]
      BY <1>0, <1>c, <1>o DEF MapComplete
    <2>2. ASSUME NEW i \in Live
          PROVE  cid_oid_to_order_'[order_pool_[i].client_id_][order_pool_[i].client_order_id_] = i
      <3>1. order_pool_[i].client_id_ \in ClientIds /\ order_pool_[i].client_order_id_ \in OrderIds
            /\ order_pool_[i].client_order_id_ \in Nat
        BY <1>0, OwnerFacts
      <3>2. order_pool_[i].client_id_ = c => order_pool_[i].client_order_id_ < o
        BY <1>0, <1>c, <1>o DEF MapComplete
      <3>3. ~(order_pool_[i].client_id_ = c /\ order_pool_[i].client_order_id_ = o)
        BY <3>1, <3>2
      <3> QED BY <1>0, <1>2, <3>1, <3>3 DEF MapComplete
    <2>3. o <= last_oid[c]
      BY <2>1, BoundAssumption DEF OrderIds
    <2> QED BY <1>0, <1>1, <1>2, <1>4, <1>i, <2>2, <2>3 DEF MapComplete
  <1> QED BY <1>5, <1>6

LEMMA MapAfterAccept ==
    ASSUME IInv, NEW c \in ClientIds, NEW o \in OrderIds, NEW s \in Sides,
           NEW p \in Prices, NEW q \in Qtys, Accept(c, o, s, p, q)
    PROVE  MapLive' /\ MapComplete'
  <1>0. BookInv /\ MapLive /\ MapComplete /\ TypeOK
    BY DEF IInv, BookInv
  <1>1. Live' = Live /\ order_pool_' = order_pool_ /\ cid_oid_to_order_' = cid_oid_to_order_
    BY DEF Accept, bookVars, Live
  <1>2. adding'.client_id = c /\ adding'.client_order_id = o
        /\ last_oid' = [last_oid EXCEPT ![c] = o] /\ (FreshIds => o = last_oid[c] + 1)
    BY DEF Accept
  <1>3. last_oid'[c] = o /\ \A d \in ClientIds \ {c} : last_oid'[d] = last_oid[d]
    BY <1>0, <1>2 DEF TypeOK
  <1>4. MapLive'
    BY <1>0, <1>1 DEF MapLive
  <1>5. MapComplete'
    <2> SUFFICES ASSUME FreshIds PROVE MapComplete'
      BY DEF MapComplete
    <2>1. o = last_oid[c] + 1 /\ last_oid[c] \in Nat
      BY <1>0, <1>2 DEF TypeOK
    <2>2. ASSUME NEW i \in Live
          PROVE  /\ order_pool_[i].client_order_id_ <= last_oid'[order_pool_[i].client_id_]
                 /\ c = order_pool_[i].client_id_ => order_pool_[i].client_order_id_ < o
      <3>1. order_pool_[i].client_id_ \in ClientIds /\ order_pool_[i].client_order_id_ \in Nat
            /\ order_pool_[i].client_order_id_ <= last_oid[order_pool_[i].client_id_]
        BY <1>0, OwnerFacts DEF MapComplete
      <3> QED BY <1>3, <2>1, <3>1
    <2> QED BY <1>0, <1>1, <1>2, <1>3, <2>2 DEF MapComplete
  <1> QED BY <1>4, <1>5

LEMMA MapAfterMatch ==
    ASSUME IInv, NEW x \in Indices, Match(x)
    PROVE  MapLive' /\ MapComplete'
  <1>i. PICK id : id = FirstOrder(x)
    OBVIOUS
  <1>o. PICK order : order = order_pool_[id]
    OBVIOUS
  <1>0. BookInv /\ TypeOK /\ LevelLists /\ PriceMapping /\ TimePriority
    BY DEF IInv, BookInv, Structure
  <1>1. id \in Live
    <2>1. x \in by_price[Opposite(adding.side)] /\ adding \in Adding
      BY <1>0 DEF Match, Matchable, IsBest, TypeOK
    <2>2. x \in Levels
      BY <1>0, <2>1 DEF LevelLists, Opposite, Sides, Adding
    <2>3. 1 \in 1 .. Len(price_orders_at_price_[x].orders)
      BY <1>0, <2>2, LevelFacts
    <2>4. id \in OrdersOf(x)
      BY <1>i, <2>3 DEF FirstOrder, OrdersOf
    <2> QED BY <1>0, <2>2, <2>4 DEF LevelLists
  <1>l. PICK leaves : adding' = [adding EXCEPT !.leaves_qty = leaves]
    BY DEF Match, FillQty
  <1>2. /\ adding # NULL /\ adding \in Adding /\ UNCHANGED last_oid
        /\ adding'.client_id = adding.client_id
        /\ adding'.client_order_id = adding.client_order_id
    BY <1>0, <1>l DEF Match, TypeOK, Adding
  <1>3. adding' # NULL
    <2>1. IInv /\ BookInv'
      BY <1>0, MatchKeepsBook
    <2>2. \E n \in Nat : n = leaves
      <3>1. order \in MEOrder /\ order.qty_ \in Nat /\ adding.leaves_qty \in Nat
        BY <1>0, <1>1, <1>2, <1>o, OrderFacts DEF MEOrder, Adding
      <3>f. PICK fill \in Nat : fill <= adding.leaves_qty
                /\ fill = IF adding.leaves_qty < order.qty_ THEN adding.leaves_qty ELSE order.qty_
        BY <3>1
      <3>2. adding' = [adding EXCEPT !.leaves_qty = adding.leaves_qty - fill]
        BY <1>i, <1>o, <3>f DEF Match, FillQty
      <3>3. leaves = adding.leaves_qty - fill
        BY <1>l, <1>2, <3>2 DEF Adding
      <3> QED BY <3>1, <3>f, <3>3
    <2>3. adding' \in Adding
      BY <1>l, <1>2, <2>2 DEF Adding
    <2> QED BY <2>3, NullAssumption
  <1>a. CASE removeOrder(id)
    <2>1. Live' = Live \ {id}
      BY <1>0, <1>1, <1>a, RemoveOrderStep DEF BookInv
    <2> QED BY <1>1, <1>2, <1>3, <1>a, <2>1, MapAfterRemove
  <1>b. CASE ~removeOrder(id)
    <2>1. PICK left : order_pool_' = [order_pool_ EXCEPT ![id].qty_ = left]
      BY <1>b, <1>i, <1>o DEF Match, FillQty
    <2>2. UNCHANGED cid_oid_to_order_
      BY <1>b, <1>i, <1>o DEF Match, FillQty
    <2>3. id \in MarketOrderIds /\ order \in MEOrder
      BY <1>0, <1>1, <1>o, OrderFacts
    <2>4. order_pool_' = [order_pool_ EXCEPT ![id] = [order EXCEPT !.qty_ = left]]
      BY <1>o, <2>1
    <2>5. \A i \in Live : /\ order_pool_'[i].client_id_ = order_pool_[i].client_id_
                          /\ order_pool_'[i].client_order_id_ = order_pool_[i].client_order_id_
      BY <1>0, <1>o, <2>3, <2>4 DEF TypeOK, MEOrder, Live
    <2>6. Live' = Live
      <3>1. BookInv'
        BY <1>0, MatchKeepsBook
      <3>2. order_pool_'[id] # NULL
        <4>1. order_pool_'[id] \in MEOrder \cup {NULL}
              /\ order_pool_'[id] = [order EXCEPT !.qty_ = left]
          BY <1>0, <2>3, <2>4, <3>1 DEF BookInv, TypeOK
        <4>2. left \in Nat
          <5>1. order.qty_ \in Nat /\ adding.leaves_qty \in Nat
            BY <1>2, <2>3 DEF MEOrder, Adding
          <5>f. PICK fill \in Nat : fill <= order.qty_
                    /\ fill = IF adding.leaves_qty < order.qty_ THEN adding.leaves_qty ELSE order.qty_
            BY <5>1
          <5>2. order_pool_' = [order_pool_ EXCEPT ![id].qty_ = order.qty_ - fill]
            BY <1>b, <1>i, <1>o, <5>f DEF Match, FillQty
          <5>3. order_pool_'[id].qty_ = order.qty_ - fill /\ order_pool_'[id].qty_ = left
            BY <1>0, <1>o, <2>3, <2>4, <5>2 DEF TypeOK, MEOrder
          <5> QED BY <5>1, <5>f, <5>3
        <4>3. [order EXCEPT !.qty_ = left] \in MEOrder
          BY <2>3, <4>2 DEF MEOrder
        <4> QED BY <4>1, <4>3, NullAssumption
      <3> QED BY <1>0, <1>1, <2>4, <3>2 DEF TypeOK, Live
    <2> QED BY <1>2, <2>2, <2>5, <2>6, MapUnchanged
  <1> QED BY <1>a, <1>b

-----------------------------------------------------------------------------
(* Every step keeps the invariant. *)
LEMMA NextKeepsIInv ==
    ASSUME NoAliasing, IInv, [Next]_vars
    PROVE  IInv'
  <1>0. BookInv /\ MapLive
    BY DEF IInv
  <1>1. ASSUME NEW c \in ClientIds, NEW o \in OrderIds, NEW s \in Sides,
               NEW p \in Prices, NEW q \in Qtys, Accept(c, o, s, p, q)
        PROVE  IInv'
    BY <1>0, <1>1, AcceptStep, MapAfterAccept DEF IInv
  <1>2. ASSUME NEW x \in Indices, Match(x) PROVE IInv'
    BY <1>0, <1>2, MatchKeepsBook, MapAfterMatch DEF IInv
  <1>3. CASE Rest
    BY <1>0, <1>3, RestKeepsBook, MapAfterRest DEF IInv
  <1>4. CASE Done
    <2>1. BookInv'
      BY <1>0, <1>4, DoneKeepsBook DEF Done
    <2>2. Live' = Live /\ order_pool_' = order_pool_
      BY <1>4 DEF Done, bookVars, Live
    <2>3. MapLive' /\ MapComplete'
      BY <1>4, <2>2, MapUnchanged DEF Done, bookVars
    <2> QED BY <2>1, <2>3 DEF IInv
  <1>5. ASSUME NEW c \in ClientIds \cup {OtherClient}, NEW o \in OrderIds, Cancel(c, o)
        PROVE  IInv'
    <2>1. PICK id : id = Target(c, o)
      OBVIOUS
    <2>2. id # NULL /\ removeOrder(id) /\ UNCHANGED <<next_market_order_id_, last_oid, adding>>
      BY <1>5, <2>1 DEF Cancel
    <2>3. id \in Live
      BY <1>0, <2>1, <2>2 DEF Target, MapLive
    <2>4. BookInv' /\ Live' = Live \ {id}
      BY <1>0, <2>2, <2>3, RemoveKeepsBook
    <2>5. MapLive' /\ MapComplete'
      BY <2>2, <2>3, <2>4, MapAfterRemove
    <2> QED BY <2>4, <2>5 DEF IInv
  <1>6. ASSUME NEW c \in ClientIds \cup {OtherClient}, NEW o \in OrderIds, CancelReject(c, o)
        PROVE  IInv'
    <2>1. BookInv'
      BY <1>0, <1>6, DoneKeepsBook DEF CancelReject
    <2>2. Live' = Live /\ order_pool_' = order_pool_
      BY <1>6 DEF CancelReject, bookVars, Live
    <2>3. MapLive' /\ MapComplete'
      BY <1>6, <2>2, MapUnchanged DEF CancelReject, bookVars
    <2> QED BY <2>1, <2>3 DEF IInv
  <1>7. CASE UNCHANGED vars
    <2>1. BookInv'
      BY <1>0, <1>7, DoneKeepsBook DEF vars
    <2>2. Live' = Live /\ order_pool_' = order_pool_
      BY <1>7 DEF vars, bookVars, Live
    <2>3. MapLive' /\ MapComplete'
      BY <1>7, <2>2, MapUnchanged DEF vars, bookVars
    <2> QED BY <2>1, <2>3 DEF IInv
  <1> QED BY <1>1, <1>2, <1>3, <1>4, <1>5, <1>6, <1>7 DEF Next, Finish, MatchStep

LEMMA InitIInv == Init => IInv
  <1> SUFFICES ASSUME Init PROVE IInv
    OBVIOUS
  <1>1. BookInv
    BY InitBookInv
  <1>2. Live = {}
    BY DEF Init, Live
  <1>3. MapLive /\ MapComplete
    BY <1>2 DEF Init, MapLive, MapComplete
  <1> QED BY <1>1, <1>3 DEF IInv

(* IInv is an inductive invariant of the order book. *)
THEOREM BookInvariant == NoAliasing => (Spec => []IInv)
  <1> SUFFICES ASSUME NoAliasing PROVE Spec => []IInv
    OBVIOUS
  <1>1. IInv /\ [Next]_vars => IInv'
    BY NextKeepsIInv
  <1> QED BY <1>1, InitIInv, PTL DEF Spec

(* No step makes a value of a wrong type. *)
THEOREM TypeCorrect == NoAliasing => (Spec => []TypeOK)
  <1>1. IInv => TypeOK
    BY DEF IInv, BookInv
  <1> QED BY <1>1, BookInvariant, PTL

(* Where no two prices share an index, the price map is right: an order is  *)
(* found at the level of its price, on its side (me_order.h:82).            *)
THEOREM PriceMapIsRight == NoAliasing => (Spec => []PriceMapping)
  <1>1. IInv => PriceMapping
    BY DEF IInv, BookInv, Structure
  <1> QED BY <1>1, BookInvariant, PTL

(* addOrder and removeOrder keep the lists of levels and of orders together.*)
THEOREM LevelsAreConsistent == NoAliasing => (Spec => []LevelLists)
  <1>1. IInv => LevelLists
    BY DEF IInv, BookInv, Structure
  <1> QED BY <1>1, BookInvariant, PTL

(* Within a level orders stand in the order of their arrival, and their     *)
(* published priority agrees.                                               *)
THEOREM LevelsAreInTimePriority == NoAliasing => (Spec => []TimePriority)
  <1>1. IInv => TimePriority
    BY DEF IInv, BookInv, Structure
  <1> QED BY <1>1, BookInvariant, PTL

(* The matching loop never leaves a bid at or above an offer, not even      *)
(* between two fills.                                                       *)
THEOREM NeverCrossed == NoAliasing => (Spec => []NotCrossed)
  <1>1. IInv => NotCrossed
    BY DEF IInv, BookInv, Structure
  <1> QED BY <1>1, BookInvariant, PTL

(* A cancel finds exactly the resting orders of the client that sends it.   *)
THEOREM CancelFindsItsOrder == NoAliasing => (Spec => []OwnerMap)
  <1>1. IInv => OwnerMap
    <2> SUFFICES ASSUME IInv, FreshIds, NEW c \in ClientIds, NEW o \in OrderIds,
                        NEW i \in MarketOrderIds
                 PROVE  cid_oid_to_order_[c][o] = i <=>
                          /\ i \in Live
                          /\ order_pool_[i].client_id_ = c /\ order_pool_[i].client_order_id_ = o
      BY DEF OwnerMap
    <2>1. i # NULL
      BY NullAssumption
    <2> QED BY <2>1 DEF IInv, MapLive, MapComplete
  <1> QED BY <1>1, BookInvariant, PTL

-----------------------------------------------------------------------------
(* While an order is being added, the only resting order a step changes is  *)
(* the oldest one at the best price of its side.                            *)
LEMMA MatchTakesTheBest ==
    ASSUME IInv, NEW x \in Indices, Match(x), NEW i \in Live, order_pool_'[i] # order_pool_[i],
           NEW j \in Live \ {i}, order_pool_[j].side_ = order_pool_[i].side_
    PROVE  /\ ~Better(order_pool_[i].side_, order_pool_[j].price_, order_pool_[i].price_)
           /\ order_pool_[j].price_ = order_pool_[i].price_ => i < j
  <1>0. BookInv /\ TypeOK /\ LevelLists /\ PriceMapping /\ TimePriority
    BY DEF IInv, BookInv, Structure
  <1>s. PICK s \in Sides : s = Opposite(adding.side)
    BY <1>0 DEF Match, TypeOK, Adding, Opposite, Sides
  <1>1. x \in by_price[s] /\ IsBest(s, x)
    BY <1>s DEF Match, Matchable, IsBest
  <1>2. x \in Levels /\ price_orders_at_price_[x].side_ = s
    BY <1>0, <1>1 DEF LevelLists
  <1>l. PICK orders \in Seq(MarketOrderIds) : orders = price_orders_at_price_[x].orders
    BY <1>0, <1>2, LevelFacts
  <1>3. 1 \in 1 .. Len(orders) /\ orders[1] = FirstOrder(x)
    BY <1>0, <1>2, <1>l, LevelFacts DEF FirstOrder
  <1>4. i = FirstOrder(x)
    <2>1. \A k \in MarketOrderIds \ {FirstOrder(x)} : order_pool_'[k] = order_pool_[k]
      BY <1>0 DEF Match, removeOrder, unlinkOrder, TypeOK
    <2> QED BY <2>1 DEF Live
  <1>5. order_pool_[i].side_ = s /\ order_pool_[i].price_ = LevelPrice(x)
    <2>1. i \in OrdersOf(x)
      BY <1>l, <1>3, <1>4 DEF OrdersOf
    <2> QED BY <1>0, <1>2, <2>1 DEF LevelLists
  <1>y. PICK y : y = priceToIndex(order_pool_[j].price_)
    OBVIOUS
  <1>6. y \in Levels /\ j \in OrdersOf(y) /\ LevelPrice(y) = order_pool_[j].price_
        /\ y \in by_price[s]
    BY <1>0, <1>5, <1>y, OrderFacts DEF PriceMapping, LevelLists, LevelPrice
  <1>7. ~Better(order_pool_[i].side_, order_pool_[j].price_, order_pool_[i].price_)
    BY <1>1, <1>5, <1>6 DEF IsBest
  <1>8. ASSUME order_pool_[j].price_ = order_pool_[i].price_ PROVE i < j
    <2>1. y = x
      BY <1>0, <1>2, <1>5, <1>8, <1>y DEF LevelLists
    <2>2. PICK m \in 1 .. Len(orders) : orders[m] = j
      BY <1>6, <1>l, <2>1 DEF OrdersOf
    <2>3. m # 1
      BY <1>3, <1>4, <2>2
    <2>4. 1 < m
      BY <2>3
    <2> QED BY <1>0, <1>2, <1>3, <1>4, <1>l, <2>2, <2>4 DEF TimePriority
  <1> QED BY <1>7, <1>8

(* Fills follow price, then time. *)
THEOREM FillsInPriceTimePriority == NoAliasing => (Spec => PriceTimePriority)
  <1> SUFFICES ASSUME NoAliasing PROVE Spec => PriceTimePriority
    OBVIOUS
  <1> DEFINE Prio == \A i \in Live : adding # NULL /\ order_pool_'[i] # order_pool_[i] =>
         \A j \in Live \ {i} : order_pool_[j].side_ = order_pool_[i].side_ =>
           /\ ~Better(order_pool_[i].side_, order_pool_[j].price_, order_pool_[i].price_)
           /\ order_pool_[j].price_ = order_pool_[i].price_ => i < j
  <1>1. IInv /\ [Next]_vars => [Prio]_vars
    <2> SUFFICES ASSUME IInv, Next PROVE Prio
      BY DEF Prio
    <2> SUFFICES ASSUME adding # NULL, NEW i \in Live, order_pool_'[i] # order_pool_[i],
                        NEW j \in Live \ {i}, order_pool_[j].side_ = order_pool_[i].side_
                 PROVE  /\ ~Better(order_pool_[i].side_, order_pool_[j].price_, order_pool_[i].price_)
                        /\ order_pool_[j].price_ = order_pool_[i].price_ => i < j
      BY DEF Prio
    <2>1. ~Done
      BY DEF Done, bookVars
    <2>2. ~Rest
      <3> SUFFICES ASSUME Rest PROVE FALSE
        OBVIOUS
      <3>1. i < adding.market_order_id /\ adding.market_order_id \in MarketOrderIds
        BY DEF IInv, BookInv, IdsInOrder, TypeOK, Adding
      <3>2. i # adding.market_order_id
        BY <3>1, BoundAssumption DEF MarketOrderIds
      <3> QED BY <3>2 DEF Rest, addOrder, IInv, BookInv, TypeOK, Live
    <2>3. PICK x \in Indices : Match(x)
      BY <2>1, <2>2 DEF Next, Finish, MatchStep, Accept, Cancel, CancelReject
    <2> QED BY <2>3, MatchTakesTheBest
  <1>2. Spec => [][Prio]_vars
    BY <1>1, BookInvariant, PTL DEF Spec
  <1> QED BY <1>2 DEF PriceTimePriority

-----------------------------------------------------------------------------
(* The messages. *)

SnapshotType == [orders : [MarketOrderIds -> BookEntry \cup {NULL}], ok : BOOLEAN]

Entry(order) == [side |-> order.side_, price |-> order.price_, qty |-> order.qty_,
                 priority |-> order.priority_]

(* The snapshot of a book whose order pool is pool. *)
Mirrors(snap, pool) ==
    /\ snap \in SnapshotType /\ snap.ok
    /\ \A i \in MarketOrderIds :
         snap.orders[i] = IF pool[i] # NULL THEN Entry(pool[i]) ELSE NULL

(* The add under way if it is that of order i, NULL if it is not. *)
Underway(i) == IF adding # NULL /\ adding.market_order_id = i THEN adding ELSE NULL

(* What the ledger says of an order that rests as order, or is under way as *)
(* add, or is neither: its parts add up, and an open one was never canceled.*)
EntryRight(entry, order, add) ==
    /\ order # NULL => /\ entry # NULL /\ entry.side = order.side_
                       /\ entry.open = order.qty_ /\ entry.canceled = 0
    /\ add # NULL => /\ entry # NULL /\ entry.side = add.side /\ order = NULL
                     /\ entry.open = add.leaves_qty /\ entry.canceled = 0
    /\ entry # NULL => /\ entry.ordered = entry.exec + entry.open + entry.canceled
                       /\ order = NULL /\ add = NULL => entry.open = 0

(* The ledger is right about every order, and an order number not yet given *)
(* out is not in it.                                                        *)
LedgerRight ==
    /\ ledger \in [MarketOrderIds -> LedgerEntry \cup {NULL}]
    /\ \A i \in MarketOrderIds : i >= next_market_order_id_ => ledger[i] = NULL
    /\ \A i \in MarketOrderIds : EntryRight(ledger[i], order_pool_[i], Underway(i))

EngineInv == /\ IInv
             /\ Mirrors(snapshot, order_pool_)
             /\ LedgerRight
             /\ volume \in Nat /\ TradesAddUp

-----------------------------------------------------------------------------
(* The messages of one step. *)
LEMMA MessagesOfAStep ==
    ASSUME NEW a, NEW b
    PROVE  Len(<< >>) = 0 /\ Len(<<a>>) = 1 /\ <<a>>[1] = a
           /\ Len(<<a, b>>) = 2 /\ <<a, b>>[1] = a /\ <<a, b>>[2] = b
  OBVIOUS

LEMMA NoUpdates ==
    ASSUME updates' = << >>, Send
    PROVE  snapshot' = snapshot /\ volume' = volume
  BY MessagesOfAStep DEF Send, Through

LEMMA NoResponses ==
    ASSUME responses' = << >>, Send
    PROVE  ledger' = ledger
  BY MessagesOfAStep DEF Send, Through

LEMMA OneUpdate ==
    ASSUME NEW u, updates' = <<u>>, Send
    PROVE  snapshot' = addToSnapshot(snapshot, u) /\ volume' = Printed(volume, u)
  BY MessagesOfAStep DEF Send, Through

LEMMA OneResponse ==
    ASSUME NEW r, responses' = <<r>>, Send
    PROVE  ledger' = Tell(ledger, r)
  BY MessagesOfAStep DEF Send, Through

LEMMA TwoUpdates ==
    ASSUME NEW u, NEW w, updates' = <<u, w>>, Send
    PROVE  /\ snapshot' = addToSnapshot(addToSnapshot(snapshot, u), w)
           /\ volume' = Printed(Printed(volume, u), w)
  BY MessagesOfAStep DEF Send, Through

LEMMA TwoResponses ==
    ASSUME NEW r, NEW q, responses' = <<r, q>>, Send
    PROVE  ledger' = Tell(Tell(ledger, r), q)
  BY MessagesOfAStep DEF Send, Through

-----------------------------------------------------------------------------
(* addToSnapshot (snapshot_synthesizer.cpp:28), one lemma for each type of  *)
(* update.                                                                 *)
LEMMA EntryTyped ==
    ASSUME NEW order \in MEOrder
    PROVE  Entry(order) \in BookEntry /\ Entry(order) # NULL
  BY EntryAssumption DEF Entry, MEOrder, BookEntry

LEMMA SnapshotTrade ==
    ASSUME NEW snap, NEW pool, Mirrors(snap, pool), NEW u, u.type = "TRADE"
    PROVE  addToSnapshot(snap, u) = snap
  BY DEF Mirrors, SnapshotType, addToSnapshot, Synth!Acceptable, Synth!Apply

LEMMA SnapshotAdd ==
    ASSUME NEW snap, NEW pool \in [MarketOrderIds -> MEOrder \cup {NULL}], Mirrors(snap, pool),
           NEW id \in MarketOrderIds, pool[id] = NULL, NEW order \in MEOrder, NEW u,
           u = Update("ADD", id, order.side_, order.price_, order.qty_, order.priority_)
    PROVE  Mirrors(addToSnapshot(snap, u), [pool EXCEPT ![id] = order])
  <1>1. snap \in SnapshotType /\ snap.ok /\ snap.orders[id] = NULL
    BY DEF Mirrors
  <1>2. u.type = "ADD" /\ u.order_id = id /\ u.side = order.side_ /\ u.price = order.price_
        /\ u.qty = order.qty_ /\ u.priority = order.priority_
    BY DEF Update
  <1>3. Synth!Acceptable(snap.orders, u, NULL)
    BY <1>1, <1>2 DEF Synth!Acceptable
  <1>4. Synth!Apply(snap.orders, u, NULL) = [snap.orders EXCEPT ![id] = Entry(order)]
    BY <1>2 DEF Synth!Apply, Entry
  <1>5. addToSnapshot(snap, u) = [snap EXCEPT !.orders = [snap.orders EXCEPT ![id] = Entry(order)]]
    BY <1>1, <1>3, <1>4 DEF addToSnapshot
  <1>6. Entry(order) \in BookEntry /\ order # NULL
    BY EntryTyped, NullAssumption
  <1>7. addToSnapshot(snap, u) \in SnapshotType /\ addToSnapshot(snap, u).ok
        /\ addToSnapshot(snap, u).orders = [snap.orders EXCEPT ![id] = Entry(order)]
    BY <1>1, <1>5, <1>6 DEF SnapshotType
  <1>8. snap.orders \in [MarketOrderIds -> BookEntry \cup {NULL}]
    BY <1>1 DEF SnapshotType
  <1> QED BY <1>6, <1>7, <1>8 DEF Mirrors

LEMMA SnapshotCancel ==
    ASSUME NEW snap, NEW pool \in [MarketOrderIds -> MEOrder \cup {NULL}], Mirrors(snap, pool),
           NEW id \in MarketOrderIds, pool[id] # NULL, NEW u,
           u.type = "CANCEL", u.order_id = id, u.side = pool[id].side_
    PROVE  Mirrors(addToSnapshot(snap, u), [pool EXCEPT ![id] = NULL])
  <1>1. snap \in SnapshotType /\ snap.ok /\ snap.orders[id] = Entry(pool[id])
    BY DEF Mirrors
  <1>2. Entry(pool[id]) # NULL /\ Entry(pool[id]).side = pool[id].side_
    BY EntryTyped DEF Entry
  <1>3. Synth!Acceptable(snap.orders, u, NULL)
    BY <1>1, <1>2 DEF Synth!Acceptable
  <1>4. Synth!Apply(snap.orders, u, NULL) = [snap.orders EXCEPT ![id] = NULL]
    BY DEF Synth!Apply
  <1>5. addToSnapshot(snap, u) = [snap EXCEPT !.orders = [snap.orders EXCEPT ![id] = NULL]]
    BY <1>1, <1>3, <1>4 DEF addToSnapshot
  <1>7. addToSnapshot(snap, u) \in SnapshotType /\ addToSnapshot(snap, u).ok
        /\ addToSnapshot(snap, u).orders = [snap.orders EXCEPT ![id] = NULL]
    BY <1>1, <1>5 DEF SnapshotType
  <1>8. snap.orders \in [MarketOrderIds -> BookEntry \cup {NULL}]
    BY <1>1 DEF SnapshotType
  <1> QED BY <1>7, <1>8 DEF Mirrors

(* Two fields of one entry changed at once. *)
LEMMA TwoFields ==
    ASSUME NEW S, NEW T, NEW f \in [S -> T], NEW a \in S, NEW q, NEW p
    PROVE  [f EXCEPT ![a].qty = q, ![a].price = p]
             = [f EXCEPT ![a] = [f[a] EXCEPT !.qty = q, !.price = p]]
  OBVIOUS

LEMMA SnapshotModify ==
    ASSUME NEW snap, NEW pool \in [MarketOrderIds -> MEOrder \cup {NULL}], Mirrors(snap, pool),
           NEW id \in MarketOrderIds, pool[id] # NULL, NEW left \in Nat, NEW u,
           u = Update("MODIFY", id, pool[id].side_, pool[id].price_, left, pool[id].priority_)
    PROVE  Mirrors(addToSnapshot(snap, u), [pool EXCEPT ![id].qty_ = left])
  <1>0. PICK order : order = [pool[id] EXCEPT !.qty_ = left]
    OBVIOUS
  <1>1. snap \in SnapshotType /\ snap.ok /\ snap.orders[id] = Entry(pool[id])
    BY DEF Mirrors
  <1>2. Entry(pool[id]) # NULL /\ Entry(pool[id]) \in BookEntry
    BY EntryTyped
  <1>3. order \in MEOrder /\ order # NULL
    BY <1>0, NullAssumption DEF MEOrder
  <1>4. u.type = "MODIFY" /\ u.order_id = id /\ u.side = pool[id].side_ /\ u.qty = left
        /\ u.price = pool[id].price_
    BY DEF Update
  <1>5. Synth!Acceptable(snap.orders, u, NULL)
    BY <1>1, <1>2, <1>4 DEF Synth!Acceptable, Entry
  <1>6. snap.orders \in [MarketOrderIds -> BookEntry \cup {NULL}]
    BY <1>1 DEF SnapshotType
  <1>7. Synth!Apply(snap.orders, u, NULL) = [snap.orders EXCEPT ![id] = Entry(order)]
    <2>1. Synth!Apply(snap.orders, u, NULL) =
             [snap.orders EXCEPT ![id].qty = left, ![id].price = pool[id].price_]
      BY <1>4 DEF Synth!Apply
    <2>2. [snap.orders[id] EXCEPT !.qty = left, !.price = pool[id].price_] = Entry(order)
      <3>1. pool[id] \in MEOrder
        OBVIOUS
      <3>2. /\ order.side_ = pool[id].side_ /\ order.price_ = pool[id].price_
            /\ order.qty_ = left /\ order.priority_ = pool[id].priority_
        BY <1>0, <3>1 DEF MEOrder
      <3>3. Entry(order) = [side |-> pool[id].side_, price |-> pool[id].price_, qty |-> left,
                            priority |-> pool[id].priority_]
        BY <3>2 DEF Entry
      <3>e. PICK e \in BookEntry : e = snap.orders[id]
        BY <1>1, <1>2
      <3>d. PICK d : d = [e EXCEPT !.qty = left]
        OBVIOUS
      <3>4. d = [side |-> e.side, price |-> e.price, qty |-> left, priority |-> e.priority]
            /\ d \in BookEntry
        BY <3>d DEF BookEntry
      <3>5. [d EXCEPT !.price = pool[id].price_]
              = [side |-> d.side, price |-> pool[id].price_, qty |-> d.qty,
                 priority |-> d.priority]
        BY <3>4 DEF BookEntry
      <3>6. d.side = pool[id].side_ /\ d.qty = left /\ d.priority = pool[id].priority_
        BY <1>1, <3>e, <3>4 DEF Entry
      <3>7. [d EXCEPT !.price = pool[id].price_] = Entry(order)
        BY <3>3, <3>5, <3>6
      <3> QED BY <3>d, <3>e, <3>7
    <2>3. [snap.orders EXCEPT ![id].qty = left, ![id].price = pool[id].price_]
             = [snap.orders EXCEPT ![id] =
                  [snap.orders[id] EXCEPT !.qty = left, !.price = pool[id].price_]]
      BY <1>6, TwoFields, Zenon
    <2> QED BY <2>1, <2>2, <2>3
  <1>8. addToSnapshot(snap, u) = [snap EXCEPT !.orders = [snap.orders EXCEPT ![id] = Entry(order)]]
    BY <1>1, <1>5, <1>7 DEF addToSnapshot
  <1>9. Entry(order) \in BookEntry
    BY <1>3, EntryTyped
  <1>10. addToSnapshot(snap, u) \in SnapshotType /\ addToSnapshot(snap, u).ok
         /\ addToSnapshot(snap, u).orders = [snap.orders EXCEPT ![id] = Entry(order)]
    BY <1>1, <1>8, <1>9 DEF SnapshotType
  <1>11. [pool EXCEPT ![id].qty_ = left] = [pool EXCEPT ![id] = order]
    BY <1>0
  <1> QED BY <1>3, <1>6, <1>10, <1>11 DEF Mirrors

-----------------------------------------------------------------------------
(* Tell, one lemma for each type of response. *)

(* An entry after x more was executed and l is left open. *)
Filled(e, x, l) == [side |-> e.side, ordered |-> e.ordered, exec |-> e.exec + x,
                    open |-> l, canceled |-> e.canceled]

(* An entry after its order was canceled with l open. *)
Canceled(e, l) == [side |-> e.side, ordered |-> e.ordered, exec |-> e.exec,
                   open |-> 0, canceled |-> l]

LEMMA TellFilled ==
    ASSUME NEW book \in [MarketOrderIds -> LedgerEntry \cup {NULL}],
           NEW id \in MarketOrderIds, book[id] # NULL, NEW x \in Nat, NEW l \in Nat, NEW r,
           r.type = "FILLED", r.market_order_id = id, r.exec_qty = x, r.leaves_qty = l
    PROVE  /\ Tell(book, r) = [book EXCEPT ![id] = Filled(book[id], x, l)]
           /\ Filled(book[id], x, l) \in LedgerEntry
  <1>e. PICK e \in LedgerEntry : e = book[id]
    OBVIOUS
  <1>1. Filled(e, x, l) \in LedgerEntry
    BY DEF Filled, LedgerEntry
  <1>2. Tell(book, r) = [book EXCEPT ![id].exec = @ + x, ![id].open = l]
    BY DEF Tell
  <1>3. [book EXCEPT ![id].exec = @ + x, ![id].open = l]
          = [book EXCEPT ![id] = [e EXCEPT !.exec = @ + x, !.open = l]]
    BY <1>e
  <1>d. PICK d : d = [e EXCEPT !.exec = e.exec + x]
    OBVIOUS
  <1>4. /\ d = [side |-> e.side, ordered |-> e.ordered, exec |-> e.exec + x,
                open |-> e.open, canceled |-> e.canceled]
        /\ d \in LedgerEntry
    BY <1>d DEF LedgerEntry
  <1>5. [d EXCEPT !.open = l] = [side |-> d.side, ordered |-> d.ordered, exec |-> d.exec,
                                 open |-> l, canceled |-> d.canceled]
    BY <1>4 DEF LedgerEntry
  <1>6. [d EXCEPT !.open = l] = Filled(e, x, l)
    BY <1>4, <1>5 DEF Filled
  <1>7. [e EXCEPT !.exec = @ + x, !.open = l] = Filled(e, x, l)
    BY <1>d, <1>6
  <1> QED BY <1>e, <1>1, <1>2, <1>3, <1>7

LEMMA TellCanceled ==
    ASSUME NEW book \in [MarketOrderIds -> LedgerEntry \cup {NULL}],
           NEW id \in MarketOrderIds, book[id] # NULL, NEW l \in Nat, NEW r,
           r.type = "CANCELED", r.market_order_id = id, r.leaves_qty = l
    PROVE  /\ Tell(book, r) = [book EXCEPT ![id] = Canceled(book[id], l)]
           /\ Canceled(book[id], l) \in LedgerEntry
  <1>e. PICK e \in LedgerEntry : e = book[id]
    OBVIOUS
  <1>1. Canceled(e, l) \in LedgerEntry
    BY DEF Canceled, LedgerEntry
  <1>2. Tell(book, r) = [book EXCEPT ![id].canceled = l, ![id].open = 0]
    BY DEF Tell
  <1>3. [book EXCEPT ![id].canceled = l, ![id].open = 0]
          = [book EXCEPT ![id] = [e EXCEPT !.canceled = l, !.open = 0]]
    BY <1>e
  <1>d. PICK d : d = [e EXCEPT !.canceled = l]
    OBVIOUS
  <1>4. /\ d = [side |-> e.side, ordered |-> e.ordered, exec |-> e.exec,
                open |-> e.open, canceled |-> l]
        /\ d \in LedgerEntry
    BY <1>d DEF LedgerEntry
  <1>5. [d EXCEPT !.open = 0] = [side |-> d.side, ordered |-> d.ordered, exec |-> d.exec,
                                 open |-> 0, canceled |-> d.canceled]
    BY <1>4 DEF LedgerEntry
  <1>6. [d EXCEPT !.open = 0] = Canceled(e, l)
    BY <1>4, <1>5 DEF Canceled
  <1>7. [e EXCEPT !.canceled = l, !.open = 0] = Canceled(e, l)
    BY <1>d, <1>6
  <1> QED BY <1>e, <1>1, <1>2, <1>3, <1>7

-----------------------------------------------------------------------------
(* A sum grows by what one of its terms grows by. *)
LEMMA SumGrows ==
    ASSUME NEW e \in [MarketOrderIds -> Nat], NEW d \in [MarketOrderIds -> Nat],
           NEW id \in MarketOrderIds, NEW x \in Nat, NEW total \in Nat, SumsTo(e, total),
           d[id] = e[id] + x, \A i \in MarketOrderIds \ {id} : d[i] = e[i]
    PROVE  SumsTo(d, total + x)
  <1>s. PICK sum \in [0 .. MaxOrders -> 0 .. total] :
            /\ sum[0] = 0 /\ sum[MaxOrders] = total
            /\ \A i \in MarketOrderIds : sum[i] = sum[i - 1] + e[i]
    BY DEF SumsTo
  <1>m. PICK more : more = [k \in 0 .. MaxOrders |-> IF k >= id THEN sum[k] + x ELSE sum[k]]
    OBVIOUS
  <1>1. id \in 1 .. MaxOrders /\ MaxOrders \in Nat
    BY BoundAssumption DEF MarketOrderIds
  <1>2. \A k \in 0 .. MaxOrders : sum[k] \in 0 .. total /\ sum[k] + x \in 0 .. total + x
                                  /\ sum[k] \in 0 .. total + x
    BY <1>s
  <1>3. more \in [0 .. MaxOrders -> 0 .. total + x]
    BY <1>m, <1>2
  <1>4. more[0] = 0 /\ more[MaxOrders] = total + x
    BY <1>m, <1>1, <1>s
  <1>5. \A i \in MarketOrderIds : more[i] = more[i - 1] + d[i]
    <2> SUFFICES ASSUME NEW i \in MarketOrderIds PROVE more[i] = more[i - 1] + d[i]
      OBVIOUS
    <2>1. i \in Nat /\ i \in 0 .. MaxOrders /\ i - 1 \in 0 .. MaxOrders
      BY BoundAssumption DEF MarketOrderIds
    <2>2. sum[i] = sum[i - 1] + e[i] /\ sum[i] \in Nat /\ sum[i - 1] \in Nat /\ e[i] \in Nat
      BY <1>s, <1>2, <2>1
    <2>3. /\ more[i] = IF i >= id THEN sum[i] + x ELSE sum[i]
          /\ more[i - 1] = IF i - 1 >= id THEN sum[i - 1] + x ELSE sum[i - 1]
      BY <1>m, <2>1
    <2>4. CASE i = id
      BY <1>1, <2>1, <2>2, <2>3, <2>4
    <2>5. CASE i # id
      <3>1. d[i] = e[i]
        BY <2>5
      <3>2. i >= id <=> i - 1 >= id
        BY <1>1, <2>1, <2>5
      <3> QED BY <2>2, <2>3, <3>1, <3>2
    <2> QED BY <2>4, <2>5
  <1> QED BY <1>3, <1>4, <1>5 DEF SumsTo

-----------------------------------------------------------------------------
(* One fill of fill units, with order b: what is left of the two orders, and*)
(* what is said of it.                                                      *)
Filling(b, fill, left, leaves) ==
    /\ adding # NULL /\ b # adding.market_order_id
    /\ order_pool_[b].side_ = Opposite(adding.side)
    /\ fill + left = order_pool_[b].qty_ /\ fill + leaves = adding.leaves_qty
    /\ adding' = [adding EXCEPT !.leaves_qty = leaves]
    /\ next_market_order_id_' = next_market_order_id_
    /\ responses' =
         <<Response("FILLED", adding.client_id, adding.client_order_id,
                    adding.market_order_id, adding.side, order_pool_[b].price_, fill, leaves),
           Response("FILLED", order_pool_[b].client_id_, order_pool_[b].client_order_id_,
                    b, order_pool_[b].side_, order_pool_[b].price_, fill, left)>>
    /\ updates' =
         <<Update("TRADE", NULL, adding.side, order_pool_[b].price_, fill, NULL),
           FillUpdate(b, order_pool_[b], left)>>
    /\ order_pool_' = [order_pool_ EXCEPT ![b] =
                         IF left = 0 THEN NULL ELSE [order_pool_[b] EXCEPT !.qty_ = left]]

LEMMA MatchIsFilling ==
    ASSUME BookInv, NEW x \in Indices, Match(x)
    PROVE  \E b \in Live, fill \in Nat, left \in Nat, leaves \in Nat :
              Filling(b, fill, left, leaves)
  <1>i. PICK id : id = FirstOrder(x)
    OBVIOUS
  <1>o. PICK order : order = order_pool_[id]
    OBVIOUS
  <1>0. TypeOK /\ IdsInOrder /\ LevelLists /\ PriceMapping /\ TimePriority
    BY DEF BookInv, Structure
  <1>1. adding \in Adding /\ adding # NULL /\ adding.leaves_qty \in Nat
        /\ Opposite(adding.side) \in Sides /\ x \in by_price[Opposite(adding.side)]
    BY <1>0 DEF Match, Matchable, IsBest, TypeOK, Adding, Opposite, Sides
  <1>2. x \in Levels /\ price_orders_at_price_[x].side_ = Opposite(adding.side)
    BY <1>0, <1>1 DEF LevelLists
  <1>3. id \in Live /\ order.side_ = Opposite(adding.side)
    <2>1. 1 \in 1 .. Len(price_orders_at_price_[x].orders)
      BY <1>0, <1>2, LevelFacts
    <2>2. id \in OrdersOf(x)
      BY <1>i, <2>1 DEF FirstOrder, OrdersOf
    <2> QED BY <1>0, <1>2, <1>o, <2>2 DEF LevelLists
  <1>4. order \in MEOrder /\ order.qty_ \in Nat /\ id \in Nat
    BY <1>0, <1>3, <1>o, OrderFacts, BoundAssumption DEF MEOrder, MarketOrderIds
  <1>5. id # adding.market_order_id
    <2>1. id < adding.market_order_id
      BY <1>0, <1>1, <1>3 DEF IdsInOrder
    <2> QED BY <1>4, <2>1
  <1>f. PICK fill \in Nat : fill <= order.qty_ /\ fill <= adding.leaves_qty
                            /\ fill = FillQty(adding.leaves_qty, order.qty_)
    BY <1>1, <1>4 DEF FillQty
  <1>l. PICK left \in Nat : left = order.qty_ - fill
    BY <1>4, <1>f
  <1>a. PICK leaves \in Nat : leaves = adding.leaves_qty - fill
    BY <1>1, <1>f
  <1>6. fill + left = order.qty_ /\ fill + leaves = adding.leaves_qty
    BY <1>1, <1>4, <1>f, <1>l, <1>a
  <1>7. adding' = [adding EXCEPT !.leaves_qty = leaves]
        /\ next_market_order_id_' = next_market_order_id_
    BY <1>i, <1>o, <1>f, <1>a DEF Match
  <1>8. responses' =
          <<Response("FILLED", adding.client_id, adding.client_order_id,
                     adding.market_order_id, adding.side, order.price_, fill, leaves),
            Response("FILLED", order.client_id_, order.client_order_id_,
                     id, order.side_, order.price_, fill, left)>>
    BY <1>i, <1>o, <1>f, <1>l, <1>a DEF Match
  <1>9. updates' = <<Update("TRADE", NULL, adding.side, order.price_, fill, NULL),
                     FillUpdate(id, order, left)>>
    BY <1>i, <1>o, <1>f, <1>l DEF Match
  <1>10. order_pool_' = [order_pool_ EXCEPT ![id] =
                           IF left = 0 THEN NULL ELSE [order EXCEPT !.qty_ = left]]
    <2>1. CASE left = 0
      <3>1. removeOrder(id)
        BY <2>1, <1>i, <1>o, <1>f, <1>l DEF Match
      <3> QED BY <2>1, <3>1 DEF removeOrder
    <2>2. CASE left # 0
      <3>1. order_pool_' = [order_pool_ EXCEPT ![id].qty_ = left]
        BY <2>2, <1>i, <1>o, <1>f, <1>l DEF Match
      <3> QED BY <2>2, <3>1, <1>o
    <2> QED BY <2>1, <2>2
  <1>11. Filling(id, fill, left, leaves)
    BY <1>1, <1>3, <1>5, <1>6, <1>7, <1>8, <1>9, <1>10, <1>o DEF Filling
  <1> QED BY <1>3, <1>11

-----------------------------------------------------------------------------
(* What each step makes of the snapshot. *)
LEMMA FillingMirrors ==
    ASSUME TypeOK, Mirrors(snapshot, order_pool_), Send,
           NEW b \in Live, NEW fill \in Nat, NEW left \in Nat, NEW leaves \in Nat,
           Filling(b, fill, left, leaves)
    PROVE  Mirrors(snapshot, order_pool_)' /\ volume' = volume + fill
  <1>o. PICK order : order = order_pool_[b]
    OBVIOUS
  <1>u. PICK u : u = Update("TRADE", NULL, adding.side, order.price_, fill, NULL)
    OBVIOUS
  <1>w. PICK w : w = FillUpdate(b, order, left)
    OBVIOUS
  <1>0. order_pool_ \in [MarketOrderIds -> MEOrder \cup {NULL}]
    BY DEF TypeOK
  <1>1. b \in MarketOrderIds /\ order_pool_[b] # NULL /\ order = order_pool_[b]
    BY <1>o DEF Live
  <1>2. updates' = <<u, w>>
    BY <1>o, <1>u, <1>w, Zenon DEF Filling
  <1>3. /\ snapshot' = addToSnapshot(addToSnapshot(snapshot, u), w)
        /\ volume' = Printed(Printed(volume, u), w)
    BY <1>2, TwoUpdates
  <1>4. u.type = "TRADE" /\ u.qty = fill /\ w.type # "TRADE"
    BY <1>u, <1>w DEF Update, FillUpdate
  <1>5. addToSnapshot(snapshot, u) = snapshot
    BY <1>4, SnapshotTrade
  <1>6. Mirrors(snapshot', order_pool_')
    <2>1. CASE left = 0
      <3>1. w.type = "CANCEL" /\ w.order_id = b /\ w.side = order_pool_[b].side_
        BY <2>1, <1>w, <1>1 DEF FillUpdate, Update
      <3>2. Mirrors(addToSnapshot(snapshot, w), [order_pool_ EXCEPT ![b] = NULL])
        BY <1>0, <1>1, <3>1, SnapshotCancel
      <3>3. order_pool_' = [order_pool_ EXCEPT ![b] = NULL]
        BY <2>1 DEF Filling
      <3> QED BY <1>3, <1>5, <3>2, <3>3
    <2>2. CASE left # 0
      <3>1. w = Update("MODIFY", b, order_pool_[b].side_, order_pool_[b].price_, left,
                       order_pool_[b].priority_)
        BY <2>2, <1>w, <1>1 DEF FillUpdate
      <3>2. Mirrors(addToSnapshot(snapshot, w), [order_pool_ EXCEPT ![b].qty_ = left])
        BY <1>0, <1>1, <3>1, SnapshotModify
      <3>3. order_pool_' = [order_pool_ EXCEPT ![b].qty_ = left]
        BY <2>2 DEF Filling
      <3> QED BY <1>3, <1>5, <3>2, <3>3
    <2> QED BY <2>1, <2>2
  <1>7. volume' = volume + fill
    BY <1>3, <1>4 DEF Printed
  <1> QED BY <1>6, <1>7

-----------------------------------------------------------------------------
(* What each step makes of the ledger. *)

LEMMA ExecutedTyped ==
    ASSUME ledger \in [MarketOrderIds -> LedgerEntry \cup {NULL}], NEW side
    PROVE  [i \in MarketOrderIds |-> Executed(i, side)] \in [MarketOrderIds -> Nat]
  <1>1. \A i \in MarketOrderIds : Executed(i, side) \in Nat
    BY DEF Executed, LedgerEntry
  <1> QED BY <1>1

LEMMA FillingLedger ==
    ASSUME TypeOK, LedgerRight, Send,
           NEW b \in Live, NEW fill \in Nat, NEW left \in Nat, NEW leaves \in Nat,
           Filling(b, fill, left, leaves)
    PROVE  \E a \in MarketOrderIds :
             /\ a = adding.market_order_id /\ a # b
             /\ ledger[a] # NULL /\ ledger[b] # NULL
             /\ ledger' \in [MarketOrderIds -> LedgerEntry \cup {NULL}]
             /\ ledger'[a] = Filled(ledger[a], fill, leaves)
             /\ ledger'[b] = Filled(ledger[b], fill, left)
             /\ ledger'[a] # NULL /\ ledger'[b] # NULL
             /\ \A i \in MarketOrderIds \ {a, b} : ledger'[i] = ledger[i]
  <1>a. PICK a : a = adding.market_order_id
    OBVIOUS
  <1>r. PICK r : r = Response("FILLED", adding.client_id, adding.client_order_id, a,
                              adding.side, order_pool_[b].price_, fill, leaves)
    OBVIOUS
  <1>q. PICK q : q = Response("FILLED", order_pool_[b].client_id_,
                              order_pool_[b].client_order_id_, b, order_pool_[b].side_,
                              order_pool_[b].price_, fill, left)
    OBVIOUS
  <1>0. ledger \in [MarketOrderIds -> LedgerEntry \cup {NULL}]
        /\ \A i \in MarketOrderIds : EntryRight(ledger[i], order_pool_[i], Underway(i))
    BY DEF LedgerRight
  <1>1. adding # NULL /\ a # b /\ adding \in Adding /\ a \in MarketOrderIds
        /\ b \in MarketOrderIds /\ order_pool_[b] # NULL
    BY <1>a DEF Filling, TypeOK, Adding, Live
  <1>2. Underway(a) # NULL
    BY <1>a, <1>1 DEF Underway
  <1>3. ledger[a] # NULL /\ ledger[b] # NULL
    BY <1>0, <1>1, <1>2 DEF EntryRight
  <1>4. responses' = <<r, q>>
    BY <1>a, <1>r, <1>q, Zenon DEF Filling
  <1>5. ledger' = Tell(Tell(ledger, r), q)
    BY <1>4, TwoResponses
  <1>6. r.type = "FILLED" /\ r.market_order_id = a /\ r.exec_qty = fill /\ r.leaves_qty = leaves
    BY <1>r DEF Response
  <1>7. q.type = "FILLED" /\ q.market_order_id = b /\ q.exec_qty = fill /\ q.leaves_qty = left
    BY <1>q DEF Response
  <1>m. PICK mid : mid = Tell(ledger, r)
    OBVIOUS
  <1>8. mid = [ledger EXCEPT ![a] = Filled(ledger[a], fill, leaves)]
        /\ Filled(ledger[a], fill, leaves) \in LedgerEntry
    BY <1>0, <1>1, <1>3, <1>6, <1>m, TellFilled
  <1>9. mid \in [MarketOrderIds -> LedgerEntry \cup {NULL}] /\ mid[b] = ledger[b]
        /\ mid[a] = Filled(ledger[a], fill, leaves)
        /\ \A i \in MarketOrderIds \ {a} : mid[i] = ledger[i]
    BY <1>0, <1>1, <1>8
  <1>10. Tell(mid, q) = [mid EXCEPT ![b] = Filled(mid[b], fill, left)]
         /\ Filled(mid[b], fill, left) \in LedgerEntry
    BY <1>1, <1>3, <1>7, <1>9, TellFilled
  <1>11. ledger' = [mid EXCEPT ![b] = Filled(ledger[b], fill, left)]
         /\ Filled(ledger[b], fill, left) \in LedgerEntry
    BY <1>5, <1>9, <1>10, <1>m
  <1>12. /\ ledger' \in [MarketOrderIds -> LedgerEntry \cup {NULL}]
         /\ ledger'[a] = Filled(ledger[a], fill, leaves)
         /\ ledger'[b] = Filled(ledger[b], fill, left)
         /\ \A i \in MarketOrderIds \ {a, b} : ledger'[i] = ledger[i]
    BY <1>1, <1>9, <1>11
  <1>13. ledger'[a] # NULL /\ ledger'[b] # NULL
    BY <1>8, <1>11, <1>12, EntryAssumption
  <1> QED BY <1>a, <1>1, <1>3, <1>12, <1>13

LEMMA FillingLedgerRight ==
    ASSUME TypeOK, LedgerRight, Send, adding' \in Adding,
           NEW b \in Live, NEW fill \in Nat, NEW left \in Nat, NEW leaves \in Nat,
           Filling(b, fill, left, leaves)
    PROVE  LedgerRight'
  <1>0. ledger \in [MarketOrderIds -> LedgerEntry \cup {NULL}]
        /\ (\A i \in MarketOrderIds : i >= next_market_order_id_ => ledger[i] = NULL)
        /\ \A i \in MarketOrderIds : EntryRight(ledger[i], order_pool_[i], Underway(i))
    BY DEF LedgerRight
  <1>a. PICK a \in MarketOrderIds :
             /\ a = adding.market_order_id /\ a # b
             /\ ledger[a] # NULL /\ ledger[b] # NULL
             /\ ledger' \in [MarketOrderIds -> LedgerEntry \cup {NULL}]
             /\ ledger'[a] = Filled(ledger[a], fill, leaves)
             /\ ledger'[b] = Filled(ledger[b], fill, left)
             /\ ledger'[a] # NULL /\ ledger'[b] # NULL
             /\ \A i \in MarketOrderIds \ {a, b} : ledger'[i] = ledger[i]
    BY FillingLedger
  <1>1. /\ adding # NULL /\ adding \in Adding /\ fill + left = order_pool_[b].qty_
        /\ fill + leaves = adding.leaves_qty
        /\ adding' = [adding EXCEPT !.leaves_qty = leaves]
        /\ next_market_order_id_' = next_market_order_id_
    BY DEF Filling, TypeOK
  <1>2. b \in MarketOrderIds /\ order_pool_[b] # NULL /\ order_pool_[b] \in MEOrder
    BY DEF Live, TypeOK
  <1>3. adding' # NULL /\ adding'.market_order_id = a /\ adding'.side = adding.side
        /\ adding'.leaves_qty = leaves
    BY <1>a, <1>1, NullAssumption DEF Adding
  <1>4. Underway(a) = adding /\ Underway(a)' = adding'
        /\ \A i \in MarketOrderIds \ {a} : Underway(i) = NULL /\ Underway(i)' = NULL
    BY <1>a, <1>1, <1>3 DEF Underway
  <1>5. \A i \in MarketOrderIds \ {b} : order_pool_'[i] = order_pool_[i]
    BY DEF Filling, TypeOK
  <1>6. order_pool_'[b] = IF left = 0 THEN NULL ELSE [order_pool_[b] EXCEPT !.qty_ = left]
    BY <1>2 DEF Filling, TypeOK
  <1>7. \A i \in MarketOrderIds : i >= next_market_order_id_' => ledger'[i] = NULL
    BY <1>0, <1>a, <1>1, <1>2
  <1>8. EntryRight(ledger'[a], order_pool_'[a], Underway(a)')
    <2>e. PICK e \in LedgerEntry : e = ledger[a]
      BY <1>0, <1>a
    <2>1. EntryRight(e, order_pool_[a], adding)
      BY <1>0, <1>4, <2>e
    <2>2. e.side = adding.side /\ e.open = adding.leaves_qty /\ e.canceled = 0
          /\ order_pool_[a] = NULL /\ e.ordered = e.exec + e.open + e.canceled
      BY <1>1, <1>a, <2>1, <2>e DEF EntryRight
    <2>3. e.exec \in Nat
      BY <2>e DEF LedgerEntry
    <2>4. e.ordered = (e.exec + fill) + leaves + 0
      BY <1>1, <2>2, <2>3
    <2>d. PICK d : d = Filled(e, fill, leaves)
      OBVIOUS
    <2>5. d.side = e.side /\ d.open = leaves /\ d.canceled = e.canceled
          /\ d.ordered = e.ordered /\ d.exec = e.exec + fill
      BY <2>d DEF Filled
    <2>6. d.ordered = d.exec + d.open + d.canceled
      BY <2>2, <2>4, <2>5
    <2>7. EntryRight(d, NULL, adding')
      BY <1>3, <1>a, <2>2, <2>5, <2>6, <2>d, <2>e DEF EntryRight
    <2> QED BY <1>a, <1>4, <1>5, <2>2, <2>7, <2>d, <2>e
  <1>9. EntryRight(ledger'[b], order_pool_'[b], Underway(b)')
    <2>e. PICK e \in LedgerEntry : e = ledger[b]
      BY <1>0, <1>a, <1>2
    <2>o. PICK order \in MEOrder : order = order_pool_[b] /\ order # NULL
      BY <1>2
    <2>1. EntryRight(e, order, NULL)
      BY <1>0, <1>2, <1>4, <1>a, <2>e, <2>o
    <2>2. e.side = order.side_ /\ e.open = order.qty_ /\ e.canceled = 0
          /\ e.ordered = e.exec + e.open + e.canceled
      BY <1>a, <2>1, <2>e, <2>o DEF EntryRight
    <2>3. e.exec \in Nat
      BY <2>e DEF LedgerEntry
    <2>4. e.ordered = (e.exec + fill) + left + 0
      BY <1>1, <2>2, <2>3, <2>o
    <2>d. PICK d : d = Filled(e, fill, left)
      OBVIOUS
    <2>5. d.side = e.side /\ d.open = left /\ d.canceled = e.canceled
          /\ d.ordered = e.ordered /\ d.exec = e.exec + fill
      BY <2>d DEF Filled
    <2>6. d.ordered = d.exec + d.open + d.canceled
      BY <2>2, <2>4, <2>5
    <2>7. d # NULL /\ d = ledger'[b] /\ Underway(b)' = NULL
      BY <1>a, <1>2, <1>4, <2>d, <2>e
    <2>8. CASE left = 0
      BY <1>6, <2>5, <2>6, <2>7, <2>8 DEF EntryRight
    <2>9. CASE left # 0
      <3>n. PICK new : new = [order EXCEPT !.qty_ = left]
        OBVIOUS
      <3>1. new.side_ = order.side_ /\ new.qty_ = left /\ new \in MEOrder /\ new # NULL
        BY <3>n, NullAssumption DEF MEOrder
      <3>2. order_pool_'[b] = new
        BY <1>6, <2>9, <2>o, <3>n
      <3>3. EntryRight(d, new, NULL)
        BY <2>2, <2>5, <2>6, <2>7, <3>1 DEF EntryRight
      <3> QED BY <2>7, <3>2, <3>3
    <2> QED BY <2>8, <2>9
  <1>10. \A i \in MarketOrderIds \ {a, b} : EntryRight(ledger'[i], order_pool_'[i], Underway(i)')
    BY <1>0, <1>a, <1>4, <1>5
  <1>11. \A i \in MarketOrderIds : EntryRight(ledger'[i], order_pool_'[i], Underway(i)')
    BY <1>8, <1>9, <1>10
  <1> QED BY <1>a, <1>7, <1>11 DEF LedgerRight

(* What was bought and what was sold grow by the quantity printed. *)
LEMMA FillingAddsUp ==
    ASSUME TypeOK, LedgerRight, Send, volume \in Nat, TradesAddUp,
           NEW b \in Live, NEW fill \in Nat, NEW left \in Nat, NEW leaves \in Nat,
           Filling(b, fill, left, leaves), volume' = volume + fill
    PROVE  TradesAddUp'
  <1>0. ledger \in [MarketOrderIds -> LedgerEntry \cup {NULL}]
        /\ \A i \in MarketOrderIds : EntryRight(ledger[i], order_pool_[i], Underway(i))
    BY DEF LedgerRight
  <1>a. PICK a \in MarketOrderIds :
             /\ a = adding.market_order_id /\ a # b
             /\ ledger[a] # NULL /\ ledger[b] # NULL
             /\ ledger' \in [MarketOrderIds -> LedgerEntry \cup {NULL}]
             /\ ledger'[a] = Filled(ledger[a], fill, leaves)
             /\ ledger'[b] = Filled(ledger[b], fill, left)
             /\ ledger'[a] # NULL /\ ledger'[b] # NULL
             /\ \A i \in MarketOrderIds \ {a, b} : ledger'[i] = ledger[i]
    BY FillingLedger
  <1>1. b \in MarketOrderIds /\ order_pool_[b] # NULL /\ order_pool_[b] \in MEOrder
        /\ adding # NULL /\ adding \in Adding /\ order_pool_[b].side_ = Opposite(adding.side)
    BY DEF Live, TypeOK, Filling
  <1>2. ledger[a].side = adding.side /\ ledger[b].side = order_pool_[b].side_
    <2>1. Underway(a) = adding
      BY <1>a, <1>1 DEF Underway
    <2> QED BY <1>0, <1>1, <2>1 DEF EntryRight
  <1>3. /\ ledger'[a].side = ledger[a].side /\ ledger'[a].exec = ledger[a].exec + fill
        /\ ledger'[b].side = ledger[b].side /\ ledger'[b].exec = ledger[b].exec + fill
    BY <1>a DEF Filled
  <1> SUFFICES ASSUME NEW side \in Sides
               PROVE  SumsTo([i \in MarketOrderIds |-> Executed(i, side)'], volume + fill)
    BY DEF TradesAddUp
  <1>e. PICK e : e = [i \in MarketOrderIds |-> Executed(i, side)]
    OBVIOUS
  <1>d. PICK d : d = [i \in MarketOrderIds |-> Executed(i, side)']
    OBVIOUS
  <1>4. e \in [MarketOrderIds -> Nat] /\ SumsTo(e, volume)
    BY <1>0, <1>e, ExecutedTyped DEF TradesAddUp
  <1>5. \A i \in MarketOrderIds \ {a, b} : d[i] = e[i]
    BY <1>a, <1>d, <1>e DEF Executed
  <1>6. d[a] = IF adding.side = side THEN e[a] + fill ELSE e[a]
    BY <1>a, <1>2, <1>3, <1>d, <1>e DEF Executed
  <1>7. d[b] = IF order_pool_[b].side_ = side THEN e[b] + fill ELSE e[b]
    BY <1>a, <1>1, <1>2, <1>3, <1>d, <1>e DEF Executed
  <1>8. e[a] \in Nat /\ e[b] \in Nat
    BY <1>1, <1>4
  <1>9. \A i \in MarketOrderIds : d[i] \in Nat
    BY <1>4, <1>5, <1>6, <1>7, <1>8
  <1>10. d \in [MarketOrderIds -> Nat]
    BY <1>d, <1>9
  <1>11. adding.side \in Sides /\ (order_pool_[b].side_ = side <=> adding.side # side)
    BY <1>1 DEF Adding, Opposite, Sides
  <1>12. CASE adding.side = side
    <2>1. d[a] = e[a] + fill /\ \A i \in MarketOrderIds \ {a} : d[i] = e[i]
      BY <1>5, <1>6, <1>7, <1>11, <1>12
    <2>2. SumsTo(d, volume + fill)
      BY <1>4, <1>10, <2>1, SumGrows
    <2> QED BY <1>d, <2>2
  <1>13. CASE adding.side # side
    <2>1. d[b] = e[b] + fill /\ \A i \in MarketOrderIds \ {b} : d[i] = e[i]
      BY <1>5, <1>6, <1>7, <1>11, <1>13
    <2>2. SumsTo(d, volume + fill)
      BY <1>1, <1>4, <1>10, <2>1, SumGrows
    <2> QED BY <1>d, <2>2
  <1> QED BY <1>12, <1>13

-----------------------------------------------------------------------------
(* A step that tells no client of an execution leaves what was bought and   *)
(* sold alone.                                                              *)
LEMMA NothingExecuted ==
    ASSUME TradesAddUp, volume' = volume,
           \A i \in MarketOrderIds, side \in Sides : Executed(i, side)' = Executed(i, side)
    PROVE  TradesAddUp'
  <1> SUFFICES ASSUME NEW side \in Sides
               PROVE  SumsTo([i \in MarketOrderIds |-> Executed(i, side)'], volume)
    BY DEF TradesAddUp
  <1>1. [i \in MarketOrderIds |-> Executed(i, side)']
          = [i \in MarketOrderIds |-> Executed(i, side)]
    OBVIOUS
  <1> QED BY <1>1 DEF TradesAddUp

LEMMA MatchStepEngine ==
    ASSUME NoAliasing, EngineInv, NEW x \in Indices, Match(x), Send
    PROVE  EngineInv'
  <1>0. BookInv /\ TypeOK /\ LedgerRight /\ volume \in Nat /\ TradesAddUp
        /\ Mirrors(snapshot, order_pool_) /\ IInv
    BY DEF EngineInv, IInv, BookInv
  <1>1. PICK b \in Live, fill \in Nat, left \in Nat, leaves \in Nat :
           Filling(b, fill, left, leaves)
    BY <1>0, MatchIsFilling
  <1>2. IInv'
    BY <1>0, MatchKeepsBook, MapAfterMatch DEF IInv
  <1>3. Mirrors(snapshot, order_pool_)' /\ volume' = volume + fill
    BY <1>0, <1>1, FillingMirrors
  <1>4. adding' \in Adding
    BY <1>0, <1>1 DEF Filling, TypeOK, Adding
  <1>5. LedgerRight'
    BY <1>0, <1>1, <1>4, FillingLedgerRight
  <1>6. TradesAddUp'
    BY <1>0, <1>1, <1>3, FillingAddsUp
  <1>7. volume' \in Nat
    BY <1>0, <1>3
  <1> QED BY <1>2, <1>3, <1>5, <1>6, <1>7 DEF EngineInv

LEMMA AcceptStepEngine ==
    ASSUME NoAliasing, EngineInv, NEW c \in ClientIds, NEW o \in OrderIds, NEW s \in Sides,
           NEW p \in Prices, NEW q \in Qtys, Accept(c, o, s, p, q), Send
    PROVE  EngineInv'
  <1>0. BookInv /\ TypeOK /\ IdsInOrder /\ LedgerRight /\ volume \in Nat /\ TradesAddUp
        /\ Mirrors(snapshot, order_pool_) /\ IInv
    BY DEF EngineInv, IInv, BookInv
  <1>i. PICK id \in MarketOrderIds : id = next_market_order_id_
    BY DEF Accept
  <1>r. PICK r : r = Response("ACCEPTED", c, o, id, s, p, 0, q)
    OBVIOUS
  <1>e. PICK e : e = [side |-> s, ordered |-> q, exec |-> 0, open |-> q, canceled |-> 0]
    OBVIOUS
  <1>1. IInv'
    BY <1>0, AcceptStep, MapAfterAccept DEF IInv
  <1>2. snapshot' = snapshot /\ volume' = volume
    BY NoUpdates DEF Accept
  <1>3. order_pool_' = order_pool_ /\ adding = NULL /\ next_market_order_id_' = id + 1
    BY <1>i DEF Accept, bookVars
  <1>4. r.type = "ACCEPTED" /\ r.market_order_id = id /\ r.side = s /\ r.leaves_qty = q
    BY <1>r DEF Response
  <1>5. responses' = <<r>>
    BY <1>i, <1>r, Zenon DEF Accept
  <1>6. ledger' = [ledger EXCEPT ![id] = e]
    BY <1>4, <1>5, <1>e, OneResponse DEF Tell
  <1>7. e \in LedgerEntry /\ e # NULL /\ q \in Nat
    BY <1>e, QtyAssumption, EntryAssumption DEF LedgerEntry
  <1>8. ledger \in [MarketOrderIds -> LedgerEntry \cup {NULL}]
        /\ (\A i \in MarketOrderIds : i >= next_market_order_id_ => ledger[i] = NULL)
        /\ \A i \in MarketOrderIds : EntryRight(ledger[i], order_pool_[i], Underway(i))
    BY <1>0 DEF LedgerRight
  <1>9. id \in Nat /\ ledger[id] = NULL /\ order_pool_[id] = NULL
    <2>1. id \in Nat
      BY BoundAssumption DEF MarketOrderIds
    <2>2. id \notin Live
      BY <1>0, <1>i, <2>1 DEF IdsInOrder
    <2> QED BY <1>i, <1>8, <2>1, <2>2 DEF Live
  <1>10. ledger' \in [MarketOrderIds -> LedgerEntry \cup {NULL}] /\ ledger'[id] = e
         /\ \A i \in MarketOrderIds \ {id} : ledger'[i] = ledger[i]
    BY <1>6, <1>7, <1>8
  <1>11. /\ adding' # NULL /\ adding'.market_order_id = id /\ adding'.side = s
         /\ adding'.leaves_qty = q
    <2>1. adding' = [client_id |-> c, client_order_id |-> o, side |-> s, price |-> p,
                     leaves_qty |-> q, market_order_id |-> id]
      BY <1>i DEF Accept
    <2>2. adding' \in Adding
      BY <1>7, <2>1 DEF Adding
    <2> QED BY <2>1, <2>2, NullAssumption
  <1>12. Underway(id)' = adding' /\ \A i \in MarketOrderIds \ {id} :
                                       Underway(i) = NULL /\ Underway(i)' = NULL
    BY <1>3, <1>11 DEF Underway
  <1>13. LedgerRight'
    <2>1. e.side = s /\ e.ordered = q /\ e.exec = 0 /\ e.open = q /\ e.canceled = 0
      BY <1>e
    <2>2. EntryRight(e, NULL, adding')
      BY <1>7, <1>11, <2>1 DEF EntryRight
    <2>3. EntryRight(ledger'[id], order_pool_'[id], Underway(id)')
      BY <1>3, <1>9, <1>10, <1>12, <2>2
    <2>4. \A i \in MarketOrderIds \ {id} : EntryRight(ledger'[i], order_pool_'[i], Underway(i)')
      BY <1>3, <1>8, <1>10, <1>12
    <2>5. \A i \in MarketOrderIds : EntryRight(ledger'[i], order_pool_'[i], Underway(i)')
      BY <2>3, <2>4
    <2>6. \A i \in MarketOrderIds : i >= id + 1 => i # id /\ i >= id
      BY <1>9, BoundAssumption DEF MarketOrderIds
    <2>7. \A i \in MarketOrderIds : i >= next_market_order_id_' => ledger'[i] = NULL
      BY <1>i, <1>3, <1>8, <1>10, <2>6
    <2> QED BY <1>10, <2>5, <2>7 DEF LedgerRight
  <1>14. TradesAddUp'
    <2>1. e.exec = 0
      BY <1>e
    <2>2. \A i \in MarketOrderIds, side \in Sides : Executed(i, side)' = Executed(i, side)
      BY <1>9, <1>10, <2>1 DEF Executed
    <2> QED BY <1>0, <1>2, <2>2, NothingExecuted
  <1> QED BY <1>0, <1>1, <1>2, <1>3, <1>13, <1>14 DEF EngineInv

LEMMA RestStepEngine ==
    ASSUME NoAliasing, ~TailSends, EngineInv, Rest, Send
    PROVE  EngineInv'
  <1>0. BookInv /\ TypeOK /\ IdsInOrder /\ Structure /\ LedgerRight /\ volume \in Nat
        /\ TradesAddUp /\ Mirrors(snapshot, order_pool_) /\ IInv
    BY DEF EngineInv, IInv, BookInv
  <1>1. IInv'
    BY <1>0, RestKeepsBook, MapAfterRest DEF IInv
  <1>2. adding # NULL /\ adding \in Adding /\ adding' = NULL
        /\ next_market_order_id_' = next_market_order_id_
    BY <1>0 DEF Rest, NoMatch, TypeOK
  <1>i. PICK id \in MarketOrderIds : id = adding.market_order_id
    BY <1>2 DEF Adding
  <1>p. PICK priority \in Nat : priority = getNextPriority(adding.price)
    BY <1>0, <1>2, NextPriorityIsNatural DEF Adding
  <1>o. PICK order : order = [client_id_ |-> adding.client_id,
                              client_order_id_ |-> adding.client_order_id,
                              side_ |-> adding.side, price_ |-> adding.price,
                              qty_ |-> adding.leaves_qty, priority_ |-> priority]
    OBVIOUS
  <1>3. order \in MEOrder /\ order # NULL /\ order.side_ = adding.side
        /\ order.price_ = adding.price /\ order.qty_ = adding.leaves_qty
        /\ order.priority_ = priority
    BY <1>2, <1>p, <1>o, NullAssumption DEF MEOrder, Adding
  <1>4. order_pool_' = [order_pool_ EXCEPT ![id] = order]
    BY <1>i, <1>o, <1>p DEF Rest, addOrder
  <1>u. PICK u : u = Update("ADD", id, order.side_, order.price_, order.qty_, order.priority_)
    OBVIOUS
  <1>5. updates' = <<u>> /\ responses' = << >>
    <2>1. u = Update("ADD", adding.market_order_id, adding.side, adding.price,
                     adding.leaves_qty, getNextPriority(adding.price))
      BY <1>i, <1>p, <1>u, <1>3
    <2> QED BY <2>1 DEF Rest, TailResponse
  <1>6. snapshot' = addToSnapshot(snapshot, u) /\ volume' = Printed(volume, u)
        /\ ledger' = ledger
    BY <1>5, OneUpdate, NoResponses
  <1>7. volume' = volume
    BY <1>6, <1>u DEF Printed, Update
  <1>8. order_pool_ \in [MarketOrderIds -> MEOrder \cup {NULL}] /\ order_pool_[id] = NULL
    <2>1. id \notin Live
      <3>1. \A i \in Live : i < id
        BY <1>0, <1>2, <1>i DEF IdsInOrder
      <3>2. id \in Nat
        BY BoundAssumption DEF MarketOrderIds
      <3> QED BY <3>1, <3>2
    <2> QED BY <1>0, <2>1 DEF TypeOK, Live
  <1>9. Mirrors(addToSnapshot(snapshot, u), [order_pool_ EXCEPT ![id] = order])
    BY <1>0, <1>3, <1>8, <1>u, SnapshotAdd
  <1>10. Mirrors(snapshot, order_pool_)'
    BY <1>4, <1>6, <1>9
  <1>11. Underway(id) = adding /\ \A i \in MarketOrderIds \ {id} : Underway(i) = NULL
    BY <1>2, <1>i DEF Underway
  <1>12. \A i \in MarketOrderIds : Underway(i)' = NULL
    BY <1>2 DEF Underway
  <1>13. \A i \in MarketOrderIds : EntryRight(ledger[i], order_pool_[i], Underway(i))
    BY <1>0 DEF LedgerRight
  <1>14. order_pool_'[id] = order /\ \A i \in MarketOrderIds \ {id} : order_pool_'[i] = order_pool_[i]
    BY <1>4, <1>8
  <1>15. EntryRight(ledger[id], order, NULL)
    <2>1. EntryRight(ledger[id], NULL, adding)
      BY <1>8, <1>11, <1>13
    <2> QED BY <1>2, <1>3, <2>1 DEF EntryRight
  <1>16. \A i \in MarketOrderIds : EntryRight(ledger'[i], order_pool_'[i], Underway(i)')
    BY <1>6, <1>11, <1>12, <1>13, <1>14, <1>15
  <1>17. LedgerRight'
    BY <1>0, <1>2, <1>6, <1>16 DEF LedgerRight
  <1>18. TradesAddUp'
    BY <1>0, <1>6, <1>7, NothingExecuted DEF Executed
  <1> QED BY <1>0, <1>1, <1>7, <1>10, <1>17, <1>18 DEF EngineInv

(* A step that neither moves an order nor tells anybody anything new.       *)
LEMMA QuietStepEngine ==
    ASSUME EngineInv, IInv', order_pool_' = order_pool_, snapshot' = snapshot,
           volume' = volume, ledger' = ledger,
           next_market_order_id_' = next_market_order_id_,
           adding' = adding \/ (adding' = NULL /\ (adding # NULL => adding.leaves_qty = 0))
    PROVE  EngineInv'
  <1>0. TypeOK /\ LedgerRight /\ TradesAddUp
    BY DEF EngineInv, IInv, BookInv
  <1>1. TradesAddUp'
    BY <1>0, NothingExecuted DEF Executed
  <1>2. \A i \in MarketOrderIds : EntryRight(ledger[i], order_pool_[i], Underway(i))
    BY <1>0 DEF LedgerRight
  <1>3. \A i \in MarketOrderIds :
           Underway(i)' = Underway(i) \/ (Underway(i)' = NULL /\ (Underway(i) # NULL => Underway(i).leaves_qty = 0))
    BY DEF Underway
  <1>4. ASSUME NEW i \in MarketOrderIds PROVE EntryRight(ledger[i], order_pool_[i], Underway(i)')
    <2>1. CASE Underway(i)' = Underway(i)
      BY <1>2, <2>1
    <2>2. CASE Underway(i)' = NULL /\ (Underway(i) # NULL => Underway(i).leaves_qty = 0)
      BY <1>2, <2>2 DEF EntryRight
    <2> QED BY <1>3, <2>1, <2>2
  <1>5. LedgerRight'
    BY <1>0, <1>4 DEF LedgerRight
  <1> QED BY <1>1, <1>5 DEF EngineInv

LEMMA CancelStepEngine ==
    ASSUME NoAliasing, EngineInv, NEW c \in ClientIds \cup {OtherClient}, NEW o \in OrderIds,
           Cancel(c, o), Send
    PROVE  EngineInv'
  <1>0. BookInv /\ TypeOK /\ IdsInOrder /\ Structure /\ LedgerRight /\ volume \in Nat
        /\ TradesAddUp /\ Mirrors(snapshot, order_pool_) /\ IInv /\ MapLive
    BY DEF EngineInv, IInv, BookInv
  <1>i. PICK id : id = Target(c, o)
    OBVIOUS
  <1>1. id # NULL /\ removeOrder(id) /\ adding = NULL
        /\ UNCHANGED <<next_market_order_id_, last_oid, adding>>
    BY <1>i DEF Cancel
  <1>2. id \in Live
    BY <1>0, <1>i, <1>1 DEF Target, MapLive
  <1>3. IInv'
    <2>1. BookInv' /\ Live' = Live \ {id}
      BY <1>0, <1>1, <1>2, RemoveKeepsBook
    <2> QED BY <1>0, <1>1, <1>2, <2>1, MapAfterRemove DEF IInv
  <1>o. PICK order \in MEOrder : order = order_pool_[id] /\ order # NULL
    BY <1>0, <1>2 DEF TypeOK, Live
  <1>4. order.qty_ \in Nat /\ id \in MarketOrderIds
        /\ order_pool_ \in [MarketOrderIds -> MEOrder \cup {NULL}]
    BY <1>0, <1>2 DEF MEOrder, Live, TypeOK
  <1>u. PICK u : u = Update("CANCEL", id, order.side_, order.price_, 0, order.priority_)
    OBVIOUS
  <1>r. PICK r : r = Response("CANCELED", c, o, id, order.side_, order.price_, NULL, order.qty_)
    OBVIOUS
  <1>5. updates' = <<u>> /\ responses' = <<r>>
    BY <1>i, <1>o, <1>u, <1>r DEF Cancel
  <1>6. u.type = "CANCEL" /\ u.order_id = id /\ u.side = order_pool_[id].side_
    BY <1>o, <1>u DEF Update
  <1>7. r.type = "CANCELED" /\ r.market_order_id = id /\ r.leaves_qty = order.qty_
    BY <1>r DEF Response
  <1>8. snapshot' = addToSnapshot(snapshot, u) /\ volume' = Printed(volume, u)
        /\ ledger' = Tell(ledger, r)
    BY <1>5, OneUpdate, OneResponse
  <1>9. volume' = volume
    BY <1>6, <1>8 DEF Printed
  <1>10. order_pool_' = [order_pool_ EXCEPT ![id] = NULL]
    BY <1>1 DEF removeOrder
  <1>11. Mirrors(snapshot, order_pool_)'
    <2>1. Mirrors(addToSnapshot(snapshot, u), [order_pool_ EXCEPT ![id] = NULL])
      BY <1>0, <1>4, <1>6, <1>o, SnapshotCancel
    <2> QED BY <1>8, <1>10, <2>1
  <1>12. ledger \in [MarketOrderIds -> LedgerEntry \cup {NULL}]
        /\ (\A i \in MarketOrderIds : i >= next_market_order_id_ => ledger[i] = NULL)
        /\ \A i \in MarketOrderIds : EntryRight(ledger[i], order_pool_[i], Underway(i))
    BY <1>0 DEF LedgerRight
  <1>13. \A i \in MarketOrderIds : Underway(i) = NULL /\ Underway(i)' = NULL
    BY <1>1 DEF Underway
  <1>14. EntryRight(ledger[id], order, NULL)
    BY <1>4, <1>12, <1>13, <1>o
  <1>15. ledger[id] # NULL
    BY <1>14, <1>o DEF EntryRight
  <1>e. PICK e \in LedgerEntry : e = ledger[id] /\ e # NULL
    BY <1>4, <1>12, <1>15
  <1>d. PICK d : d = Canceled(e, order.qty_)
    OBVIOUS
  <1>16. ledger' = [ledger EXCEPT ![id] = d] /\ d \in LedgerEntry
    BY <1>4, <1>7, <1>8, <1>12, <1>15, <1>e, <1>d, TellCanceled
  <1>17. ledger' \in [MarketOrderIds -> LedgerEntry \cup {NULL}] /\ ledger'[id] = d
         /\ \A i \in MarketOrderIds \ {id} : ledger'[i] = ledger[i]
    BY <1>4, <1>12, <1>16
  <1>18. d.side = e.side /\ d.exec = e.exec /\ d.open = 0 /\ d.canceled = order.qty_
         /\ d.ordered = e.ordered /\ d # NULL
    BY <1>d, <1>16, EntryAssumption DEF Canceled
  <1>19. EntryRight(d, NULL, NULL)
    <2>1. e.open = order.qty_ /\ e.canceled = 0 /\ e.ordered = e.exec + e.open + e.canceled
      BY <1>14, <1>e, <1>o DEF EntryRight
    <2>2. e.exec \in Nat
      BY <1>e DEF LedgerEntry
    <2>3. d.ordered = d.exec + d.open + d.canceled
      BY <1>4, <1>18, <2>1, <2>2
    <2> QED BY <1>18, <2>3 DEF EntryRight
  <1>20. order_pool_'[id] = NULL /\ \A i \in MarketOrderIds \ {id} : order_pool_'[i] = order_pool_[i]
    BY <1>4, <1>10
  <1>21. \A i \in MarketOrderIds : EntryRight(ledger'[i], order_pool_'[i], Underway(i)')
    BY <1>12, <1>13, <1>17, <1>19, <1>20
  <1>22. \A i \in MarketOrderIds : i >= next_market_order_id_' => ledger'[i] = NULL
    BY <1>1, <1>12, <1>15, <1>17
  <1>23. LedgerRight'
    BY <1>17, <1>21, <1>22 DEF LedgerRight
  <1>24. TradesAddUp'
    <2>1. \A i \in MarketOrderIds, side \in Sides : Executed(i, side)' = Executed(i, side)
      BY <1>17, <1>18, <1>e DEF Executed
    <2> QED BY <1>0, <1>9, <2>1, NothingExecuted
  <1> QED BY <1>0, <1>3, <1>9, <1>11, <1>23, <1>24 DEF EngineInv

-----------------------------------------------------------------------------
(* Every step keeps the invariant. *)
LEMMA EngineStep ==
    ASSUME NoAliasing, ~TailSends, EngineInv, [EngineNext]_allVars
    PROVE  EngineInv'
  <1>1. ASSUME NEW c \in ClientIds, NEW o \in OrderIds, NEW s \in Sides,
               NEW p \in Prices, NEW q \in Qtys, Accept(c, o, s, p, q), Send
        PROVE  EngineInv'
    BY <1>1, AcceptStepEngine
  <1>2. ASSUME NEW x \in Indices, Match(x), Send PROVE EngineInv'
    BY <1>2, MatchStepEngine
  <1>3. ASSUME Rest, Send PROVE EngineInv'
    BY <1>3, RestStepEngine
  <1>4. ASSUME Done, Send PROVE EngineInv'
    <2>1. IInv'
      BY <1>4, NextKeepsIInv DEF EngineInv, Next, Finish
    <2>2. responses' = << >> /\ updates' = << >>
      BY <1>4 DEF Done, TailResponse
    <2>3. snapshot' = snapshot /\ volume' = volume /\ ledger' = ledger
      BY <1>4, <2>2, NoUpdates, NoResponses
    <2>4. /\ order_pool_' = order_pool_ /\ next_market_order_id_' = next_market_order_id_
          /\ adding' = NULL /\ adding.leaves_qty = 0
      BY <1>4 DEF Done, bookVars
    <2> QED BY <2>1, <2>3, <2>4, QuietStepEngine
  <1>5. ASSUME NEW c \in ClientIds \cup {OtherClient}, NEW o \in OrderIds, Cancel(c, o), Send
        PROVE  EngineInv'
    BY <1>5, CancelStepEngine
  <1>6. ASSUME NEW c \in ClientIds \cup {OtherClient}, NEW o \in OrderIds,
               CancelReject(c, o), Send
        PROVE  EngineInv'
    <2>1. IInv'
      BY <1>6, NextKeepsIInv DEF EngineInv, Next
    <2>r. PICK r : r = Response("CANCEL_REJECTED", c, o, NULL, "INVALID", NULL, NULL, NULL)
      OBVIOUS
    <2>2. responses' = <<r>> /\ updates' = << >>
      BY <1>6, <2>r DEF CancelReject
    <2>3. Tell(ledger, r) = ledger
      BY <2>r DEF Tell, Response
    <2>4. snapshot' = snapshot /\ volume' = volume /\ ledger' = ledger
      BY <1>6, <2>2, <2>3, NoUpdates, OneResponse
    <2>5. /\ order_pool_' = order_pool_ /\ next_market_order_id_' = next_market_order_id_
          /\ adding' = adding
      BY <1>6 DEF CancelReject, bookVars
    <2> QED BY <2>1, <2>4, <2>5, QuietStepEngine
  <1>7. CASE UNCHANGED allVars
    <2>1. UNCHANGED vars /\ snapshot' = snapshot /\ volume' = volume /\ ledger' = ledger
      BY <1>7 DEF allVars
    <2>2. IInv'
      BY <2>1, NextKeepsIInv DEF EngineInv
    <2>3. /\ order_pool_' = order_pool_ /\ next_market_order_id_' = next_market_order_id_
          /\ adding' = adding
      BY <2>1 DEF vars, bookVars
    <2> QED BY <2>1, <2>2, <2>3, QuietStepEngine
  <1> QED BY <1>1, <1>2, <1>3, <1>4, <1>5, <1>6, <1>7
          DEF EngineNext, Next, Finish, MatchStep

LEMMA InitEngineInv == EngineInit => EngineInv
  <1> SUFFICES ASSUME EngineInit PROVE EngineInv
    OBVIOUS
  <1>1. /\ Init /\ snapshot = [orders |-> [i \in MarketOrderIds |-> NULL], ok |-> TRUE]
        /\ ledger = [i \in MarketOrderIds |-> NULL] /\ volume = 0
        /\ order_pool_ = [i \in MarketOrderIds |-> NULL] /\ adding = NULL
    BY DEF EngineInit, Init
  <1>2. IInv
    BY <1>1, InitIInv
  <1>3. Mirrors(snapshot, order_pool_)
    BY <1>1 DEF Mirrors, SnapshotType
  <1>4. LedgerRight
    <2>1. \A i \in MarketOrderIds : ledger[i] = NULL /\ order_pool_[i] = NULL
                                    /\ Underway(i) = NULL
      BY <1>1 DEF Underway
    <2> QED BY <1>1, <2>1 DEF LedgerRight, EntryRight
  <1>5. ASSUME NEW side \in Sides
        PROVE  SumsTo([i \in MarketOrderIds |-> Executed(i, side)], 0)
    <2>1. \A i \in MarketOrderIds : Executed(i, side) = 0
      BY <1>1 DEF Executed
    <2>s. PICK sum : sum = [k \in 0 .. MaxOrders |-> 0]
      OBVIOUS
    <2>2. sum \in [0 .. MaxOrders -> 0 .. 0] /\ sum[0] = 0 /\ sum[MaxOrders] = 0
      BY <2>s, BoundAssumption
    <2>3. \A i \in MarketOrderIds : sum[i] = 0 /\ sum[i - 1] = 0
      BY <2>s, BoundAssumption DEF MarketOrderIds
    <2>e. PICK e : e = [i \in MarketOrderIds |-> Executed(i, side)]
      OBVIOUS
    <2>4. \A i \in MarketOrderIds : sum[i] = sum[i - 1] + e[i]
      BY <2>1, <2>3, <2>e
    <2>5. SumsTo(e, 0)
      BY <2>2, <2>4 DEF SumsTo
    <2> QED BY <2>5, <2>e
  <1>6. TradesAddUp
    BY <1>1, <1>5 DEF TradesAddUp
  <1> QED BY <1>1, <1>2, <1>3, <1>4, <1>6 DEF EngineInv

(* EngineInv is an inductive invariant of the engine and its receivers. *)
THEOREM EngineInvariant == NoAliasing /\ ~TailSends => (EngineSpec => []EngineInv)
  <1> SUFFICES ASSUME NoAliasing, ~TailSends PROVE EngineSpec => []EngineInv
    OBVIOUS
  <1>1. EngineInv /\ [EngineNext]_allVars => EngineInv'
    BY EngineStep
  <1> QED BY <1>1, InitEngineInv, PTL DEF EngineSpec

(* The book the snapshot thread rebuilds from the updates is the engine's,  *)
(* and none of its ASSERTs fails (snapshot_synthesizer.cpp:35, 42-44, 53).  *)
THEOREM SnapshotIsBookHolds == NoAliasing /\ ~TailSends => (EngineSpec => []SnapshotIsBook)
  <1>1. EngineInv => SnapshotIsBook
    <2> SUFFICES ASSUME EngineInv PROVE SnapshotIsBook
      OBVIOUS
    <2>1. Mirrors(snapshot, order_pool_)
      BY DEF EngineInv
    <2> QED BY <2>1 DEF Mirrors, SnapshotIsBook, Live, Entry
  <1> QED BY <1>1, EngineInvariant, PTL

(* The responses of an order add up to its quantity, and what they leave    *)
(* open is what rests in the book or is still being matched.                *)
THEOREM LedgerAddsUpHolds == NoAliasing /\ ~TailSends => (EngineSpec => []LedgerAddsUp)
  <1>1. EngineInv => LedgerAddsUp
    <2> SUFFICES ASSUME EngineInv, NEW i \in MarketOrderIds, ledger[i] # NULL
                 PROVE  /\ ledger[i].ordered = ledger[i].exec + ledger[i].open
                                               + ledger[i].canceled
                        /\ ledger[i].open = IF i \in Live THEN order_pool_[i].qty_
                             ELSE IF adding # NULL /\ adding.market_order_id = i
                                  THEN adding.leaves_qty ELSE 0
      BY DEF LedgerAddsUp
    <2>1. EntryRight(ledger[i], order_pool_[i], Underway(i))
      BY DEF EngineInv, LedgerRight
    <2> QED BY <2>1 DEF EntryRight, Underway, Live
  <1> QED BY <1>1, EngineInvariant, PTL

(* What the clients were told they bought, what they were told they sold    *)
(* and what the TRADE updates print is the same quantity.                   *)
THEOREM TradesAddUpHolds == NoAliasing /\ ~TailSends => (EngineSpec => []TradesAddUp)
  <1>1. EngineInv => TradesAddUp
    BY DEF EngineInv
  <1> QED BY <1>1, EngineInvariant, PTL
=============================================================================
