--------------------------- MODULE MarketOrderBook ---------------------------
(***************************************************************************)
(* A client's copy of the order book of one instrument                     *)
(* (trading/strategy/market_order_book.{h,cpp}), driven by the market      *)
(* updates of the exchange's book.  While the feed is live every update is *)
(* applied in the step that sends it (modules LFQueue and MarketData are   *)
(* about the way in between).  When the market data consumer misses one it *)
(* delivers nothing until it has recovered; then it delivers a snapshot:   *)
(* CLEAR, and one ADD for each resting order, by order id                  *)
(* (snapshot_synthesizer.cpp:80-100).                                      *)
(*                                                                         *)
(* The client's book is one record.  fault says that the code has used a   *)
(* null pointer or a level it had deallocated; nothing after that is       *)
(* modelled.                                                               *)
(***************************************************************************)
EXTENDS MEOrderBook

CONSTANT MaxLosses     \* bound on the number of times the feed is lost

ASSUME LossAssumption == MaxLosses \in Nat

MarketOrders == [side_ : Sides, price_ : Prices, qty_ : Nat, priority_ : Nat]

ASSUME MarketOrderAssumption == NULL \notin MarketOrders

VARIABLES book,        \* the client's book
          feed,        \* "live" or "recovering"
          losses

clientVars == <<vars, book, feed, losses>>

Empty == [oid_to_order_ |-> [i \in MarketOrderIds |-> NULL],
          price_orders_at_price_ |-> [x \in Indices |-> NULL],
          by_price |-> [s \in Sides |-> {}],
          bbo_ |-> [s \in Sides |-> [price |-> NULL, qty |-> NULL]],
          fault |-> "none"]

-----------------------------------------------------------------------------
LevelAt(b, price) == b.price_orders_at_price_[priceToIndex(price)]

(* The level bids_by_price_ / asks_by_price_ points to, of a side with one. *)
BestLevel(b, side) ==
    LET level(x) == b.price_orders_at_price_[x]
    IN  level(CHOOSE x \in b.by_price[side] :
                \A y \in b.by_price[side] : ~Better(side, level(y).price_, level(x).price_))

(* Faulty: only a better price than the best one counts. *)
IsUpdatedBetter(b, u, side) == /\ u.side = side /\ b.by_price[side] # {}
                               /\ Better(side, u.price, BestLevel(b, side).price_)

(* bid_updated / ask_updated of onMarketUpdate, before the update. *)
IsUpdated(b, u, side) == /\ u.side = side /\ b.by_price[side] # {}
                         /\ ~Better(side, BestLevel(b, side).price_, u.price)

(* The loop of updateBBO over the quantities of a level. *)
Total(qtys) ==
    LET total[k \in 0 .. Len(qtys)] == IF k = 0 THEN 0 ELSE total[k - 1] + qtys[k]
    IN  total[Len(qtys)]

QtysOf(b, orders) == [k \in 1 .. Len(orders) |-> b.oid_to_order_[orders[k]].qty_]

(* updateBBO for one side. *)
TopOf(b, side) ==
    IF b.by_price[side] = {} THEN [price |-> NULL, qty |-> NULL]
    ELSE LET level == BestLevel(b, side)
         IN  [price |-> level.price_, qty |-> Total(QtysOf(b, level.orders))]

(* Faulty: the new order goes to the front of its level. *)
Prepended(s, id) == <<id>> \o s

(* The end of the circular list of a level. *)
Appended(s, id) == Append(s, id)

(* The order of an ADD, and its level when it is the first there. *)
MarketOrder(u) ==
    [side_ |-> u.side, price_ |-> u.price, qty_ |-> u.qty, priority_ |-> u.priority]
MarketOrdersAtPrice(u) ==
    [side_ |-> u.side, price_ |-> u.price, orders |-> <<u.order_id>>]

(* ADD.  A level that is in the table but in no list has been deallocated. *)
AddOrder(b, u) ==
    LET x == priceToIndex(u.price)
        level == LevelAt(b, u.price)
    IN  IF level # NULL /\ \A s \in Sides : x \notin b.by_price[s]
        THEN [b EXCEPT !.fault = "deallocated level"]
        ELSE [b EXCEPT
                !.oid_to_order_[u.order_id] = MarketOrder(u),
                !.price_orders_at_price_[x] =
                   IF level = NULL THEN MarketOrdersAtPrice(u)
                   ELSE [level EXCEPT !.orders = Appended(@, u.order_id)],
                !.by_price[u.side] = IF level = NULL THEN @ \cup {x} ELSE @]

ModifyOrder(b, u) ==
    IF b.oid_to_order_[u.order_id] = NULL THEN [b EXCEPT !.fault = "null"]
    ELSE [b EXCEPT !.oid_to_order_[u.order_id].qty_ = u.qty]

(* CANCEL: the order leaves its level, the last one takes the level along.  *)
CancelOrder(b, u) ==
    LET order == b.oid_to_order_[u.order_id]
    IN  IF order = NULL THEN [b EXCEPT !.fault = "null"]
        ELSE LET x == priceToIndex(order.price_)
                 orders == LevelAt(b, order.price_).orders
             IN  IF Len(orders) = 1
                 THEN [b EXCEPT !.oid_to_order_[u.order_id] = NULL,
                                !.price_orders_at_price_[x] = NULL,
                                !.by_price[order.side_] = @ \ {x}]
                 ELSE [b EXCEPT !.oid_to_order_[u.order_id] = NULL,
                                !.price_orders_at_price_[x].orders = Without(@, u.order_id)]

(* CLEAR: the orders are forgotten and the lists emptied; the table of      *)
(* levels keeps its pointers.                                               *)
Clear(b) == [b EXCEPT !.oid_to_order_ = [i \in MarketOrderIds |-> NULL],
                      !.by_price = [s \in Sides |-> {}]]

Applied(b, u) == CASE u.type = "ADD"    -> AddOrder(b, u)
                   [] u.type = "MODIFY" -> ModifyOrder(b, u)
                   [] u.type = "CANCEL" -> CancelOrder(b, u)
                   [] u.type = "CLEAR"  -> Clear(b)

(* MarketOrderBook::onMarketUpdate.  A TRADE only notifies the strategy. *)
onMarketUpdate(b, u) ==
    IF b.fault # "none" \/ u.type = "TRADE" THEN b
    ELSE LET after == Applied(b, u)
         IN  IF after.fault # "none" THEN after
             ELSE [after EXCEPT !.bbo_ = [s \in Sides |->
                     IF IsUpdated(b, u, s) THEN TopOf(after, s) ELSE @[s]]]

(* One update after the other. *)
ApplyAll(b, us) ==
    LET after[k \in 0 .. Len(us)] ==
          IF k = 0 THEN b ELSE onMarketUpdate(after[k - 1], us[k])
    IN  after[Len(us)]

-----------------------------------------------------------------------------
ClientInit == Init /\ book = Empty /\ feed = "live" /\ losses = 0

(* The exchange's updates reach the client. *)
Deliver == /\ book.fault = "none" /\ feed = "live"
           /\ Next
           /\ book' = ApplyAll(book, updates')
           /\ UNCHANGED <<feed, losses>>

(* Faulty: a gap in the numbers is not noticed. *)
MissUnnoticed == /\ book.fault = "none"
                 /\ Next /\ updates' # <<>>
                 /\ losses < MaxLosses /\ losses' = losses + 1
                 /\ UNCHANGED <<book, feed>>

(* An update is lost, or comes while the consumer is recovering. *)
Miss == /\ book.fault = "none"
        /\ Next /\ updates' # <<>>
        /\ \/ feed = "live" /\ losses < MaxLosses /\ losses' = losses + 1
           \/ feed = "recovering" /\ UNCHANGED losses
        /\ feed' = "recovering"
        /\ UNCHANGED book

ClearUpdate == Update("CLEAR", NULL, "INVALID", NULL, NULL, NULL)
AddUpdate(id) == LET order == order_pool_[id]
                 IN  Update("ADD", id, order.side_, order.price_, order.qty_, order.priority_)

(* The updates the consumer passes on of a snapshot. *)
Snapshot ==
    LET sent[id \in 0 .. MaxOrders] ==
          IF id = 0 THEN <<ClearUpdate>>
          ELSE IF id \in Live THEN Append(sent[id - 1], AddUpdate(id)) ELSE sent[id - 1]
    IN  sent[MaxOrders]

Recover == /\ book.fault = "none" /\ feed = "recovering"
           /\ book' = ApplyAll(book, Snapshot)
           /\ feed' = "live"
           /\ UNCHANGED <<vars, losses>>

ClientNext == Deliver \/ Miss \/ Recover

ClientSpec == ClientInit /\ [][ClientNext]_clientVars

-----------------------------------------------------------------------------
Sound == feed = "live" /\ book.fault = "none"

(* On a live feed the client's book is the exchange's: the same orders with *)
(* the same remaining quantities and priorities, at every price in the same *)
(* queue, on the same side - also after a recovery.                         *)
BookIsExchangeBook ==
    Sound =>
      /\ \A i \in MarketOrderIds :
           IF i \in Live
           THEN book.oid_to_order_[i] =
                  [side_ |-> order_pool_[i].side_, price_ |-> order_pool_[i].price_,
                   qty_ |-> order_pool_[i].qty_, priority_ |-> order_pool_[i].priority_]
           ELSE book.oid_to_order_[i] = NULL
      /\ book.by_price = by_price
      /\ \A s \in Sides, x \in Indices :
           x \in by_price[s] => book.price_orders_at_price_[x] = price_orders_at_price_[x]

(* MODIFY and CANCEL never name an order the client does not have: the code *)
(* would dereference a null pointer (market_order_book.cpp:34-35, 39-41).   *)
OrdersAreKnown == book.fault # "null"

(* As long as the feed is not lost the BBO that the strategies quote by is  *)
(* never wrong: a side of it is the best price with the whole quantity at   *)
(* that price, or says that none is known.                                  *)
BBONeverWrong ==
    Sound /\ losses = 0 => \A s \in Sides : \/ book.bbo_[s].price = NULL
                                          \/ book.bbo_[s] = TopOf(book, s)

(* "the two boolean parameters represent if the buy or the sekk (or both)   *)
(* sides or both need to be updated" (market_order_book.h:26): after every  *)
(* update the BBO is the top of the book.                                   *)
BBOIsTop == Sound => \A s \in Sides : book.bbo_[s] = TopOf(book, s)

(* "Clear the full limit order book and deallocate MarketOrdersAtPrice and  *)
(* MarketOrder objects" (market_order_book.cpp:50): a deallocated level is  *)
(* no longer part of the book when the next order is added.                 *)
ClearedFully == book.fault # "deallocated level"
=============================================================================
