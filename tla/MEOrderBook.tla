----------------------------- MODULE MEOrderBook -----------------------------
(***************************************************************************)
(* The limit order book of one instrument and its matching algorithm       *)
(* (exchange/matcher/me_order_book.{h,cpp}), run by the matching engine's  *)
(* thread.  One action is one stretch of that thread between two messages  *)
(* to the outside: the acceptance of an order, one fill, the resting of    *)
(* what is left, a cancel.                                                 *)
(*                                                                         *)
(* The circular list of a price level is the sequence of its orders, oldest*)
(* first.  The circular list of the levels of a side is the set of its     *)
(* levels; bids_by_price_ / asks_by_price_ point to the best of them, which*)
(* module PriceLevels shows the pointer code to maintain.                  *)
(*                                                                         *)
(* TailSends: lines 107 and 109 of me_order_book.cpp, the tail of cancel   *)
(* pasted behind add, are executed as they stand.  Line 106 between them   *)
(* names no variable of add and has no meaning; it is not modelled.        *)
(***************************************************************************)
EXTENDS Integers, Sequences

CONSTANTS ClientIds,           \* client ids below ME_MAX_NUM_CLIENTS
          OtherClient,         \* a client id that is not
          Prices, MaxPrice,    \* Prices \subseteq 0 .. MaxPrice
          Qtys,
          ME_MAX_PRICE_LEVELS,
          MaxOrders,           \* bound on the number of orders ever accepted
          FreshIds,            \* clients number their orders 1, 2, 3, ...
          TailSends,
          NULL                 \* nullptr

ASSUME PriceAssumption == MaxPrice \in Nat /\ Prices \subseteq 0 .. MaxPrice
ASSUME QtyAssumption == Qtys \subseteq Nat
ASSUME BoundAssumption == MaxOrders \in Nat
ASSUME LevelAssumption == ME_MAX_PRICE_LEVELS \in Nat \ {0}
ASSUME FlagAssumption == FreshIds \in BOOLEAN /\ TailSends \in BOOLEAN

Sides == {"BUY", "SELL"}

(* Faulty: orders are matched with those of their own side. *)
OppositeIsSame(side) == side

(* The side whose levels an order is matched with. *)
Opposite(side) == IF side = "BUY" THEN "SELL" ELSE "BUY"

MarketOrderIds == 1 .. MaxOrders
OrderIds == 1 .. MaxOrders       \* client order ids
Indices == 0 .. ME_MAX_PRICE_LEVELS - 1

MEOrder == [client_id_ : ClientIds, client_order_id_ : OrderIds,
            side_ : Sides, price_ : Prices, qty_ : Nat, priority_ : Nat]
MEOrdersAtPrice == [side_ : Sides, price_ : Prices, orders : Seq(MarketOrderIds)]

(* An add between its first response and its end. *)
Adding == [client_id : ClientIds, client_order_id : OrderIds, side : Sides,
           price : Prices, leaves_qty : Nat, market_order_id : MarketOrderIds]

ASSUME NullAssumption == /\ NULL \notin MEOrder /\ NULL \notin MEOrdersAtPrice
                         /\ NULL \notin Adding /\ NULL \notin MarketOrderIds

VARIABLES
  order_pool_,             \* market order id -> resting MEOrder, or NULL
  price_orders_at_price_,  \* index -> MEOrdersAtPrice, or NULL
  by_price,                \* side -> indices of the levels in its list
  cid_oid_to_order_,       \* client -> its order id -> market order id, or NULL
  next_market_order_id_,
  last_oid,                \* client -> last order id it used
  adding,                  \* the add under way, or NULL
  responses,               \* client responses sent by the last step, in order
  updates                  \* market updates sent by the last step, in order

bookVars == <<order_pool_, price_orders_at_price_, by_price, cid_oid_to_order_>>
vars == <<bookVars, next_market_order_id_, last_oid, adding, responses, updates>>

Init == /\ order_pool_ = [i \in MarketOrderIds |-> NULL]
        /\ price_orders_at_price_ = [x \in Indices |-> NULL]
        /\ by_price = [s \in Sides |-> {}]
        /\ cid_oid_to_order_ = [c \in ClientIds |-> [o \in OrderIds |-> NULL]]
        /\ next_market_order_id_ = 1
        /\ last_oid = [c \in ClientIds |-> 0]
        /\ adding = NULL
        /\ responses = <<>> /\ updates = <<>>

-----------------------------------------------------------------------------
(* Messages.  The ticker is that of the book and left out. *)

Response(type, client, oid, id, side, price, exec, leaves) ==
    [type |-> type, client_id |-> client, client_order_id |-> oid,
     market_order_id |-> id, side |-> side, price |-> price,
     exec_qty |-> exec, leaves_qty |-> leaves]

Update(type, id, side, price, qty, priority) ==
    [type |-> type, order_id |-> id, side |-> side, price |-> price,
     qty |-> qty, priority |-> priority]

-----------------------------------------------------------------------------
(* The level table. *)

priceToIndex(price) == price % ME_MAX_PRICE_LEVELS
getOrdersAtPrice(price) == price_orders_at_price_[priceToIndex(price)]

(* p is a better price than r on this side of the book. *)
Better(side, p, r) == IF side = "BUY" THEN p > r ELSE p < r

LevelPrice(x) == price_orders_at_price_[x].price_

(* The level bids_by_price_ / asks_by_price_ points to. *)
IsBest(side, x) == /\ x \in by_price[side]
                   /\ \A y \in by_price[side] : ~Better(side, LevelPrice(y), LevelPrice(x))

(* Faulty: the order that came last is filled first. *)
LastOrder(x) == LET s == price_orders_at_price_[x].orders IN s[Len(s)]

(* first_me_order_ of a level. *)
FirstOrder(x) == price_orders_at_price_[x].orders[1]

(* Faulty: the priority of the last order is given out again. *)
getLastPriority(price) ==
    LET level == getOrdersAtPrice(price)
    IN  IF level = NULL THEN 1 ELSE order_pool_[level.orders[Len(level.orders)]].priority_

getNextPriority(price) ==
    LET level == getOrdersAtPrice(price)
    IN  IF level = NULL THEN 1
        ELSE order_pool_[level.orders[Len(level.orders)]].priority_ + 1

(* Faulty: the neighbours of the removed order stay linked to it. *)
WithoutNothing(s, id) == s

(* Faulty: the first order is unlinked whichever is removed. *)
WithoutFirst(s, id) == Tail(s)

(* The list of a level without one of its orders. *)
Without(s, id) ==
    LET n == CHOOSE k \in 1 .. Len(s) : s[k] = id
    IN  [k \in 1 .. Len(s) - 1 |-> IF k < n THEN s[k] ELSE s[k + 1]]

(* addOrder: at the end of its level, or in a new level of its own. *)
addOrder(id, order) ==
    LET x == priceToIndex(order.price_)
        level == getOrdersAtPrice(order.price_)
    IN  /\ order_pool_' = [order_pool_ EXCEPT ![id] = order]
        /\ price_orders_at_price_' = [price_orders_at_price_ EXCEPT ![x] =
             IF level = NULL
             THEN [side_ |-> order.side_, price_ |-> order.price_, orders |-> <<id>>]
             ELSE [level EXCEPT !.orders = Append(@, id)]]
        /\ by_price' = IF level = NULL
                       THEN [by_price EXCEPT ![order.side_] = @ \cup {x}]
                       ELSE by_price
        /\ cid_oid_to_order_' =
             [cid_oid_to_order_ EXCEPT ![order.client_id_][order.client_order_id_] = id]

(* An order leaves its level; the last one takes the level with it. *)
unlinkOrder(id) ==
    LET order == order_pool_[id]
        x == priceToIndex(order.price_)
        level == getOrdersAtPrice(order.price_)
        only == Len(level.orders) = 1
    IN  /\ price_orders_at_price_' = [price_orders_at_price_ EXCEPT ![x] =
             IF only THEN NULL ELSE [level EXCEPT !.orders = Without(@, id)]]
        /\ by_price' = IF ~only THEN by_price
                       ELSE IF by_price[level.side_] = {x}
                            THEN [by_price EXCEPT ![order.side_] = {}]
                            ELSE [by_price EXCEPT ![level.side_] = @ \ {x}]

(* Faulty: the client's id goes on pointing to the freed order. *)
removeOrderKeepsId(id) ==
    /\ unlinkOrder(id)
    /\ order_pool_' = [order_pool_ EXCEPT ![id] = NULL]
    /\ UNCHANGED cid_oid_to_order_

removeOrder(id) ==
    /\ unlinkOrder(id)
    /\ order_pool_' = [order_pool_ EXCEPT ![id] = NULL]
    /\ cid_oid_to_order_' =
         [cid_oid_to_order_ EXCEPT ![order_pool_[id].client_id_]
                                   [order_pool_[id].client_order_id_] = NULL]

-----------------------------------------------------------------------------
(* MEOrderBook::add, up to the matching loop.  A client the map of order    *)
(* ids has no room for does not get here: the order server looks into       *)
(* tables of the same size before (order_server.h:64-77).                   *)
Accept(client, oid, side, price, qty) ==
    /\ adding = NULL
    /\ next_market_order_id_ \in MarketOrderIds
    /\ FreshIds => oid = last_oid[client] + 1
    /\ adding' = [client_id |-> client, client_order_id |-> oid, side |-> side,
                  price |-> price, leaves_qty |-> qty,
                  market_order_id |-> next_market_order_id_]
    /\ next_market_order_id_' = next_market_order_id_ + 1
    /\ last_oid' = [last_oid EXCEPT ![client] = oid]
    /\ responses' = <<Response("ACCEPTED", client, oid, next_market_order_id_,
                               side, price, 0, qty)>>
    /\ updates' = <<>>
    /\ UNCHANGED bookVars

(* Faulty: an order trades only at a price better than its limit. *)
MatchableInside(x) == /\ adding.leaves_qty > 0
                      /\ IsBest(Opposite(adding.side), x)
                      /\ Better(adding.side, adding.price,
                                order_pool_[FirstOrder(x)].price_)

(* The condition of the loops of checkForMatch: something is left, and the  *)
(* first order of the best level on the other side is no worse than the     *)
(* limit.                                                                   *)
Matchable(x) == /\ adding.leaves_qty > 0
                /\ IsBest(Opposite(adding.side), x)
                /\ ~Better(Opposite(adding.side), adding.price,
                           order_pool_[FirstOrder(x)].price_)

(* Faulty: as much is filled as the new order asks for. *)
FillAll(leaves, qty) == leaves

FillQty(leaves, qty) == IF leaves < qty THEN leaves ELSE qty

(* What subscribers are told of the resting order of a fill. *)
FillUpdate(id, order, left) ==
    IF left = 0 THEN Update("CANCEL", id, order.side_, order.price_, order.qty_, NULL)
    ELSE Update("MODIFY", id, order.side_, order.price_, left, order.priority_)

(* MEOrderBook::match with the first order of level x. *)
Match(x) ==
    /\ adding # NULL /\ Matchable(x)
    /\ LET id == FirstOrder(x)
           order == order_pool_[id]
           fill == FillQty(adding.leaves_qty, order.qty_)
           left == order.qty_ - fill
           leaves == adding.leaves_qty - fill
       IN  /\ adding' = [adding EXCEPT !.leaves_qty = leaves]
           /\ responses' =
                <<Response("FILLED", adding.client_id, adding.client_order_id,
                           adding.market_order_id, adding.side, order.price_, fill, leaves),
                  Response("FILLED", order.client_id_, order.client_order_id_,
                           id, order.side_, order.price_, fill, left)>>
           /\ updates' =
                <<Update("TRADE", NULL, adding.side, order.price_, fill, NULL),
                  FillUpdate(id, order, left)>>
           /\ IF left = 0
              THEN removeOrder(id)
              ELSE /\ order_pool_' = [order_pool_ EXCEPT ![id].qty_ = left]
                   /\ UNCHANGED <<price_orders_at_price_, by_price, cid_oid_to_order_>>
    /\ UNCHANGED <<next_market_order_id_, last_oid>>

NoMatch == adding # NULL /\ \A x \in by_price[Opposite(adding.side)] : ~Matchable(x)

(* The last response, sent once more (me_order_book.cpp:109). *)
TailResponse == IF TailSends THEN <<responses[Len(responses)]>> ELSE <<>>

(* The end of add when something is left: it rests in the book. *)
Rest ==
    /\ NoMatch /\ adding.leaves_qty > 0
    /\ LET priority == getNextPriority(adding.price)
           added == Update("ADD", adding.market_order_id, adding.side, adding.price,
                           adding.leaves_qty, priority)
       IN  /\ addOrder(adding.market_order_id,
                       [client_id_ |-> adding.client_id,
                        client_order_id_ |-> adding.client_order_id,
                        side_ |-> adding.side, price_ |-> adding.price,
                        qty_ |-> adding.leaves_qty, priority_ |-> priority])
           /\ updates' = IF TailSends THEN <<added, added>> ELSE <<added>>
    /\ responses' = TailResponse
    /\ adding' = NULL
    /\ UNCHANGED <<next_market_order_id_, last_oid>>

(* Faulty: what is left of an order is forgotten. *)
DoneEarly ==
    /\ NoMatch
    /\ responses' = TailResponse
    /\ updates' = <<>>
    /\ adding' = NULL
    /\ UNCHANGED <<bookVars, next_market_order_id_, last_oid>>

(* The end of add when nothing is left. *)
Done ==
    /\ NoMatch /\ adding.leaves_qty = 0
    /\ responses' = TailResponse
    /\ updates' = <<>>
    /\ adding' = NULL
    /\ UNCHANGED <<bookVars, next_market_order_id_, last_oid>>

(* MEOrderBook::cancel. *)
Target(client, oid) == IF client \in ClientIds THEN cid_oid_to_order_[client][oid] ELSE NULL

Cancel(client, oid) ==
    /\ adding = NULL
    /\ LET id == Target(client, oid)
           order == order_pool_[id]
       IN  /\ id # NULL
           /\ removeOrder(id)
           /\ updates' = <<Update("CANCEL", id, order.side_, order.price_, 0, order.priority_)>>
           /\ responses' = <<Response("CANCELED", client, oid, id, order.side_,
                                      order.price_, NULL, order.qty_)>>
    /\ UNCHANGED <<next_market_order_id_, last_oid, adding>>

CancelReject(client, oid) ==
    /\ adding = NULL
    /\ Target(client, oid) = NULL
    /\ responses' = <<Response("CANCEL_REJECTED", client, oid, NULL, "INVALID",
                               NULL, NULL, NULL)>>
    /\ updates' = <<>>
    /\ UNCHANGED <<bookVars, next_market_order_id_, last_oid, adding>>

-----------------------------------------------------------------------------
MatchStep == \E x \in Indices : Match(x)

(* What is left to do of an add; nothing in it waits for anybody. *)
Finish == MatchStep \/ Rest \/ Done

Next ==
    \/ \E c \in ClientIds, o \in OrderIds, s \in Sides, p \in Prices, q \in Qtys :
          Accept(c, o, s, p, q)
    \/ Finish
    \/ \E c \in ClientIds \cup {OtherClient}, o \in OrderIds :
          Cancel(c, o) \/ CancelReject(c, o)

Spec == Init /\ [][Next]_vars

-----------------------------------------------------------------------------
Live == {i \in MarketOrderIds : order_pool_[i] # NULL}
Levels == {x \in Indices : price_orders_at_price_[x] # NULL}
OrdersOf(x) == LET s == price_orders_at_price_[x].orders IN {s[k] : k \in 1 .. Len(s)}

TypeOK ==
    /\ order_pool_ \in [MarketOrderIds -> MEOrder \cup {NULL}]
    /\ price_orders_at_price_ \in [Indices -> MEOrdersAtPrice \cup {NULL}]
    /\ by_price \in [Sides -> SUBSET Indices]
    /\ cid_oid_to_order_ \in [ClientIds -> [OrderIds -> MarketOrderIds \cup {NULL}]]
    /\ next_market_order_id_ \in 1 .. MaxOrders + 1
    /\ last_oid \in [ClientIds -> Nat]
    /\ adding \in Adding \cup {NULL}

(* "Mapping from price to MEOrdersAtPrice" (me_order.h:82): the level found *)
(* for the price of a resting order is a level of that price and side, and  *)
(* the order is in it.                                                      *)
PriceMapping ==
    \A i \in Live :
      LET order == order_pool_[i]
          x == priceToIndex(order.price_)
      IN  /\ price_orders_at_price_[x] # NULL
          /\ price_orders_at_price_[x].price_ = order.price_
          /\ price_orders_at_price_[x].side_ = order.side_
          /\ i \in OrdersOf(x)

(* The lists of the two sides consist of the levels in the table, each of   *)
(* them on its own side, and none of them empty or holding a freed order or *)
(* one of another price or side.                                            *)
LevelLists ==
    /\ \A s \in Sides : by_price[s] = {x \in Levels : price_orders_at_price_[x].side_ = s}
    /\ \A x \in Levels :
         /\ Len(price_orders_at_price_[x].orders) > 0
         /\ priceToIndex(LevelPrice(x)) = x
         /\ \A i \in OrdersOf(x) :
              /\ i \in Live
              /\ order_pool_[i].price_ = LevelPrice(x)
              /\ order_pool_[i].side_ = price_orders_at_price_[x].side_

(* Within a level the list is in the order of arrival, and priority_, which *)
(* subscribers are told, says so too.                                       *)
TimePriority ==
    \A x \in Levels :
      LET s == price_orders_at_price_[x].orders
      IN  \A k, m \in 1 .. Len(s) : k < m =>
            /\ s[k] < s[m]
            /\ order_pool_[s[k]].priority_ < order_pool_[s[m]].priority_

(* Bids and offers that could trade with each other never both rest.        *)
NotCrossed ==
    \A i, j \in Live : order_pool_[i].side_ = "BUY" /\ order_pool_[j].side_ = "SELL"
                       => order_pool_[i].price_ < order_pool_[j].price_

(* A client can cancel exactly its resting orders: the map that cancel      *)
(* consults points to the order of that client and id, for each of them.    *)
OwnerMap ==
    FreshIds =>
      \A c \in ClientIds, o \in OrderIds, i \in MarketOrderIds :
        cid_oid_to_order_[c][o] = i <=>
          /\ i \in Live
          /\ order_pool_[i].client_id_ = c /\ order_pool_[i].client_order_id_ = o

(* A fill goes to the best price of the other side and there to the order   *)
(* that has waited longest; no other resting order is touched by an add.    *)
PriceTimePriority ==
    [][\A i \in Live : adding # NULL /\ order_pool_'[i] # order_pool_[i] =>
         \A j \in Live \ {i} : order_pool_[j].side_ = order_pool_[i].side_ =>
           /\ ~Better(order_pool_[i].side_, order_pool_[j].price_, order_pool_[i].price_)
           /\ order_pool_[j].price_ = order_pool_[i].price_ => i < j]_vars

=============================================================================
