---------------------------- MODULE OrderManager ----------------------------
(***************************************************************************)
(* The orders of one trading client in one instrument: the OrderManager,   *)
(* RiskManager and position of its TradeEngine, and the exchange at the    *)
(* other end of two queues (trading/strategy/order_manager.{h,cpp},        *)
(* risk_manager.h, position_keeper.h, trade_engine.cpp, market_maker.h,    *)
(* liquidity_taker.h).                                                     *)
(*                                                                         *)
(* The trade engine is one thread: a client response and an order book or  *)
(* trade update are each handled in one step.  What it sends and what is   *)
(* sent back stay under way for any time, in order: module LFQueue and     *)
(* module OrderServer are about these queues.  The exchange of this module *)
(* is the part of MEOrderBook that one client sees: its orders, which      *)
(* others fill at any time, piece by piece.                                *)
(***************************************************************************)
EXTENDS Integers, Sequences, FiniteSetsExt, Functions

CONSTANTS Prices,
          Price_INVALID,
          Clip,            \* ticker_cfg_.clip_, the quantity of every order
          max_order_size_, max_position_,
          MaxOrders        \* bound on the number of orders of the client

ASSUME PriceAssumption == Prices \subseteq Nat /\ Price_INVALID \notin Prices
ASSUME ClipAssumption == Clip \in Nat \ {0}
ASSUME RiskAssumption == max_order_size_ \in Nat /\ max_position_ \in Nat
ASSUME BoundAssumption == MaxOrders \in Nat

Sides == {"BUY", "SELL"}
AlgoTypes == {"MAKER", "TAKER"}
OMOrderStates == {"INVALID", "PENDING_NEW", "LIVE", "PENDING_CANCEL", "DEAD"}
OrderIds == 1 .. MaxOrders
OrderId_INVALID == 0
Qtys == 0 .. Clip

OMOrder == [order_id_ : OrderIds \cup {OrderId_INVALID},
            price_ : Prices \cup {Price_INVALID},
            qty_ : Qtys, order_state_ : OMOrderStates]

VARIABLES
  algo_type,           \* the strategy of the client, fixed by its constructor
  ticker_side_order_,  \* side -> the one OMOrder of that side
  next_order_id_,
  position_,
  requests,            \* sent by the trade engine, not yet at the exchange
  responses,           \* sent by the exchange, not yet at the trade engine
  resting,             \* the exchange's orders of this client: id -> side, qty
  net                  \* bought less sold by this client, at the exchange

clientVars == <<ticker_side_order_, next_order_id_, position_>>
vars == <<algo_type, clientVars, requests, responses, resting, net>>

NoOrder == [order_id_ |-> OrderId_INVALID, price_ |-> Price_INVALID, qty_ |-> 0,
            order_state_ |-> "INVALID"]

Init == /\ algo_type \in AlgoTypes
        /\ ticker_side_order_ = [s \in Sides |-> NoOrder]
        /\ next_order_id_ = 1
        /\ position_ = 0
        /\ requests = <<>> /\ responses = <<>>
        /\ resting = [id \in {} |-> NoOrder]
        /\ net = 0

sideToValue(side) == IF side = "BUY" THEN 1 ELSE -1
Abs(n) == IF n < 0 THEN -n ELSE n

Request(type, id, side, qty) ==
    [type |-> type, order_id |-> id, side |-> side, qty |-> qty]
Response(type, id, side, exec, leaves) ==
    [type |-> type, client_order_id |-> id, side |-> side,
     exec_qty |-> exec, leaves_qty |-> leaves]

-----------------------------------------------------------------------------
(* The trade engine: quoting. *)

(* Faulty: the order to be sent is left out of the position it leads to. *)
checkPositionOnly(side, qty, loss) ==
    CASE qty > max_order_size_          -> "ORDER_TOO_LARGE"
      [] Abs(position_) > max_position_ -> "POSITION_TOO_LARGE"
      [] loss                           -> "LOSS_TOO_LARGE"
      [] OTHER                          -> "ALLOWED"

(* The profit and loss the check looks at is not modelled: loss says       *)
(* whether it is below max_loss_.                                          *)
checkPreTradeRisk(side, qty, loss) ==
    CASE qty > max_order_size_ -> "ORDER_TOO_LARGE"
      [] Abs(position_ + sideToValue(side) * qty) > max_position_ -> "POSITION_TOO_LARGE"
      [] loss                  -> "LOSS_TOO_LARGE"
      [] OTHER                 -> "ALLOWED"

(* Faulty: an order waiting to be canceled counts as gone. *)
FreeOnceCanceling == {"INVALID", "DEAD", "PENDING_CANCEL"}

(* The states of an order whose place a new one may take. *)
Free == {"INVALID", "DEAD"}

(* moveOrder: the OMOrder after it, and the requests it sends. *)
newOrder(id, side, price) ==
    [order |-> [order_id_ |-> id, price_ |-> price, qty_ |-> Clip,
                order_state_ |-> "PENDING_NEW"],
     sent  |-> <<Request("NEW", id, side, Clip)>>]

cancelOrder(order, side) ==
    [order |-> [order EXCEPT !.order_state_ = "PENDING_CANCEL"],
     sent  |-> <<Request("CANCEL", order.order_id_, side, order.qty_)>>]

moveOrder(id, side, price, loss) ==
    LET order == ticker_side_order_[side]
    IN  CASE order.order_state_ = "LIVE" /\ order.price_ # price -> cancelOrder(order, side)
          [] /\ order.order_state_ \in Free
             /\ price # Price_INVALID
             /\ checkPreTradeRisk(side, Clip, loss) = "ALLOWED"
             /\ id <= MaxOrders                                  -> newOrder(id, side, price)
          [] OTHER -> [order |-> order, sent |-> <<>>]

(* moveOrders: the bid first, then the ask, in one call. *)
moveOrders(bid_price, ask_price, loss) ==
    LET bid == moveOrder(next_order_id_, "BUY", bid_price, loss)
        id  == IF bid.order.order_id_ = next_order_id_ THEN next_order_id_ + 1
                                                       ELSE next_order_id_
        ask == moveOrder(id, "SELL", ask_price, loss)
    IN  /\ ticker_side_order_' = [s \in Sides |-> IF s = "BUY" THEN bid.order ELSE ask.order]
        /\ next_order_id_' = IF ask.order.order_id_ = id THEN id + 1 ELSE id
        /\ requests' = requests \o bid.sent \o ask.sent

(* MarketMaker::onOrderBookUpdate quotes both sides, at prices it takes    *)
(* from the client's own book: nothing here depends on that book being     *)
(* right.                                                                  *)
MakeMarket == /\ algo_type = "MAKER"
              /\ \E bid, ask \in Prices, loss \in BOOLEAN : moveOrders(bid, ask, loss)
              /\ UNCHANGED <<algo_type, position_, responses, resting, net>>

(* LiquidityTaker::onTradeUpdate follows a large trade on its own side     *)
(* only.                                                                   *)
TakeLiquidity == /\ algo_type = "TAKER"
                 /\ \E price \in Prices, loss \in BOOLEAN :
                        \/ moveOrders(price, Price_INVALID, loss)
                        \/ moveOrders(Price_INVALID, price, loss)
                 /\ UNCHANGED <<algo_type, position_, responses, resting, net>>

-----------------------------------------------------------------------------
(* The trade engine: client responses. *)

(* Faulty: an order filled to the end stays as it is. *)
FilledGoesOn(order, r) == [order EXCEPT !.qty_ = r.leaves_qty]

Filled(order, r) ==
    [order EXCEPT !.qty_ = r.leaves_qty,
                  !.order_state_ = IF r.leaves_qty = 0 THEN "DEAD" ELSE @]

(* The order after a response of its side, whatever order the response is  *)
(* about.                                                                  *)
AfterResponse(order, r) ==
    CASE r.type = "ACCEPTED" -> [order EXCEPT !.order_state_ = "LIVE"]
      [] r.type = "CANCELED" -> [order EXCEPT !.order_state_ = "DEAD"]
      [] r.type = "FILLED"   -> Filled(order, r)
      [] OTHER               -> order

(* TradeEngine::onOrderUpdate: the position keeper, then the strategy and  *)
(* by it the order manager.  A rejected cancel names no side and finds an  *)
(* OMOrder nobody uses.                                                    *)
OnOrderUpdate ==
    /\ responses # <<>>
    /\ LET r == Head(responses)
       IN  /\ position_' = IF r.type = "FILLED"
                           THEN position_ + sideToValue(r.side) * r.exec_qty ELSE position_
           /\ ticker_side_order_' =
                  [s \in Sides |-> IF s = r.side THEN AfterResponse(ticker_side_order_[s], r)
                                                 ELSE ticker_side_order_[s]]
    /\ responses' = Tail(responses)
    /\ UNCHANGED <<algo_type, next_order_id_, requests, resting, net>>

-----------------------------------------------------------------------------
(* The exchange. *)

ProcessNew ==
    /\ requests # <<>> /\ Head(requests).type = "NEW"
    /\ LET q == Head(requests)
       IN  /\ resting' = [id \in DOMAIN resting \cup {q.order_id} |->
                             IF id = q.order_id THEN [side |-> q.side, qty |-> q.qty]
                                                ELSE resting[id]]
           /\ responses' = Append(responses, Response("ACCEPTED", q.order_id, q.side, 0, q.qty))
    /\ requests' = Tail(requests)
    /\ UNCHANGED <<algo_type, clientVars, net>>

ProcessCancel ==
    /\ requests # <<>> /\ Head(requests).type = "CANCEL"
    /\ LET q == Head(requests)
       IN  \/ /\ q.order_id \in DOMAIN resting
              /\ resting' = Restrict(resting, DOMAIN resting \ {q.order_id})
              /\ responses' = Append(responses,
                     Response("CANCELED", q.order_id, q.side, 0, resting[q.order_id].qty))
           \/ /\ q.order_id \notin DOMAIN resting
              /\ responses' = Append(responses,
                     Response("CANCEL_REJECTED", q.order_id, "INVALID", 0, 0))
              /\ UNCHANGED resting
    /\ requests' = Tail(requests)
    /\ UNCHANGED <<algo_type, clientVars, net>>

(* An order meets one of another client, as it comes or while it rests. *)
Fill(id, exec) ==
    /\ exec <= resting[id].qty
    /\ LET order == resting[id]
           leaves == order.qty - exec
       IN  /\ resting' = IF leaves = 0 THEN Restrict(resting, DOMAIN resting \ {id})
                                       ELSE [resting EXCEPT ![id].qty = leaves]
           /\ responses' = Append(responses, Response("FILLED", id, order.side, exec, leaves))
           /\ net' = net + sideToValue(order.side) * exec
    /\ UNCHANGED <<algo_type, clientVars, requests>>

FillSome == \E id \in DOMAIN resting, exec \in 1 .. Clip : Fill(id, exec)

Next == MakeMarket \/ TakeLiquidity \/ OnOrderUpdate \/ ProcessNew \/ ProcessCancel \/ FillSome

Spec == Init /\ [][Next]_vars

(* The threads run forever: a request is processed and a response handled. *)
(* Nobody is bound to fill an order, and no strategy to quote.             *)
FairSpec == Spec /\ WF_vars(OnOrderUpdate) /\ WF_vars(ProcessNew) /\ WF_vars(ProcessCancel)

-----------------------------------------------------------------------------
(* The orders of a side that are, or will be, at the exchange. *)
NewRequests(side) == {n \in DOMAIN requests :
                         requests[n].type = "NEW" /\ requests[n].side = side}
Working(side) == {id \in DOMAIN resting : resting[id].side = side}

(* An order counts against its side from the request to the last fill or   *)
(* cancel at the exchange, whatever the client has heard of it: there is   *)
(* never a second one beside it, and none when the OMOrder is free or      *)
(* never came to be.  onOrderUpdate looks at the side of a response only,  *)
(* not at its order id: this is why that is enough.                        *)
OneOrderPerSide ==
    \A s \in Sides :
        /\ Cardinality(NewRequests(s)) + Cardinality(Working(s)) <= 1
        /\ ticker_side_order_[s].order_state_ \in Free =>
               NewRequests(s) = {} /\ Working(s) = {}

(* Once everything sent has been handled, the order manager and the        *)
(* exchange agree: a LIVE OMOrder is a resting order of the same id and    *)
(* quantity, any other is none, and the position is what was traded.       *)
AgreesWhenQuiet ==
    requests = <<>> /\ responses = <<>> =>
        /\ position_ = net
        /\ \A s \in Sides : LET o == ticker_side_order_[s]
                            IN  IF o.order_state_ = "LIVE"
                                THEN /\ Working(s) = {o.order_id_}
                                     /\ resting[o.order_id_].qty = o.qty_
                                ELSE o.order_state_ \in Free /\ Working(s) = {}

(* What the client has really bought less sold never exceeds max_position_,*)
(* although the check sees neither the fills under way nor the order of    *)
(* the other side.                                                         *)
PositionWithinLimit == Abs(net) <= max_position_

(* A cancel that has been sent, be it answered, rejected or overtaken by   *)
(* the last fill, ends with the OMOrder free for the next one.             *)
CancelEnds == \A s \in Sides : ticker_side_order_[s].order_state_ = "PENDING_CANCEL"
                                 ~> ticker_side_order_[s].order_state_ = "DEAD"
=============================================================================
