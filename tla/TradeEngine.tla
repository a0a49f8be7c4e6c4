------------------------------ MODULE TradeEngine ------------------------------
(***************************************************************************)
(* What a client's trade engine makes of each market update, before its    *)
(* order manager comes in: the book (MarketOrderBook), the features        *)
(* (feature_engine.h), and the prices the two strategies move their orders *)
(* to (market_maker.h, liquidity_taker.h, trade_engine.cpp).  OrderManager *)
(* takes it from there, for any prices.                                    *)
(*                                                                         *)
(* An update is handled to the end before the next one is read, so that    *)
(* one exchange step with several updates is several rounds of all this.   *)
(* The features are doubles in the code and exact fractions here; n / 0 is *)
(* Feature_INVALID, a NaN, which is not at least anything.                 *)
(***************************************************************************)
EXTENDS MarketOrderBook

CONSTANTS threshold_   \* ticker_cfg_.threshold_, a fraction of Denominator
CONSTANT Denominator

ASSUME ThresholdAssumption == threshold_ \in Nat /\ Denominator \in Nat \ {0}

VARIABLES features,    \* mkt_price_ and agg_trade_qty_ratio_
          quote,       \* the last prices the market maker asked for
          take         \* the last price the liquidity taker asked for

engineVars == <<clientVars, features, quote, take>>

Fraction(n, d) == [n |-> n, d |-> d]
Feature_INVALID == Fraction(0, 0)
AtLeast(f, n, d) == f.d # 0 /\ f.n * d >= n * f.d

NoQuote == [bid |-> NULL, ask |-> NULL]
NoTake == [side |-> NULL, price |-> NULL]

bid(b) == b.bbo_["BUY"]
ask(b) == b.bbo_["SELL"]
BothValid(b) == bid(b).price # NULL /\ ask(b).price # NULL

-----------------------------------------------------------------------------
(* FeatureEngine::onOrderBookUpdate: the prices of the two sides, each with *)
(* the weight of the other.                                                 *)
mktPrice(b) == Fraction(bid(b).price * ask(b).qty + ask(b).price * bid(b).qty,
                        bid(b).qty + ask(b).qty)

(* Faulty: the ratio is taken to the aggressor's own side. *)
ratioToOwnSide(b, u) == Fraction(u.qty, b.bbo_[u.side].qty)

(* FeatureEngine::onTradeUpdate: the trade against what stood at the top of *)
(* the side it hit, which the book still has at this time.                  *)
aggTradeQtyRatio(b, u) ==
    Fraction(u.qty, IF u.side = "BUY" THEN ask(b).qty ELSE bid(b).qty)

(* Faulty: the tick goes to the wrong side. *)
makerQuoteInside(b, fair) ==
    [bid |-> bid(b).price + (IF AtLeast(Fraction(fair.n - bid(b).price * fair.d, fair.d),
                                        threshold_, Denominator) THEN 0 ELSE 1),
     ask |-> ask(b).price - (IF AtLeast(Fraction(ask(b).price * fair.d - fair.n, fair.d),
                                        threshold_, Denominator) THEN 0 ELSE 1)]

(* MarketMaker::onOrderBookUpdate: at the top of a side when the fair price *)
(* is far enough from it, one tick behind it otherwise.                     *)
makerQuote(b, fair) ==
    [bid |-> bid(b).price - (IF AtLeast(Fraction(fair.n - bid(b).price * fair.d, fair.d),
                                        threshold_, Denominator) THEN 0 ELSE 1),
     ask |-> ask(b).price + (IF AtLeast(Fraction(ask(b).price * fair.d - fair.n, fair.d),
                                        threshold_, Denominator) THEN 0 ELSE 1)]

(* TradeEngine::onOrderBookUpdate: the feature engine, then the strategy. *)
onOrderBookUpdate(e) ==
    IF ~BothValid(e.book) THEN e
    ELSE LET fair == mktPrice(e.book)
         IN  [e EXCEPT !.features.mkt_price_ = fair, !.quote = makerQuote(e.book, fair)]

(* LiquidityTaker::onTradeUpdate: it follows a large trade at the price     *)
(* that was hit.                                                            *)
takerOrder(e, u) ==
    IF AtLeast(e.features.agg_trade_qty_ratio_, threshold_, Denominator)
    THEN [side |-> u.side,
          price |-> IF u.side = "BUY" THEN ask(e.book).price ELSE bid(e.book).price]
    ELSE e.take

(* TradeEngine::onTradeUpdate: the feature engine, then the strategy. *)
onTradeUpdate(e, u) ==
    IF ~BothValid(e.book) THEN e
    ELSE LET seen == [e EXCEPT !.features.agg_trade_qty_ratio_ = aggTradeQtyRatio(e.book, u)]
         IN  [seen EXCEPT !.take = takerOrder(seen, u)]

(* One update taken from the queue, with the calls the book makes of it. *)
process(e, u) ==
    LET after == [e EXCEPT !.book = onMarketUpdate(@, u)]
    IN  IF after.book.fault # "none" THEN after
        ELSE IF u.type = "TRADE" THEN onTradeUpdate(after, u) ELSE onOrderBookUpdate(after)

(* TradeEngine::run, over what the queue holds. *)
ProcessAll(e, us) ==
    LET after[k \in 0 .. Len(us)] == IF k = 0 THEN e ELSE process(after[k - 1], us[k])
    IN  after[Len(us)]

Engine == [book |-> book, features |-> features, quote |-> quote, take |-> take]

Handle(us) == LET after == ProcessAll(Engine, us)
              IN  features' = after.features /\ quote' = after.quote /\ take' = after.take

-----------------------------------------------------------------------------
TradeInit == /\ ClientInit
             /\ features = [mkt_price_ |-> Feature_INVALID,
                            agg_trade_qty_ratio_ |-> Feature_INVALID]
             /\ quote = NoQuote /\ take = NoTake

OnUpdates == Deliver /\ Handle(updates')
OnSnapshot == Recover /\ Handle(Snapshot)
OnNothing == Miss /\ UNCHANGED <<features, quote, take>>

TradeNext == OnUpdates \/ OnSnapshot \/ OnNothing

TradeSpec == TradeInit /\ [][TradeNext]_engineVars

(* What the future depends on: the messages of the last step are kept for   *)
(* other modules' properties only, and TLC need not tell states by them.    *)
EngineView == <<bookVars, next_market_order_id_, last_oid, adding, book, feed, losses,
                features, quote, take>>

-----------------------------------------------------------------------------
(* "Used by the market making algorithm to manage its passive orders"       *)
(* (market_maker.h:71): it never asks for a bid at or above its own ask, in *)
(* which case the client would trade with itself (market_maker.h:35-36).    *)
NotCrossedWithItself ==
    book.fault = "none" /\ quote # NoQuote => quote.bid < quote.ask

(* As long as no update is lost they do not cross, whatever the updates     *)
(* within one step of the exchange do to the book on the way.               *)
QuotesNeverCross == losses = 0 => NotCrossedWithItself

(* A trade is never larger than the quantity at the top of the side it hit: *)
(* the ratio the liquidity taker acts on is at most 1, as TRADE comes before*)
(* the order it fills is changed (feature_engine.h:31).                     *)
RatioAtMostOne ==
    losses = 0 /\ features.agg_trade_qty_ratio_.d # 0 =>
      features.agg_trade_qty_ratio_.n <= features.agg_trade_qty_ratio_.d
=============================================================================
