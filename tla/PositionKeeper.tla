--------------------------- MODULE PositionKeeper ---------------------------
(***************************************************************************)
(* PositionInfo (trading/strategy/position_keeper.h): position, average    *)
(* open prices and profit of one client in one instrument, from its fills  *)
(* and the best bid and offer.  RiskManager stops quoting by total_pnl_.   *)
(*                                                                         *)
(* Money is counted in halves of a price step, what the middle of a BBO    *)
(* needs: the doubles of the code without their rounding.                  *)
(***************************************************************************)
EXTENDS Integers

CONSTANTS Prices, Price_INVALID, Qtys,
          MaxPosition, MaxFills,   \* bounds on the position and on the number of fills
          Half,             \* position_ is of -Half .. Half - 1; 2^31 in the code
          FirstVwaps        \* what open_vwap_, which nothing initialises, may hold

ASSUME PriceAssumption == Prices \subseteq Nat /\ Price_INVALID \notin Prices
ASSUME QtyAssumption == Qtys \subseteq Nat \ {0}
ASSUME BoundAssumption == /\ MaxPosition \in Nat /\ MaxFills \in Nat
                          /\ Half \in Nat /\ MaxPosition < Half
ASSUME MemoryAssumption == FirstVwaps \subseteq Int

Sides == {"BUY", "SELL"}

VARIABLES info,      \* the PositionInfo
          held,      \* history: what was bought less what was sold
          cash,      \* history: the same in money, since the position was last flat
          sides,     \* history: the sides of the fills since then
          clean,     \* history: open_vwap_ was zero at first or has been cleared
          mark,      \* history: the price the position was last valued at
          fills      \* history: number of fills

vars == <<info, held, cash, sides, clean, mark, fills>>

Init == /\ \E first \in [Sides -> FirstVwaps] :
             /\ info = [position_ |-> 0, real_pnl_ |-> 0, unreal_pnl_ |-> 0, total_pnl_ |-> 0,
                        open_vwap_ |-> first]
             /\ clean = (\A s \in Sides : first[s] = 0)
        /\ held = 0 /\ cash = 0 /\ sides = {} /\ mark = 0 /\ fills = 0

(* sideToValue makes a size_t of the side, SELL is 2^64 - 1.  position_     *)
(* keeps the low half of the sums and products with it, and the high half   *)
(* makes no difference to the one comparison, so the width is position_'s.  *)
Word == 2 * Half
sideToValue(side) == IF side = "BUY" THEN 1 ELSE Word - 1
int32_t(n) == IF n % Word < Half THEN n % Word ELSE (n % Word) - Word

Opposite(side) == IF side = "BUY" THEN "SELL" ELSE "BUY"
Abs(n) == IF n < 0 THEN -n ELSE n
Lesser(a, b) == IF a < b THEN a ELSE b

(* old_position becomes a size_t, too, and the product is not below 0:      *)
(* every fill "opened / increased position" (EveryFillOpens is the proof).  *)
Opens(old, side) == (old * sideToValue(side)) % Word >= 0

Opened(i, side, price, qty) == [i EXCEPT !.open_vwap_[side] = @ + price * qty]

(* The branch for a fill against the position, which no value of the type   *)
(* of sideToValue leads to; i.position_ is the position after the fill.     *)
Decreased(i, old, side, price, qty) ==
    LET opp == Opposite(side)
        average == i.open_vwap_[opp] \div Abs(old)
        rest == Abs(i.position_)
        flipped == i.position_ * old < 0
    IN  [i EXCEPT !.real_pnl_ = @ + Lesser(qty, Abs(old)) * (average - price) * sideToValue(side),
                  !.open_vwap_ = [s \in Sides |->
                     IF s = opp THEN IF flipped THEN 0 ELSE average * rest
                                ELSE IF flipped THEN price * rest ELSE @[s]]]

(* Faulty: the average price of the other side is taken. *)
unrealisedOther(i, price) ==
    IF i.position_ > 0 THEN price * i.position_ - i.open_vwap_["SELL"]
                       ELSE i.open_vwap_["BUY"] + price * i.position_

(* unreal_pnl_ at a price; the division by the position and the             *)
(* multiplication with it cancel.                                           *)
unrealised(i, price) ==
    IF i.position_ > 0 THEN price * i.position_ - i.open_vwap_["BUY"]
                       ELSE i.open_vwap_["SELL"] + price * i.position_

Valued(i, unreal) == [i EXCEPT !.unreal_pnl_ = unreal, !.total_pnl_ = unreal + i.real_pnl_]

(* PositionInfo::addFill. *)
addFill(side, price, qty) ==
    LET old == info.position_
        moved == [info EXCEPT !.position_ = int32_t(@ + qty * sideToValue(side))]
        after == IF Opens(old, side) THEN Opened(moved, side, price, qty)
                                     ELSE Decreased(moved, old, side, price, qty)
    IN  info' = IF moved.position_ = 0
                THEN Valued([after EXCEPT !.open_vwap_ = [s \in Sides |-> 0]], 0)
                ELSE Valued(after, unrealised(after, price))

Fill(side, price, qty) ==
    LET now == IF side = "BUY" THEN held + qty ELSE held - qty
        paid == 2 * price * qty
    IN  /\ fills < MaxFills /\ Abs(now) <= MaxPosition
        /\ addFill(side, 2 * price, qty)
        /\ held' = now
        /\ cash' = IF now = 0 THEN 0 ELSE IF side = "BUY" THEN cash - paid ELSE cash + paid
        /\ sides' = IF now = 0 THEN {} ELSE sides \cup {side}
        /\ clean' = (clean \/ now = 0)
        /\ mark' = 2 * price
        /\ fills' = fills + 1

(* PositionInfo::updateBBO: a position is valued in the middle of a BBO     *)
(* that has both sides; without one of them nothing happens.                *)
updateBBO(bid_price, ask_price) ==
    /\ IF info.position_ # 0 /\ Price_INVALID \notin {bid_price, ask_price}
       THEN LET mid_price == bid_price + ask_price
            IN  /\ info' = Valued(info, unrealised(info, mid_price))
                /\ mark' = mid_price
       ELSE UNCHANGED <<info, mark>>
    /\ UNCHANGED <<held, cash, sides, clean, fills>>

Next == \/ \E s \in Sides, p \in Prices, q \in Qtys : Fill(s, p, q)
        \/ \E bid, ask \in Prices \cup {Price_INVALID} : updateBBO(bid, ask)

Spec == Init /\ [][Next]_vars

-----------------------------------------------------------------------------
(* What the fills since the position was last flat have made, with the      *)
(* position at the price it was last valued at. *)
Made == cash + held * mark

(* The profit the risk check looks at (risk_manager.h:49), across fills     *)
(* that open, reduce, turn round and close the position at different        *)
(* prices, and whatever open_vwap_ held before it was first cleared: it is  *)
(* what has been made since the position was last flat, as long as the      *)
(* fills since then were all of one side.  After fills of both sides, which *)
(* never count as closing anything, a long position looks no better than it *)
(* is, but a short one no worse.                                            *)
ProfitSinceFlat ==
    clean => /\ sides # Sides => info.total_pnl_ = Made
             /\ held >= 0 => info.total_pnl_ <= Made
             /\ held <= 0 => info.total_pnl_ >= Made

(* What the code means to keep and does not: what is made of fills of both  *)
(* sides (position_keeper.h:45-54), and of the first fills (line 16).       *)
ProfitOfBothSides == clean => info.total_pnl_ = Made
ProfitFromTheFirst == sides # Sides => info.total_pnl_ = Made
=============================================================================
