---------------------------- MODULE PriceLevels -----------------------------
(***************************************************************************)
(* The doubly linked circular lists of one side of MEOrderBook, pointer by *)
(* pointer (exchange/matcher/me_order_book.h): the list of its price       *)
(* levels, which bids_by_price_ or asks_by_price_ enters at the best one,  *)
(* and in every level the list of its orders, which first_me_order_ enters *)
(* at the oldest.                                                          *)
(*                                                                         *)
(* A level is named by its price, an order by its block of the pool; which *)
(* block an order gets is the subject of module BookSide.  No two prices   *)
(* share an index of price_orders_at_price_ here: MEOrderBook is about     *)
(* those that do.                                                          *)
(***************************************************************************)
EXTENDS Integers, Sequences

CONSTANTS Orders,   \* blocks of order_pool_
          Prices,
          NULL      \* nullptr

ASSUME PriceAssumption == Prices \subseteq Nat /\ NULL \notin Prices
ASSUME OrderAssumption == NULL \notin Orders
ASSUME NullAssumption ==       \* an object is never at the null pointer
    /\ NULL \notin [first : Orders, prev : Prices, next : Prices]
    /\ NULL \notin [price : Prices, prev : Orders, next : Orders]

VARIABLES
  side,            \* the side of the book this is
  best,            \* bids_by_price_ or asks_by_price_
  level,           \* price -> first_me_order_, prev_entry_, next_entry_ or NULL
  order            \* block -> price_, prev_order_, next_order_, or NULL when free

listVars == <<side, best, level, order>>

Level(first, prev, next) == [first |-> first, prev |-> prev, next |-> next]
Order(price, prev, next) == [price |-> price, prev |-> prev, next |-> next]

UsedPrices == {p \in Prices : level[p] # NULL}
UsedOrders == {id \in Orders : order[id] # NULL}
OrdersAt(p) == {id \in UsedOrders : order[id].price = p}

ListsInit == /\ side \in {"BUY", "SELL"}
             /\ best = NULL
             /\ level = [p \in Prices |-> NULL]
             /\ order = [o \in Orders |-> NULL]

Worse(p, r) == IF side = "BUY" THEN p < r ELSE p > r

-----------------------------------------------------------------------------
(* Adding. *)

(* Faulty: the level is not linked from the one behind it. *)
linkBeforeHalf(ls, p, first, target) ==
    [ls EXCEPT ![p] = Level(first, ls[target].prev, target),
               ![ls[target].prev].next = p]

linkBefore(ls, p, first, target) ==
    [ls EXCEPT ![p] = Level(first, ls[target].prev, target),
               ![ls[target].prev].next = p,
               ![target].prev = p]

linkAfter(ls, p, first, target) ==
    [ls EXCEPT ![p] = Level(first, target, ls[target].next),
               ![ls[target].next].prev = p,
               ![target].next = p]

(* Faulty: the level is put behind the best without looking further. *)
targetSecond(p) == level[best].next

(* Where the walk along next_entry_ stops: at a level that is not better   *)
(* than p, or back at the best.                                            *)
targetOf(p) ==
    LET walk[t \in UsedPrices] == IF t = best \/ ~Worse(p, t) THEN t ELSE walk[level[t].next]
    IN  walk[level[best].next]

addOrdersAtPrice(p, first) ==
    \/ /\ best = NULL
       /\ best' = p
       /\ level' = [level EXCEPT ![p] = Level(first, p, p)]
    \/ /\ best # NULL /\ ~Worse(p, best)     \* a new best level
       /\ best' = p
       /\ level' = LET ls == linkBefore(level, p, first, best)
                   IN  [ls EXCEPT ![best].next = IF @ = best THEN p ELSE @]
    \/ /\ best # NULL /\ Worse(p, best)
       /\ level' = LET target == targetOf(p)
                   IN  IF Worse(p, target)   \* back at the best: the worst level
                       THEN linkAfter(level, p, first, level[best].prev)
                       ELSE linkBefore(level, p, first, target)
       /\ UNCHANGED best

addOrder(id, p) ==
    /\ \/ /\ level[p] = NULL
          /\ order' = [order EXCEPT ![id] = Order(p, id, id)]
          /\ addOrdersAtPrice(p, id)
       \/ /\ level[p] # NULL
          /\ order' = LET first == level[p].first
                      IN  [order EXCEPT ![id] = Order(p, order[first].prev, first),
                                        ![order[first].prev].next = id,
                                        ![first].prev = id]
          /\ UNCHANGED <<best, level>>
    /\ UNCHANGED side

-----------------------------------------------------------------------------
(* Removing. *)

(* bids_by_price_ or asks_by_price_ when one of several levels goes. *)
bestWithout(p) == IF p = best THEN level[p].next ELSE best

removeOrdersAtPrice(p) ==
    LET l == level[p]
    IN  IF l.next = p
        THEN /\ best' = NULL
             /\ level' = [level EXCEPT ![p] = NULL]
        ELSE /\ best' = bestWithout(p)
             /\ level' = [level EXCEPT ![l.prev].next = l.next,
                                       ![l.next].prev = l.prev,
                                       ![p] = NULL]

removeOrder(id) ==
    /\ order[id] # NULL
    /\ LET o == order[id]
       IN  \/ /\ o.prev = id
              /\ removeOrdersAtPrice(o.price)
              /\ order' = [order EXCEPT ![id] = NULL]
           \/ /\ o.prev # id
              /\ order' = [order EXCEPT ![o.prev].next = o.next,
                                        ![o.next].prev = o.prev,
                                        ![id] = NULL]
              /\ level' = [level EXCEPT ![o.price].first = IF @ = id THEN o.next ELSE @]
              /\ UNCHANGED best
    /\ UNCHANGED side

-----------------------------------------------------------------------------
(* The list that starts at an entry and follows its successors around. *)
From(succ, start) ==
    LET list[at \in DOMAIN succ] ==
          IF succ[at] = start THEN <<at>> ELSE <<at>> \o list[succ[at]]
    IN  list[start]

LevelList == IF best = NULL THEN <<>>
             ELSE From([p \in UsedPrices |-> level[p].next], best)
OrderList(p) == IF level[p] = NULL THEN <<>>
                ELSE From([id \in OrdersAt(p) |-> order[id].next], level[p].first)

(* MEOrderBook::toString(_, TRUE), which the destructor logs: it walks both *)
(* lists and ends the process at a level that is not worse than the one     *)
(* before.                                                                  *)
printerFails ==
    \E k \in 2 .. Len(LevelList) : ~Worse(LevelList[k], LevelList[k - 1])

(* Every pointer in use leads to a level or an order in use, to nothing    *)
(* that was given back to its pool; and backwards the lists are what they  *)
(* are forwards: the code walks forwards and appends, unlinks and wraps    *)
(* around through the backward pointers (me_order_book.h:72-176).  And     *)
(* "Bids/Asks not sorted by ascending/descending prices"                   *)
(* (me_order_book.cpp:206) never ends the exchange, whatever came and went *)
(* before the book is printed.                                             *)
BothWays ==
    /\ best \in UsedPrices \cup {NULL} /\ (best = NULL <=> UsedPrices = {})
    /\ \A p \in UsedPrices :
           level[p] \in [first : UsedOrders, prev : UsedPrices, next : UsedPrices]
    /\ \A id \in UsedOrders :
           order[id] \in [price : UsedPrices, prev : UsedOrders, next : UsedOrders]
    /\ \A p \in UsedPrices : level[level[p].next].prev = p /\ level[level[p].prev].next = p
    /\ \A id \in UsedOrders : order[order[id].next].prev = id /\ order[order[id].prev].next = id
    /\ ~printerFails

(* Read along the pointers, the lists are those of the specification: each *)
(* level holds its orders oldest first, the levels are sorted from the     *)
(* best, each is there once, and an added or removed order changes nothing *)
(* else.                                                                   *)
Side == INSTANCE SideOfBook WITH
    queue <- [p \in Prices |-> OrderList(p)], levels <- LevelList

ImplementsSideOfBook == Side!Spec
=============================================================================
