--------------------------- MODULE MatchingEngine ---------------------------
(***************************************************************************)
(* The matching engine as its neighbours see it: the order book, and what  *)
(* the receivers of its two message streams make of them.  sendMarketUpdate*)
(* feeds the snapshot thread, which rebuilds the book from the updates;    *)
(* sendClientResponse feeds the clients, which add up fills.  The streams  *)
(* reach their receivers complete and in order (module LFQueue); here every*)
(* message is applied in the step that sends it.                           *)
(***************************************************************************)
EXTENDS MEOrderBook

(* What the snapshot thread keeps of an order, and what a client knows of   *)
(* one of its own.                                                          *)
BookEntry == [side : Sides, price : Prices, qty : Nat, priority : Nat]
LedgerEntry == [side : Sides, ordered : Nat, exec : Nat, open : Nat, canceled : Nat]

ASSUME EntryAssumption == NULL \notin BookEntry /\ NULL \notin LedgerEntry

VARIABLES snapshot,      \* the rebuilt book, and whether every ASSERT held
          ledger,        \* market order id -> what its owner has been told, or NULL
          volume         \* quantity printed in TRADE updates

Synth == INSTANCE SnapshotSynthesizer

allVars == <<vars, snapshot, ledger, volume>>

(* SnapshotSynthesizer::addToSnapshot; a failed ASSERT ends the process. *)
addToSnapshot(snap, u) ==
    IF snap.ok /\ Synth!Acceptable(snap.orders, u, NULL)
    THEN [snap EXCEPT !.orders = Synth!Apply(@, u, NULL)]
    ELSE [snap EXCEPT !.ok = FALSE]

(* What the owner of an order learns from a response. *)
Tell(book, r) ==
    CASE r.type = "ACCEPTED" ->
           [book EXCEPT ![r.market_order_id] =
              [side |-> r.side, ordered |-> r.leaves_qty, exec |-> 0, open |-> r.leaves_qty,
               canceled |-> 0]]
      [] r.type = "FILLED" ->
           [book EXCEPT ![r.market_order_id].exec = @ + r.exec_qty,
                        ![r.market_order_id].open = r.leaves_qty]
      [] r.type = "CANCELED" ->
           [book EXCEPT ![r.market_order_id].canceled = r.leaves_qty,
                        ![r.market_order_id].open = 0]
      [] OTHER -> book

Printed(total, u) == IF u.type = "TRADE" THEN total + u.qty ELSE total

(* What the messages of one step, two at most, make of s, one by one. *)
Through(op(_, _), s, msgs) ==
    CASE Len(msgs) = 0 -> s
      [] Len(msgs) = 1 -> op(s, msgs[1])
      [] Len(msgs) = 2 -> op(op(s, msgs[1]), msgs[2])

Send == /\ snapshot' = Through(addToSnapshot, snapshot, updates')
        /\ ledger' = Through(Tell, ledger, responses')
        /\ volume' = Through(Printed, volume, updates')

EngineInit == /\ Init
              /\ snapshot = [orders |-> [i \in MarketOrderIds |-> NULL], ok |-> TRUE]
              /\ ledger = [i \in MarketOrderIds |-> NULL]
              /\ volume = 0

EngineNext == Next /\ Send

EngineSpec == EngineInit /\ [][EngineNext]_allVars

-----------------------------------------------------------------------------
(* What the market data stream lets a subscriber rebuild is the book: same  *)
(* orders, same prices, remaining quantities and priorities; and no update  *)
(* trips an ASSERT of addToSnapshot on the way                              *)
(* (snapshot_synthesizer.cpp:35, 42-44, 53-55).                             *)
SnapshotIsBook ==
    /\ snapshot.ok
    /\ \A i \in MarketOrderIds :
         IF i \in Live
         THEN snapshot.orders[i] = [side |-> order_pool_[i].side_, price |-> order_pool_[i].price_,
                                    qty |-> order_pool_[i].qty_,
                                    priority |-> order_pool_[i].priority_]
         ELSE snapshot.orders[i] = NULL

(* The responses add up: what a client ordered is what it was told was      *)
(* executed, canceled and still open, and the open part is what rests in    *)
(* the book (or what the add under way still has to match).                 *)
LedgerAddsUp ==
    \A i \in MarketOrderIds : ledger[i] # NULL =>
      /\ ledger[i].ordered = ledger[i].exec + ledger[i].open + ledger[i].canceled
      /\ ledger[i].open = IF i \in Live THEN order_pool_[i].qty_
                          ELSE IF adding # NULL /\ adding.market_order_id = i
                               THEN adding.leaves_qty ELSE 0

Executed(i, side) == IF ledger[i] # NULL /\ ledger[i].side = side THEN ledger[i].exec ELSE 0

(* The values of e add up to total: sum has the partial sums. *)
SumsTo(e, total) ==
    \E sum \in [0 .. MaxOrders -> 0 .. total] :
        /\ sum[0] = 0 /\ sum[MaxOrders] = total
        /\ \A i \in MarketOrderIds : sum[i] = sum[i - 1] + e[i]

(* Every unit printed in a TRADE was bought once and sold once. *)
TradesAddUp ==
    \A side \in Sides : SumsTo([i \in MarketOrderIds |-> Executed(i, side)], volume)
=============================================================================
