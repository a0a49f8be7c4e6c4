------------------------- MODULE SnapshotSynthesizer -------------------------
(***************************************************************************)
(* The book the exchange's snapshot thread keeps for one instrument from   *)
(* the market updates alone (exchange/market_data/snapshot_synthesizer.cpp)*)
(* as operators on that book: order id -> what the last ADD or MODIFY said *)
(* of the order, or None.                                                  *)
(***************************************************************************)

(* Faulty: a modified order keeps its old quantity. *)
ApplyKeepsQty(orders, u, None) ==
    CASE u.type = "ADD"    -> [orders EXCEPT ![u.order_id] =
                                 [side |-> u.side, price |-> u.price, qty |-> u.qty,
                                  priority |-> u.priority]]
      [] u.type = "MODIFY" -> [orders EXCEPT ![u.order_id].price = u.price]
      [] u.type = "CANCEL" -> [orders EXCEPT ![u.order_id] = None]
      [] OTHER             -> orders

(* addToSnapshot: the update applied. *)
Apply(orders, u, None) ==
    CASE u.type = "ADD"    -> [orders EXCEPT ![u.order_id] =
                                 [side |-> u.side, price |-> u.price, qty |-> u.qty,
                                  priority |-> u.priority]]
      [] u.type = "MODIFY" -> [orders EXCEPT ![u.order_id].qty = u.qty,
                                             ![u.order_id].price = u.price]
      [] u.type = "CANCEL" -> [orders EXCEPT ![u.order_id] = None]
      [] OTHER             -> orders

(* addToSnapshot: what its ASSERTs demand of the update. *)
Acceptable(orders, u, None) ==
    CASE u.type = "ADD" -> orders[u.order_id] = None
      [] u.type \in {"MODIFY", "CANCEL"} ->
           /\ orders[u.order_id] # None
           /\ orders[u.order_id].side = u.side
      [] OTHER -> TRUE
=============================================================================
