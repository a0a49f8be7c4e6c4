------------------------------ MODULE BookSide ------------------------------
(***************************************************************************)
(* One side of MEOrderBook with the pool its orders come from: what        *)
(* MEOrderBook::add and MEOrderBook::removeOrder do to the lists           *)
(* (PriceLevels) and to order_pool_ (MemPool) in one call                  *)
(* (exchange/matcher/me_order_book.cpp:97-99, me_order_book.h:160-176).    *)
(* An order is the block the pool hands out for it, so a block that is     *)
(* given to a second order while it is in the lists breaks them.  The      *)
(* pool of the levels is the same code and not modelled a second time.     *)
(***************************************************************************)
EXTENDS PriceLevels, MemPool

ASSUME BlockAssumption == Orders = Blocks

sideVars == <<listVars, poolVars>>

SideInit == ListsInit /\ PoolInit

(* The end of add, for an order that rests: allocate, then addOrder.  An    *)
(* ASSERT in allocate ends the process before the order is linked.          *)
restOrder(p) ==
    \/ /\ allocate
       /\ IF ended' THEN UNCHANGED listVars ELSE addOrder(next_free_index_, p)
    \/ allocateFails /\ UNCHANGED listVars

(* removeOrder: the order is unlinked and its block given back. *)
freeOrder(id) == removeOrder(id) /\ deallocate(id)

SideNext == \/ \E p \in Prices : restOrder(p)
            \/ \E id \in Orders : freeOrder(id)

SideSpec == SideInit /\ [][SideNext]_sideVars

=============================================================================
