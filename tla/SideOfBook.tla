----------------------------- MODULE SideOfBook -----------------------------
(***************************************************************************)
(* What the lists of a limit order book are for: at every price the orders *)
(* in the order in which they came, and the prices that have orders from   *)
(* the best to the worst.  MEOrderBook is written in these terms;          *)
(* PriceLevels is the pointer code that keeps them.                        *)
(***************************************************************************)
EXTENDS Integers, SequencesExt

CONSTANTS Orders, Prices

VARIABLES side,     \* of the book, "BUY" or "SELL"
          queue,    \* price -> the orders at it, oldest first
          levels    \* the prices with orders, best first

Init == /\ side \in {"BUY", "SELL"}
        /\ queue = [p \in Prices |-> <<>>]
        /\ levels = <<>>

BestFirst(p, r) == IF side = "BUY" THEN p > r ELSE p < r

(* ls is the list of the prices that have orders in qs. *)
ListsLevels(ls, qs) == /\ ls \in Seq(Prices) /\ ToSet(ls) = {p \in Prices : qs[p] # <<>>}
                       /\ \A i, j \in DOMAIN ls : i < j => BestFirst(ls[i], ls[j])

Join(id, p) == /\ \A r \in Prices : id \notin ToSet(queue[r])
               /\ queue' = [queue EXCEPT ![p] = Append(@, id)]
               /\ ListsLevels(levels', queue')
               /\ UNCHANGED side

Leave(id, p) == /\ \E i \in DOMAIN queue[p] : /\ queue[p][i] = id
                                              /\ queue' = [queue EXCEPT ![p] = RemoveAt(@, i)]
                /\ ListsLevels(levels', queue')
                /\ UNCHANGED side

Next == \E id \in Orders, p \in Prices : Join(id, p) \/ Leave(id, p)

Spec == Init /\ [][Next]_<<side, queue, levels>>
=============================================================================
