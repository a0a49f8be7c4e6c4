------------------------- MODULE OrderManagerProofs -------------------------
(***************************************************************************)
(* For any prices, limits, clip and number of orders: a side never has two *)
(* orders, the order manager and the exchange agree when nothing is under  *)
(* way, and what the client has really traded stays within max_position_.  *)
(*                                                                         *)
(* The argument follows the responses that are under way: f[s] is what     *)
(* they will make of the OMOrder of side s, and that is what the exchange  *)
(* has of it now.                                                          *)
(***************************************************************************)
EXTENDS OrderManager, FiniteSetTheorems, TLAPS

RequestMsg == [type : {"NEW", "CANCEL"}, order_id : OrderIds, side : Sides, qty : Qtys]
ResponseMsg ==
    {r \in [type : {"ACCEPTED", "CANCELED", "CANCEL_REJECTED", "FILLED"},
            client_order_id : OrderIds, side : Sides \cup {"INVALID"},
            exec_qty : Qtys, leaves_qty : Qtys] :
         r.type # "CANCEL_REJECTED" => r.side \in Sides}

(* Where the messages and the resting orders come from. *)
Types == /\ algo_type \in AlgoTypes
         /\ ticker_side_order_ \in [Sides -> OMOrder]
         /\ next_order_id_ \in 1 .. MaxOrders + 1
         /\ position_ \in Int
         /\ requests \in Seq(RequestMsg)
         /\ responses \in Seq(ResponseMsg)
         /\ DOMAIN resting \subseteq OrderIds
         /\ resting \in [DOMAIN resting -> [side : Sides, qty : Qtys]]
         /\ net \in Int

-----------------------------------------------------------------------------
(* What a response may find. *)
Expected(o, r) ==
    \/ r.type = "ACCEPTED" /\ o.order_state_ = "PENDING_NEW"
    \/ /\ r.type = "FILLED" /\ o.order_state_ \in {"LIVE", "PENDING_CANCEL"}
       /\ r.exec_qty + r.leaves_qty = o.qty_
    \/ r.type = "CANCELED" /\ o.order_state_ = "PENDING_CANCEL"

(* The states a response can lead to, at once or after others. *)
After(state) == CASE state = "PENDING_NEW"    -> {"PENDING_NEW", "LIVE", "DEAD"}
                  [] state = "LIVE"           -> {"LIVE", "DEAD"}
                  [] state = "PENDING_CANCEL" -> {"PENDING_CANCEL", "DEAD"}
                  [] OTHER                    -> {state}

Later(o, p) == /\ p.order_id_ = o.order_id_
               /\ p.qty_ <= o.qty_
               /\ p.order_state_ \in After(o.order_state_)
               /\ o.order_state_ \in Free => p = o

(* Response r turns the OMOrder o of side s into p. *)
Turns(s, o, r, p) ==
    IF r.side = s THEN Expected(o, r) /\ p = AfterResponse(o, r) ELSE p = o

(* v[k] is the OMOrder of side s after k of the responses rs. *)
View(s, rs, v) ==
    /\ v \in [0 .. Len(rs) -> OMOrder]
    /\ \A k \in 1 .. Len(rs) : Turns(s, v[k - 1], rs[k], v[k])
    /\ \A j, k \in 0 .. Len(rs) : j <= k => Later(v[j], v[k])

(* The responses rs turn the OMOrder o of side s into f. *)
Leads(s, o, rs, f) == \E v : View(s, rs, v) /\ v[0] = o /\ v[Len(rs)] = f

(* Requests qs of the client, and the resting orders, as far as they are   *)
(* about an OMOrder o of side s to which every response has come.          *)
Requested(s, o, qs) ==
    /\ o.order_state_ = "PENDING_NEW" =>
           \E n \in DOMAIN qs : qs[n].type = "NEW" /\ qs[n].side = s
    /\ \A n \in DOMAIN qs : qs[n].type = "NEW" /\ qs[n].side = s =>
           /\ o.order_state_ = "PENDING_NEW"
           /\ qs[n].order_id = o.order_id_
           /\ qs[n].qty = o.qty_
    /\ \A n, m \in DOMAIN qs :
           qs[n].type = "NEW" /\ qs[n].side = s /\ qs[m].type = "NEW" /\ qs[m].side = s => n = m
    /\ o.order_state_ = "PENDING_CANCEL" =>
           \E n \in DOMAIN qs : qs[n].type = "CANCEL" /\ qs[n].order_id = o.order_id_
    /\ \A n \in DOMAIN qs : qs[n].type = "CANCEL" /\ qs[n].order_id = o.order_id_ =>
           qs[n].side = s /\ o.order_state_ \in {"PENDING_CANCEL", "DEAD"}

AtExchange(s, o) ==
    /\ o.order_state_ \in {"LIVE", "PENDING_CANCEL"} =>
           /\ o.order_id_ \in DOMAIN resting
           /\ resting[o.order_id_].side = s
           /\ resting[o.order_id_].qty = o.qty_
    /\ \A id \in DOMAIN resting : resting[id].side = s =>
           id = o.order_id_ /\ o.order_state_ \in {"LIVE", "PENDING_CANCEL"}

(* Order ids are given out once. *)
Numbered(order, qs, id) ==
    /\ \A s \in Sides : /\ order[s].order_id_ < id
                        /\ order[s].order_id_ = OrderId_INVALID <=> order[s].order_state_ = "INVALID"
    /\ order["BUY"].order_id_ = order["SELL"].order_id_ => order["BUY"].order_id_ = OrderId_INVALID
    /\ \A n \in DOMAIN qs : qs[n].order_id < id

(* The position is net but for the fills under way. *)
Accounted(f) ==
    net = position_ + (ticker_side_order_["BUY"].qty_ - f["BUY"].qty_)
                    - (ticker_side_order_["SELL"].qty_ - f["SELL"].qty_)

(* The check of an order that is not free still holds, at the position the *)
(* client has heard of since.                                              *)
Allowed(s, o) == o.order_state_ \notin Free =>
                     Abs(position_ + sideToValue(s) * o.qty_) <= max_position_
Limits == /\ Abs(position_) <= max_position_
          /\ \A s \in Sides : Allowed(s, ticker_side_order_[s])

Tracks(f) == /\ f \in [Sides -> OMOrder]
             /\ \A s \in Sides : /\ Leads(s, ticker_side_order_[s], responses, f[s])
                                 /\ Requested(s, f[s], requests)
                                 /\ AtExchange(s, f[s])
             /\ Accounted(f)

IInv == /\ Types
        /\ Numbered(ticker_side_order_, requests, next_order_id_)
        /\ Limits
        /\ \E f : Tracks(f)

-----------------------------------------------------------------------------
(* Sequences of messages. *)
LEMMA HeadTail ==
    ASSUME NEW S, NEW q \in Seq(S), q # <<>>
    PROVE  /\ Head(q) = q[1] /\ q[1] \in S /\ 1 \in DOMAIN q
           /\ Tail(q) \in Seq(S) /\ Len(Tail(q)) = Len(q) - 1 /\ Len(q) \in Nat /\ Len(q) >= 1
           /\ DOMAIN q = 1 .. Len(q) /\ DOMAIN Tail(q) = 1 .. Len(q) - 1
           /\ \A n \in 1 .. Len(q) - 1 : Tail(q)[n] = q[n + 1]
  OBVIOUS

LEMMA AppendProperties ==
    ASSUME NEW S, NEW q \in Seq(S), NEW x \in S
    PROVE  /\ Append(q, x) \in Seq(S) /\ Len(Append(q, x)) = Len(q) + 1 /\ Len(q) \in Nat
           /\ DOMAIN q = 1 .. Len(q) /\ DOMAIN Append(q, x) = 1 .. Len(q) + 1
           /\ \A n \in 1 .. Len(q) : Append(q, x)[n] = q[n]
           /\ Append(q, x)[Len(q) + 1] = x
  OBVIOUS

(* What becomes of an OMOrder is settled by its state, whatever is on the   *)
(* way (order_manager.h, onOrderUpdate).                                    *)
LEMMA LaterTransitive ==
    ASSUME NEW o \in OMOrder, NEW p \in OMOrder, NEW r \in OMOrder, Later(o, p), Later(p, r)
    PROVE  Later(o, r)
  <1>1. o.qty_ \in Int /\ p.qty_ \in Int /\ r.qty_ \in Int
    BY ClipAssumption DEF OMOrder, Qtys
  <1>2. r.qty_ <= o.qty_ /\ r.order_id_ = o.order_id_
    BY <1>1 DEF Later
  <1>3. r.order_state_ \in After(o.order_state_)
    BY DEF Later, After, Free, OMOrder, OMOrderStates
  <1>4. o.order_state_ \in Free => r = o
    BY DEF Later
  <1> QED BY <1>2, <1>3, <1>4 DEF Later

LEMMA LaterReflexive ==
    ASSUME NEW o \in OMOrder
    PROVE  Later(o, o)
  <1>1. o.qty_ \in Int
    BY ClipAssumption DEF OMOrder, Qtys
  <1>2. o.order_state_ \in After(o.order_state_)
    BY DEF After
  <1> QED BY <1>1, <1>2 DEF Later

LEMMA ResponseTurns ==
    ASSUME NEW o \in OMOrder, NEW r \in ResponseMsg, Expected(o, r)
    PROVE  AfterResponse(o, r) \in OMOrder /\ Later(o, AfterResponse(o, r))
  <1> USE ClipAssumption
  <1>1. o.qty_ \in Nat /\ r.exec_qty \in Nat /\ r.leaves_qty \in Qtys /\ r.leaves_qty \in Nat
    BY DEF OMOrder, ResponseMsg, Qtys
  <1>2. CASE r.type = "ACCEPTED"
    <2>1. o.order_state_ = "PENDING_NEW"
      BY <1>2 DEF Expected
    <2>2. AfterResponse(o, r) = [o EXCEPT !.order_state_ = "LIVE"]
      BY <1>2 DEF AfterResponse
    <2> QED BY <1>1, <2>1, <2>2 DEF OMOrder, OMOrderStates, Later, After, Free
  <1>3. CASE r.type = "CANCELED"
    <2>1. o.order_state_ = "PENDING_CANCEL"
      BY <1>3 DEF Expected
    <2>2. AfterResponse(o, r) = [o EXCEPT !.order_state_ = "DEAD"]
      BY <1>3 DEF AfterResponse
    <2> QED BY <1>1, <2>1, <2>2 DEF OMOrder, OMOrderStates, Later, After, Free
  <1>4. CASE r.type = "FILLED"
    <2>1. o.order_state_ \in {"LIVE", "PENDING_CANCEL"} /\ r.exec_qty + r.leaves_qty = o.qty_
      BY <1>4 DEF Expected
    <2>2. AfterResponse(o, r) = [o EXCEPT !.qty_ = r.leaves_qty,
                !.order_state_ = IF r.leaves_qty = 0 THEN "DEAD" ELSE o.order_state_]
      BY <1>4 DEF AfterResponse, Filled
    <2>3. PICK p : p = AfterResponse(o, r)
      OBVIOUS
    <2>4. p = [o EXCEPT !.qty_ = r.leaves_qty,
                        !.order_state_ = IF r.leaves_qty = 0 THEN "DEAD" ELSE o.order_state_]
      BY <2>2, <2>3
    <2>5. /\ p.qty_ = r.leaves_qty /\ p.order_id_ = o.order_id_ /\ p.price_ = o.price_
          /\ p.order_state_ = IF r.leaves_qty = 0 THEN "DEAD" ELSE o.order_state_
      BY <2>4 DEF OMOrder
    <2>6. p.order_state_ \in {"DEAD", o.order_state_}
      BY <2>5
    <2>7. p \in OMOrder
      BY <1>1, <2>1, <2>4, <2>6 DEF OMOrder, OMOrderStates
    <2>8. p.qty_ <= o.qty_
      BY <1>1, <2>1, <2>5
    <2>9. Later(o, p)
      BY <2>1, <2>5, <2>6, <2>8 DEF Later, After, Free
    <2> QED BY <2>3, <2>7, <2>9
  <1> QED BY <1>2, <1>3, <1>4 DEF Expected

-----------------------------------------------------------------------------
(* What the responses under way lead to. *)
LEMMA LeadsLater ==
    ASSUME NEW s, NEW o, NEW f, NEW rs \in Seq(ResponseMsg), Leads(s, o, rs, f)
    PROVE  o \in OMOrder /\ f \in OMOrder /\ Later(o, f)
  <1>1. PICK v : View(s, rs, v) /\ v[0] = o /\ v[Len(rs)] = f
    BY DEF Leads
  <1>2. Len(rs) \in Nat /\ 0 \in 0 .. Len(rs) /\ Len(rs) \in 0 .. Len(rs) /\ 0 <= Len(rs)
    OBVIOUS
  <1> QED BY <1>1, <1>2 DEF View

LEMMA LeadsNothing ==
    ASSUME NEW s, NEW o, NEW f, Leads(s, o, <<>>, f)
    PROVE  f = o
  BY DEF Leads

(* A response sent behind the others. *)
LEMMA LeadsAppend ==
    ASSUME NEW s, NEW o, NEW f, NEW p, NEW rs \in Seq(ResponseMsg), NEW r \in ResponseMsg,
           Leads(s, o, rs, f), Turns(s, f, r, p)
    PROVE  p \in OMOrder /\ Leads(s, o, Append(rs, r), p)
  <1>1. PICK v : View(s, rs, v) /\ v[0] = o /\ v[Len(rs)] = f
    BY DEF Leads
  <1>2. PICK n : n = Len(rs)
    OBVIOUS
  <1>3. n \in Nat /\ Len(Append(rs, r)) = n + 1 /\ Append(rs, r)[n + 1] = r
        /\ \A k \in 1 .. n : Append(rs, r)[k] = rs[k]
    BY <1>2
  <1>4. f \in OMOrder
    BY LeadsLater
  <1>5. p \in OMOrder /\ Later(f, p)
    <2>1. CASE r.side = s
      BY <2>1, <1>4, ResponseTurns DEF Turns
    <2>2. CASE r.side # s
      BY <2>2, <1>4, LaterReflexive DEF Turns
    <2> QED BY <2>1, <2>2
  <1>6. /\ v \in [0 .. n -> OMOrder]
        /\ \A k \in 1 .. n : Turns(s, v[k - 1], rs[k], v[k])
        /\ \A j, k \in 0 .. n : j <= k => Later(v[j], v[k])
    BY <1>1, <1>2 DEF View
  <1> DEFINE w == [k \in 0 .. n + 1 |-> IF k <= n THEN v[k] ELSE p]
  <1>7. w \in [0 .. n + 1 -> OMOrder] /\ w[n + 1] = p /\ \A k \in 0 .. n : w[k] = v[k]
    BY <1>3, <1>5, <1>6
  <1> HIDE DEF w
  <1>8. ASSUME NEW k \in 1 .. n + 1
        PROVE  Turns(s, w[k - 1], Append(rs, r)[k], w[k])
    <2>1. CASE k = n + 1
      <3>1. w[k - 1] = f /\ w[k] = p /\ Append(rs, r)[k] = r
        BY <2>1, <1>1, <1>2, <1>3, <1>7
      <3> QED BY <3>1
    <2>2. CASE k # n + 1
      <3>1. k \in 1 .. n /\ k - 1 \in 0 .. n /\ k \in 0 .. n
        BY <2>2, <1>3
      <3>2. w[k - 1] = v[k - 1] /\ w[k] = v[k] /\ Append(rs, r)[k] = rs[k]
        BY <3>1, <1>3, <1>7
      <3> QED BY <3>1, <3>2, <1>6
    <2> QED BY <2>1, <2>2
  <1>9. ASSUME NEW j \in 0 .. n + 1, NEW k \in 0 .. n + 1, j <= k
        PROVE  Later(w[j], w[k])
    <2>1. CASE k \in 0 .. n
      <3>1. j \in 0 .. n
        BY <2>1, <1>3, <1>9
      <3> QED BY <2>1, <3>1, <1>6, <1>7, <1>9
    <2>2. CASE k = n + 1 /\ j = n + 1
      BY <2>2, <1>5, <1>7, LaterReflexive
    <2>3. CASE k = n + 1 /\ j \in 0 .. n
      <3>1. n \in 0 .. n /\ j <= n /\ v[n] = f /\ v[j] \in OMOrder
        BY <2>3, <1>1, <1>2, <1>3, <1>6
      <3>2. Later(v[j], f)
        BY <2>3, <3>1, <1>6
      <3>3. w[j] = v[j] /\ w[k] = p
        BY <2>3, <1>7
      <3> QED BY <3>1, <3>2, <3>3, <1>4, <1>5, LaterTransitive
    <2> QED BY <2>1, <2>2, <2>3, <1>3
  <1>10. View(s, Append(rs, r), w)
    BY <1>3, <1>7, <1>8, <1>9 DEF View
  <1>11. w[0] = o /\ w[Len(Append(rs, r))] = p
    BY <1>1, <1>3, <1>7
  <1> QED BY <1>5, <1>10, <1>11 DEF Leads

(* The first response handled. *)
LEMMA LeadsTail ==
    ASSUME NEW s, NEW o, NEW f, NEW rs \in Seq(ResponseMsg), rs # <<>>, Leads(s, o, rs, f)
    PROVE  \E p : p \in OMOrder /\ Turns(s, o, Head(rs), p) /\ Leads(s, p, Tail(rs), f)
  <1>1. PICK v : View(s, rs, v) /\ v[0] = o /\ v[Len(rs)] = f
    BY DEF Leads
  <1>2. PICK n : n = Len(rs)
    OBVIOUS
  <1>3. /\ n \in Nat /\ n >= 1 /\ Head(rs) = rs[1] /\ Len(Tail(rs)) = n - 1
        /\ \A k \in 1 .. n - 1 : Tail(rs)[k] = rs[k + 1]
    BY <1>2, HeadTail, Zenon
  <1>6. /\ v \in [0 .. n -> OMOrder]
        /\ \A k \in 1 .. n : Turns(s, v[k - 1], rs[k], v[k])
        /\ \A j, k \in 0 .. n : j <= k => Later(v[j], v[k])
    BY <1>1, <1>2 DEF View
  <1> DEFINE w == [k \in 0 .. n - 1 |-> v[k + 1]]
  <1>7. w \in [0 .. n - 1 -> OMOrder] /\ \A k \in 0 .. n - 1 : w[k] = v[k + 1] /\ k + 1 \in 0 .. n
    BY <1>3, <1>6
  <1> HIDE DEF w
  <1>8. ASSUME NEW k \in 1 .. n - 1
        PROVE  Turns(s, w[k - 1], Tail(rs)[k], w[k])
    <2>1. k - 1 \in 0 .. n - 1 /\ k \in 0 .. n - 1 /\ k + 1 \in 1 .. n /\ (k - 1) + 1 = k
          /\ (k + 1) - 1 = k
      BY <1>3
    <2>2. w[k - 1] = v[k] /\ w[k] = v[k + 1] /\ Tail(rs)[k] = rs[k + 1]
      BY <2>1, <1>3, <1>7
    <2>3. Turns(s, v[k], rs[k + 1], v[k + 1])
      BY <2>1, <1>6
    <2> QED BY <2>2, <2>3
  <1>9. \A j, k \in 0 .. n - 1 : j <= k => Later(w[j], w[k])
    <2> SUFFICES ASSUME NEW j \in 0 .. n - 1, NEW k \in 0 .. n - 1, j <= k
                 PROVE  Later(w[j], w[k])
      OBVIOUS
    <2>1. j + 1 \in 0 .. n /\ k + 1 \in 0 .. n /\ j + 1 <= k + 1
      BY <1>3
    <2>2. Later(v[j + 1], v[k + 1])
      BY <2>1, <1>6
    <2> QED BY <2>2, <1>7
  <1>10. View(s, Tail(rs), w)
    BY <1>3, <1>7, <1>8, <1>9 DEF View
  <1>11. 0 \in 0 .. n - 1 /\ n - 1 \in 0 .. n - 1 /\ w[0] = v[1] /\ w[n - 1] = v[n] /\ v[n] = f
    BY <1>1, <1>2, <1>3, <1>7
  <1>12. Turns(s, o, Head(rs), v[1]) /\ v[1] \in OMOrder
    BY <1>1, <1>3, <1>6
  <1>13. Leads(s, v[1], Tail(rs), f)
    BY <1>3, <1>10, <1>11 DEF Leads
  <1> QED BY <1>12, <1>13

(* No response is under way for a free OMOrder: its place may be taken. *)
LEMMA LeadsFree ==
    ASSUME NEW s, NEW o, NEW f, NEW rs \in Seq(ResponseMsg), Leads(s, o, rs, f),
           o.order_state_ \in Free, NEW p \in OMOrder
    PROVE  f = o /\ Leads(s, p, rs, p)
  <1>1. PICK v : View(s, rs, v) /\ v[0] = o /\ v[Len(rs)] = f
    BY DEF Leads
  <1>2. PICK n : n = Len(rs)
    OBVIOUS
  <1>3. n \in Nat /\ 0 \in 0 .. n
    BY <1>2
  <1>4. /\ v \in [0 .. n -> OMOrder]
        /\ \A k \in 1 .. n : Turns(s, v[k - 1], rs[k], v[k])
        /\ \A j, k \in 0 .. n : j <= k => Later(v[j], v[k])
    BY <1>1, <1>2 DEF View
  <1>5. \A k \in 0 .. n : v[k] = o
    BY <1>1, <1>3, <1>4 DEF Later
  <1>6. \A k \in 1 .. n : rs[k].side # s
    <2> SUFFICES ASSUME NEW k \in 1 .. n, rs[k].side = s PROVE FALSE
      OBVIOUS
    <2>1. k - 1 \in 0 .. n
      BY <1>3
    <2>2. Expected(o, rs[k])
      BY <2>1, <1>4, <1>5 DEF Turns
    <2> QED BY <2>2 DEF Expected, Free
  <1> DEFINE w == [k \in 0 .. n |-> p]
  <1>7. w \in [0 .. n -> OMOrder] /\ \A k \in 0 .. n : w[k] = p
    OBVIOUS
  <1> HIDE DEF w
  <1>8. \A k \in 1 .. n : Turns(s, w[k - 1], rs[k], w[k])
    <2> SUFFICES ASSUME NEW k \in 1 .. n PROVE Turns(s, w[k - 1], rs[k], w[k])
      OBVIOUS
    <2>1. k - 1 \in 0 .. n /\ k \in 0 .. n
      BY <1>3
    <2> QED BY <2>1, <1>6, <1>7 DEF Turns
  <1>9. \A j, k \in 0 .. n : j <= k => Later(w[j], w[k])
    BY <1>7, LaterReflexive
  <1>10. View(s, rs, w)
    BY <1>2, <1>7, <1>8, <1>9 DEF View
  <1>11. n \in 0 .. n
    BY <1>3
  <1> QED BY <1>1, <1>2, <1>3, <1>5, <1>7, <1>10, <1>11 DEF Leads

(* Canceling an order that is LIVE as far as the client has heard. *)
Canceling(o) == IF o.order_state_ = "LIVE" THEN [o EXCEPT !.order_state_ = "PENDING_CANCEL"] ELSE o

LEMMA CancelingProperties ==
    ASSUME NEW o \in OMOrder, o.order_state_ \in {"LIVE", "DEAD"}
    PROVE  /\ Canceling(o) \in OMOrder
           /\ Canceling(o).order_id_ = o.order_id_ /\ Canceling(o).qty_ = o.qty_
           /\ Canceling(o).order_state_ = IF o.order_state_ = "LIVE" THEN "PENDING_CANCEL" ELSE "DEAD"
  BY DEF Canceling, OMOrder, OMOrderStates

LEMMA CancelingTurns ==
    ASSUME NEW s, NEW o \in OMOrder, NEW p \in OMOrder, NEW r \in ResponseMsg,
           o.order_state_ \in {"LIVE", "DEAD"}, p.order_state_ \in {"LIVE", "DEAD"},
           Turns(s, o, r, p)
    PROVE  Turns(s, Canceling(o), r, Canceling(p))
  <1>1. CASE r.side # s
    BY <1>1 DEF Turns
  <1>2. CASE r.side = s
    <2>1. Expected(o, r) /\ p = AfterResponse(o, r)
      BY <1>2 DEF Turns
    <2>2. r.type = "FILLED" /\ o.order_state_ = "LIVE" /\ r.exec_qty + r.leaves_qty = o.qty_
      BY <2>1 DEF Expected
    <2>3. p = Filled(o, r)
      BY <2>1, <2>2 DEF AfterResponse
    <2>4. Canceling(o).order_state_ = "PENDING_CANCEL" /\ Canceling(o).qty_ = o.qty_
      BY <2>2, CancelingProperties
    <2>5. Expected(Canceling(o), r)
      BY <2>2, <2>4 DEF Expected
    <2>6. AfterResponse(Canceling(o), r) = Filled(Canceling(o), r)
      BY <2>2 DEF AfterResponse
    <2>7. Canceling(o) = [o EXCEPT !.order_state_ = "PENDING_CANCEL"]
      BY <2>2 DEF Canceling
    <2>8. Filled(Canceling(o), r) = Canceling(p)
      <3>1. CASE r.leaves_qty = 0
        <4>1. p = [o EXCEPT !.qty_ = r.leaves_qty, !.order_state_ = "DEAD"]
          BY <2>3, <3>1 DEF Filled
        <4>2. Canceling(p) = p
          BY <4>1 DEF Canceling, OMOrder
        <4> QED BY <3>1, <2>7, <4>1, <4>2 DEF Filled, OMOrder
      <3>2. CASE r.leaves_qty # 0
        <4>1. p = [o EXCEPT !.qty_ = r.leaves_qty]
          BY <2>3, <3>2 DEF Filled, OMOrder
        <4>2. Canceling(p) = [p EXCEPT !.order_state_ = "PENDING_CANCEL"]
          BY <4>1, <2>2 DEF Canceling, OMOrder
        <4> QED BY <3>2, <2>7, <4>1, <4>2 DEF Filled, OMOrder
      <3> QED BY <3>1, <3>2
    <2> QED BY <1>2, <2>5, <2>6, <2>8 DEF Turns
  <1> QED BY <1>1, <1>2

LEMMA LeadsCancel ==
    ASSUME NEW s, NEW o, NEW f, NEW rs \in Seq(ResponseMsg), Leads(s, o, rs, f),
           o.order_state_ = "LIVE"
    PROVE  f.order_state_ \in {"LIVE", "DEAD"} /\ Leads(s, Canceling(o), rs, Canceling(f))
  <1>1. PICK v : View(s, rs, v) /\ v[0] = o /\ v[Len(rs)] = f
    BY DEF Leads
  <1>2. PICK n : n = Len(rs)
    OBVIOUS
  <1>3. n \in Nat /\ 0 \in 0 .. n /\ n \in 0 .. n /\ \A k \in 1 .. n : rs[k] \in ResponseMsg
    BY <1>2
  <1>4. /\ v \in [0 .. n -> OMOrder]
        /\ \A k \in 1 .. n : Turns(s, v[k - 1], rs[k], v[k])
        /\ \A j, k \in 0 .. n : j <= k => Later(v[j], v[k])
    BY <1>1, <1>2 DEF View
  <1>5. \A k \in 0 .. n : v[k].order_state_ \in {"LIVE", "DEAD"} /\ v[k] \in OMOrder
    <2> SUFFICES ASSUME NEW k \in 0 .. n PROVE v[k].order_state_ \in {"LIVE", "DEAD"} /\ v[k] \in OMOrder
      OBVIOUS
    <2>1. 0 <= k
      BY <1>3
    <2>2. Later(o, v[k])
      BY <2>1, <1>1, <1>3, <1>4
    <2>3. After("LIVE") = {"LIVE", "DEAD"}
      BY DEF After
    <2> QED BY <2>2, <2>3, <1>4 DEF Later
  <1> DEFINE w == [k \in 0 .. n |-> Canceling(v[k])]
  <1>6. \A k \in 0 .. n : w[k] = Canceling(v[k]) /\ w[k] \in OMOrder
    BY <1>5, CancelingProperties
  <1>7. w \in [0 .. n -> OMOrder]
    BY <1>6
  <1> HIDE DEF w
  <1>8. \A k \in 1 .. n : Turns(s, w[k - 1], rs[k], w[k])
    <2> SUFFICES ASSUME NEW k \in 1 .. n PROVE Turns(s, w[k - 1], rs[k], w[k])
      OBVIOUS
    <2>1. k - 1 \in 0 .. n /\ k \in 0 .. n
      BY <1>3
    <2>2. Turns(s, v[k - 1], rs[k], v[k])
      BY <1>4
    <2>3. Turns(s, Canceling(v[k - 1]), rs[k], Canceling(v[k]))
      BY <2>1, <2>2, <1>3, <1>5, CancelingTurns
    <2> QED BY <2>1, <2>3, <1>6
  <1>9. \A j, k \in 0 .. n : j <= k => Later(w[j], w[k])
    <2> SUFFICES ASSUME NEW j \in 0 .. n, NEW k \in 0 .. n, j <= k PROVE Later(w[j], w[k])
      OBVIOUS
    <2>1. Later(v[j], v[k]) /\ v[j] \in OMOrder /\ v[k] \in OMOrder
      BY <1>4
    <2>2. w[j].order_id_ = v[j].order_id_ /\ w[j].qty_ = v[j].qty_
          /\ w[j].order_state_ = IF v[j].order_state_ = "LIVE" THEN "PENDING_CANCEL" ELSE "DEAD"
      BY <1>5, <1>6, CancelingProperties
    <2>3. w[k].order_id_ = v[k].order_id_ /\ w[k].qty_ = v[k].qty_
          /\ w[k].order_state_ = IF v[k].order_state_ = "LIVE" THEN "PENDING_CANCEL" ELSE "DEAD"
      BY <1>5, <1>6, CancelingProperties
    <2>4. w[j].order_state_ \in Free => w[k] = w[j]
      <3> SUFFICES ASSUME w[j].order_state_ \in Free PROVE w[k] = w[j]
        OBVIOUS
      <3>1. v[j].order_state_ = "DEAD"
        BY <2>2, <1>5 DEF Free
      <3> QED BY <3>1, <2>1, <1>6 DEF Later, Free
    <2>5. v[k].order_state_ = v[j].order_state_ \/ v[k].order_state_ = "DEAD"
      <3>1. v[j].order_state_ = "DEAD" => v[k] = v[j]
        BY <2>1 DEF Later, Free
      <3> QED BY <3>1, <1>5
    <2>6. w[k].order_state_ \in After(w[j].order_state_)
      <3>1. v[j].order_state_ \in {"LIVE", "DEAD"}
        BY <1>5
      <3>2. CASE v[j].order_state_ = "LIVE"
        BY <3>2, <2>2, <2>3 DEF After
      <3>3. CASE v[j].order_state_ = "DEAD"
        BY <3>3, <2>2, <2>3, <2>5 DEF After
      <3> QED BY <3>1, <3>2, <3>3
    <2>7. w[k].order_id_ = w[j].order_id_ /\ w[k].qty_ <= w[j].qty_
      <3>1. v[k].order_id_ = v[j].order_id_ /\ v[k].qty_ <= v[j].qty_
        BY <2>1 DEF Later
      <3> QED BY <3>1, <2>2, <2>3
    <2> QED BY <2>4, <2>6, <2>7 DEF Later
  <1>10. View(s, rs, w)
    BY <1>2, <1>7, <1>8, <1>9 DEF View
  <1> QED BY <1>1, <1>2, <1>3, <1>5, <1>6, <1>10 DEF Leads

-----------------------------------------------------------------------------
(* The requests under way for one OMOrder: one sent behind the others, and *)
(* the first one processed.                                                *)
LEMMA RequestedAppend ==
    ASSUME NEW s, NEW o, NEW qs \in Seq(RequestMsg), NEW q \in RequestMsg, Requested(s, o, qs),
           q.type = "NEW" => q.side # s,
           q.type = "CANCEL" => q.order_id # o.order_id_
    PROVE  Requested(s, o, Append(qs, q))
  <1>1. PICK rs : rs = Append(qs, q)
    OBVIOUS
  <1>2. PICK m : m = Len(qs)
    OBVIOUS
  <1>3. /\ m \in Nat /\ DOMAIN qs = 1 .. m /\ DOMAIN rs = 1 .. m + 1
        /\ \A n \in 1 .. m : rs[n] = qs[n]
        /\ rs[m + 1] = q
    BY <1>1, <1>2, AppendProperties
  <1>4. \A n \in 1 .. m + 1 : n \in 1 .. m \/ n = m + 1
    BY <1>3
  <1>5. 1 .. m \subseteq 1 .. m + 1
    BY <1>3
  <1> QED BY <1>1, <1>3, <1>4, <1>5 DEF Requested

LEMMA RequestedNew ==
    ASSUME NEW s, NEW o, NEW p, NEW qs \in Seq(RequestMsg), NEW q \in RequestMsg,
           Requested(s, o, qs), o.order_state_ # "PENDING_NEW",
           q.type = "NEW", q.side = s, q.order_id = p.order_id_, q.qty = p.qty_,
           p.order_state_ = "PENDING_NEW", \A n \in DOMAIN qs : qs[n].order_id < p.order_id_
    PROVE  Requested(s, p, Append(qs, q))
  <1>1. PICK rs : rs = Append(qs, q)
    OBVIOUS
  <1>2. PICK m : m = Len(qs)
    OBVIOUS
  <1>3. /\ m \in Nat /\ DOMAIN qs = 1 .. m /\ DOMAIN rs = 1 .. m + 1
        /\ \A n \in 1 .. m : rs[n] = qs[n]
        /\ rs[m + 1] = q
    BY <1>1, <1>2, AppendProperties
  <1>4. \A n \in 1 .. m + 1 : n \in 1 .. m \/ n = m + 1
    BY <1>3
  <1>5. m + 1 \in 1 .. m + 1
    BY <1>3
  <1>6. \A n \in 1 .. m : ~(qs[n].type = "NEW" /\ qs[n].side = s)
    BY <1>3 DEF Requested
  <1>7. \A n \in 1 .. m : qs[n].order_id # p.order_id_
    <2> SUFFICES ASSUME NEW n \in 1 .. m, qs[n].order_id = p.order_id_ PROVE FALSE
      OBVIOUS
    <2>1. p.order_id_ < p.order_id_ /\ p.order_id_ \in Int
      BY <1>3 DEF RequestMsg, OrderIds
    <2> QED BY <2>1
  <1> QED BY <1>1, <1>3, <1>4, <1>5, <1>6, <1>7 DEF Requested

LEMMA RequestedCancel ==
    ASSUME NEW s, NEW o, NEW p, NEW qs \in Seq(RequestMsg), NEW q \in RequestMsg,
           Requested(s, o, qs), o.order_state_ # "PENDING_NEW",
           q.type = "CANCEL", q.side = s, q.order_id = o.order_id_,
           p.order_id_ = o.order_id_, p.order_state_ \in {"PENDING_CANCEL", "DEAD"}
    PROVE  Requested(s, p, Append(qs, q))
  <1>1. PICK rs : rs = Append(qs, q)
    OBVIOUS
  <1>2. PICK m : m = Len(qs)
    OBVIOUS
  <1>3. /\ m \in Nat /\ DOMAIN qs = 1 .. m /\ DOMAIN rs = 1 .. m + 1
        /\ \A n \in 1 .. m : rs[n] = qs[n]
        /\ rs[m + 1] = q
    BY <1>1, <1>2, AppendProperties
  <1>4. \A n \in 1 .. m + 1 : n \in 1 .. m \/ n = m + 1
    BY <1>3
  <1>5. m + 1 \in 1 .. m + 1
    BY <1>3
  <1> QED BY <1>1, <1>3, <1>4, <1>5 DEF Requested

(* What becomes of the order at the exchange, without a request. *)
LEMMA RequestedStill ==
    ASSUME NEW s, NEW o, NEW p, NEW qs, Requested(s, o, qs),
           o.order_state_ # "PENDING_NEW", p.order_state_ # "PENDING_NEW",
           p.order_id_ = o.order_id_,
           p.order_state_ = "PENDING_CANCEL" => o.order_state_ = "PENDING_CANCEL",
           o.order_state_ \in {"PENDING_CANCEL", "DEAD"} => p.order_state_ \in {"PENDING_CANCEL", "DEAD"}
    PROVE  Requested(s, p, qs)
  BY DEF Requested

(* The first request processed, when it is not about o. *)
LEMMA RequestedTail ==
    ASSUME NEW s, NEW o, NEW qs \in Seq(RequestMsg), qs # <<>>, Requested(s, o, qs),
           Head(qs).type = "NEW" => Head(qs).side # s,
           Head(qs).type = "CANCEL" => ~(Head(qs).order_id = o.order_id_
                                         /\ o.order_state_ = "PENDING_CANCEL")
    PROVE  Requested(s, o, Tail(qs))
  <1>1. PICK rs : rs = Tail(qs)
    OBVIOUS
  <1>2. PICK m : m = Len(qs)
    OBVIOUS
  <1>3. /\ m \in Nat /\ DOMAIN qs = 1 .. m /\ DOMAIN rs = 1 .. m - 1
        /\ \A n \in 1 .. m - 1 : rs[n] = qs[n + 1]
        /\ Head(qs) = qs[1]
    BY <1>1, <1>2, HeadTail
  <1>4. \A n \in 1 .. m : n = 1 \/ (n - 1 \in 1 .. m - 1 /\ rs[n - 1] = qs[n])
    <2> SUFFICES ASSUME NEW n \in 1 .. m, n # 1
                 PROVE  n - 1 \in 1 .. m - 1 /\ rs[n - 1] = qs[n]
      OBVIOUS
    <2>1. n - 1 \in 1 .. m - 1 /\ (n - 1) + 1 = n
      BY <1>3
    <2> QED BY <2>1, <1>3
  <1>5. \A n \in 1 .. m - 1 : n + 1 \in 1 .. m
    BY <1>3
  <1>6. \A n, k \in 1 .. m - 1 : n + 1 = k + 1 => n = k
    BY <1>3
  <1>7. o.order_state_ = "PENDING_NEW" => \E n \in 1 .. m - 1 : rs[n].type = "NEW" /\ rs[n].side = s
    BY <1>3, <1>4 DEF Requested
  <1>8. \A n \in 1 .. m - 1 : rs[n].type = "NEW" /\ rs[n].side = s =>
           /\ o.order_state_ = "PENDING_NEW"
           /\ rs[n].order_id = o.order_id_
           /\ rs[n].qty = o.qty_
    BY <1>3, <1>5 DEF Requested
  <1>9. \A n, k \in 1 .. m - 1 :
           rs[n].type = "NEW" /\ rs[n].side = s /\ rs[k].type = "NEW" /\ rs[k].side = s => n = k
    <2> SUFFICES ASSUME NEW n \in 1 .. m - 1, NEW k \in 1 .. m - 1,
                        rs[n].type = "NEW" /\ rs[n].side = s, rs[k].type = "NEW" /\ rs[k].side = s
                 PROVE  n = k
      OBVIOUS
    <2>1. rs[n] = qs[n + 1] /\ rs[k] = qs[k + 1] /\ n + 1 \in 1 .. m /\ k + 1 \in 1 .. m
      BY <1>3, <1>5
    <2>2. \A i, j \in 1 .. m : qs[i].type = "NEW" /\ qs[i].side = s
                             /\ qs[j].type = "NEW" /\ qs[j].side = s => i = j
      BY <1>3 DEF Requested
    <2>3. n + 1 = k + 1
      BY <2>1, <2>2
    <2> QED BY <2>3, <1>6
  <1>10. o.order_state_ = "PENDING_CANCEL" =>
           \E n \in 1 .. m - 1 : rs[n].type = "CANCEL" /\ rs[n].order_id = o.order_id_
    <2> SUFFICES ASSUME o.order_state_ = "PENDING_CANCEL"
                 PROVE  \E n \in 1 .. m - 1 : rs[n].type = "CANCEL" /\ rs[n].order_id = o.order_id_
      OBVIOUS
    <2>1. PICK n \in 1 .. m : qs[n].type = "CANCEL" /\ qs[n].order_id = o.order_id_
      BY <1>3 DEF Requested
    <2>2. n # 1
      BY <2>1, <1>3
    <2>3. n - 1 \in 1 .. m - 1 /\ rs[n - 1] = qs[n]
      BY <2>2, <1>4
    <2> QED BY <2>1, <2>3
  <1>11. \A n \in 1 .. m - 1 : rs[n].type = "CANCEL" /\ rs[n].order_id = o.order_id_ =>
           rs[n].side = s /\ o.order_state_ \in {"PENDING_CANCEL", "DEAD"}
    BY <1>3, <1>5 DEF Requested
  <1> QED BY <1>1, <1>3, <1>7, <1>8, <1>9, <1>10, <1>11 DEF Requested

(* The new order comes to the exchange. *)
LEMMA RequestedTailNew ==
    ASSUME NEW s, NEW o, NEW p, NEW qs \in Seq(RequestMsg), qs # <<>>, Requested(s, o, qs),
           Head(qs).type = "NEW", Head(qs).side = s,
           p.order_id_ = o.order_id_, p.order_state_ = "LIVE"
    PROVE  Requested(s, p, Tail(qs))
  <1>1. PICK rs : rs = Tail(qs)
    OBVIOUS
  <1>2. PICK m : m = Len(qs)
    OBVIOUS
  <1>3. /\ m \in Nat /\ DOMAIN qs = 1 .. m /\ DOMAIN rs = 1 .. m - 1
        /\ \A n \in 1 .. m - 1 : rs[n] = qs[n + 1]
        /\ Head(qs) = qs[1] /\ 1 \in 1 .. m
    BY <1>1, <1>2, HeadTail
  <1>4. \A n \in 1 .. m - 1 : n + 1 \in 1 .. m /\ n + 1 # 1
    BY <1>3
  <1>5. o.order_state_ = "PENDING_NEW"
    BY <1>3 DEF Requested
  <1>6. \A n \in 1 .. m - 1 : ~(rs[n].type = "NEW" /\ rs[n].side = s)
    BY <1>3, <1>4 DEF Requested
  <1>7. \A n \in 1 .. m - 1 : ~(rs[n].type = "CANCEL" /\ rs[n].order_id = p.order_id_)
    BY <1>3, <1>4, <1>5 DEF Requested
  <1> QED BY <1>1, <1>3, <1>6, <1>7 DEF Requested

(* The cancel comes to the exchange. *)
LEMMA RequestedTailCancel ==
    ASSUME NEW s, NEW o, NEW p, NEW qs \in Seq(RequestMsg), qs # <<>>, Requested(s, o, qs),
           o.order_state_ = "PENDING_CANCEL", p.order_state_ = "DEAD",
           p.order_id_ = o.order_id_
    PROVE  Requested(s, p, Tail(qs))
  <1>1. Requested(s, p, qs)
    BY RequestedStill
  <1>2. Head(qs).type # "NEW" \/ Head(qs).side # s
    <2>1. Head(qs) = qs[1] /\ 1 \in DOMAIN qs
      BY HeadTail
    <2> QED BY <2>1 DEF Requested
  <1> QED BY <1>1, <1>2, RequestedTail

-----------------------------------------------------------------------------
LEMMA InitIInv == Init => IInv
  <1> SUFFICES ASSUME Init PROVE IInv
    OBVIOUS
  <1> USE BoundAssumption, ClipAssumption, RiskAssumption
  <1>1. PICK f : f = ticker_side_order_
    OBVIOUS
  <1>2. NoOrder \in OMOrder
    BY DEF NoOrder, OMOrder, Qtys, OMOrderStates
  <1>3. f \in [Sides -> OMOrder] /\ \A s \in Sides : f[s] = NoOrder
    BY <1>1, <1>2 DEF Init
  <1>4. DOMAIN resting = {} /\ responses = <<>> /\ requests = <<>> /\ position_ = 0 /\ net = 0
        /\ next_order_id_ = 1 /\ ticker_side_order_ = f
    BY <1>1 DEF Init
  <1>5. Types
    <2>1. resting \in [DOMAIN resting -> [side : Sides, qty : Qtys]]
      <3>1. PICK r : r = resting
        OBVIOUS
      <3>2. r = [id \in {} |-> NoOrder]
        BY <3>1, Zenon DEF Init
      <3>3. r \in [DOMAIN r -> [side : Sides, qty : Qtys]]
        BY <3>2
      <3> QED BY <3>1, <3>3
    <2>2. responses \in Seq(ResponseMsg) /\ requests \in Seq(RequestMsg)
      BY <1>4
    <2>3. DOMAIN resting \subseteq OrderIds /\ algo_type \in AlgoTypes
      BY <1>4 DEF Init
    <2>4. next_order_id_ \in 1 .. MaxOrders + 1 /\ position_ \in Int /\ net \in Int
      BY <1>4
    <2> QED BY <1>3, <1>4, <2>1, <2>2, <2>3, <2>4 DEF Types
  <1>6. \A s \in Sides : f[s].order_state_ = "INVALID" /\ f[s].order_id_ = 0 /\ f[s].qty_ = 0
    BY <1>3 DEF NoOrder, OrderId_INVALID
  <1>7. "BUY" \in Sides /\ "SELL" \in Sides
    BY DEF Sides
  <1>8. Numbered(ticker_side_order_, requests, next_order_id_)
    BY <1>4, <1>6, <1>7 DEF Numbered, OrderId_INVALID
  <1>9. Limits
    BY <1>4, <1>6 DEF Limits, Allowed, Free, Abs
  <1>10. ASSUME NEW s \in Sides
         PROVE  /\ Leads(s, ticker_side_order_[s], responses, f[s])
                /\ Requested(s, f[s], requests)
                /\ AtExchange(s, f[s])
    <2> DEFINE v == [k \in 0 .. 0 |-> f[s]]
    <2>1. v \in [0 .. 0 -> OMOrder] /\ v[0] = f[s] /\ \A k \in 0 .. 0 : v[k] = f[s]
      BY <1>3
    <2>2. Later(f[s], f[s])
      BY <1>3, LaterReflexive
    <2> HIDE DEF v
    <2>3. View(s, <<>>, v)
      BY <2>1, <2>2 DEF View
    <2>4. Leads(s, f[s], <<>>, f[s])
      BY <2>1, <2>3 DEF Leads
    <2>5. Requested(s, f[s], <<>>)
      BY <1>6 DEF Requested
    <2>6. AtExchange(s, f[s])
      BY <1>4, <1>6 DEF AtExchange
    <2> QED BY <1>4, <2>4, <2>5, <2>6
  <1>11. Accounted(f)
    BY <1>4, <1>6, <1>7 DEF Accounted
  <1>12. Tracks(f)
    BY <1>3, <1>10, <1>11 DEF Tracks
  <1> QED BY <1>5, <1>8, <1>9, <1>12 DEF IInv

-----------------------------------------------------------------------------
(* moveOrder. *)
LEMMA RiskChecked ==
    ASSUME NEW side, NEW qty, NEW loss, checkPreTradeRisk(side, qty, loss) = "ALLOWED",
           position_ \in Int, qty \in Int
    PROVE  Abs(position_ + sideToValue(side) * qty) <= max_position_
  <1>1. sideToValue(side) * qty \in Int
    BY DEF sideToValue
  <1>2. Abs(position_ + sideToValue(side) * qty) \in Int
    BY <1>1 DEF Abs
  <1>3. ~(Abs(position_ + sideToValue(side) * qty) > max_position_)
    BY Zenon DEF checkPreTradeRisk
  <1> QED BY <1>2, <1>3, RiskAssumption

(* moveOrder on the OMOrder o of side s, while the exchange has made f of   *)
(* it and g of that of the other side t, qs are the requests and id is the *)
(* next order id.                                                          *)
CanMove(s, t, o, f, g, qs, id) ==
    /\ s \in Sides /\ t \in Sides /\ s # t
    /\ qs \in Seq(RequestMsg) /\ id \in 1 .. MaxOrders + 1
    /\ f \in OMOrder /\ g \in OMOrder
    /\ Leads(s, o, responses, f) /\ Requested(s, f, qs) /\ AtExchange(s, f) /\ Requested(t, g, qs)
    /\ g.order_id_ < id /\ (g.order_id_ = f.order_id_ => f.order_id_ = OrderId_INVALID)
    /\ \A n \in DOMAIN qs : qs[n].order_id < id
    /\ o.order_id_ < id /\ (o.order_id_ = OrderId_INVALID <=> o.order_state_ = "INVALID")
    /\ Allowed(s, o)

(* What it has done, when out are the requests after it and h is what the   *)
(* exchange will have made of the order then.                              *)
MovedTo(s, t, o, f, g, m, out, h) ==
    /\ h \in OMOrder
    /\ h.order_id_ = m.order.order_id_
    /\ Leads(s, m.order, responses, h)
    /\ Requested(s, h, out)
    /\ AtExchange(s, h)
    /\ Requested(t, g, out)
    /\ m.order.qty_ - h.qty_ = o.qty_ - f.qty_

Moved(s, t, o, f, g, m, out, id) ==
    /\ m.order \in OMOrder
    /\ out \in Seq(RequestMsg)
    /\ \E h : MovedTo(s, t, o, f, g, m, out, h)
    /\ Allowed(s, m.order)
    /\ m.order.order_id_ = OrderId_INVALID <=> m.order.order_state_ = "INVALID"
    /\ \/ m.order.order_id_ = o.order_id_ /\ \A n \in DOMAIN out : out[n].order_id < id
       \/ /\ m.order.order_id_ = id /\ id <= MaxOrders
          /\ \A n \in DOMAIN out : out[n].order_id < id + 1

(* order_manager.h, moveOrder: the requests stay those of one order a side. *)
LEMMA MoveOrder ==
    ASSUME Types, NEW s, NEW t, NEW f, NEW g, NEW qs, NEW id,
           NEW price \in Prices \cup {Price_INVALID}, NEW loss \in BOOLEAN,
           NEW o, o = ticker_side_order_[s],
           NEW m, m = moveOrder(id, s, price, loss),
           CanMove(s, t, o, f, g, qs, id)
    PROVE  Moved(s, t, o, f, g, m, qs \o m.sent, id)
  <1>0. /\ s \in Sides /\ t \in Sides /\ s # t
        /\ qs \in Seq(RequestMsg) /\ id \in 1 .. MaxOrders + 1
        /\ f \in OMOrder /\ g \in OMOrder
        /\ Leads(s, o, responses, f) /\ Requested(s, f, qs) /\ AtExchange(s, f) /\ Requested(t, g, qs)
        /\ g.order_id_ < id /\ (g.order_id_ = f.order_id_ => f.order_id_ = OrderId_INVALID)
        /\ \A n \in DOMAIN qs : qs[n].order_id < id
        /\ o.order_id_ < id /\ (o.order_id_ = OrderId_INVALID <=> o.order_state_ = "INVALID")
        /\ Allowed(s, o)
    BY DEF CanMove
  <1> USE ClipAssumption, BoundAssumption, <1>0
  <1>1. o \in OMOrder /\ responses \in Seq(ResponseMsg) /\ position_ \in Int
    BY DEF Types
  <1>2. o.qty_ \in Int /\ f.qty_ \in Int /\ id \in Int /\ o.order_id_ \in Int /\ id >= 1
        /\ f.order_id_ = o.order_id_
    BY <1>1, LeadsLater DEF OMOrder, Qtys, OrderIds, OrderId_INVALID, Later
  <1>3. \A n \in DOMAIN qs : qs[n].order_id \in Int
    <2>1. \A n \in DOMAIN qs : qs[n] \in RequestMsg
      OBVIOUS
    <2>2. \A q \in RequestMsg : q.order_id \in Int
      BY DEF RequestMsg, OrderIds
    <2> QED BY <2>1, <2>2
  <1>4. CASE o.order_state_ = "LIVE" /\ o.price_ # price
    <2>1. m = cancelOrder(o, s)
      <3>1. ticker_side_order_[s].order_state_ = "LIVE" /\ ticker_side_order_[s].price_ # price
        BY <1>4
      <3>2. m = cancelOrder(ticker_side_order_[s], s)
        BY <3>1 DEF moveOrder, Free
      <3> QED BY <3>2
    <2>2. PICK q : q = Request("CANCEL", o.order_id_, s, o.qty_)
      OBVIOUS
    <2>3. m.order = Canceling(o) /\ m.sent = <<q>>
      BY <2>1, <2>2, <1>4 DEF cancelOrder, Canceling
    <2>4. o.order_id_ \in OrderIds
      BY <1>1, <1>4 DEF OMOrder
    <2>5. q \in RequestMsg /\ q.type = "CANCEL" /\ q.side = s /\ q.order_id = o.order_id_
      BY <1>1, <2>2, <2>4 DEF Request, RequestMsg, OMOrder
    <2>6. qs \o m.sent = Append(qs, q)
      BY <2>3
    <2>7. f.order_state_ \in {"LIVE", "DEAD"} /\ Leads(s, Canceling(o), responses, Canceling(f))
      BY <1>1, <1>4, LeadsCancel
    <2>8. PICK h : h = Canceling(f)
      OBVIOUS
    <2>9. h \in OMOrder /\ h.order_id_ = f.order_id_ /\ h.qty_ = f.qty_
          /\ h.order_state_ = IF f.order_state_ = "LIVE" THEN "PENDING_CANCEL" ELSE "DEAD"
      BY <2>7, <2>8, CancelingProperties
    <2>10. Canceling(o) \in OMOrder /\ Canceling(o).order_id_ = o.order_id_ /\ Canceling(o).qty_ = o.qty_
           /\ Canceling(o).order_state_ = "PENDING_CANCEL"
      BY <1>1, <1>4, CancelingProperties
    <2>11. Requested(s, h, Append(qs, q))
      <3>1. f.order_state_ # "PENDING_NEW" /\ h.order_state_ \in {"PENDING_CANCEL", "DEAD"}
            /\ q.order_id = f.order_id_
        BY <2>5, <2>7, <2>9, <1>2
      <3> QED BY <2>5, <2>9, <3>1, RequestedCancel
    <2>12. Requested(t, g, Append(qs, q))
      <3>1. f.order_id_ # OrderId_INVALID
        BY <1>2, <1>4
      <3>2. q.order_id # g.order_id_
        BY <3>1, <2>5, <1>2
      <3> QED BY <2>5, <3>2, RequestedAppend
    <2>13. AtExchange(s, h)
      BY <2>7, <2>9 DEF AtExchange
    <2>14. \A n \in DOMAIN Append(qs, q) : Append(qs, q)[n].order_id < id
      <3>1. \A n \in DOMAIN Append(qs, q) : n = Len(qs) + 1 \/ n \in DOMAIN qs
        BY <2>5, AppendProperties
      <3>2. \A n \in DOMAIN qs : Append(qs, q)[n].order_id < id
        BY <2>5, AppendProperties
      <3>3. Append(qs, q)[Len(qs) + 1].order_id < id
        BY <2>5, AppendProperties
      <3> QED BY <3>1, <3>2, <3>3
    <2>15. Allowed(s, Canceling(o))
      BY <2>10, <1>4 DEF Allowed, Free
    <2>16. Append(qs, q) \in Seq(RequestMsg)
      BY <2>5
    <2>17. OrderId_INVALID # o.order_id_
      BY <1>4
    <2>18. \E x : MovedTo(s, t, o, f, g, m, qs \o m.sent, x)
      BY <2>3, <2>6, <2>7, <2>8, <2>9, <2>10, <2>11, <2>12, <2>13, <1>2 DEF MovedTo
    <2> QED BY <2>3, <2>6, <2>10, <2>14, <2>15, <2>16, <2>17, <2>18 DEF Moved
  <1>5. CASE /\ ~(o.order_state_ = "LIVE" /\ o.price_ # price)
             /\ o.order_state_ \in Free
             /\ price # Price_INVALID
             /\ checkPreTradeRisk(s, Clip, loss) = "ALLOWED"
             /\ id <= MaxOrders
    <2>1. m = newOrder(id, s, price)
      BY <1>5 DEF moveOrder
    <2>2. PICK q : q = Request("NEW", id, s, Clip)
      OBVIOUS
    <2>3. PICK p : p = [order_id_ |-> id, price_ |-> price, qty_ |-> Clip, order_state_ |-> "PENDING_NEW"]
      OBVIOUS
    <2>4. m.order = p /\ m.sent = <<q>>
      BY <2>1, <2>2, <2>3 DEF newOrder
    <2>5. id \in OrderIds /\ Clip \in Qtys
      BY <1>5, <1>2 DEF OrderIds, Qtys
    <2>6. q \in RequestMsg /\ q.type = "NEW" /\ q.side = s /\ q.order_id = id /\ q.qty = Clip
      BY <2>2, <2>5 DEF Request, RequestMsg
    <2>7. p \in OMOrder /\ p.order_id_ = id /\ p.qty_ = Clip /\ p.order_state_ = "PENDING_NEW"
      BY <2>3, <2>5, <1>5 DEF OMOrder, OMOrderStates
    <2>8. qs \o m.sent = Append(qs, q)
      BY <2>4
    <2>9. f = o /\ Leads(s, p, responses, p)
      BY <1>1, <1>5, <2>7, LeadsFree
    <2>10. Requested(s, p, Append(qs, q))
      <3>1. f.order_state_ # "PENDING_NEW"
        BY <2>9, <1>5 DEF Free
      <3> QED BY <2>6, <2>7, <3>1, RequestedNew
    <2>11. Requested(t, g, Append(qs, q))
      BY <2>6, RequestedAppend
    <2>12. AtExchange(s, p)
      BY <2>7, <2>9, <1>5 DEF AtExchange, Free
    <2>13. \A n \in DOMAIN Append(qs, q) : Append(qs, q)[n].order_id < id + 1
      <3>1. \A n \in DOMAIN Append(qs, q) : n = Len(qs) + 1 \/ n \in DOMAIN qs
        BY <2>6, AppendProperties
      <3>2. \A n \in DOMAIN qs : Append(qs, q)[n] = qs[n]
        BY <2>6, AppendProperties
      <3>3. Append(qs, q)[Len(qs) + 1].order_id < id + 1
        BY <2>6, <1>2, AppendProperties
      <3>4. \A n \in DOMAIN qs : Append(qs, q)[n].order_id < id + 1
        <4> SUFFICES ASSUME NEW n \in DOMAIN qs PROVE Append(qs, q)[n].order_id < id + 1
          OBVIOUS
        <4>1. qs[n].order_id < id /\ qs[n].order_id \in Int
          BY <1>3
        <4>2. qs[n].order_id < id + 1
          BY <4>1, <1>2
        <4> QED BY <4>2, <3>2
      <3> QED BY <3>1, <3>3, <3>4
    <2>14. Allowed(s, p)
      BY <1>1, <1>5, <2>7, RiskChecked DEF Allowed
    <2>15. Append(qs, q) \in Seq(RequestMsg)
      BY <2>6
    <2>16. id # OrderId_INVALID
      BY <1>2 DEF OrderId_INVALID
    <2>17. \E x : MovedTo(s, t, o, f, g, m, qs \o m.sent, x)
      <3>1. p.qty_ - p.qty_ = o.qty_ - f.qty_
        BY <2>7, <2>9, <1>2
      <3> QED BY <2>4, <2>7, <2>8, <2>9, <2>10, <2>11, <2>12, <3>1 DEF MovedTo
    <2> QED BY <1>5, <2>4, <2>7, <2>8, <2>13, <2>14, <2>15, <2>16, <2>17 DEF Moved
  <1>6. CASE /\ ~(o.order_state_ = "LIVE" /\ o.price_ # price)
             /\ ~(/\ o.order_state_ \in Free
                  /\ price # Price_INVALID
                  /\ checkPreTradeRisk(s, Clip, loss) = "ALLOWED"
                  /\ id <= MaxOrders)
    <2>1. m = [order |-> o, sent |-> <<>>]
      BY <1>6 DEF moveOrder
    <2>2. m.order = o /\ m.sent = <<>>
      BY <2>1
    <2>3. qs \o m.sent = qs
      BY <2>2
    <2>4. \E x : MovedTo(s, t, o, f, g, m, qs \o m.sent, x)
      BY <2>2, <2>3, <1>2 DEF MovedTo
    <2> QED BY <1>1, <2>2, <2>3, <2>4 DEF Moved
  <1> QED BY <1>4, <1>5, <1>6

LEMMA BothSides == Sides = {"BUY", "SELL"} /\ "BUY" \in Sides /\ "SELL" \in Sides
  BY DEF Sides

(* moveOrders: whatever the two prices are. *)
LEMMA MoveOrdersStep ==
    ASSUME IInv, NEW bid_price \in Prices \cup {Price_INVALID},
           NEW ask_price \in Prices \cup {Price_INVALID}, NEW loss \in BOOLEAN,
           moveOrders(bid_price, ask_price, loss),
           UNCHANGED <<algo_type, position_, responses, resting, net>>
    PROVE  IInv'
  <1> USE BothSides
  <1>1. Types /\ Limits /\ Numbered(ticker_side_order_, requests, next_order_id_)
    BY DEF IInv
  <1>2. PICK f : Tracks(f)
    BY DEF IInv
  <1>3. /\ f \in [Sides -> OMOrder] /\ Accounted(f)
        /\ Leads("BUY", ticker_side_order_["BUY"], responses, f["BUY"])
        /\ Leads("SELL", ticker_side_order_["SELL"], responses, f["SELL"])
        /\ Requested("BUY", f["BUY"], requests) /\ Requested("SELL", f["SELL"], requests)
        /\ AtExchange("BUY", f["BUY"]) /\ AtExchange("SELL", f["SELL"])
    BY <1>2 DEF Tracks
  <1>4. PICK oB, oS, id : oB = ticker_side_order_["BUY"] /\ oS = ticker_side_order_["SELL"]
                          /\ id = next_order_id_
    OBVIOUS
  <1>5. PICK bid : bid = moveOrder(id, "BUY", bid_price, loss)
    OBVIOUS
  <1>6. PICK id2 : id2 = IF bid.order.order_id_ = id THEN id + 1 ELSE id
    OBVIOUS
  <1>7. PICK ask : ask = moveOrder(id2, "SELL", ask_price, loss)
    OBVIOUS
  <1>8. /\ ticker_side_order_' = [s \in Sides |-> IF s = "BUY" THEN bid.order ELSE ask.order]
        /\ next_order_id_' = IF ask.order.order_id_ = id2 THEN id2 + 1 ELSE id2
        /\ requests' = (requests \o bid.sent) \o ask.sent
    BY <1>4, <1>5, <1>6, <1>7, Zenon DEF moveOrders
  <1>9. /\ responses \in Seq(ResponseMsg) /\ requests \in Seq(RequestMsg) /\ id \in 1 .. MaxOrders + 1
        /\ id \in Int /\ oB \in OMOrder /\ oS \in OMOrder
        /\ f["BUY"] \in OMOrder /\ f["SELL"] \in OMOrder
    BY <1>1, <1>3, <1>4 DEF Types
  <1>10. f["BUY"].order_id_ = oB.order_id_ /\ f["SELL"].order_id_ = oS.order_id_
    BY <1>3, <1>4, <1>9, LeadsLater DEF Later
  <1>11. /\ oB.order_id_ < id /\ oS.order_id_ < id
         /\ oB.order_id_ = OrderId_INVALID <=> oB.order_state_ = "INVALID"
         /\ oS.order_id_ = OrderId_INVALID <=> oS.order_state_ = "INVALID"
         /\ oB.order_id_ = oS.order_id_ => oB.order_id_ = OrderId_INVALID
         /\ \A n \in DOMAIN requests : requests[n].order_id < id
    BY <1>1, <1>4 DEF Numbered
  <1>12. Allowed("BUY", oB) /\ Allowed("SELL", oS)
    BY <1>1, <1>4 DEF Limits
  <1>13. oB.order_id_ \in Int /\ oS.order_id_ \in Int /\ oB.order_id_ >= 0 /\ oS.order_id_ >= 0
         /\ id >= 1
    BY <1>9, BoundAssumption DEF OMOrder, OrderIds, OrderId_INVALID
  <1>14. PICK q1 : q1 = requests \o bid.sent
    OBVIOUS
  <1>20. Moved("BUY", "SELL", oB, f["BUY"], f["SELL"], bid, q1, id)
    <2>1. CanMove("BUY", "SELL", oB, f["BUY"], f["SELL"], requests, id)
      BY <1>3, <1>4, <1>9, <1>10, <1>11, <1>12 DEF CanMove
    <2> QED BY <1>1, <1>4, <1>5, <1>14, <2>1, MoveOrder
  <1>21. PICK hB : MovedTo("BUY", "SELL", oB, f["BUY"], f["SELL"], bid, q1, hB)
    BY <1>20 DEF Moved
  <1>21a. /\ bid.order \in OMOrder /\ q1 \in Seq(RequestMsg) /\ Allowed("BUY", bid.order)
          /\ bid.order.order_id_ = OrderId_INVALID <=> bid.order.order_state_ = "INVALID"
          /\ hB \in OMOrder /\ hB.order_id_ = bid.order.order_id_
          /\ Requested("BUY", hB, q1) /\ Requested("SELL", f["SELL"], q1)
          /\ bid.order.qty_ - hB.qty_ = oB.qty_ - f["BUY"].qty_
    BY <1>20, <1>21 DEF Moved, MovedTo
  <1>21b. \/ bid.order.order_id_ = oB.order_id_ /\ \A n \in DOMAIN q1 : q1[n].order_id < id
          \/ /\ bid.order.order_id_ = id /\ id <= MaxOrders
             /\ \A n \in DOMAIN q1 : q1[n].order_id < id + 1
    BY <1>20 DEF Moved
  <1>22. /\ id2 \in 1 .. MaxOrders + 1 /\ id2 \in Int /\ id2 >= id
         /\ hB.order_id_ < id2 /\ oS.order_id_ < id2
         /\ \A n \in DOMAIN q1 : q1[n].order_id < id2
         /\ hB.order_id_ = oS.order_id_ => oS.order_id_ = OrderId_INVALID
    <2>1. CASE bid.order.order_id_ = oB.order_id_ /\ \A n \in DOMAIN q1 : q1[n].order_id < id
      <3>1. id2 = id
        BY <2>1, <1>6, <1>11, <1>13
      <3> QED BY <2>1, <3>1, <1>9, <1>11, <1>21a
    <2>2. CASE /\ bid.order.order_id_ = id /\ id <= MaxOrders
               /\ \A n \in DOMAIN q1 : q1[n].order_id < id + 1
      <3>1. id2 = id + 1
        BY <2>2, <1>6
      <3>2. id2 \in 1 .. MaxOrders + 1
        BY <2>2, <3>1, <1>9, BoundAssumption
      <3> QED BY <2>2, <3>1, <3>2, <1>9, <1>11, <1>13, <1>21a
    <2> QED BY <2>1, <2>2, <1>21b
  <1>23. PICK q2 : q2 = q1 \o ask.sent
    OBVIOUS
  <1>24. Moved("SELL", "BUY", oS, f["SELL"], hB, ask, q2, id2)
    <2>1. CanMove("SELL", "BUY", oS, f["SELL"], hB, q1, id2)
      BY <1>3, <1>4, <1>9, <1>10, <1>11, <1>12, <1>21a, <1>22 DEF CanMove
    <2> QED BY <1>1, <1>4, <1>7, <1>23, <2>1, MoveOrder
  <1>25. PICK hS : MovedTo("SELL", "BUY", oS, f["SELL"], hB, ask, q2, hS)
    BY <1>24 DEF Moved
  <1>25a. /\ ask.order \in OMOrder /\ q2 \in Seq(RequestMsg) /\ Allowed("SELL", ask.order)
          /\ ask.order.order_id_ = OrderId_INVALID <=> ask.order.order_state_ = "INVALID"
          /\ hS \in OMOrder /\ hS.order_id_ = ask.order.order_id_
          /\ Requested("SELL", hS, q2) /\ Requested("BUY", hB, q2)
          /\ ask.order.qty_ - hS.qty_ = oS.qty_ - f["SELL"].qty_
    BY <1>24, <1>25 DEF Moved, MovedTo
  <1>25b. \/ ask.order.order_id_ = oS.order_id_ /\ \A n \in DOMAIN q2 : q2[n].order_id < id2
          \/ /\ ask.order.order_id_ = id2 /\ id2 <= MaxOrders
             /\ \A n \in DOMAIN q2 : q2[n].order_id < id2 + 1
    BY <1>24 DEF Moved
  <1>26. PICK id3 : id3 = IF ask.order.order_id_ = id2 THEN id2 + 1 ELSE id2
    OBVIOUS
  <1>27. /\ id3 \in 1 .. MaxOrders + 1
         /\ bid.order.order_id_ < id3 /\ ask.order.order_id_ < id3
         /\ \A n \in DOMAIN q2 : q2[n].order_id < id3
         /\ bid.order.order_id_ = ask.order.order_id_ => bid.order.order_id_ = OrderId_INVALID
    <2>1. CASE ask.order.order_id_ = oS.order_id_ /\ \A n \in DOMAIN q2 : q2[n].order_id < id2
      <3>1. id3 = id2
        BY <2>1, <1>13, <1>22, <1>26
      <3> QED BY <2>1, <3>1, <1>21a, <1>22
    <2>2. CASE /\ ask.order.order_id_ = id2 /\ id2 <= MaxOrders
               /\ \A n \in DOMAIN q2 : q2[n].order_id < id2 + 1
      <3>1. id3 = id2 + 1
        BY <2>2, <1>26
      <3>2. id3 \in 1 .. MaxOrders + 1
        BY <2>2, <3>1, <1>22, BoundAssumption
      <3>3. bid.order.order_id_ < id2 /\ bid.order.order_id_ \in Int
        BY <1>21a, <1>22 DEF OMOrder, OrderIds, OrderId_INVALID
      <3> QED BY <2>2, <3>1, <3>2, <3>3, <1>22
    <2> QED BY <2>1, <2>2, <1>25b
  <1>28. PICK o2 : o2 = [s \in Sides |-> IF s = "BUY" THEN bid.order ELSE ask.order]
    OBVIOUS
  <1>29. o2["BUY"] = bid.order /\ o2["SELL"] = ask.order /\ o2 \in [Sides -> OMOrder]
    BY <1>21a, <1>25a, <1>28
  <1>30. ticker_side_order_' = o2 /\ next_order_id_' = id3 /\ requests' = q2
    BY <1>8, <1>14, <1>23, <1>26, <1>28
  <1>31. Types'
    BY <1>1, <1>25a, <1>27, <1>29, <1>30 DEF Types
  <1>32. Numbered(ticker_side_order_, requests, next_order_id_)'
    <2>1. Numbered(o2, q2, id3)
      BY <1>21a, <1>25a, <1>27, <1>29 DEF Numbered
    <2> QED BY <2>1, <1>30
  <1>33. Limits'
    <2>1. Abs(position_) <= max_position_ /\ Allowed("BUY", o2["BUY"]) /\ Allowed("SELL", o2["SELL"])
      BY <1>1, <1>21a, <1>25a, <1>29 DEF Limits
    <2>2. \A s \in Sides : Allowed(s, o2[s])
      BY <2>1
    <2> QED BY <2>1, <2>2, <1>30 DEF Limits, Allowed
  <1>34. Tracks([s \in Sides |-> IF s = "BUY" THEN hB ELSE hS])'
    <2>1. PICK h : h = [s \in Sides |-> IF s = "BUY" THEN hB ELSE hS]
      OBVIOUS
    <2>2. h \in [Sides -> OMOrder] /\ h["BUY"] = hB /\ h["SELL"] = hS
      BY <2>1, <1>21a, <1>25a
    <2>3. \A s \in Sides : Leads(s, o2[s], responses, h[s]) /\ Requested(s, h[s], q2) /\ AtExchange(s, h[s])
      BY <2>2, <1>21, <1>25, <1>29 DEF MovedTo
    <2>4. net = position_ + (oB.qty_ - f["BUY"].qty_) - (oS.qty_ - f["SELL"].qty_)
      BY <1>3, <1>4 DEF Accounted
    <2>5. net = position_ + (o2["BUY"].qty_ - h["BUY"].qty_) - (o2["SELL"].qty_ - h["SELL"].qty_)
      BY <2>2, <2>4, <1>21a, <1>25a, <1>29
    <2>6. Accounted(h)'
      BY <2>5, <1>30 DEF Accounted
    <2>7. \A s \in Sides : AtExchange(s, h[s])'
      BY <2>3 DEF AtExchange
    <2>8. Tracks(h)'
      BY <2>2, <2>3, <2>6, <2>7, <1>30 DEF Tracks
    <2> QED BY <2>1, <2>8
  <1> QED BY <1>31, <1>32, <1>33, <1>34 DEF IInv

-----------------------------------------------------------------------------
(* onOrderUpdate: the response is what the OMOrder of its side waits for,   *)
(* and the order was checked for the whole of what it can still trade.      *)
LEMMA TurnsKeeps ==
    ASSUME NEW s, NEW o \in OMOrder, NEW r \in ResponseMsg, NEW p, Turns(s, o, r, p)
    PROVE  /\ p \in OMOrder
           /\ p.order_id_ = o.order_id_
           /\ p.order_state_ = "INVALID" <=> o.order_state_ = "INVALID"
           /\ o.order_state_ \in Free => p.order_state_ \in Free
           /\ r.side # s \/ r.type # "FILLED" => p.qty_ = o.qty_
           /\ r.side = s /\ r.type = "FILLED" =>
                  /\ o.order_state_ \notin Free
                  /\ p.qty_ = o.qty_ - r.exec_qty /\ r.exec_qty \in 0 .. o.qty_
  <1> USE ClipAssumption
  <1>1. p \in OMOrder /\ Later(o, p)
    BY ResponseTurns, LaterReflexive DEF Turns
  <1>2. p.order_id_ = o.order_id_ /\ (o.order_state_ \in Free => p.order_state_ \in Free)
        /\ (o.order_state_ = "INVALID" => p.order_state_ = "INVALID")
    BY <1>1 DEF Later, Free
  <1>3. p.order_state_ = "INVALID" => o.order_state_ = "INVALID"
    BY <1>1 DEF Later, After, OMOrder, OMOrderStates
  <1>4. r.side # s => p = o
    BY DEF Turns
  <1>5. ASSUME r.side = s, r.type # "FILLED" PROVE p.qty_ = o.qty_
    <2>1. p = AfterResponse(o, r) /\ r.type \in {"ACCEPTED", "CANCELED"}
      BY <1>5 DEF Turns, Expected
    <2>2. p = [o EXCEPT !.order_state_ = "LIVE"] \/ p = [o EXCEPT !.order_state_ = "DEAD"]
      BY <2>1 DEF AfterResponse
    <2> QED BY <2>2 DEF OMOrder
  <1>6. ASSUME r.side = s, r.type = "FILLED"
        PROVE  /\ o.order_state_ \notin Free
               /\ p.qty_ = o.qty_ - r.exec_qty /\ r.exec_qty \in 0 .. o.qty_
    <2>1. p = Filled(o, r) /\ Expected(o, r)
      BY <1>6 DEF Turns, AfterResponse
    <2>2. p.qty_ = r.leaves_qty
      BY <2>1 DEF Filled, OMOrder
    <2>3. o.order_state_ \in {"LIVE", "PENDING_CANCEL"} /\ r.exec_qty + r.leaves_qty = o.qty_
      BY <2>1, <1>6 DEF Expected
    <2>4. r.exec_qty \in Nat /\ r.leaves_qty \in Nat /\ o.qty_ \in Nat
      BY DEF ResponseMsg, Qtys, OMOrder
    <2> QED BY <2>2, <2>3, <2>4 DEF Free
  <1> QED BY <1>1, <1>2, <1>3, <1>4, <1>5, <1>6

LEMMA AbsBound == \A n \in Int, m \in Nat : Abs(n) <= m <=> -m <= n /\ n <= m
  BY DEF Abs

(* A fill moves the position towards the one the order was checked for.     *)
LEMMA FillWithinLimit ==
    ASSUME NEW p \in Int, NEW x \in Nat, NEW q \in Nat, x <= q, NEW w \in Nat, NEW m \in Nat,
           NEW v \in {1, -1}, Abs(p) <= m, Abs(p + v * q) <= m
    PROVE  /\ Abs(p + v * x) <= m
           /\ Abs((p + v * x) + v * (q - x)) <= m
           /\ Abs(p + (-v) * w) <= m => Abs((p + v * x) + (-v) * w) <= m
  <1>1. CASE v = 1
    BY <1>1, AbsBound
  <1>2. CASE v = -1
    BY <1>2, AbsBound
  <1> QED BY <1>1, <1>2

LEMMA OnOrderUpdateStep ==
    ASSUME IInv, OnOrderUpdate
    PROVE  IInv'
  <1> USE BothSides
  <1>1. Types /\ Limits /\ Numbered(ticker_side_order_, requests, next_order_id_)
    BY DEF IInv
  <1>2. PICK f : Tracks(f)
    BY DEF IInv
  <1>3. PICK r : r = Head(responses)
    OBVIOUS
  <1>4. PICK o : o = ticker_side_order_
    OBVIOUS
  <1>5. PICK o2 : o2 = [s \in Sides |-> IF s = r.side THEN AfterResponse(o[s], r) ELSE o[s]]
    OBVIOUS
  <1>6. /\ responses # <<>> /\ responses' = Tail(responses) /\ ticker_side_order_' = o2
        /\ position_' = IF r.type = "FILLED" THEN position_ + sideToValue(r.side) * r.exec_qty
                                             ELSE position_
        /\ UNCHANGED <<algo_type, next_order_id_, requests, resting, net>>
    BY <1>3, <1>4, <1>5, Zenon DEF OnOrderUpdate
  <1>7. /\ responses \in Seq(ResponseMsg) /\ r \in ResponseMsg /\ Tail(responses) \in Seq(ResponseMsg)
        /\ o \in [Sides -> OMOrder] /\ position_ \in Int
    BY <1>1, <1>3, <1>4, <1>6 DEF Types
  <1>8. ASSUME NEW s \in Sides
        PROVE  /\ Turns(s, o[s], r, o2[s])
               /\ Leads(s, o2[s], Tail(responses), f[s])
    <2>1. Leads(s, o[s], responses, f[s])
      BY <1>2, <1>4 DEF Tracks
    <2>2. PICK p : p \in OMOrder /\ Turns(s, o[s], r, p) /\ Leads(s, p, Tail(responses), f[s])
      BY <2>1, <1>3, <1>6, <1>7, LeadsTail
    <2>3. p = o2[s]
      BY <2>2, <1>5 DEF Turns
    <2> QED BY <2>2, <2>3
  <1>9. \A s \in Sides :
           /\ o2[s] \in OMOrder
           /\ o2[s].order_id_ = o[s].order_id_
           /\ o2[s].order_state_ = "INVALID" <=> o[s].order_state_ = "INVALID"
           /\ o[s].order_state_ \in Free => o2[s].order_state_ \in Free
           /\ r.side # s \/ r.type # "FILLED" => o2[s].qty_ = o[s].qty_
           /\ r.side = s /\ r.type = "FILLED" =>
                  /\ o[s].order_state_ \notin Free
                  /\ o2[s].qty_ = o[s].qty_ - r.exec_qty /\ r.exec_qty \in 0 .. o[s].qty_
    BY <1>7, <1>8, TurnsKeeps
  <1>10. o2 \in [Sides -> OMOrder]
    BY <1>5, <1>9
  <1>11. position_' \in Int /\ r.exec_qty \in Nat
    BY <1>6, <1>7, ClipAssumption DEF ResponseMsg, Qtys, sideToValue
  <1>12. Types'
    BY <1>1, <1>6, <1>7, <1>10, <1>11 DEF Types
  <1>13. Numbered(ticker_side_order_, requests, next_order_id_)'
    <2>1. Numbered(o2, requests, next_order_id_)
      BY <1>1, <1>4, <1>9 DEF Numbered
    <2> QED BY <2>1, <1>6
  <1>14. \A s \in Sides : o[s].qty_ \in Nat
    BY <1>7, ClipAssumption DEF OMOrder, Qtys
  <1>15. Abs(position_) <= max_position_ /\ \A s \in Sides : Allowed(s, o[s])
    BY <1>1, <1>4 DEF Limits
  <1>16. CASE r.type # "FILLED"
    <2>1. position_' = position_ /\ \A s \in Sides : o2[s].qty_ = o[s].qty_
      BY <1>6, <1>9, <1>16
    <2>2. Limits'
      BY <2>1, <1>6, <1>9, <1>15 DEF Limits, Allowed
    <2>3. Accounted(f)'
      BY <2>1, <1>2, <1>4, <1>6 DEF Tracks, Accounted
    <2> QED BY <2>2, <2>3, <1>2, <1>6, <1>8, <1>12, <1>13 DEF IInv, Tracks, AtExchange
  <1>17. CASE r.type = "FILLED"
    <2>1. PICK s \in Sides : s = r.side
      BY <1>7, <1>17 DEF ResponseMsg
    <2>2. PICK v : v = sideToValue(s)
      OBVIOUS
    <2>3. v \in {1, -1} /\ position_' = position_ + v * r.exec_qty
      BY <2>1, <2>2, <1>6, <1>17 DEF sideToValue
    <2>4. /\ o[s].order_state_ \notin Free
          /\ o2[s].qty_ = o[s].qty_ - r.exec_qty /\ r.exec_qty \in 0 .. o[s].qty_
      BY <2>1, <1>9, <1>17
    <2>5. Abs(position_ + v * o[s].qty_) <= max_position_
      BY <2>2, <2>4, <1>15 DEF Allowed
    <2>5a. PICK p, x, q : p = position_ /\ x = r.exec_qty /\ q = o[s].qty_
      OBVIOUS
    <2>5b. p \in Int /\ x \in Nat /\ q \in Nat /\ x <= q /\ max_position_ \in Nat
           /\ Abs(p) <= max_position_ /\ Abs(p + v * q) <= max_position_
      BY <2>4, <2>5, <2>5a, <1>7, <1>11, <1>14, <1>15, RiskAssumption
    <2>5c. /\ Abs(p + v * x) <= max_position_
           /\ Abs((p + v * x) + v * (q - x)) <= max_position_
           /\ \A w \in Nat : Abs(p + (-v) * w) <= max_position_
                              => Abs((p + v * x) + (-v) * w) <= max_position_
      BY <2>3, <2>5b, FillWithinLimit, Zenon
    <2>6. Abs(position_') <= max_position_
      BY <2>3, <2>5a, <2>5c, Zenon
    <2>7. Allowed(s, o2[s])'
      <3>1. Abs((position_ + v * r.exec_qty) + v * (o[s].qty_ - r.exec_qty)) <= max_position_
        BY <2>5a, <2>5c, Zenon
      <3>2. Abs(position_' + v * o2[s].qty_) <= max_position_
        BY <3>1, <2>3, <2>4
      <3> QED BY <3>2, <2>2 DEF Allowed
    <2>8. ASSUME NEW t \in Sides, t # s PROVE Allowed(t, o2[t])'
      <3>1. o2[t].qty_ = o[t].qty_ /\ (o[t].order_state_ \in Free => o2[t].order_state_ \in Free)
        BY <2>1, <2>8, <1>9
      <3>2. sideToValue(t) = -v
        BY <2>2, <2>8 DEF sideToValue
      <3>3. Abs(position_ + (-v) * o[t].qty_) <= max_position_ =>
               Abs((position_ + v * r.exec_qty) + (-v) * o[t].qty_) <= max_position_
        BY <2>5a, <2>5c, <1>14, Zenon
      <3>4. Allowed(t, o[t])
        BY <1>15
      <3> QED BY <3>1, <3>2, <3>3, <3>4, <2>3 DEF Allowed
    <2>9. Limits'
      <3>1. \A t \in Sides : Allowed(t, o2[t])'
        BY <2>7, <2>8
      <3> QED BY <3>1, <2>6, <1>6 DEF Limits, Allowed
    <2>10. Accounted(f)'
      <3>1. net = position_ + (o["BUY"].qty_ - f["BUY"].qty_) - (o["SELL"].qty_ - f["SELL"].qty_)
        BY <1>2, <1>4 DEF Tracks, Accounted
      <3>2. f["BUY"].qty_ \in Int /\ f["SELL"].qty_ \in Int
        BY <1>2, ClipAssumption DEF Tracks, OMOrder, Qtys
      <3>3. CASE s = "BUY"
        <4>1. o2["BUY"].qty_ = o["BUY"].qty_ - r.exec_qty /\ o2["SELL"].qty_ = o["SELL"].qty_ /\ v = 1
          BY <3>3, <2>1, <2>2, <2>4, <1>9 DEF sideToValue
        <4>2. net = position_' + (o2["BUY"].qty_ - f["BUY"].qty_) - (o2["SELL"].qty_ - f["SELL"].qty_)
          <5>1. position_' = position_ + r.exec_qty
            BY <4>1, <2>3, <1>7, <1>11
          <5>2. o["BUY"].qty_ \in Int /\ o["SELL"].qty_ \in Int
            BY <1>14
          <5>3. position_ \in Int /\ r.exec_qty \in Int
            BY <1>7, <1>11
          <5>4. o2["BUY"].qty_ - f["BUY"].qty_ = (o["BUY"].qty_ - f["BUY"].qty_) - r.exec_qty
            BY <4>1, <5>2, <5>3, <3>2
          <5> QED BY <4>1, <5>1, <5>2, <5>3, <5>4, <3>1, <3>2
        <4> QED BY <4>2, <1>6 DEF Accounted
      <3>4. CASE s = "SELL"
        <4>1. o2["SELL"].qty_ = o["SELL"].qty_ - r.exec_qty /\ o2["BUY"].qty_ = o["BUY"].qty_ /\ v = -1
          BY <3>4, <2>1, <2>2, <2>4, <1>9 DEF sideToValue
        <4>2. net = position_' + (o2["BUY"].qty_ - f["BUY"].qty_) - (o2["SELL"].qty_ - f["SELL"].qty_)
          <5>1. position_' = position_ - r.exec_qty
            BY <4>1, <2>3, <1>7, <1>11
          <5>2. o["BUY"].qty_ \in Int /\ o["SELL"].qty_ \in Int
            BY <1>14
          <5>3. position_ \in Int /\ r.exec_qty \in Int
            BY <1>7, <1>11
          <5>4. o2["SELL"].qty_ - f["SELL"].qty_ = (o["SELL"].qty_ - f["SELL"].qty_) - r.exec_qty
            BY <4>1, <5>2, <5>3, <3>2
          <5> QED BY <4>1, <5>1, <5>2, <5>3, <5>4, <3>1, <3>2
        <4> QED BY <4>2, <1>6 DEF Accounted
      <3> QED BY <3>3, <3>4
    <2> QED BY <2>9, <2>10, <1>2, <1>6, <1>8, <1>12, <1>13 DEF IInv, Tracks, AtExchange
  <1> QED BY <1>16, <1>17

-----------------------------------------------------------------------------
(* The exchange answers, or fills: g is what it has made of f. *)
LEMMA ExchangeStep ==
    ASSUME Types, Limits, Numbered(ticker_side_order_, requests, next_order_id_),
           NEW f, NEW g, Tracks(f), NEW r \in ResponseMsg,
           UNCHANGED <<algo_type, clientVars>>, responses' = Append(responses, r),
           \A s \in Sides : /\ Turns(s, f[s], r, g[s])
                            /\ Requested(s, g[s], requests')
                            /\ AtExchange(s, g[s])',
           g \in [Sides -> OMOrder], Accounted(g)',
           requests' \in Seq(RequestMsg), \A n \in DOMAIN requests' : requests'[n].order_id < next_order_id_,
           DOMAIN resting' \subseteq OrderIds,
           resting' \in [DOMAIN resting' -> [side : Sides, qty : Qtys]], net' \in Int
    PROVE  IInv'
  <1>1. algo_type' = algo_type /\ ticker_side_order_' = ticker_side_order_
        /\ next_order_id_' = next_order_id_ /\ position_' = position_
    BY DEF clientVars
  <1>2. responses \in Seq(ResponseMsg) /\ responses' \in Seq(ResponseMsg)
    BY AppendProperties DEF Types
  <1>3. Types'
    BY <1>1, <1>2 DEF Types
  <1>4. Numbered(ticker_side_order_, requests, next_order_id_)'
    BY <1>1 DEF Numbered
  <1>5. Limits'
    BY <1>1 DEF Limits, Allowed
  <1>6. \A s \in Sides : Leads(s, ticker_side_order_'[s], responses', g[s])
    BY <1>1, <1>2, LeadsAppend DEF Tracks
  <1>7. Tracks(g)'
    BY <1>6 DEF Tracks
  <1> QED BY <1>3, <1>4, <1>5, <1>7 DEF IInv

(* The ids the exchange knows the two orders by. *)
LEMMA IdsApart ==
    ASSUME Types, Numbered(ticker_side_order_, requests, next_order_id_), NEW f, Tracks(f),
           NEW s \in Sides, NEW t \in Sides, s # t, f[s].order_id_ \in OrderIds
    PROVE  f[t].order_id_ # f[s].order_id_
  <1>1. responses \in Seq(ResponseMsg)
    BY DEF Types
  <1>2. \A x \in Sides : f[x].order_id_ = ticker_side_order_[x].order_id_
    BY <1>1, LeadsLater DEF Tracks, Later
  <1>3. f[s].order_id_ # OrderId_INVALID
    BY BoundAssumption DEF OrderIds, OrderId_INVALID
  <1> QED BY <1>2, <1>3, BothSides DEF Numbered

LEMMA ProcessNewStep ==
    ASSUME IInv, ProcessNew
    PROVE  IInv'
  <1> USE BothSides, ClipAssumption, BoundAssumption
  <1>1. Types /\ Limits /\ Numbered(ticker_side_order_, requests, next_order_id_)
    BY DEF IInv
  <1>2. PICK f : Tracks(f)
    BY DEF IInv
  <1>3. PICK q : q = Head(requests)
    OBVIOUS
  <1>4. PICK r : r = Response("ACCEPTED", q.order_id, q.side, 0, q.qty)
    OBVIOUS
  <1>5. /\ requests # <<>> /\ q.type = "NEW"
        /\ resting' = [id \in DOMAIN resting \cup {q.order_id} |->
                          IF id = q.order_id THEN [side |-> q.side, qty |-> q.qty] ELSE resting[id]]
        /\ responses' = Append(responses, r)
        /\ requests' = Tail(requests) /\ UNCHANGED <<algo_type, clientVars, net>>
    BY <1>3, <1>4, Zenon DEF ProcessNew
  <1>6. /\ requests \in Seq(RequestMsg) /\ q \in RequestMsg /\ Tail(requests) \in Seq(RequestMsg)
        /\ q = requests[1] /\ 1 \in DOMAIN requests
    BY <1>1, <1>3, <1>5, HeadTail DEF Types
  <1>7. r \in ResponseMsg /\ r.type = "ACCEPTED" /\ r.side = q.side /\ q.side \in Sides
        /\ q.order_id \in OrderIds /\ q.qty \in Qtys
    BY <1>4, <1>6 DEF Response, ResponseMsg, RequestMsg, Qtys
  <1>8. PICK s \in Sides : s = q.side
    BY <1>7
  <1>9. /\ f \in [Sides -> OMOrder]
        /\ \A x \in Sides : Requested(x, f[x], requests) /\ AtExchange(x, f[x])
    BY <1>2 DEF Tracks
  <1>10. f[s].order_state_ = "PENDING_NEW" /\ f[s].order_id_ = q.order_id /\ f[s].qty_ = q.qty
    BY <1>5, <1>6, <1>8, <1>9 DEF Requested
  <1>11. PICK p : p = [f[s] EXCEPT !.order_state_ = "LIVE"]
    OBVIOUS
  <1>12. p \in OMOrder /\ p.order_id_ = f[s].order_id_ /\ p.qty_ = f[s].qty_ /\ p.order_state_ = "LIVE"
    BY <1>9, <1>11 DEF OMOrder, OMOrderStates
  <1>13. PICK g : g = [x \in Sides |-> IF x = s THEN p ELSE f[x]]
    OBVIOUS
  <1>14. g \in [Sides -> OMOrder] /\ g[s] = p /\ \A t \in Sides : t # s => g[t] = f[t]
    BY <1>9, <1>12, <1>13
  <1>15. \A t \in Sides : t # s => f[t].order_id_ # q.order_id
    BY <1>1, <1>2, <1>7, <1>10, IdsApart
  <1>16. Requested(s, g[s], requests')
    BY <1>3, <1>5, <1>6, <1>8, <1>9, <1>12, <1>14, RequestedTailNew
  <1>17. \A t \in Sides : t # s => Requested(t, g[t], requests')
    BY <1>3, <1>5, <1>6, <1>8, <1>9, <1>14, RequestedTail
  <1>19. Turns(s, f[s], r, g[s])
    BY <1>7, <1>8, <1>10, <1>11, <1>14 DEF Turns, Expected, AfterResponse
  <1>20. \A t \in Sides : t # s => Turns(t, f[t], r, g[t])
    BY <1>7, <1>8, <1>14 DEF Turns
  <1>21. PICK rs : rs = resting'
    OBVIOUS
  <1>22. /\ DOMAIN rs = DOMAIN resting \cup {q.order_id}
         /\ rs[q.order_id] = [side |-> s, qty |-> q.qty]
         /\ \A id \in DOMAIN resting : id # q.order_id => rs[id] = resting[id]
    BY <1>5, <1>8, <1>21
  <1>23. AtExchange(s, g[s])'
    <2>1. \A id \in DOMAIN resting : resting[id].side # s
      BY <1>9, <1>10 DEF AtExchange
    <2> QED BY <2>1, <1>10, <1>12, <1>14, <1>21, <1>22 DEF AtExchange
  <1>24. ASSUME NEW t \in Sides, t # s PROVE AtExchange(t, g[t])'
    BY <1>9, <1>14, <1>15, <1>21, <1>22, <1>24 DEF AtExchange
  <1>25. DOMAIN rs \subseteq OrderIds /\ rs \in [DOMAIN rs -> [side : Sides, qty : Qtys]]
    <2>1. DOMAIN resting \subseteq OrderIds /\ resting \in [DOMAIN resting -> [side : Sides, qty : Qtys]]
      BY <1>1 DEF Types
    <2>2. \A id \in DOMAIN rs : rs[id] \in [side : Sides, qty : Qtys]
      BY <2>1, <1>7, <1>8, <1>22
    <2>3. rs = [id \in DOMAIN rs |-> rs[id]]
      BY <1>5, <1>21
    <2> QED BY <2>1, <2>2, <2>3, <1>7, <1>22
  <1>26. Accounted(g)'
    <2>1. g["BUY"].qty_ = f["BUY"].qty_ /\ g["SELL"].qty_ = f["SELL"].qty_
      BY <1>12, <1>14
    <2>2. Accounted(f)
      BY <1>2 DEF Tracks
    <2> QED BY <2>1, <2>2, <1>5 DEF Accounted, clientVars
  <1>27. \A n \in DOMAIN requests' : requests'[n].order_id < next_order_id_
    <2>1. \A n \in DOMAIN requests : requests[n].order_id < next_order_id_
      BY <1>1 DEF Numbered
    <2>2. \A n \in DOMAIN Tail(requests) : n + 1 \in DOMAIN requests /\ Tail(requests)[n] = requests[n + 1]
      BY <1>5, <1>6, HeadTail
    <2> QED BY <2>1, <2>2, <1>5
  <1>28. net' \in Int
    BY <1>1, <1>5 DEF Types
  <1>29. \A x \in Sides : /\ Turns(x, f[x], r, g[x]) /\ Requested(x, g[x], requests')
                          /\ AtExchange(x, g[x])'
    BY <1>16, <1>17, <1>19, <1>20, <1>23, <1>24
  <1>30. UNCHANGED <<algo_type, clientVars>> /\ responses' = Append(responses, r)
         /\ requests' \in Seq(RequestMsg)
    BY <1>5, <1>6
  <1> QED BY <1>1, <1>2, <1>7, <1>14, <1>21, <1>25, <1>26, <1>27, <1>28, <1>29, <1>30, ExchangeStep

LEMMA ProcessCancelStep ==
    ASSUME IInv, ProcessCancel
    PROVE  IInv'
  <1> USE BothSides, ClipAssumption, BoundAssumption
  <1>1. Types /\ Limits /\ Numbered(ticker_side_order_, requests, next_order_id_)
    BY DEF IInv
  <1>2. PICK f : Tracks(f)
    BY DEF IInv
  <1>3. PICK q : q = Head(requests)
    OBVIOUS
  <1>4. /\ requests # <<>> /\ q.type = "CANCEL"
        /\ requests' = Tail(requests) /\ UNCHANGED <<algo_type, clientVars, net>>
    BY <1>3, Zenon DEF ProcessCancel
  <1>5. \/ /\ q.order_id \in DOMAIN resting
           /\ resting' = Restrict(resting, DOMAIN resting \ {q.order_id})
           /\ responses' = Append(responses,
                  Response("CANCELED", q.order_id, q.side, 0, resting[q.order_id].qty))
        \/ /\ q.order_id \notin DOMAIN resting
           /\ responses' = Append(responses, Response("CANCEL_REJECTED", q.order_id, "INVALID", 0, 0))
           /\ UNCHANGED resting
    BY <1>3, Zenon DEF ProcessCancel
  <1>6. /\ requests \in Seq(RequestMsg) /\ q \in RequestMsg /\ Tail(requests) \in Seq(RequestMsg)
        /\ q = requests[1] /\ 1 \in DOMAIN requests /\ q.order_id \in OrderIds
    <2>1. requests \in Seq(RequestMsg)
      BY <1>1 DEF Types
    <2>2. q = requests[1] /\ 1 \in DOMAIN requests /\ q \in RequestMsg
          /\ Tail(requests) \in Seq(RequestMsg)
      BY <2>1, <1>3, <1>4, HeadTail
    <2>3. q.order_id \in OrderIds
      BY <2>2 DEF RequestMsg
    <2> QED BY <2>1, <2>2, <2>3
  <1>7. /\ f \in [Sides -> OMOrder] /\ Accounted(f)
        /\ \A x \in Sides : Requested(x, f[x], requests) /\ AtExchange(x, f[x])
    BY <1>2 DEF Tracks
  <1>8. \A n \in DOMAIN requests' : requests'[n].order_id < next_order_id_
    <2>1. \A n \in DOMAIN requests : requests[n].order_id < next_order_id_
      BY <1>1 DEF Numbered
    <2>2. \A n \in DOMAIN Tail(requests) : n + 1 \in DOMAIN requests /\ Tail(requests)[n] = requests[n + 1]
      BY <1>4, <1>6, HeadTail
    <2> QED BY <2>1, <2>2, <1>4
  <1>9. /\ net' \in Int /\ UNCHANGED <<algo_type, clientVars>> /\ requests' \in Seq(RequestMsg)
        /\ DOMAIN resting \subseteq OrderIds
        /\ resting \in [DOMAIN resting -> [side : Sides, qty : Qtys]]
    BY <1>1, <1>4, <1>6 DEF Types
  <1>10. CASE /\ q.order_id \in DOMAIN resting
              /\ resting' = Restrict(resting, DOMAIN resting \ {q.order_id})
              /\ responses' = Append(responses,
                     Response("CANCELED", q.order_id, q.side, 0, resting[q.order_id].qty))
    <2>1. PICK s \in Sides : s = resting[q.order_id].side
      BY <1>9, <1>10
    <2>2. f[s].order_id_ = q.order_id /\ f[s].order_state_ \in {"LIVE", "PENDING_CANCEL"}
      BY <2>1, <1>7, <1>10 DEF AtExchange
    <2>3. q.side = s /\ f[s].order_state_ = "PENDING_CANCEL"
      BY <2>2, <1>4, <1>6, <1>7 DEF Requested
    <2>4. PICK r : r = Response("CANCELED", q.order_id, q.side, 0, resting[q.order_id].qty)
      OBVIOUS
    <2>5. r \in ResponseMsg /\ r.type = "CANCELED" /\ r.side = s
      <3>1. resting[q.order_id].qty \in Qtys /\ 0 \in Qtys
        BY <1>9, <1>10 DEF Qtys
      <3> QED BY <3>1, <2>3, <2>4, <1>6 DEF Response, ResponseMsg
    <2>6. PICK p : p = [f[s] EXCEPT !.order_state_ = "DEAD"]
      OBVIOUS
    <2>7. p \in OMOrder /\ p.order_id_ = f[s].order_id_ /\ p.qty_ = f[s].qty_ /\ p.order_state_ = "DEAD"
      BY <2>6, <1>7 DEF OMOrder, OMOrderStates
    <2>8. PICK g : g = [x \in Sides |-> IF x = s THEN p ELSE f[x]]
      OBVIOUS
    <2>9. g \in [Sides -> OMOrder] /\ g[s] = p /\ \A t \in Sides : t # s => g[t] = f[t]
      BY <2>7, <2>8, <1>7
    <2>10. \A t \in Sides : t # s => f[t].order_id_ # q.order_id
      BY <2>2, <1>1, <1>2, <1>6, IdsApart
    <2>11. Requested(s, g[s], requests')
      BY <2>3, <2>7, <2>9, <1>4, <1>6, <1>7, RequestedTailCancel
    <2>12. \A t \in Sides : t # s => Requested(t, g[t], requests')
      BY <2>9, <2>10, <1>3, <1>4, <1>6, <1>7, RequestedTail
    <2>13. Turns(s, f[s], r, g[s])
      BY <2>3, <2>5, <2>6, <2>9 DEF Turns, Expected, AfterResponse
    <2>14. \A t \in Sides : t # s => Turns(t, f[t], r, g[t])
      BY <2>5, <2>9 DEF Turns
    <2>15. PICK rs : rs = resting'
      OBVIOUS
    <2>16. /\ DOMAIN rs = DOMAIN resting \ {q.order_id}
           /\ rs = [id \in DOMAIN resting \ {q.order_id} |-> resting[id]]
      BY <2>15, <1>10 DEF Restrict
    <2>17. \A id \in DOMAIN rs : id \in DOMAIN resting /\ id # q.order_id /\ rs[id] = resting[id]
      BY <2>16
    <2>18. AtExchange(s, g[s])'
      <3>1. \A id \in DOMAIN resting : resting[id].side = s => id = q.order_id
        BY <2>2, <1>7 DEF AtExchange
      <3>2. \A id \in DOMAIN rs : rs[id].side # s
        BY <3>1, <2>17
      <3> QED BY <3>2, <2>7, <2>9, <2>15 DEF AtExchange
    <2>19. ASSUME NEW t \in Sides, t # s PROVE AtExchange(t, g[t])'
      <3>1. AtExchange(t, f[t]) /\ g[t] = f[t] /\ f[t].order_id_ # q.order_id
        BY <2>9, <2>10, <2>19, <1>7
      <3> QED BY <3>1, <2>15, <2>16, <2>17 DEF AtExchange
    <2>20. DOMAIN rs \subseteq OrderIds /\ rs \in [DOMAIN rs -> [side : Sides, qty : Qtys]]
      BY <2>16, <1>9
    <2>21. Accounted(g)'
      <3>1. g["BUY"].qty_ = f["BUY"].qty_ /\ g["SELL"].qty_ = f["SELL"].qty_
        BY <2>7, <2>9
      <3> QED BY <3>1, <1>4, <1>7 DEF Accounted, clientVars
    <2>22. \A x \in Sides : /\ Turns(x, f[x], r, g[x]) /\ Requested(x, g[x], requests')
                            /\ AtExchange(x, g[x])'
      BY <2>11, <2>12, <2>13, <2>14, <2>18, <2>19
    <2>23. responses' = Append(responses, r)
      BY <2>4, <1>10
    <2> QED BY <2>5, <2>9, <2>15, <2>20, <2>21, <2>22, <2>23, <1>1, <1>2, <1>8, <1>9, ExchangeStep
  <1>11. CASE /\ q.order_id \notin DOMAIN resting
              /\ responses' = Append(responses, Response("CANCEL_REJECTED", q.order_id, "INVALID", 0, 0))
              /\ UNCHANGED resting
    <2>1. PICK r : r = Response("CANCEL_REJECTED", q.order_id, "INVALID", 0, 0)
      OBVIOUS
    <2>2. r \in ResponseMsg /\ r.type = "CANCEL_REJECTED" /\ r.side = "INVALID"
      BY <2>1, <1>6 DEF Response, ResponseMsg, Qtys
    <2>3. \A x \in Sides : Requested(x, f[x], requests')
      <3> SUFFICES ASSUME NEW x \in Sides PROVE Requested(x, f[x], requests')
        OBVIOUS
      <3>1. ~(q.order_id = f[x].order_id_ /\ f[x].order_state_ = "PENDING_CANCEL")
        BY <1>7, <1>11 DEF AtExchange
      <3> QED BY <3>1, <1>3, <1>4, <1>6, <1>7, RequestedTail
    <2>4. \A x \in Sides : Turns(x, f[x], r, f[x])
      BY <2>2 DEF Turns, Sides
    <2>5. \A x \in Sides : AtExchange(x, f[x])'
      BY <1>7, <1>11 DEF AtExchange
    <2>6. Accounted(f)'
      BY <1>4, <1>7 DEF Accounted, clientVars
    <2>7. /\ responses' = Append(responses, r) /\ DOMAIN resting' \subseteq OrderIds
          /\ resting' \in [DOMAIN resting' -> [side : Sides, qty : Qtys]]
      BY <2>1, <1>9, <1>11
    <2> QED BY <2>2, <2>3, <2>4, <2>5, <2>6, <2>7, <1>1, <1>2, <1>7, <1>8, <1>9, ExchangeStep
  <1> QED BY <1>5, <1>10, <1>11

LEMMA FillStep ==
    ASSUME IInv, NEW id \in DOMAIN resting, NEW exec \in 1 .. Clip, Fill(id, exec)
    PROVE  IInv'
  <1> USE BothSides, ClipAssumption, BoundAssumption
  <1>1. Types /\ Limits /\ Numbered(ticker_side_order_, requests, next_order_id_)
    BY DEF IInv
  <1>2. PICK f : Tracks(f)
    BY DEF IInv
  <1>3. PICK order : order = resting[id]
    OBVIOUS
  <1>4. PICK leaves : leaves = order.qty - exec
    OBVIOUS
  <1>5. PICK r : r = Response("FILLED", id, order.side, exec, leaves)
    OBVIOUS
  <1>6. /\ exec <= order.qty
        /\ resting' = IF leaves = 0 THEN Restrict(resting, DOMAIN resting \ {id})
                                    ELSE [resting EXCEPT ![id].qty = leaves]
        /\ responses' = Append(responses, r)
        /\ net' = net + sideToValue(order.side) * exec
        /\ UNCHANGED <<algo_type, clientVars, requests>>
    BY <1>3, <1>4, <1>5, Zenon DEF Fill
  <1>7. /\ DOMAIN resting \subseteq OrderIds /\ id \in OrderIds
        /\ resting \in [DOMAIN resting -> [side : Sides, qty : Qtys]]
        /\ order.side \in Sides /\ order.qty \in Qtys /\ order.qty \in Nat
        /\ exec \in Nat /\ exec \in Qtys /\ leaves \in Qtys /\ net \in Int
    <2>1. /\ DOMAIN resting \subseteq OrderIds
          /\ resting \in [DOMAIN resting -> [side : Sides, qty : Qtys]]
          /\ net \in Int
      BY <1>1 DEF Types
    <2>2. order.side \in Sides /\ order.qty \in Qtys
      BY <2>1, <1>3
    <2> QED BY <2>1, <2>2, <1>4, <1>6 DEF Qtys
  <1>8. PICK s \in Sides : s = order.side
    BY <1>7
  <1>9. /\ f \in [Sides -> OMOrder] /\ Accounted(f)
        /\ \A x \in Sides : Requested(x, f[x], requests) /\ AtExchange(x, f[x])
    BY <1>2 DEF Tracks
  <1>10. f[s].order_id_ = id /\ f[s].order_state_ \in {"LIVE", "PENDING_CANCEL"} /\ f[s].qty_ = order.qty
    <2>1. f[s].order_id_ = id /\ f[s].order_state_ \in {"LIVE", "PENDING_CANCEL"}
      BY <1>3, <1>8, <1>9 DEF AtExchange
    <2> QED BY <2>1, <1>3, <1>9 DEF AtExchange
  <1>11. r \in ResponseMsg /\ r.type = "FILLED" /\ r.side = s /\ r.exec_qty = exec /\ r.leaves_qty = leaves
    BY <1>5, <1>7, <1>8 DEF Response, ResponseMsg
  <1>12. PICK p : p = AfterResponse(f[s], r)
    OBVIOUS
  <1>13. Expected(f[s], r)
    BY <1>4, <1>7, <1>10, <1>11 DEF Expected
  <1>14. /\ p.order_id_ = f[s].order_id_ /\ p.qty_ = leaves
         /\ p.order_state_ = IF leaves = 0 THEN "DEAD" ELSE f[s].order_state_
    BY <1>9, <1>11, <1>12 DEF AfterResponse, Filled, OMOrder
  <1>15. p \in OMOrder
    BY <1>9, <1>11, <1>12, <1>13, ResponseTurns
  <1>16. PICK g : g = [x \in Sides |-> IF x = s THEN p ELSE f[x]]
    OBVIOUS
  <1>17. g \in [Sides -> OMOrder] /\ g[s] = p /\ \A t \in Sides : t # s => g[t] = f[t]
    BY <1>9, <1>15, <1>16
  <1>18. \A t \in Sides : t # s => f[t].order_id_ # id
    BY <1>1, <1>2, <1>7, <1>10, IdsApart
  <1>19. \A x \in Sides : Turns(x, f[x], r, g[x])
    BY <1>11, <1>12, <1>13, <1>17 DEF Turns
  <1>20. Requested(s, p, requests)
    <2>1. p.order_state_ \in {"DEAD", f[s].order_state_}
      BY <1>14
    <2> QED BY <2>1, <1>9, <1>10, <1>14, RequestedStill
  <1>21. \A x \in Sides : Requested(x, g[x], requests')
    BY <1>6, <1>9, <1>17, <1>20
  <1>22. PICK rs : rs = resting'
    OBVIOUS
  <1>23. ASSUME leaves = 0
         PROVE  /\ \A x \in Sides : AtExchange(x, g[x])'
                /\ DOMAIN rs \subseteq OrderIds /\ rs \in [DOMAIN rs -> [side : Sides, qty : Qtys]]
    <2>1. DOMAIN rs = DOMAIN resting \ {id} /\ rs = [i \in DOMAIN resting \ {id} |-> resting[i]]
      BY <1>6, <1>22, <1>23 DEF Restrict
    <2>2. \A i \in DOMAIN rs : i \in DOMAIN resting /\ i # id /\ rs[i] = resting[i]
      BY <2>1
    <2>3. DOMAIN rs \subseteq OrderIds /\ rs \in [DOMAIN rs -> [side : Sides, qty : Qtys]]
      BY <2>1, <1>7
    <2>4. AtExchange(s, g[s])'
      <3>1. \A i \in DOMAIN resting : resting[i].side = s => i = id
        BY <1>9, <1>10 DEF AtExchange
      <3>2. \A i \in DOMAIN rs : rs[i].side # s
        BY <3>1, <2>2
      <3> QED BY <3>2, <1>14, <1>17, <1>22, <1>23 DEF AtExchange
    <2>5. ASSUME NEW t \in Sides, t # s PROVE AtExchange(t, g[t])'
      <3>1. AtExchange(t, f[t]) /\ g[t] = f[t] /\ f[t].order_id_ # id
        BY <2>5, <1>9, <1>17, <1>18
      <3> QED BY <3>1, <2>1, <2>2, <1>22 DEF AtExchange
    <2> QED BY <2>3, <2>4, <2>5
  <1>24. ASSUME leaves # 0
         PROVE  /\ \A x \in Sides : AtExchange(x, g[x])'
                /\ DOMAIN rs \subseteq OrderIds /\ rs \in [DOMAIN rs -> [side : Sides, qty : Qtys]]
    <2>1. rs = [resting EXCEPT ![id].qty = leaves]
      BY <1>6, <1>22, <1>24
    <2>2. /\ DOMAIN rs = DOMAIN resting
          /\ rs[id].side = s /\ rs[id].qty = leaves
          /\ \A i \in DOMAIN resting : i # id => rs[i] = resting[i]
      BY <2>1, <1>3, <1>7, <1>8
    <2>3. DOMAIN rs \subseteq OrderIds /\ rs \in [DOMAIN rs -> [side : Sides, qty : Qtys]]
      BY <2>1, <2>2, <1>7
    <2>4. AtExchange(s, g[s])'
      <3>1. \A i \in DOMAIN resting : resting[i].side = s => i = id
        BY <1>9, <1>10 DEF AtExchange
      <3>2. \A i \in DOMAIN rs : rs[i].side = s => i = id
        BY <3>1, <2>2
      <3>3. p.order_id_ = id /\ p.qty_ = leaves /\ p.order_state_ \in {"LIVE", "PENDING_CANCEL"}
        BY <1>10, <1>14, <1>24
      <3>4. id \in DOMAIN rs
        BY <2>2
      <3> QED BY <3>2, <3>3, <3>4, <2>2, <1>17, <1>22 DEF AtExchange
    <2>5. ASSUME NEW t \in Sides, t # s PROVE AtExchange(t, g[t])'
      <3>1. AtExchange(t, f[t]) /\ g[t] = f[t] /\ f[t].order_id_ # id
        BY <2>5, <1>9, <1>17, <1>18
      <3>2. \A i \in DOMAIN rs : rs[i].side = t => i # id /\ resting[i].side = t
        BY <2>2, <2>5
      <3> QED BY <3>1, <3>2, <2>2, <1>22 DEF AtExchange
    <2> QED BY <2>3, <2>4, <2>5
  <1>25. \A x \in Sides : AtExchange(x, g[x])'
    BY <1>23, <1>24
  <1>26. Accounted(g)'
    <2>1. net = position_ + (ticker_side_order_["BUY"].qty_ - f["BUY"].qty_)
                          - (ticker_side_order_["SELL"].qty_ - f["SELL"].qty_)
      BY <1>9 DEF Accounted
    <2>2. PICK b, c, fb, fs, n2 : b = ticker_side_order_["BUY"].qty_ /\ c = ticker_side_order_["SELL"].qty_
                             /\ fb = f["BUY"].qty_ /\ fs = f["SELL"].qty_ /\ n2 = net'
      OBVIOUS
    <2>3. b \in Int /\ c \in Int /\ fb \in Int /\ fs \in Int /\ position_ \in Int
      <3>1. ticker_side_order_["BUY"] \in OMOrder /\ ticker_side_order_["SELL"] \in OMOrder
            /\ position_ \in Int
        BY <1>1 DEF Types
      <3> QED BY <3>1, <2>2, <1>9 DEF OMOrder, Qtys
    <2>4. n2 = position_ + (b - g["BUY"].qty_) - (c - g["SELL"].qty_)
      <3>1. CASE s = "BUY"
        <4>1. g["BUY"].qty_ = fb - exec /\ g["SELL"].qty_ = fs
          BY <3>1, <2>2, <1>4, <1>10, <1>14, <1>17
        <4>2. n2 = net + exec
          BY <3>1, <2>2, <1>6, <1>7, <1>8 DEF sideToValue
        <4> QED BY <4>1, <4>2, <2>1, <2>2, <2>3, <1>7
      <3>2. CASE s = "SELL"
        <4>1. g["SELL"].qty_ = fs - exec /\ g["BUY"].qty_ = fb
          BY <3>2, <2>2, <1>4, <1>10, <1>14, <1>17
        <4>2. n2 = net - exec
          BY <3>2, <2>2, <1>6, <1>7, <1>8 DEF sideToValue
        <4> QED BY <4>1, <4>2, <2>1, <2>2, <2>3, <1>7
      <3> QED BY <3>1, <3>2
    <2> QED BY <2>2, <2>4, <1>6 DEF Accounted, clientVars
  <1>27. net' \in Int
    BY <1>6, <1>7 DEF sideToValue
  <1>28. /\ UNCHANGED <<algo_type, clientVars>> /\ responses' = Append(responses, r)
         /\ requests' \in Seq(RequestMsg)
         /\ \A n \in DOMAIN requests' : requests'[n].order_id < next_order_id_
    BY <1>1, <1>6 DEF Types, Numbered
  <1>29. DOMAIN resting' \subseteq OrderIds
         /\ resting' \in [DOMAIN resting' -> [side : Sides, qty : Qtys]]
    BY <1>22, <1>23, <1>24
  <1>30. \A x \in Sides : /\ Turns(x, f[x], r, g[x]) /\ Requested(x, g[x], requests')
                          /\ AtExchange(x, g[x])'
    BY <1>19, <1>21, <1>25
  <1> QED BY <1>1, <1>2, <1>11, <1>17, <1>26, <1>27, <1>28, <1>29, <1>30, ExchangeStep

-----------------------------------------------------------------------------
(* The invariant above holds in every state. *)
THEOREM Invariance == Spec => []IInv
  <1>1. IInv /\ [Next]_vars => IInv'
    <2> SUFFICES ASSUME IInv, [Next]_vars PROVE IInv'
      OBVIOUS
    <2>1. CASE MakeMarket
      <3>1. PICK bid \in Prices, ask \in Prices, loss \in BOOLEAN : moveOrders(bid, ask, loss)
        BY <2>1 DEF MakeMarket
      <3>2. UNCHANGED <<algo_type, position_, responses, resting, net>>
        BY <2>1 DEF MakeMarket
      <3> QED BY <3>1, <3>2, MoveOrdersStep
    <2>2. CASE TakeLiquidity
      <3>1. PICK price \in Prices, loss \in BOOLEAN :
               moveOrders(price, Price_INVALID, loss) \/ moveOrders(Price_INVALID, price, loss)
        BY <2>2 DEF TakeLiquidity
      <3>2. UNCHANGED <<algo_type, position_, responses, resting, net>>
        BY <2>2 DEF TakeLiquidity
      <3> QED BY <3>1, <3>2, MoveOrdersStep
    <2>3. CASE OnOrderUpdate
      BY <2>3, OnOrderUpdateStep
    <2>4. CASE ProcessNew
      BY <2>4, ProcessNewStep
    <2>5. CASE ProcessCancel
      BY <2>5, ProcessCancelStep
    <2>6. CASE FillSome
      <3>1. PICK id \in DOMAIN resting, exec \in 1 .. Clip : Fill(id, exec)
        BY <2>6 DEF FillSome
      <3> QED BY <3>1, FillStep
    <2>7. CASE UNCHANGED vars
      BY <2>7 DEF vars, clientVars, IInv, Types, Numbered, Limits, Allowed, Tracks, AtExchange, Accounted
    <2> QED BY <2>1, <2>2, <2>3, <2>4, <2>5, <2>6, <2>7 DEF Next
  <1> QED BY InitIInv, <1>1, PTL DEF Spec

-----------------------------------------------------------------------------
(* Once a side's orders at the exchange are those of f, they are one.       *)
LEMMA AtMostOne ==
    ASSUME NEW S, NEW x, S \subseteq {x}
    PROVE  /\ S = {} \/ S = {x}
           /\ S = {} => Cardinality(S) = 0
           /\ S = {x} => Cardinality(S) = 1
  BY FS_EmptySet, FS_Singleton

LEMMA OneOrder == IInv => OneOrderPerSide
  <1> SUFFICES ASSUME IInv PROVE OneOrderPerSide
    OBVIOUS
  <1>1. PICK f : Tracks(f)
    BY DEF IInv
  <1>2. responses \in Seq(ResponseMsg) /\ requests \in Seq(RequestMsg)
    BY DEF IInv, Types
  <1> SUFFICES ASSUME NEW s \in Sides
               PROVE  /\ Cardinality(NewRequests(s)) + Cardinality(Working(s)) <= 1
                      /\ ticker_side_order_[s].order_state_ \in Free =>
                             NewRequests(s) = {} /\ Working(s) = {}
    BY DEF OneOrderPerSide
  <1>3. PICK o : o = f[s]
    OBVIOUS
  <1>4. Requested(s, o, requests) /\ AtExchange(s, o) /\ o \in OMOrder
        /\ Leads(s, ticker_side_order_[s], responses, o)
    BY <1>1, <1>3 DEF Tracks
  <1>5. Working(s) \subseteq {o.order_id_}
        /\ (o.order_state_ \notin {"LIVE", "PENDING_CANCEL"} => Working(s) = {})
    BY <1>4 DEF AtExchange, Working
  <1>6. o.order_state_ # "PENDING_NEW" => NewRequests(s) = {}
    BY <1>4 DEF Requested, NewRequests
  <1>7. \E n : NewRequests(s) \subseteq {n}
    <2>1. \A n, m \in NewRequests(s) : n = m
      BY <1>4 DEF Requested, NewRequests
    <2> QED BY <2>1
  <1>8. Cardinality(NewRequests(s)) + Cardinality(Working(s)) <= 1
    <2>1. PICK n : NewRequests(s) \subseteq {n}
      BY <1>7
    <2>2. Cardinality(NewRequests(s)) \in {0, 1} /\ Cardinality(Working(s)) \in {0, 1}
          /\ (NewRequests(s) = {} => Cardinality(NewRequests(s)) = 0)
          /\ (Working(s) = {} => Cardinality(Working(s)) = 0)
      BY <2>1, <1>5, AtMostOne
    <2>3. NewRequests(s) = {} \/ Working(s) = {}
      BY <1>5, <1>6
    <2> QED BY <2>2, <2>3
  <1>9. ASSUME ticker_side_order_[s].order_state_ \in Free
        PROVE  NewRequests(s) = {} /\ Working(s) = {}
    <2>1. o = ticker_side_order_[s]
      BY <1>2, <1>4, <1>9, LeadsLater DEF Later
    <2>2. o.order_state_ \in Free
      BY <2>1, <1>9
    <2> QED BY <2>2, <1>5, <1>6 DEF Free
  <1> QED BY <1>8, <1>9

LEMMA Agreement == IInv => AgreesWhenQuiet
  <1> SUFFICES ASSUME IInv, requests = <<>>, responses = <<>>
               PROVE  /\ position_ = net
                      /\ \A s \in Sides : LET o == ticker_side_order_[s]
                            IN  IF o.order_state_ = "LIVE"
                                THEN /\ Working(s) = {o.order_id_}
                                     /\ resting[o.order_id_].qty = o.qty_
                                ELSE o.order_state_ \in Free /\ Working(s) = {}
    BY DEF AgreesWhenQuiet
  <1> USE BothSides
  <1>1. PICK f : Tracks(f)
    BY DEF IInv
  <1>2. \A s \in Sides : f[s] = ticker_side_order_[s]
    BY <1>1, LeadsNothing DEF Tracks
  <1>3. /\ \A s \in Sides : Requested(s, f[s], requests) /\ AtExchange(s, f[s]) /\ f[s] \in OMOrder
        /\ Accounted(f)
    BY <1>1 DEF Tracks
  <1>4. position_ = net
    <2>1. f["BUY"].qty_ \in Int /\ f["SELL"].qty_ \in Int /\ position_ \in Int
      BY <1>3, ClipAssumption DEF OMOrder, Qtys, IInv, Types
    <2> QED BY <2>1, <1>2, <1>3 DEF Accounted
  <1>5. ASSUME NEW s \in Sides, NEW o, o = ticker_side_order_[s]
        PROVE  IF o.order_state_ = "LIVE"
               THEN Working(s) = {o.order_id_} /\ resting[o.order_id_].qty = o.qty_
               ELSE o.order_state_ \in Free /\ Working(s) = {}
    <2>1. o = f[s] /\ o \in OMOrder /\ Requested(s, o, requests) /\ AtExchange(s, o)
      BY <1>2, <1>3, <1>5
    <2>2. o.order_state_ # "PENDING_NEW" /\ o.order_state_ # "PENDING_CANCEL"
      BY <2>1 DEF Requested
    <2>3. o.order_state_ \in {"LIVE", "INVALID", "DEAD"}
      BY <2>1, <2>2 DEF OMOrder, OMOrderStates
    <2>4. CASE o.order_state_ = "LIVE"
      BY <2>4, <2>1 DEF AtExchange, Working
    <2>5. CASE o.order_state_ # "LIVE"
      <3>1. o.order_state_ \in Free
        BY <2>3, <2>5 DEF Free
      <3>2. Working(s) = {}
        BY <2>1, <2>2, <2>5 DEF AtExchange, Working
      <3> QED BY <3>1, <3>2, <2>5
    <2> QED BY <2>4, <2>5
  <1> QED BY <1>4, <1>5

LEMMA WithinLimit == IInv => PositionWithinLimit
  <1> SUFFICES ASSUME IInv PROVE PositionWithinLimit
    OBVIOUS
  <1> USE BothSides
  <1>1. PICK f : Tracks(f)
    BY DEF IInv
  <1>2. PICK o : o = ticker_side_order_
    OBVIOUS
  <1>3. /\ Types /\ Limits /\ Accounted(f) /\ position_ \in Int /\ net \in Int
        /\ responses \in Seq(ResponseMsg)
    BY <1>1 DEF IInv, Tracks, Types
  <1>4. ASSUME NEW s \in Sides
        PROVE  /\ o[s].qty_ \in Nat /\ f[s].qty_ \in Nat /\ f[s].qty_ <= o[s].qty_
               /\ \/ f[s].qty_ = o[s].qty_
                  \/ Abs(position_ + sideToValue(s) * o[s].qty_) <= max_position_
    <2>1. Leads(s, o[s], responses, f[s])
      BY <1>1, <1>2 DEF Tracks
    <2>2. o[s] \in OMOrder /\ f[s] \in OMOrder /\ Later(o[s], f[s])
      BY <2>1, <1>3, LeadsLater
    <2>3. Allowed(s, o[s])
      BY <1>2, <1>3 DEF Limits
    <2> QED BY <2>2, <2>3, ClipAssumption DEF Later, Allowed, OMOrder, Qtys
  <1>5. PICK b, c, fb, fc, m, p : /\ b = o["BUY"].qty_ /\ c = o["SELL"].qty_
                                  /\ fb = f["BUY"].qty_ /\ fc = f["SELL"].qty_
                                  /\ m = max_position_ /\ p = position_
    OBVIOUS
  <1>6. b \in Nat /\ c \in Nat /\ fb \in Nat /\ fc \in Nat /\ fb <= b /\ fc <= c /\ m \in Nat /\ p \in Int
    BY <1>3, <1>4, <1>5, RiskAssumption
  <1>7. fb = b \/ p + b <= m
    <2>1. sideToValue("BUY") * o["BUY"].qty_ = b
      BY <1>5, <1>6 DEF sideToValue
    <2>2. fb = b \/ Abs(p + b) <= m
      BY <2>1, <1>4, <1>5
    <2> QED BY <2>2, <1>6, AbsBound
  <1>8. fc = c \/ -m <= p - c
    <2>1. sideToValue("SELL") * o["SELL"].qty_ = -c
      BY <1>5, <1>6 DEF sideToValue
    <2>2. fc = c \/ Abs(p + (-c)) <= m
      BY <2>1, <1>4, <1>5
    <2>3. p + (-c) = p - c /\ p + (-c) \in Int
      BY <1>6
    <2> QED BY <2>2, <2>3, <1>6, AbsBound
  <1>9. -m <= p /\ p <= m
    BY <1>3, <1>5, <1>6, AbsBound DEF Limits
  <1>10. net = p + (b - fb) - (c - fc)
    BY <1>2, <1>3, <1>5 DEF Accounted
  <1>11. -m <= net /\ net <= m
    BY <1>6, <1>7, <1>8, <1>9, <1>10
  <1> QED BY <1>3, <1>5, <1>6, <1>11, AbsBound DEF PositionWithinLimit

(* A side never has two orders at, or on the way to, the exchange          *)
(* (order_manager.h: moveOrder and onOrderUpdate go by the side alone).    *)
THEOREM OneOrderPerSideHolds == Spec => []OneOrderPerSide
  BY Invariance, OneOrder, PTL

(* With nothing under way, OMOrders and position are those of the exchange *)
(* (order_manager.h:29, position_keeper.h:28).                             *)
THEOREM AgreesWhenQuietHolds == Spec => []AgreesWhenQuiet
  BY Invariance, Agreement, PTL

(* The pre-trade check bounds what is really traded, with fills of both    *)
(* sides under way (risk_manager.h, checkPreTradeRisk).                    *)
THEOREM PositionWithinLimitHolds == Spec => []PositionWithinLimit
  BY Invariance, WithinLimit, PTL
=============================================================================
