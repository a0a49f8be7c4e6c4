--------------------------- MODULE TradeEngineProofs ---------------------------
(***************************************************************************)
(* For any number of orders, prices, quantities and losses of the feed: on *)
(* a live feed the client's book is the exchange's, also after a recovery; *)
(* as long as nothing is lost its BBO is right or unknown, the market maker*)
(* never quotes across itself, and no trade is larger than the quantity it *)
(* is held against.  All of it where no two prices in use share an index   *)
(* and the tail of add is not executed.                                    *)
(***************************************************************************)
EXTENDS TradeEngine, MatchingEngineProofs

(* Induction over 0 .. n, for a set in the place of a predicate. *)
LEMMA UpTo ==
    ASSUME NEW n \in Nat, NEW T, 0 \in T, \A k \in 1 .. n : k - 1 \in T => k \in T
    PROVE  0 .. n \subseteq T
  <1> DEFINE U == {k \in 0 .. n : k \notin T}
  <1> SUFFICES ASSUME U # {} PROVE FALSE
    OBVIOUS
  <1>1. U \subseteq Nat /\ U # {}
    OBVIOUS
  <1> HIDE DEF U
  <1>2. PICK t \in U : \A u \in U : ~(<<u, t>> \in OpToRel(<, Nat))
    BY <1>1, WFMin, NatLessThanWellFounded, Zenon
  <1>3. \A u \in U : ~(u < t)
    BY <1>1, <1>2, Zenon DEF OpToRel
  <1>4. t \in 0 .. n /\ t \notin T /\ t # 0
    BY DEF U
  <1>5. t \in 1 .. n /\ t - 1 \in 0 .. n /\ t - 1 < t
    BY <1>4
  <1>6. t - 1 \in U
    BY <1>4, <1>5 DEF U
  <1> QED BY <1>3, <1>5, <1>6

(* A function that follows a rule step by step, for a rule with values in   *)
(* one set.                                                                 *)
Follows(f, n, D, d, G) ==
    f \in [0 .. n -> D] /\ f[0] = d /\ \A k \in 1 .. n : f[k] = G[k][f[k - 1]]

LEMMA StepByStep ==
    ASSUME NEW n, NEW D, NEW d, NEW G,
           n \in Nat, d \in D, G \in [1 .. n -> [D -> D]]
    PROVE  \E f : Follows(f, n, D, d, G)
  <1> DEFINE Steps(f, m) == f[0] = d /\ \A k \in 1 .. m : f[k] = G[k][f[k - 1]]
             T == {m \in 0 .. n : \E f \in [0 .. n -> D] : Steps(f, m)}
  <1>1. 0 \in T
    <2>1. PICK f : f = [k \in 0 .. n |-> d]
      OBVIOUS
    <2>2. f \in [0 .. n -> D] /\ f[0] = d /\ 1 .. 0 = {} /\ 0 \in 0 .. n
      BY <2>1
    <2>3. Steps(f, 0)
      BY <2>2
    <2> QED BY <2>2, <2>3
  <1>2. ASSUME NEW k \in 1 .. n, k - 1 \in T PROVE k \in T
    <2>1. PICK f \in [0 .. n -> D] : Steps(f, k - 1)
      BY <1>2
    <2>2. PICK g : g = [f EXCEPT ![k] = G[k][f[k - 1]]]
      OBVIOUS
    <2>3. k \in 0 .. n /\ k - 1 \in 0 .. n /\ f[k - 1] \in D /\ G[k] \in [D -> D]
      OBVIOUS
    <2>4. g \in [0 .. n -> D] /\ g[k] = G[k][f[k - 1]] /\ \A i \in 0 .. n : i # k => g[i] = f[i]
      BY <2>2, <2>3
    <2>5. g[0] = d
      BY <2>1, <2>4
    <2>6. ASSUME NEW i \in 1 .. k PROVE g[i] = G[i][g[i - 1]]
      <3>1. i \in 0 .. n /\ i - 1 \in 0 .. n /\ i - 1 # k
        OBVIOUS
      <3>2. g[i - 1] = f[i - 1]
        BY <2>4, <3>1
      <3>3. CASE i = k
        BY <2>4, <3>2, <3>3
      <3>4. CASE i # k
        <4>1. i \in 1 .. k - 1
          BY <3>4
        <4>2. f[i] = G[i][f[i - 1]]
          BY <2>1, <4>1
        <4> QED BY <2>4, <3>1, <3>2, <3>4, <4>2
      <3> QED BY <3>3, <3>4
    <2>7. Steps(g, k)
      BY <2>5, <2>6
    <2> QED BY <2>3, <2>4, <2>7
  <1> HIDE DEF T
  <1>3. 0 .. n \subseteq T
    BY <1>1, <1>2, UpTo
  <1>4. n \in T
    BY <1>3
  <1> QED BY <1>4 DEF T, Follows

-----------------------------------------------------------------------------
(* Sums of quantities.  The first of some quantities is part of their sum.  *)
LEMMA TotalSteps ==
    ASSUME NEW q \in Seq(Nat)
    PROVE  \E f \in [0 .. Len(q) -> Nat] :
             /\ f[0] = 0 /\ \A k \in 1 .. Len(q) : f[k] = f[k - 1] + q[k]
             /\ Total(q) = f[Len(q)]
  <1> DEFINE n == Len(q)
             F(f) == [k \in 0 .. n |-> IF k = 0 THEN 0 ELSE f[k - 1] + q[k]]
             G == [k \in 1 .. n |-> [v \in Nat |-> v + q[k]]]
  <1>1. n \in Nat /\ \A k \in 1 .. n : q[k] \in Nat
    OBVIOUS
  <1>2. G \in [1 .. n -> [Nat -> Nat]]
    <2>1. ASSUME NEW k \in 1 .. n PROVE [v \in Nat |-> v + q[k]] \in [Nat -> Nat]
      <3>1. q[k] \in Nat
        BY <1>1
      <3> QED BY <3>1
    <2> QED BY <2>1
  <1>3. PICK f \in [0 .. n -> Nat] : f[0] = 0 /\ \A k \in 1 .. n : f[k] = G[k][f[k - 1]]
    <2> HIDE DEF G, n
    <2>1. 0 \in Nat
      OBVIOUS
    <2>2. \E f : Follows(f, n, Nat, 0, G)
      BY <1>1, <1>2, <2>1, StepByStep, Zenon
    <2> QED BY <2>2 DEF Follows
  <1>4. \A k \in 1 .. n : k - 1 \in 0 .. n /\ f[k] = f[k - 1] + q[k]
    <2> TAKE k \in 1 .. n
    <2>1. k - 1 \in 0 .. n
      BY <1>1
    <2>2. f[k - 1] \in Nat
      BY <2>1
    <2> QED BY <1>3, <2>1, <2>2
  <1> HIDE DEF G
  <1>5. f = F(f)
    <2>1. DOMAIN f = 0 .. n /\ f = [k \in 0 .. n |-> f[k]]
      OBVIOUS
    <2>2. \A k \in 0 .. n : k # 0 => k \in 1 .. n
      BY <1>1
    <2>3. \A k \in 0 .. n : f[k] = F(f)[k]
      BY <1>3, <1>4, <2>2
    <2> QED BY <2>1, <2>3
  <1>6. PICK h : h = CHOOSE g : g = F(g)
    OBVIOUS
  <1>7. h = F(h)
    BY <1>5, <1>6
  <1>8. Total(q) = h[n]
    BY <1>6 DEF Total
  <1>9. h[0] = 0 /\ \A k \in 1 .. n : h[k] = h[k - 1] + q[k]
    BY <1>1, <1>7, SMTT(20)
  <1>10. 0 .. n \subseteq {k \in 0 .. n : h[k] = f[k]}
    <2> DEFINE T == {k \in 0 .. n : h[k] = f[k]}
    <2>1. 0 \in T
      BY <1>1, <1>3, <1>9
    <2>2. ASSUME NEW k \in 1 .. n, k - 1 \in T PROVE k \in T
      BY <1>1, <1>4, <1>9, <2>2
    <2> HIDE DEF T
    <2>3. 0 .. n \subseteq T
      BY <1>1, <2>1, <2>2, UpTo
    <2> QED BY <2>3 DEF T
  <1>11. h[n] = f[n]
    BY <1>1, <1>10
  <1> QED BY <1>3, <1>4, <1>8, <1>11

LEMMA FirstIsPart ==
    ASSUME NEW q \in Seq(Nat), Len(q) > 0
    PROVE  Total(q) \in Nat /\ q[1] <= Total(q)
  <1>1. PICK f \in [0 .. Len(q) -> Nat] :
             /\ f[0] = 0 /\ \A k \in 1 .. Len(q) : f[k] = f[k - 1] + q[k]
             /\ Total(q) = f[Len(q)]
    BY TotalSteps
  <1> DEFINE n == Len(q)
             T == {k \in 0 .. n : k = 0 \/ q[1] <= f[k]}
  <1>2. n \in Nat /\ n > 0 /\ \A k \in 1 .. n : q[k] \in Nat /\ k - 1 \in 0 .. n /\ f[k - 1] \in Nat
    OBVIOUS
  <1>3. 0 \in T
    BY <1>2
  <1>4. ASSUME NEW k \in 1 .. n, k - 1 \in T PROVE k \in T
    <2>1. k \in 0 .. n /\ f[k] = f[k - 1] + q[k] /\ q[k] \in Nat /\ f[k - 1] \in Nat /\ q[1] \in Nat
      BY <1>1, <1>2
    <2>2. CASE k = 1
      <3>1. f[1] = 0 + q[1]
        BY <1>1, <2>1, <2>2
      <3> QED BY <2>1, <2>2, <3>1
    <2>3. CASE k # 1
      <3>1. q[1] <= f[k - 1]
        BY <1>4, <2>3
      <3> QED BY <2>1, <3>1
    <2> QED BY <2>2, <2>3
  <1> HIDE DEF T
  <1>5. 0 .. n \subseteq T
    BY <1>2, <1>3, <1>4, UpTo
  <1>6. n \in T /\ n \in 0 .. n
    BY <1>2, <1>5
  <1>7. q[1] <= f[n]
    BY <1>2, <1>6 DEF T
  <1> QED BY <1>1, <1>6, <1>7

-----------------------------------------------------------------------------
(* The loops over updates: one step after the other.                        *)
Applies(after, b, us) ==
    /\ after[0] = b
    /\ \A k \in 1 .. Len(us) : after[k] = onMarketUpdate(after[k - 1], us[k])
    /\ ApplyAll(b, us) = after[Len(us)]

LEMMA ApplyAllSteps ==
    ASSUME NEW b, NEW us, Len(us) \in Nat PROVE \E after : Applies(after, b, us)
  <1> DEFINE F(f) == [k \in 0 .. Len(us) |->
                        IF k = 0 THEN b ELSE onMarketUpdate(f[k - 1], us[k])]
             Steps(f, m) == /\ f[0] = b
                            /\ \A k \in 1 .. m : f[k] = onMarketUpdate(f[k - 1], us[k])
             T == {m \in 0 .. Len(us) : \E f : Steps(f, m)}
  <1>1. 0 \in T
    <2>1. PICK f : f = [k \in {0} |-> b]
      OBVIOUS
    <2>2. f[0] = b /\ 1 .. 0 = {}
      BY <2>1
    <2>3. Steps(f, 0)
      BY <2>2
    <2>4. 0 \in 0 .. Len(us)
      OBVIOUS
    <2> QED BY <2>3, <2>4
  <1>2. ASSUME NEW k \in 1 .. Len(us), k - 1 \in T PROVE k \in T
    <2>1. PICK f : Steps(f, k - 1)
      BY <1>2
    <2> DEFINE g == [i \in 0 .. k |-> IF i < k THEN f[i] ELSE onMarketUpdate(f[k - 1], us[k])]
    <2>2. g[0] = b
      BY <2>1
    <2>3. ASSUME NEW i \in 1 .. k PROVE g[i] = onMarketUpdate(g[i - 1], us[i])
      <3>1. i \in 0 .. k /\ i - 1 \in 0 .. k /\ i - 1 < k
        OBVIOUS
      <3>2. g[i - 1] = f[i - 1]
        BY <3>1
      <3>3. CASE i = k
        BY <3>1, <3>2, <3>3
      <3>4. CASE i < k
        <4>1. i \in 1 .. k - 1
          BY <3>4
        <4>2. f[i] = onMarketUpdate(f[i - 1], us[i])
          BY <2>1, <4>1
        <4> QED BY <3>1, <3>2, <3>4, <4>2
      <3> QED BY <3>3, <3>4
    <2>4. Steps(g, k)
      BY <2>2, <2>3
    <2>5. k \in 0 .. Len(us)
      OBVIOUS
    <2> QED BY <2>4, <2>5
  <1>3. Len(us) \in T
    <2> HIDE DEF T
    <2>1. 0 .. Len(us) \subseteq T
      BY <1>1, <1>2, UpTo
    <2> QED BY <2>1
  <1>4. PICK f : Steps(f, Len(us))
    BY <1>3
  <1>5. F(f) = F(F(f))
    <2>1. ASSUME NEW k \in 0 .. Len(us), k # 0 PROVE f[k - 1] = F(f)[k - 1]
      <3>1. k - 1 \in 0 .. Len(us)
        BY <2>1
      <3>2. CASE k - 1 = 0
        BY <1>4, <3>1, <3>2
      <3>3. CASE k - 1 # 0
        BY <1>4, <3>1, <3>3
      <3> QED BY <3>2, <3>3
    <2> QED BY <2>1
  <1> DEFINE after == CHOOSE g : g = F(g)
  <1>6. after = F(after)
    BY <1>5
  <1>7. ApplyAll(b, us) = after[Len(us)]
    BY DEF ApplyAll
  <1> HIDE DEF after
  <1>8. after[0] = b
    BY <1>6
  <1>9. \A k \in 1 .. Len(us) : after[k] = onMarketUpdate(after[k - 1], us[k])
    BY <1>6
  <1> QED BY <1>7, <1>8, <1>9 DEF Applies

LEMMA ApplyNone == ASSUME NEW b PROVE ApplyAll(b, <<>>) = b
  <1>1. PICK after : Applies(after, b, <<>>)
    BY ApplyAllSteps
  <1> QED BY <1>1 DEF Applies

LEMMA ApplyLast ==
    ASSUME NEW b, NEW D, NEW us \in Seq(D), NEW u
    PROVE  ApplyAll(b, Append(us, u)) = onMarketUpdate(ApplyAll(b, us), u)
  <1>n. PICK n \in Nat : n = Len(us)
    OBVIOUS
  <1>1. /\ Len(Append(us, u)) = n + 1 /\ Append(us, u)[n + 1] = u
        /\ \A k \in 1 .. n : Append(us, u)[k] = us[k]
    BY <1>n
  <1>2. PICK f : Applies(f, b, us)
    <2>1. Len(us) \in Nat
      BY <1>n
    <2> QED BY <2>1, ApplyAllSteps, Zenon
  <1>l. PICK longer : longer = Append(us, u)
    OBVIOUS
  <1>3. PICK g : Applies(g, b, longer)
    <2>1. Len(longer) \in Nat
      BY <1>1, <1>l
    <2> QED BY <2>1, ApplyAllSteps, Zenon
  <1> DEFINE T == {k \in 0 .. n : f[k] = g[k]}
  <1>4. 0 \in T
    BY <1>n, <1>2, <1>3 DEF Applies
  <1>5. ASSUME NEW k \in 1 .. n, k - 1 \in T PROVE k \in T
    <2>1. k \in 1 .. n + 1 /\ longer[k] = us[k]
      BY <1>1, <1>l
    <2>2. f[k] = onMarketUpdate(f[k - 1], us[k]) /\ g[k] = onMarketUpdate(g[k - 1], us[k])
      BY <1>n, <1>1, <1>l, <1>2, <1>3, <2>1 DEF Applies
    <2> QED BY <1>5, <2>2
  <1> HIDE DEF T
  <1>6. 0 .. n \subseteq T
    BY <1>4, <1>5, UpTo
  <1>7. n \in T
    BY <1>6
  <1>8. f[n] = g[n]
    BY <1>7 DEF T
  <1>9. n + 1 \in 1 .. n + 1 /\ (n + 1) - 1 = n
    OBVIOUS
  <1>10. g[n + 1] = onMarketUpdate(g[n], u)
    BY <1>1, <1>l, <1>3, <1>9 DEF Applies
  <1> QED BY <1>n, <1>1, <1>l, <1>2, <1>3, <1>8, <1>10 DEF Applies

LEMMA ApplyOne ==
    ASSUME NEW b, NEW u PROVE ApplyAll(b, <<u>>) = onMarketUpdate(b, u)
  <1>1. PICK after : Applies(after, b, <<u>>)
    BY ApplyAllSteps
  <1>2. Len(<<u>>) = 1 /\ <<u>>[1] = u /\ 1 \in 1 .. 1 /\ 1 - 1 = 0
    OBVIOUS
  <1>3. after[1] = onMarketUpdate(after[1 - 1], <<u>>[1])
    BY <1>1, <1>2 DEF Applies
  <1> QED BY <1>1, <1>2, <1>3 DEF Applies

LEMMA ApplyTwo ==
    ASSUME NEW b, NEW t, NEW u
    PROVE  ApplyAll(b, <<t, u>>) = onMarketUpdate(onMarketUpdate(b, t), u)
  <1>1. PICK after : Applies(after, b, <<t, u>>)
    BY ApplyAllSteps
  <1>2. /\ Len(<<t, u>>) = 2 /\ <<t, u>>[1] = t /\ <<t, u>>[2] = u
        /\ 1 \in 1 .. 2 /\ 2 \in 1 .. 2 /\ 1 - 1 = 0 /\ 2 - 1 = 1
    OBVIOUS
  <1>3. after[1] = onMarketUpdate(after[1 - 1], <<t, u>>[1])
        /\ after[2] = onMarketUpdate(after[2 - 1], <<t, u>>[2])
    BY <1>1, <1>2 DEF Applies
  <1> QED BY <1>1, <1>2, <1>3 DEF Applies

(* The same for the engine, which never gets more than two updates of one   *)
(* step of the exchange.                                                    *)
LEMMA ProcessNone == ASSUME NEW e PROVE ProcessAll(e, <<>>) = e
  <1> DEFINE F(f) == [k \in 0 .. Len(<<>>) |->
                        IF k = 0 THEN e ELSE process(f[k - 1], <<>>[k])]
  <1>1. PICK f : f = [k \in {0} |-> e]
    OBVIOUS
  <1>2. f = F(f)
    BY <1>1
  <1>3. PICK h : h = CHOOSE g : g = F(g)
    OBVIOUS
  <1>4. h = F(h)
    BY <1>2, <1>3
  <1>5. ProcessAll(e, <<>>) = h[Len(<<>>)]
    BY <1>3 DEF ProcessAll
  <1> QED BY <1>4, <1>5

LEMMA ProcessOne ==
    ASSUME NEW e, NEW u PROVE ProcessAll(e, <<u>>) = process(e, u)
  <1>s. PICK us : us = <<u>>
    OBVIOUS
  <1> DEFINE F(f) == [k \in 0 .. Len(us) |-> IF k = 0 THEN e ELSE process(f[k - 1], us[k])]
  <1>0. Len(us) = 1 /\ us[1] = u
    BY <1>s
  <1>1. PICK f : f = [k \in 0 .. 1 |-> IF k = 0 THEN e ELSE process(e, u)]
    OBVIOUS
  <1>2. f[0] = e /\ f[1] = process(e, u)
    BY <1>1
  <1>3. f = F(f)
    <2>1. \A k \in 0 .. 1 : k # 0 => k = 1 /\ k - 1 = 0
      OBVIOUS
    <2>2. \A k \in 0 .. 1 : f[k] = F(f)[k]
      BY <1>0, <1>2, <2>1
    <2>3. f = [k \in 0 .. 1 |-> f[k]]
      BY <1>1
    <2> QED BY <1>0, <2>2, <2>3
  <1>4. PICK h : h = CHOOSE g : g = F(g)
    OBVIOUS
  <1>5. h = F(h)
    BY <1>3, <1>4
  <1>6. ProcessAll(e, us) = h[Len(us)]
    BY <1>4 DEF ProcessAll
  <1>7. 0 \in 0 .. 1 /\ 1 \in 0 .. 1 /\ 1 - 1 = 0
    OBVIOUS
  <1>8. h[0] = e
    BY <1>0, <1>5, <1>7
  <1>9. h[1] = process(e, u)
    BY <1>0, <1>5, <1>7, <1>8
  <1> QED BY <1>s, <1>0, <1>6, <1>9

LEMMA ProcessTwo ==
    ASSUME NEW e, NEW t, NEW u
    PROVE  ProcessAll(e, <<t, u>>) = process(process(e, t), u)
  <1>s. PICK us : us = <<t, u>>
    OBVIOUS
  <1> DEFINE F(f) == [k \in 0 .. Len(us) |-> IF k = 0 THEN e ELSE process(f[k - 1], us[k])]
  <1>0. Len(us) = 2 /\ us[1] = t /\ us[2] = u
    BY <1>s
  <1>m. PICK m : m = process(e, t)
    OBVIOUS
  <1>1. PICK f : f = [k \in 0 .. 2 |-> IF k = 0 THEN e ELSE IF k = 1 THEN m ELSE process(m, u)]
    OBVIOUS
  <1>2. f[0] = e /\ f[1] = m /\ f[2] = process(m, u)
    BY <1>1
  <1>3. f = F(f)
    <2>2. ASSUME NEW k \in 0 .. 2 PROVE f[k] = F(f)[k]
      <3>1. CASE k = 0
        BY <1>0, <1>2, <3>1
      <3>2. CASE k = 1
        <4>1. k - 1 = 0 /\ us[k] = t
          BY <1>0, <3>2
        <4> QED BY <1>0, <1>m, <1>2, <3>2, <4>1
      <3>3. CASE k = 2
        <4>1. k - 1 = 1 /\ us[k] = u
          BY <1>0, <3>3
        <4> QED BY <1>0, <1>2, <3>3, <4>1
      <3> QED BY <3>1, <3>2, <3>3
    <2>3. f = [k \in 0 .. 2 |-> f[k]]
      BY <1>1
    <2> QED BY <1>0, <2>2, <2>3
  <1>4. PICK h : h = CHOOSE g : g = F(g)
    OBVIOUS
  <1>5. h = F(h)
    BY <1>3, <1>4
  <1>6. ProcessAll(e, us) = h[Len(us)]
    BY <1>4 DEF ProcessAll
  <1>7. 0 \in 0 .. 2 /\ 1 \in 0 .. 2 /\ 2 \in 0 .. 2 /\ 1 - 1 = 0 /\ 2 - 1 = 1
    OBVIOUS
  <1>8. h[0] = e
    BY <1>0, <1>5, <1>7
  <1>9. h[1] = m
    BY <1>0, <1>m, <1>5, <1>7, <1>8
  <1>10. h[2] = process(m, u)
    BY <1>0, <1>5, <1>7, <1>9
  <1> QED BY <1>s, <1>0, <1>m, <1>6, <1>10

-----------------------------------------------------------------------------
(* The client's book as a record, and what each kind of update makes of it. *)
BookOf(orders, levels, lists, bbo, fault) ==
    [oid_to_order_ |-> orders, price_orders_at_price_ |-> levels, by_price |-> lists,
     bbo_ |-> bbo, fault |-> fault]

IsBook(b) ==
    /\ b = BookOf(b.oid_to_order_, b.price_orders_at_price_, b.by_price, b.bbo_, b.fault)
    /\ b.oid_to_order_ \in [MarketOrderIds -> MarketOrders \cup {NULL}]
    /\ b.price_orders_at_price_ \in [Indices -> MEOrdersAtPrice \cup {NULL}]
    /\ b.by_price \in [Sides -> SUBSET Indices]

(* The level of a price is there, but in none of the lists. *)
Deallocated(b, price) ==
    /\ b.price_orders_at_price_[priceToIndex(price)] # NULL
    /\ \A s \in Sides : priceToIndex(price) \notin b.by_price[s]

LevelsWith(b, u) ==
    [b.price_orders_at_price_ EXCEPT ![priceToIndex(u.price)] =
       IF b.price_orders_at_price_[priceToIndex(u.price)] = NULL
       THEN [side_ |-> u.side, price_ |-> u.price, orders |-> <<u.order_id>>]
       ELSE [b.price_orders_at_price_[priceToIndex(u.price)] EXCEPT
               !.orders = Append(@, u.order_id)]]
ListsWith(b, u) ==
    IF b.price_orders_at_price_[priceToIndex(u.price)] = NULL
    THEN [b.by_price EXCEPT ![u.side] = @ \cup {priceToIndex(u.price)}] ELSE b.by_price

LEMMA AddIs ==
    ASSUME NEW b, IsBook(b), NEW u
    PROVE  /\ Deallocated(b, u.price) => AddOrder(b, u).fault = "deallocated level"
           /\ ~Deallocated(b, u.price) =>
                AddOrder(b, u) =
                  BookOf([b.oid_to_order_ EXCEPT ![u.order_id] = MarketOrder(u)],
                         LevelsWith(b, u), ListsWith(b, u), b.bbo_, b.fault)
  <1>x. PICK x : x = priceToIndex(u.price)
    OBVIOUS
  <1>l. PICK level : level = b.price_orders_at_price_[x]
    OBVIOUS
  <1>1. LevelAt(b, u.price) = level
    BY <1>x, <1>l DEF LevelAt
  <1>b. b = BookOf(b.oid_to_order_, b.price_orders_at_price_, b.by_price, b.bbo_, b.fault)
    BY DEF IsBook
  <1>2. CASE Deallocated(b, u.price)
    <2>1. AddOrder(b, u) = [b EXCEPT !.fault = "deallocated level"]
      BY <1>x, <1>l, <1>1, <1>2 DEF AddOrder, Deallocated
    <2>2. [b EXCEPT !.fault = "deallocated level"].fault = "deallocated level"
      BY <1>b DEF BookOf
    <2> QED BY <1>2, <2>1, <2>2
  <1>3. CASE ~Deallocated(b, u.price)
    <2>o. PICK orders : orders = [b.oid_to_order_ EXCEPT ![u.order_id] = MarketOrder(u)]
      OBVIOUS
    <2>1. AddOrder(b, u) =
            [b EXCEPT
                !.oid_to_order_[u.order_id] = MarketOrder(u),
                !.price_orders_at_price_[x] =
                   IF level = NULL THEN MarketOrdersAtPrice(u)
                   ELSE [level EXCEPT !.orders = Appended(@, u.order_id)],
                !.by_price[u.side] = IF level = NULL THEN @ \cup {x} ELSE @]
      BY <1>x, <1>l, <1>1, <1>3 DEF AddOrder, Deallocated
    <2>2. LevelsWith(b, u) =
            [b.price_orders_at_price_ EXCEPT ![x] =
               IF level = NULL THEN MarketOrdersAtPrice(u)
               ELSE [level EXCEPT !.orders = Appended(@, u.order_id)]]
      BY <1>x, <1>l DEF LevelsWith, MarketOrdersAtPrice, Appended
    <2>3. ListsWith(b, u) =
            [b.by_price EXCEPT ![u.side] = IF level = NULL THEN @ \cup {x} ELSE @]
      <3>1. CASE level = NULL
        BY <1>x, <1>l, <3>1 DEF ListsWith
      <3>2. CASE level # NULL
        <4>1. [b.by_price EXCEPT ![u.side] = b.by_price[u.side]] = b.by_price
          BY DEF IsBook
        <4> QED BY <1>x, <1>l, <3>2, <4>1 DEF ListsWith
      <3> QED BY <3>1, <3>2
    <2>4. AddOrder(b, u) =
            BookOf([b.oid_to_order_ EXCEPT ![u.order_id] = MarketOrder(u)],
                   [b.price_orders_at_price_ EXCEPT ![x] =
                      IF level = NULL THEN MarketOrdersAtPrice(u)
                      ELSE [level EXCEPT !.orders = Appended(@, u.order_id)]],
                   [b.by_price EXCEPT ![u.side] = IF level = NULL THEN @ \cup {x} ELSE @],
                   b.bbo_, b.fault)
      BY <1>b, <2>1 DEF BookOf
    <2> QED BY <1>3, <2>2, <2>3, <2>4
  <1> QED BY <1>2, <1>3

LEMMA ModifyIs ==
    ASSUME NEW b, IsBook(b), NEW u, b.oid_to_order_[u.order_id] # NULL
    PROVE  ModifyOrder(b, u) =
             BookOf([b.oid_to_order_ EXCEPT ![u.order_id] = [@ EXCEPT !.qty_ = u.qty]],
                    b.price_orders_at_price_, b.by_price, b.bbo_, b.fault)
  <1>1. ModifyOrder(b, u) = [b EXCEPT !.oid_to_order_[u.order_id].qty_ = u.qty]
    BY DEF ModifyOrder
  <1>2. b = BookOf(b.oid_to_order_, b.price_orders_at_price_, b.by_price, b.bbo_, b.fault)
    BY DEF IsBook
  <1> QED BY <1>1, <1>2 DEF BookOf

(* What is left of a level without one of its orders. *)
LevelsWithout(levels, x, id) ==
    [levels EXCEPT ![x] = IF Len(levels[x].orders) = 1 THEN NULL
                          ELSE [levels[x] EXCEPT !.orders = Without(levels[x].orders, id)]]
ListsWithout(lists, levels, side, x) ==
    IF Len(levels[x].orders) = 1 THEN [lists EXCEPT ![side] = @ \ {x}] ELSE lists

LEMMA CancelIs ==
    ASSUME NEW b, IsBook(b), NEW u, NEW order, NEW x,
           order = b.oid_to_order_[u.order_id], order # NULL, x = priceToIndex(order.price_)
    PROVE  CancelOrder(b, u) =
             BookOf([b.oid_to_order_ EXCEPT ![u.order_id] = NULL],
                    LevelsWithout(b.price_orders_at_price_, x, u.order_id),
                    ListsWithout(b.by_price, b.price_orders_at_price_, order.side_, x),
                    b.bbo_, b.fault)
  <1>l. PICK level : level = b.price_orders_at_price_[x]
    OBVIOUS
  <1>1. LevelAt(b, order.price_) = level
    BY <1>l DEF LevelAt
  <1>b. b = BookOf(b.oid_to_order_, b.price_orders_at_price_, b.by_price, b.bbo_, b.fault)
    BY DEF IsBook
  <1>2. CASE Len(level.orders) = 1
    <2>1. CancelOrder(b, u) = [b EXCEPT !.oid_to_order_[u.order_id] = NULL,
                                        !.price_orders_at_price_[x] = NULL,
                                        !.by_price[order.side_] = @ \ {x}]
      BY <1>1, <1>2 DEF CancelOrder
    <2>2. CancelOrder(b, u) = BookOf([b.oid_to_order_ EXCEPT ![u.order_id] = NULL],
                                     [b.price_orders_at_price_ EXCEPT ![x] = NULL],
                                     [b.by_price EXCEPT ![order.side_] = @ \ {x}],
                                     b.bbo_, b.fault)
      BY <1>b, <2>1 DEF BookOf
    <2> QED BY <1>l, <1>2, <2>2 DEF LevelsWithout, ListsWithout
  <1>3. CASE Len(level.orders) # 1
    <2>1. CancelOrder(b, u) = [b EXCEPT !.oid_to_order_[u.order_id] = NULL,
                                        !.price_orders_at_price_[x].orders = Without(@, u.order_id)]
      BY <1>1, <1>3 DEF CancelOrder
    <2>w. PICK rest : rest = Without(level.orders, u.order_id)
      OBVIOUS
    <2>5. CancelOrder(b, u) = [b EXCEPT !.oid_to_order_[u.order_id] = NULL,
                                        !.price_orders_at_price_[x].orders = rest]
      BY <1>l, <2>1, <2>w
    <2>4. [b EXCEPT !.oid_to_order_[u.order_id] = NULL,
                    !.price_orders_at_price_[x].orders = rest]
            = BookOf([b.oid_to_order_ EXCEPT ![u.order_id] = NULL],
                     [b.price_orders_at_price_ EXCEPT ![x] = [level EXCEPT !.orders = rest]],
                     b.by_price, b.bbo_, b.fault)
      <3>1. PICK c : c = [b EXCEPT !.oid_to_order_[u.order_id] = NULL]
        OBVIOUS
      <3>o. PICK orders : orders = [b.oid_to_order_ EXCEPT ![u.order_id] = NULL]
        OBVIOUS
      <3>2. c = BookOf(orders, b.price_orders_at_price_, b.by_price, b.bbo_, b.fault)
        BY <1>b, <3>1, <3>o DEF BookOf
      <3>3. c.price_orders_at_price_ = b.price_orders_at_price_
        BY <3>2 DEF BookOf
      <3>l. PICK levels : levels = [b.price_orders_at_price_ EXCEPT
                                      ![x] = [level EXCEPT !.orders = rest]]
        OBVIOUS
      <3>4. [c EXCEPT !.price_orders_at_price_[x].orders = rest]
              = [c EXCEPT !.price_orders_at_price_ = levels]
        BY <1>l, <3>3, <3>l
      <3>5. [c EXCEPT !.price_orders_at_price_ = levels]
              = BookOf(orders, levels, b.by_price, b.bbo_, b.fault)
        BY <3>2 DEF BookOf
      <3>6. [c EXCEPT !.price_orders_at_price_[x].orders = rest]
              = BookOf(orders, levels, b.by_price, b.bbo_, b.fault)
        BY <3>4, <3>5, Zenon
      <3> QED BY <3>1, <3>o, <3>l, <3>6
    <2>2. CancelOrder(b, u) = BookOf([b.oid_to_order_ EXCEPT ![u.order_id] = NULL],
                                     [b.price_orders_at_price_ EXCEPT
                                        ![x] = [level EXCEPT !.orders = Without(level.orders, u.order_id)]],
                                     b.by_price, b.bbo_, b.fault)
      BY <2>w, <2>4, <2>5
    <2>3. LevelsWithout(b.price_orders_at_price_, x, u.order_id)
            = [b.price_orders_at_price_ EXCEPT
                 ![x] = [level EXCEPT !.orders = Without(level.orders, u.order_id)]]
      BY <1>l, <1>3 DEF LevelsWithout
    <2> QED BY <1>l, <1>3, <2>2, <2>3 DEF ListsWithout
  <1> QED BY <1>2, <1>3

LEMMA ClearIs ==
    ASSUME NEW b, IsBook(b)
    PROVE  Clear(b) = BookOf([i \in MarketOrderIds |-> NULL], b.price_orders_at_price_,
                             [s \in Sides |-> {}], b.bbo_, b.fault)
  <1>1. b = BookOf(b.oid_to_order_, b.price_orders_at_price_, b.by_price, b.bbo_, b.fault)
    BY DEF IsBook
  <1>2. PICK orders : orders = [i \in MarketOrderIds |-> NULL]
    OBVIOUS
  <1>3. PICK lists : lists = [s \in Sides |-> {}]
    OBVIOUS
  <1>4. Clear(b) = [b EXCEPT !.oid_to_order_ = orders, !.by_price = lists]
    BY <1>2, <1>3 DEF Clear
  <1>5. Clear(b) = BookOf(orders, b.price_orders_at_price_, lists, b.bbo_, b.fault)
    BY <1>1, <1>4 DEF BookOf
  <1> QED BY <1>2, <1>3, <1>5

(* onMarketUpdate around all this. *)
LEMMA UpdateIs ==
    ASSUME NEW b, NEW u, b.fault = "none", u.type # "TRADE", NEW c, c = Applied(b, u),
           IsBook(c), c.fault = "none"
    PROVE  onMarketUpdate(b, u) =
             BookOf(c.oid_to_order_, c.price_orders_at_price_, c.by_price,
                    [s \in Sides |-> IF IsUpdated(b, u, s) THEN TopOf(c, s) ELSE c.bbo_[s]],
                    c.fault)
  <1>1. c = BookOf(c.oid_to_order_, c.price_orders_at_price_, c.by_price, c.bbo_, c.fault)
    BY DEF IsBook
  <1>2. onMarketUpdate(b, u) =
          [c EXCEPT !.bbo_ = [s \in Sides |-> IF IsUpdated(b, u, s) THEN TopOf(c, s) ELSE @[s]]]
    BY DEF onMarketUpdate
  <1> QED BY <1>1, <1>2 DEF BookOf

LEMMA UpdateFails ==
    ASSUME NEW b, NEW u, b.fault = "none", u.type # "TRADE", Applied(b, u).fault # "none"
    PROVE  onMarketUpdate(b, u) = Applied(b, u)
  BY DEF onMarketUpdate

-----------------------------------------------------------------------------
(* The top of a book whose levels are found by their price.                 *)
WellFormed(b) ==
    \A s \in Sides : \A x \in b.by_price[s] :
      /\ b.price_orders_at_price_[x].price_ \in Prices
      /\ priceToIndex(b.price_orders_at_price_[x].price_) = x

PriceAt(b, x) == b.price_orders_at_price_[x].price_

BestOf(b, s, x) == /\ x \in b.by_price[s]
                   /\ \A y \in b.by_price[s] : ~Better(s, PriceAt(b, y), PriceAt(b, x))

LEMMA TopExists ==
    ASSUME NEW b, WellFormed(b), NEW s \in Sides, b.by_price[s] # {}
    PROVE  \E x : BestOf(b, s, x)
  <1> DEFINE Rank(y) == IF s = "BUY" THEN MaxPrice - PriceAt(b, y) ELSE PriceAt(b, y)
             T == {Rank(y) : y \in b.by_price[s]}
  <1>1. \A y \in b.by_price[s] : PriceAt(b, y) \in 0 .. MaxPrice /\ Rank(y) \in Nat
    <2> TAKE y \in b.by_price[s]
    <2>1. PriceAt(b, y) \in Prices
      BY DEF WellFormed, PriceAt
    <2>2. PriceAt(b, y) \in 0 .. MaxPrice /\ MaxPrice \in Nat
      BY <2>1, PriceAssumption
    <2>3. MaxPrice - PriceAt(b, y) \in Nat /\ PriceAt(b, y) \in Nat
      BY <2>2
    <2> QED BY <2>2, <2>3
  <1>2. T \subseteq Nat /\ T # {}
    BY <1>1
  <1>3. PICK t \in T : \A u \in T : ~(<<u, t>> \in OpToRel(<, Nat))
    BY <1>2, WFMin, NatLessThanWellFounded, Zenon
  <1>4. \A u \in T : ~(u < t)
    BY <1>2, <1>3, Zenon DEF OpToRel
  <1>5. PICK x \in b.by_price[s] : t = Rank(x)
    OBVIOUS
  <1>6. \A y \in b.by_price[s] : ~(Rank(y) < Rank(x))
    BY <1>4, <1>5
  <1>7. \A y \in b.by_price[s] : ~Better(s, PriceAt(b, y), PriceAt(b, x))
    BY <1>1, <1>6, PriceAssumption DEF Better
  <1> QED BY <1>7 DEF BestOf

LEMMA TopIs ==
    ASSUME NEW b, WellFormed(b), NEW s \in Sides, NEW x, BestOf(b, s, x)
    PROVE  /\ BestLevel(b, s) = b.price_orders_at_price_[x]
           /\ TopOf(b, s) =
                [price |-> PriceAt(b, x),
                 qty |-> Total(QtysOf(b, b.price_orders_at_price_[x].orders))]
  <1>1. ASSUME NEW y, BestOf(b, s, y) PROVE y = x
    <2>1. /\ PriceAt(b, x) \in Int /\ PriceAt(b, y) \in Int
          /\ priceToIndex(PriceAt(b, x)) = x /\ priceToIndex(PriceAt(b, y)) = y
      BY <1>1, PricesAreNumbers DEF BestOf, WellFormed, PriceAt
    <2>2. ~Better(s, PriceAt(b, x), PriceAt(b, y)) /\ ~Better(s, PriceAt(b, y), PriceAt(b, x))
      BY <1>1 DEF BestOf
    <2>3. PriceAt(b, x) = PriceAt(b, y)
      BY <2>1, <2>2 DEF Better
    <2> QED BY <2>1, <2>3
  <1>2. PICK best : best = CHOOSE z \in b.by_price[s] :
                             \A y \in b.by_price[s] : ~Better(s, PriceAt(b, y), PriceAt(b, z))
    OBVIOUS
  <1>3. BestOf(b, s, best)
    BY <1>2 DEF BestOf
  <1>4. best = x
    BY <1>1, <1>3
  <1>5. BestLevel(b, s) = b.price_orders_at_price_[best]
    BY <1>2 DEF BestLevel, PriceAt
  <1>6. b.by_price[s] # {}
    BY DEF BestOf
  <1> QED BY <1>4, <1>5, <1>6 DEF TopOf, PriceAt

LEMMA TopSame ==
    ASSUME NEW b, NEW c, WellFormed(b), WellFormed(c), NEW s \in Sides, NEW x,
           BestOf(b, s, x), BestOf(c, s, x),
           c.price_orders_at_price_[x] = b.price_orders_at_price_[x],
           QtysOf(c, b.price_orders_at_price_[x].orders) = QtysOf(b, b.price_orders_at_price_[x].orders)
    PROVE  TopOf(c, s) = TopOf(b, s)
  BY TopIs DEF PriceAt

(* The BBO is no part of what its top is taken from. *)
LEMMA TopCopy ==
    ASSUME NEW b, NEW c, WellFormed(b), NEW s \in Sides,
           c.oid_to_order_ = b.oid_to_order_, c.by_price = b.by_price,
           c.price_orders_at_price_ = b.price_orders_at_price_
    PROVE  WellFormed(c) /\ TopOf(c, s) = TopOf(b, s)
  <1>1. WellFormed(c)
    BY DEF WellFormed
  <1>2. CASE b.by_price[s] = {}
    BY <1>1, <1>2 DEF TopOf
  <1>3. CASE b.by_price[s] # {}
    <2>1. PICK x : BestOf(b, s, x)
      BY <1>3, TopExists
    <2>2. BestOf(c, s, x)
      BY <2>1 DEF BestOf, PriceAt
    <2>3. \A orders : QtysOf(c, orders) = QtysOf(b, orders)
      BY DEF QtysOf
    <2> QED BY <1>1, <2>1, <2>2, <2>3, TopSame
  <1> QED BY <1>2, <1>3

(* What an update leaves alone: everything but its own level. *)
Elsewhere(b, c, u) ==
    \A s \in Sides, y \in Indices :
      s # u.side \/ y # priceToIndex(u.price) =>
        /\ y \in c.by_price[s] <=> y \in b.by_price[s]
        /\ y \in b.by_price[s] =>
             /\ c.price_orders_at_price_[y] = b.price_orders_at_price_[y]
             /\ LET orders == b.price_orders_at_price_[y].orders
                IN  QtysOf(c, orders) = QtysOf(b, orders)

BBORight(b) ==
    \A s \in Sides : b.bbo_[s].price = NULL \/ b.bbo_[s] = TopOf(b, s)

(* onMarketUpdate recomputes the BBO whenever it would otherwise be wrong.  *)
LEMMA BBOKept ==
    ASSUME NoAliasing, NEW b, IsBook(b), NEW c, IsBook(c), NEW u, WellFormed(b), WellFormed(c),
           u.side \in Sides, u.price \in Prices, Elsewhere(b, c, u), BBORight(b),
           c.bbo_ = b.bbo_, NEW d,
           d = BookOf(c.oid_to_order_, c.price_orders_at_price_, c.by_price,
                      [s \in Sides |-> IF IsUpdated(b, u, s) THEN TopOf(c, s) ELSE c.bbo_[s]],
                      c.fault)
    PROVE  BBORight(d)
  <1> SUFFICES ASSUME NEW s \in Sides PROVE d.bbo_[s].price = NULL \/ d.bbo_[s] = TopOf(d, s)
    BY DEF BBORight
  <1>x. PICK x : x = priceToIndex(u.price)
    OBVIOUS
  <1>1. /\ d.oid_to_order_ = c.oid_to_order_ /\ d.by_price = c.by_price
        /\ d.price_orders_at_price_ = c.price_orders_at_price_
        /\ d.bbo_[s] = IF IsUpdated(b, u, s) THEN TopOf(c, s) ELSE b.bbo_[s]
    BY DEF BookOf
  <1>2. TopOf(d, s) = TopOf(c, s)
    BY <1>1, TopCopy
  <1>3. CASE IsUpdated(b, u, s)
    BY <1>1, <1>2, <1>3
  <1>4. CASE ~IsUpdated(b, u, s) /\ b.bbo_[s].price = NULL
    BY <1>1, <1>4
  <1>5. CASE ~IsUpdated(b, u, s) /\ b.bbo_[s] = TopOf(b, s) /\ b.by_price[s] = {}
    <2>1. d.bbo_[s] = b.bbo_[s]
      BY <1>1, <1>5
    <2>2. TopOf(b, s) = [price |-> NULL, qty |-> NULL]
      BY <1>5 DEF TopOf
    <2> QED BY <1>5, <2>1, <2>2
  <1>6. CASE ~IsUpdated(b, u, s) /\ b.bbo_[s] = TopOf(b, s) /\ b.by_price[s] # {}
    <2>1. PICK best : BestOf(b, s, best)
      BY <1>6, TopExists
    <2>2. /\ best \in b.by_price[s] /\ best \in Indices
          /\ PriceAt(b, best) \in Prices /\ PriceAt(b, best) \in Int
          /\ priceToIndex(PriceAt(b, best)) = best
      BY <2>1, PricesAreNumbers DEF BestOf, WellFormed, PriceAt, IsBook
    <2>3. u.price \in Int
      BY PricesAreNumbers
    <2>4. s = u.side => Better(s, PriceAt(b, best), u.price)
      BY <1>6, <2>1, TopIs DEF IsUpdated, PriceAt
    <2>5. s # u.side \/ best # x
      <3> SUFFICES ASSUME s = u.side, best = x PROVE FALSE
        OBVIOUS
      <3>1. PriceAt(b, best) = u.price
        BY <1>x, <2>2 DEF NoAliasing
      <3> QED BY <2>3, <2>4, <3>1 DEF Better
    <2>6. /\ best \in c.by_price[s]
          /\ c.price_orders_at_price_[best] = b.price_orders_at_price_[best]
          /\ QtysOf(c, b.price_orders_at_price_[best].orders)
               = QtysOf(b, b.price_orders_at_price_[best].orders)
      BY <1>x, <2>2, <2>5 DEF Elsewhere
    <2>7. ASSUME NEW y \in c.by_price[s] PROVE ~Better(s, PriceAt(c, y), PriceAt(c, best))
      <3>1. y \in Indices /\ PriceAt(c, y) \in Prices /\ PriceAt(c, y) \in Int
            /\ priceToIndex(PriceAt(c, y)) = y
        BY PricesAreNumbers DEF IsBook, WellFormed, PriceAt
      <3>2. PriceAt(c, best) = PriceAt(b, best)
        BY <2>6 DEF PriceAt
      <3>3. CASE s # u.side \/ y # x
        <4>1. y \in b.by_price[s] /\ c.price_orders_at_price_[y] = b.price_orders_at_price_[y]
          BY <1>x, <3>1, <3>3 DEF Elsewhere
        <4> QED BY <2>1, <3>2, <4>1 DEF BestOf, PriceAt
      <3>4. CASE s = u.side /\ y = x
        <4>1. PriceAt(c, y) = u.price
          BY <1>x, <3>1, <3>4 DEF NoAliasing
        <4> QED BY <2>2, <2>3, <2>4, <3>2, <3>4, <4>1 DEF Better
      <3> QED BY <3>3, <3>4
    <2>8. BestOf(c, s, best)
      BY <2>6, <2>7 DEF BestOf
    <2>9. TopOf(c, s) = TopOf(b, s)
      BY <2>1, <2>6, <2>8, TopSame
    <2> QED BY <1>1, <1>2, <1>6, <2>9
  <1> QED BY <1>3, <1>4, <1>5, <1>6 DEF BBORight

-----------------------------------------------------------------------------
(* The client's book and the exchange's.                                    *)
View(order) ==
    IF order = NULL THEN NULL
    ELSE [side_ |-> order.side_, price_ |-> order.price_, qty_ |-> order.qty_,
          priority_ |-> order.priority_]

Same(b) ==
    /\ b.oid_to_order_ = [i \in MarketOrderIds |-> View(order_pool_[i])]
    /\ b.by_price = by_price
    /\ \A s \in Sides : \A x \in by_price[s] :
         b.price_orders_at_price_[x] = price_orders_at_price_[x]

(* The tables agree also where no level is.                                 *)
Full(b) == b.price_orders_at_price_ = price_orders_at_price_

LEMMA ViewIs ==
    ASSUME NEW order \in MEOrder
    PROVE  /\ order # NULL /\ View(order) \in MarketOrders /\ View(order) # NULL
           /\ View(order).side_ = order.side_ /\ View(order).price_ = order.price_
           /\ View(order).qty_ = order.qty_
  <1>1. order # NULL
    BY NullAssumption
  <1>2. View(order) \in MarketOrders
    BY <1>1 DEF View, MarketOrders, MEOrder
  <1>3. View(order) # NULL
    BY <1>2, MarketOrderAssumption
  <1> QED BY <1>1, <1>2, <1>3 DEF View

SameAreWellFormed == BookInv => \A r : Same(r) => WellFormed(r)

LEMMA SameIsWellFormed == SameAreWellFormed /\ SameAreWellFormed'
  <1>1. SameAreWellFormed
    <2> SUFFICES ASSUME BookInv, NEW b, Same(b), NEW s \in Sides, NEW x \in b.by_price[s]
                 PROVE  /\ b.price_orders_at_price_[x].price_ \in Prices
                        /\ priceToIndex(b.price_orders_at_price_[x].price_) = x
      BY DEF SameAreWellFormed, WellFormed
    <2>1. x \in by_price[s] /\ b.price_orders_at_price_[x] = price_orders_at_price_[x]
      BY DEF Same
    <2>2. x \in Levels
      BY <2>1 DEF BookInv, Structure, LevelLists
    <2>3. LevelPrice(x) \in Prices /\ priceToIndex(LevelPrice(x)) = x
      BY <2>2, LevelFacts DEF BookInv, Structure, LevelLists
    <2> QED BY <2>1, <2>3 DEF LevelPrice
  <1> QED BY <1>1, PTL

(* One order and its level change, in both books the same way.              *)
LEMMA SameAfter ==
    ASSUME BookInv', NEW b, IsBook(b), Same(b), NEW x \in Indices, NEW id \in MarketOrderIds,
           \A i \in MarketOrderIds \ {id} : order_pool_'[i] = order_pool_[i],
           \A y \in Indices \ {x} : price_orders_at_price_'[y] = price_orders_at_price_[y],
           \A s \in Sides : by_price'[s] \ {x} \subseteq by_price[s],
           NEW c,
           c = BookOf([b.oid_to_order_ EXCEPT ![id] = View(order_pool_'[id])],
                      [b.price_orders_at_price_ EXCEPT ![x] = price_orders_at_price_'[x]],
                      by_price', b.bbo_, b.fault)
    PROVE  /\ IsBook(c) /\ Same(c)' /\ (Full(b) => Full(c)')
           /\ c.bbo_ = b.bbo_ /\ c.fault = b.fault
  <1>t. /\ order_pool_' \in [MarketOrderIds -> MEOrder \cup {NULL}]
        /\ price_orders_at_price_' \in [Indices -> MEOrdersAtPrice \cup {NULL}]
        /\ by_price' \in [Sides -> SUBSET Indices]
    BY DEF BookInv, TypeOK
  <1>b. /\ b.oid_to_order_ \in [MarketOrderIds -> MarketOrders \cup {NULL}]
        /\ b.price_orders_at_price_ \in [Indices -> MEOrdersAtPrice \cup {NULL}]
    BY DEF IsBook
  <1>c. /\ c.oid_to_order_ = [b.oid_to_order_ EXCEPT ![id] = View(order_pool_'[id])]
        /\ c.price_orders_at_price_ =
             [b.price_orders_at_price_ EXCEPT ![x] = price_orders_at_price_'[x]]
        /\ c.by_price = by_price' /\ c.bbo_ = b.bbo_ /\ c.fault = b.fault
        /\ c = BookOf(c.oid_to_order_, c.price_orders_at_price_, c.by_price, c.bbo_, c.fault)
    BY DEF BookOf
  <1>1. \A order \in MEOrder \cup {NULL} : View(order) \in MarketOrders \cup {NULL}
    BY ViewIs DEF View
  <1>2. IsBook(c)
    <2>1. c.oid_to_order_ \in [MarketOrderIds -> MarketOrders \cup {NULL}]
      BY <1>t, <1>b, <1>c, <1>1
    <2>2. c.price_orders_at_price_ \in [Indices -> MEOrdersAtPrice \cup {NULL}]
      BY <1>t, <1>b, <1>c
    <2> QED BY <1>t, <1>c, <2>1, <2>2 DEF IsBook
  <1>3. c.oid_to_order_ = [i \in MarketOrderIds |-> View(order_pool_'[i])]
    <2>1. b.oid_to_order_ = [i \in MarketOrderIds |-> View(order_pool_[i])]
      BY DEF Same
    <2>2. \A i \in MarketOrderIds : c.oid_to_order_[i] = View(order_pool_'[i])
      BY <1>b, <1>c, <2>1
    <2> QED BY <1>2, <2>2 DEF IsBook
  <1>4. ASSUME NEW s \in Sides, NEW y \in by_price'[s]
        PROVE  c.price_orders_at_price_[y] = price_orders_at_price_'[y]
    <2>1. y \in Indices
      BY <1>t
    <2>2. CASE y = x
      BY <1>b, <1>c, <2>1, <2>2
    <2>3. CASE y # x
      <3>1. y \in by_price[s] /\ price_orders_at_price_'[y] = price_orders_at_price_[y]
        BY <2>1, <2>3
      <3>2. b.price_orders_at_price_[y] = price_orders_at_price_[y]
        BY <3>1 DEF Same
      <3> QED BY <1>b, <1>c, <2>1, <2>3, <3>1, <3>2
    <2> QED BY <2>2, <2>3
  <1>5. Same(c)'
    BY <1>c, <1>3, <1>4 DEF Same
  <1>6. ASSUME Full(b) PROVE Full(c)'
    <2>1. \A y \in Indices : c.price_orders_at_price_[y] = price_orders_at_price_'[y]
      BY <1>b, <1>c, <1>6, ZenonT(30) DEF Full
    <2>2. c.price_orders_at_price_ \in [Indices -> MEOrdersAtPrice \cup {NULL}]
      BY <1>2 DEF IsBook
    <2>3. c.price_orders_at_price_ = price_orders_at_price_'
      BY <1>t, <2>1, <2>2
    <2> QED BY <2>3 DEF Full
  <1> QED BY <1>c, <1>2, <1>5, <1>6

(* What a step of the exchange leaves alone.                                *)
TablesElsewhere(u) ==
    \A s \in Sides, y \in Indices :
      s # u.side \/ y # priceToIndex(u.price) =>
        /\ y \in by_price'[s] <=> y \in by_price[s]
        /\ y \in by_price[s] =>
             /\ price_orders_at_price_'[y] = price_orders_at_price_[y]
             /\ \A i \in OrdersOf(y) : order_pool_'[i] = order_pool_[i]

LEMMA ElsewhereBoth ==
    ASSUME BookInv, NEW b, Same(b), NEW c, Same(c)', NEW u, TablesElsewhere(u)
    PROVE  Elsewhere(b, c, u)
  <1> SUFFICES ASSUME NEW s \in Sides, NEW y \in Indices,
                      s # u.side \/ y # priceToIndex(u.price)
               PROVE  /\ y \in c.by_price[s] <=> y \in b.by_price[s]
                      /\ y \in b.by_price[s] =>
                           /\ c.price_orders_at_price_[y] = b.price_orders_at_price_[y]
                           /\ LET orders == b.price_orders_at_price_[y].orders
                              IN  QtysOf(c, orders) = QtysOf(b, orders)
    BY DEF Elsewhere
  <1>1. b.by_price = by_price /\ c.by_price = by_price'
    BY DEF Same
  <1>2. /\ y \in by_price'[s] <=> y \in by_price[s]
        /\ y \in by_price[s] =>
             /\ price_orders_at_price_'[y] = price_orders_at_price_[y]
             /\ \A i \in OrdersOf(y) : order_pool_'[i] = order_pool_[i]
    BY DEF TablesElsewhere
  <1>3. ASSUME y \in by_price[s]
        PROVE  /\ c.price_orders_at_price_[y] = b.price_orders_at_price_[y]
               /\ QtysOf(c, b.price_orders_at_price_[y].orders)
                    = QtysOf(b, b.price_orders_at_price_[y].orders)
    <2>1. b.price_orders_at_price_[y] = price_orders_at_price_[y]
          /\ c.price_orders_at_price_[y] = price_orders_at_price_'[y]
      BY <1>2, <1>3 DEF Same
    <2>2. y \in Levels
      BY <1>3 DEF BookInv, Structure, LevelLists
    <2>o. PICK orders : orders = price_orders_at_price_[y].orders
      OBVIOUS
    <2>3. ASSUME NEW k \in 1 .. Len(orders)
          PROVE  c.oid_to_order_[orders[k]] = b.oid_to_order_[orders[k]]
      <3>1. orders[k] \in OrdersOf(y)
        BY <2>o DEF OrdersOf
      <3>2. orders[k] \in MarketOrderIds
        BY <2>2, <3>1 DEF BookInv, Structure, LevelLists, Live
      <3>3. order_pool_'[orders[k]] = order_pool_[orders[k]]
        BY <1>2, <1>3, <3>1
      <3> QED BY <3>2, <3>3 DEF Same
    <2>4. QtysOf(c, orders) = QtysOf(b, orders)
      BY <2>3 DEF QtysOf
    <2> QED BY <1>2, <1>3, <2>1, <2>4, <2>o
  <1> QED BY <1>1, <1>2, <1>3

-----------------------------------------------------------------------------
(* What the exchange's updates say of the step that sends them.             *)
Adds(u, id, order) ==
    /\ id \in MarketOrderIds /\ order \in MEOrder /\ id \notin Live
    /\ addOrder(id, order)
    /\ u = Update("ADD", id, order.side_, order.price_, order.qty_, order.priority_)

Changes(u, id) ==
    /\ id \in Live /\ u.order_id = id
    /\ u.side = order_pool_[id].side_ /\ u.price = order_pool_[id].price_

Removes(u, id) == Changes(u, id) /\ u.type = "CANCEL" /\ removeOrder(id)

Modifies(u, id) ==
    /\ Changes(u, id) /\ u.type = "MODIFY"
    /\ order_pool_' = [order_pool_ EXCEPT ![id].qty_ = u.qty]
    /\ UNCHANGED <<price_orders_at_price_, by_price>>

(* An order is at the level of its price, on its side only. *)
LEMMA OrderPlace ==
    ASSUME BookInv, NEW id \in Live, NEW x, x = priceToIndex(order_pool_[id].price_)
    PROVE  /\ id \in MarketOrderIds /\ order_pool_[id] \in MEOrder
           /\ x \in Levels /\ x \in Indices /\ id \in OrdersOf(x)
           /\ price_orders_at_price_[x] \in MEOrdersAtPrice
           /\ LevelPrice(x) = order_pool_[id].price_
           /\ price_orders_at_price_[x].side_ = order_pool_[id].side_
           /\ \A s \in Sides : x \in by_price[s] <=> s = order_pool_[id].side_
  <1>0. TypeOK /\ PriceMapping /\ LevelLists /\ TimePriority
    BY DEF BookInv, Structure
  <1>1. /\ id \in MarketOrderIds /\ order_pool_[id] \in MEOrder
        /\ x \in Levels /\ id \in OrdersOf(x)
    BY <1>0, OrderFacts
  <1>2. LevelPrice(x) = order_pool_[id].price_
        /\ price_orders_at_price_[x].side_ = order_pool_[id].side_
    BY <1>0 DEF PriceMapping, LevelPrice
  <1>3. x \in Indices /\ price_orders_at_price_[x] \in MEOrdersAtPrice
    BY <1>0, <1>1, LevelFacts
  <1>4. \A s \in Sides : x \in by_price[s] <=> s = order_pool_[id].side_
    BY <1>0, <1>1, <1>2 DEF LevelLists
  <1> QED BY <1>1, <1>2, <1>3, <1>4

(* The orders of a level are those of its price. *)
LEMMA LevelOrders ==
    ASSUME BookInv, NEW s \in Sides, NEW y \in by_price[s], NEW i \in OrdersOf(y)
    PROVE  i \in Live /\ priceToIndex(order_pool_[i].price_) = y
  <1>1. y \in Levels
    BY DEF BookInv, Structure, LevelLists
  <1> QED BY <1>1 DEF BookInv, Structure, LevelLists

(* ADD: the client does with its level what the exchange has done, unless   *)
(* the level in its table is one it had deallocated.                        *)
LEMMA AddKeepsSame ==
    ASSUME BookInv, BookInv', NEW u, NEW id, NEW order, Adds(u, id, order),
           NEW b, IsBook(b), Same(b), NEW c, c = AddOrder(b, u)
    PROVE  /\ Deallocated(b, u.price) => c.fault = "deallocated level" /\ ~Full(b)
           /\ ~Deallocated(b, u.price) => /\ IsBook(c) /\ Same(c)' /\ (Full(b) => Full(c)')
                                          /\ c.bbo_ = b.bbo_ /\ c.fault = b.fault
           /\ TablesElsewhere(u)
  <1>x. PICK x : x = priceToIndex(order.price_)
    OBVIOUS
  <1>l. PICK level : level = price_orders_at_price_[x]
    OBVIOUS
  <1>0. TypeOK /\ TypeOK' /\ LevelLists
    BY DEF BookInv, Structure
  <1>u. /\ u.order_id = id /\ u.side = order.side_ /\ u.price = order.price_
        /\ u.qty = order.qty_ /\ u.priority = order.priority_
        /\ id \in MarketOrderIds /\ order \in MEOrder /\ id \notin Live
    BY DEF Adds, Update
  <1>p. order.price_ \in Prices /\ order.side_ \in Sides /\ x \in Indices
    BY <1>u, <1>x, IndexInTable DEF MEOrder
  <1>1. /\ order_pool_' = [order_pool_ EXCEPT ![id] = order]
        /\ price_orders_at_price_' = [price_orders_at_price_ EXCEPT ![x] =
             IF level = NULL
             THEN [side_ |-> order.side_, price_ |-> order.price_, orders |-> <<id>>]
             ELSE [level EXCEPT !.orders = Append(@, id)]]
        /\ by_price' = IF level = NULL
                       THEN [by_price EXCEPT ![order.side_] = @ \cup {x}] ELSE by_price
    BY <1>x, <1>l DEF Adds, addOrder, getOrdersAtPrice
  <1>2. /\ order_pool_'[id] = order
        /\ \A i \in MarketOrderIds \ {id} : order_pool_'[i] = order_pool_[i]
        /\ \A y \in Indices \ {x} : price_orders_at_price_'[y] = price_orders_at_price_[y]
        /\ price_orders_at_price_'[x] =
             IF level = NULL
             THEN [side_ |-> order.side_, price_ |-> order.price_, orders |-> <<id>>]
             ELSE [level EXCEPT !.orders = Append(@, id)]
    BY <1>0, <1>1, <1>u, <1>p DEF TypeOK
  <1>3. /\ \A s \in Sides : by_price'[s] \ {x} \subseteq by_price[s]
        /\ \A s \in Sides : by_price[s] \subseteq by_price'[s]
        /\ \A s \in Sides \ {order.side_} : by_price'[s] = by_price[s]
    BY <1>0, <1>1, <1>p DEF TypeOK
  <1>4. ASSUME Deallocated(b, u.price) PROVE c.fault = "deallocated level" /\ ~Full(b)
    <2>1. c.fault = "deallocated level"
      BY <1>4, AddIs
    <2>2. b.price_orders_at_price_[x] # NULL /\ \A s \in Sides : x \notin by_price[s]
      BY <1>4, <1>x, <1>u DEF Deallocated, Same
    <2>3. x \notin Levels
      <3> SUFFICES ASSUME x \in Levels PROVE FALSE
        OBVIOUS
      <3>1. price_orders_at_price_[x] \in MEOrdersAtPrice
        BY <1>0 DEF TypeOK, Levels
      <3>2. price_orders_at_price_[x].side_ \in Sides
        BY <3>1 DEF MEOrdersAtPrice
      <3> QED BY <1>0, <2>2, <3>2 DEF LevelLists
    <2>4. price_orders_at_price_[x] = NULL
      BY <1>p, <2>3 DEF Levels
    <2> QED BY <2>1, <2>2, <2>4 DEF Full
  <1>5. ASSUME ~Deallocated(b, u.price)
        PROVE  /\ IsBook(c) /\ Same(c)' /\ (Full(b) => Full(c)')
               /\ c.bbo_ = b.bbo_ /\ c.fault = b.fault
    <2>1. b.price_orders_at_price_[x] = level
      <3>1. CASE \E s \in Sides : x \in by_price[s]
        BY <1>l, <3>1 DEF Same
      <3>2. CASE \A s \in Sides : x \notin by_price[s]
        <4>1. b.price_orders_at_price_[x] = NULL
          BY <1>5, <1>x, <1>u, <3>2 DEF Deallocated, Same
        <4>2. x \notin Levels
          <5> SUFFICES ASSUME x \in Levels PROVE FALSE
            OBVIOUS
          <5>1. price_orders_at_price_[x] \in MEOrdersAtPrice
            BY <1>0 DEF TypeOK, Levels
          <5>2. price_orders_at_price_[x].side_ \in Sides
            BY <5>1 DEF MEOrdersAtPrice
          <5> QED BY <1>0, <3>2, <5>2 DEF LevelLists
        <4> QED BY <1>l, <1>p, <4>1, <4>2 DEF Levels
      <3> QED BY <3>1, <3>2
    <2>2. LevelsWith(b, u) =
            [b.price_orders_at_price_ EXCEPT ![x] = price_orders_at_price_'[x]]
      BY <1>x, <1>u, <1>2, <2>1 DEF LevelsWith
    <2>3. ListsWith(b, u) = by_price'
      BY <1>x, <1>u, <1>1, <2>1 DEF ListsWith, Same
    <2>4. MarketOrder(u) = View(order_pool_'[id])
      BY <1>u, <1>2, ViewIs DEF MarketOrder, View
    <2>5. c = BookOf([b.oid_to_order_ EXCEPT ![id] = View(order_pool_'[id])],
                     [b.price_orders_at_price_ EXCEPT ![x] = price_orders_at_price_'[x]],
                     by_price', b.bbo_, b.fault)
      BY <1>5, <1>u, <2>2, <2>3, <2>4, AddIs
    <2>6. /\ id \in MarketOrderIds /\ x \in Indices
          /\ \A i \in MarketOrderIds \ {id} : order_pool_'[i] = order_pool_[i]
          /\ \A y \in Indices \ {x} : price_orders_at_price_'[y] = price_orders_at_price_[y]
          /\ \A s \in Sides : by_price'[s] \ {x} \subseteq by_price[s]
      BY <1>2, <1>3, <1>p, <1>u
    <2> QED BY <2>5, <2>6, SameAfter
  <1>6. TablesElsewhere(u)
    <2> SUFFICES ASSUME NEW s \in Sides, NEW y \in Indices, s # order.side_ \/ y # x
                 PROVE  /\ y \in by_price'[s] <=> y \in by_price[s]
                        /\ y \in by_price[s] =>
                             /\ price_orders_at_price_'[y] = price_orders_at_price_[y]
                             /\ \A i \in OrdersOf(y) : order_pool_'[i] = order_pool_[i]
      BY <1>x, <1>u DEF TablesElsewhere
    <2>1. CASE y # x
      <3>1. y \in by_price'[s] <=> y \in by_price[s]
        BY <1>3, <2>1
      <3>2. price_orders_at_price_'[y] = price_orders_at_price_[y]
        BY <1>2, <2>1
      <3>3. ASSUME y \in by_price[s], NEW i \in OrdersOf(y)
            PROVE  order_pool_'[i] = order_pool_[i]
        <4>1. i \in Live
          BY <3>3, LevelOrders
        <4> QED BY <1>2, <1>u, <4>1 DEF Live
      <3> QED BY <3>1, <3>2, <3>3
    <2>2. CASE y = x
      <3>1. s # order.side_
        BY <2>2
      <3>2. id \in Live' /\ order_pool_'[id].price_ = order.price_
            /\ order_pool_'[id].side_ = order.side_
        BY <1>2, <1>u, ViewIs DEF Live
      <3>3. x \in Indices /\ price_orders_at_price_'[x] # NULL
            /\ price_orders_at_price_'[x].side_ = order.side_
        BY <1>p, <1>x, <3>2 DEF BookInv, Structure, PriceMapping, priceToIndex
      <3>4. x \notin by_price'[s]
        BY <3>1, <3>3 DEF BookInv, Structure, LevelLists
      <3> QED BY <1>3, <2>2, <3>4
    <2> QED BY <2>1, <2>2
  <1> QED BY <1>4, <1>5, <1>6

(* CANCEL: the order is the client's, and leaves its level in the same way. *)
LEMMA CancelKeepsSame ==
    ASSUME BookInv, BookInv', NEW u, NEW id, Removes(u, id),
           NEW b, IsBook(b), Same(b), NEW c, c = CancelOrder(b, u)
    PROVE  /\ IsBook(c) /\ Same(c)' /\ (Full(b) => Full(c)')
           /\ c.bbo_ = b.bbo_ /\ c.fault = b.fault
           /\ TablesElsewhere(u)
  <1>o. PICK order : order = order_pool_[id]
    OBVIOUS
  <1>x. PICK x : x = priceToIndex(order.price_)
    OBVIOUS
  <1>l. PICK level : level = price_orders_at_price_[x]
    OBVIOUS
  <1>0. TypeOK /\ TypeOK'
    BY DEF BookInv
  <1>u. id \in Live /\ u.order_id = id /\ u.side = order.side_ /\ u.price = order.price_
    BY <1>o DEF Removes, Changes
  <1>p. /\ id \in MarketOrderIds /\ order \in MEOrder /\ x \in Indices /\ order.side_ \in Sides
        /\ id \in OrdersOf(x) /\ level.side_ = order.side_
        /\ \A s \in Sides : x \in by_price[s] <=> s = order.side_
    BY <1>o, <1>x, <1>l, <1>u, OrderPlace DEF MEOrder
  <1>1. /\ order_pool_' = [order_pool_ EXCEPT ![id] = NULL]
        /\ price_orders_at_price_' = LevelsWithout(price_orders_at_price_, x, id)
    BY <1>o, <1>x, <1>l DEF Removes, removeOrder, unlinkOrder, getOrdersAtPrice, LevelsWithout
  <1>2. by_price' = ListsWithout(by_price, price_orders_at_price_, order.side_, x)
    <2>1. by_price' = IF Len(level.orders) # 1 THEN by_price
                      ELSE IF by_price[order.side_] = {x}
                           THEN [by_price EXCEPT ![order.side_] = {}]
                           ELSE [by_price EXCEPT ![order.side_] = @ \ {x}]
      BY <1>o, <1>x, <1>l, <1>p DEF Removes, removeOrder, unlinkOrder, getOrdersAtPrice
    <2>2. CASE Len(level.orders) = 1 /\ by_price[order.side_] = {x}
      <3>1. by_price[order.side_] \ {x} = {}
        BY <2>2
      <3> QED BY <1>l, <2>1, <2>2, <3>1 DEF ListsWithout
    <2>3. CASE Len(level.orders) = 1 /\ by_price[order.side_] # {x}
      BY <1>l, <2>1, <2>3 DEF ListsWithout
    <2>4. CASE Len(level.orders) # 1
      BY <1>l, <2>1, <2>4 DEF ListsWithout
    <2> QED BY <2>2, <2>3, <2>4
  <1>3. /\ order_pool_'[id] = NULL
        /\ \A i \in MarketOrderIds \ {id} : order_pool_'[i] = order_pool_[i]
        /\ \A y \in Indices \ {x} : price_orders_at_price_'[y] = price_orders_at_price_[y]
        /\ price_orders_at_price_'[x] = IF Len(level.orders) = 1 THEN NULL
                                        ELSE [level EXCEPT !.orders = Without(level.orders, id)]
    BY <1>0, <1>1, <1>l, <1>p DEF TypeOK, LevelsWithout
  <1>4. /\ \A s \in Sides : by_price'[s] \subseteq by_price[s]
        /\ \A s \in Sides : by_price[s] \ {x} \subseteq by_price'[s]
        /\ \A s \in Sides \ {order.side_} : by_price'[s] = by_price[s]
    BY <1>0, <1>2, <1>p DEF TypeOK, ListsWithout
  <1>5. /\ b.price_orders_at_price_[x] = level /\ b.by_price = by_price
        /\ b.oid_to_order_[id] = View(order)
    BY <1>l, <1>o, <1>p DEF Same
  <1>6. /\ View(order) # NULL /\ View(order).price_ = order.price_
        /\ View(order).side_ = order.side_
    BY <1>p, ViewIs
  <1>7. c = BookOf([b.oid_to_order_ EXCEPT ![id] = NULL],
                   LevelsWithout(b.price_orders_at_price_, x, id),
                   ListsWithout(b.by_price, b.price_orders_at_price_, order.side_, x),
                   b.bbo_, b.fault)
    BY <1>u, <1>x, <1>5, <1>6, CancelIs
  <1>8. /\ LevelsWithout(b.price_orders_at_price_, x, id) =
             [b.price_orders_at_price_ EXCEPT ![x] = price_orders_at_price_'[x]]
        /\ ListsWithout(b.by_price, b.price_orders_at_price_, order.side_, x) = by_price'
    BY <1>l, <1>2, <1>3, <1>5 DEF LevelsWithout, ListsWithout
  <1>9. View(order_pool_'[id]) = NULL
    BY <1>3 DEF View
  <1>10. c = BookOf([b.oid_to_order_ EXCEPT ![id] = View(order_pool_'[id])],
                    [b.price_orders_at_price_ EXCEPT ![x] = price_orders_at_price_'[x]],
                    by_price', b.bbo_, b.fault)
    BY <1>7, <1>8, <1>9
  <1>11. \A s \in Sides : by_price'[s] \ {x} \subseteq by_price[s]
    BY <1>4
  <1>12. /\ IsBook(c) /\ Same(c)' /\ (Full(b) => Full(c)')
         /\ c.bbo_ = b.bbo_ /\ c.fault = b.fault
    BY <1>3, <1>p, <1>10, <1>11, SameAfter
  <1>13. TablesElsewhere(u)
    <2> SUFFICES ASSUME NEW s \in Sides, NEW y \in Indices, s # order.side_ \/ y # x
                 PROVE  /\ y \in by_price'[s] <=> y \in by_price[s]
                        /\ y \in by_price[s] =>
                             /\ price_orders_at_price_'[y] = price_orders_at_price_[y]
                             /\ \A i \in OrdersOf(y) : order_pool_'[i] = order_pool_[i]
      BY <1>x, <1>u DEF TablesElsewhere
    <2>1. CASE y # x
      <3>1. y \in by_price'[s] <=> y \in by_price[s]
        BY <1>4, <2>1
      <3>2. price_orders_at_price_'[y] = price_orders_at_price_[y]
        BY <1>3, <2>1
      <3>3. ASSUME y \in by_price[s], NEW i \in OrdersOf(y)
            PROVE  order_pool_'[i] = order_pool_[i]
        <4>1. i \in Live /\ priceToIndex(order_pool_[i].price_) = y
          BY <3>3, LevelOrders
        <4>2. i # id
          BY <1>o, <1>x, <2>1, <4>1
        <4> QED BY <1>3, <4>1, <4>2 DEF Live
      <3> QED BY <3>1, <3>2, <3>3
    <2>2. CASE y = x
      BY <1>4, <1>p, <2>2
    <2> QED BY <2>1, <2>2
  <1> QED BY <1>12, <1>13

(* MODIFY: the order is the client's, and only its quantity changes.        *)
LEMMA ModifyKeepsSame ==
    ASSUME BookInv, BookInv', NEW u, NEW id, Modifies(u, id),
           NEW b, IsBook(b), Same(b), NEW c, c = ModifyOrder(b, u)
    PROVE  /\ IsBook(c) /\ Same(c)' /\ (Full(b) => Full(c)')
           /\ c.bbo_ = b.bbo_ /\ c.fault = b.fault
           /\ TablesElsewhere(u)
  <1>o. PICK order : order = order_pool_[id]
    OBVIOUS
  <1>x. PICK x : x = priceToIndex(order.price_)
    OBVIOUS
  <1>0. TypeOK /\ TypeOK'
    BY DEF BookInv
  <1>u. id \in Live /\ u.order_id = id /\ u.side = order.side_ /\ u.price = order.price_
    BY <1>o DEF Modifies, Changes
  <1>p. /\ id \in MarketOrderIds /\ order \in MEOrder /\ x \in Indices /\ order.side_ \in Sides
        /\ \A s \in Sides : x \in by_price[s] <=> s = order.side_
    BY <1>o, <1>x, <1>u, OrderPlace DEF MEOrder
  <1>1. /\ order_pool_'[id] = [order EXCEPT !.qty_ = u.qty]
        /\ \A i \in MarketOrderIds \ {id} : order_pool_'[i] = order_pool_[i]
        /\ price_orders_at_price_' = price_orders_at_price_ /\ by_price' = by_price
    BY <1>0, <1>o, <1>p DEF TypeOK, Modifies
  <1>2. View(order_pool_'[id]) = [View(order) EXCEPT !.qty_ = u.qty]
    <2>1. order # NULL
      BY <1>p, ViewIs
    <2>2. order_pool_'[id] # NULL
      <3>1. id \in Live'
        <4>1. order_pool_'[id] \in MEOrder \cup {NULL}
          BY <1>0, <1>p DEF TypeOK
        <4>2. order_pool_'[id] # NULL
          <5> SUFFICES ASSUME order_pool_'[id] = NULL PROVE FALSE
            OBVIOUS
          <5>1. x \in Levels /\ id \in OrdersOf(x)
            BY <1>o, <1>x, <1>u, OrderPlace
          <5>2. x \in Levels' /\ id \in OrdersOf(x)'
            BY <1>1, <5>1 DEF Levels, OrdersOf
          <5>3. id \in Live'
            BY <5>2 DEF BookInv, Structure, LevelLists
          <5> QED BY <5>3 DEF Live
        <4> QED BY <1>p, <4>2 DEF Live
      <3> QED BY <3>1 DEF Live
    <2> QED BY <1>1, <1>p, <2>1, <2>2 DEF View, MEOrder
  <1>5. b.oid_to_order_[id] = View(order) /\ b.by_price = by_price
        /\ b.price_orders_at_price_[x] = price_orders_at_price_[x]
    BY <1>o, <1>p DEF Same
  <1>6. View(order) # NULL
    BY <1>p, ViewIs
  <1>7. c = BookOf([b.oid_to_order_ EXCEPT ![id] = [View(order) EXCEPT !.qty_ = u.qty]],
                   b.price_orders_at_price_, b.by_price, b.bbo_, b.fault)
    BY <1>u, <1>5, <1>6, ModifyIs
  <1>8. [b.price_orders_at_price_ EXCEPT ![x] = price_orders_at_price_'[x]]
          = b.price_orders_at_price_
    BY <1>1, <1>5 DEF IsBook
  <1>10. c = BookOf([b.oid_to_order_ EXCEPT ![id] = View(order_pool_'[id])],
                    [b.price_orders_at_price_ EXCEPT ![x] = price_orders_at_price_'[x]],
                    by_price', b.bbo_, b.fault)
    BY <1>1, <1>2, <1>5, <1>7, <1>8
  <1>11. /\ IsBook(c) /\ Same(c)' /\ (Full(b) => Full(c)')
         /\ c.bbo_ = b.bbo_ /\ c.fault = b.fault
    BY <1>1, <1>p, <1>10, SameAfter
  <1>12. TablesElsewhere(u)
    <2> SUFFICES ASSUME NEW s \in Sides, NEW y \in Indices, s # order.side_ \/ y # x
                 PROVE  /\ y \in by_price'[s] <=> y \in by_price[s]
                        /\ y \in by_price[s] =>
                             /\ price_orders_at_price_'[y] = price_orders_at_price_[y]
                             /\ \A i \in OrdersOf(y) : order_pool_'[i] = order_pool_[i]
      BY <1>x, <1>u DEF TablesElsewhere
    <2>1. CASE y # x
      <3>1. ASSUME y \in by_price[s], NEW i \in OrdersOf(y)
            PROVE  order_pool_'[i] = order_pool_[i]
        <4>1. i \in Live /\ priceToIndex(order_pool_[i].price_) = y
          BY <3>1, LevelOrders
        <4>2. i # id
          BY <1>o, <1>x, <2>1, <4>1
        <4> QED BY <1>1, <4>1, <4>2 DEF Live
      <3> QED BY <1>1, <3>1
    <2>2. CASE y = x
      BY <1>1, <1>p, <2>2
    <2> QED BY <2>1, <2>2
  <1> QED BY <1>11, <1>12

-----------------------------------------------------------------------------
(* One update, and the step of the exchange that sent it.                   *)
Explained(u) == \/ \E id, order : Adds(u, id, order)
                \/ \E id : Removes(u, id) \/ Modifies(u, id)

(* What the client makes of it, before the BBO.                             *)
Outcome(b, u, c) ==
    /\ u.type # "TRADE" /\ u.side \in Sides /\ u.price \in Prices
    /\ \/ c.fault = "deallocated level" /\ ~Full(b)
       \/ /\ IsBook(c) /\ Same(c)' /\ (Full(b) => Full(c)')
          /\ c.bbo_ = b.bbo_ /\ c.fault = "none"
    /\ TablesElsewhere(u)

LEMMA AppliedKeepsSame ==
    ASSUME BookInv, BookInv', NEW u, Explained(u),
           NEW b, IsBook(b), Same(b), b.fault = "none", NEW c, c = Applied(b, u)
    PROVE  Outcome(b, u, c)
  <1>1. ASSUME NEW id, NEW order, Adds(u, id, order)
        PROVE  /\ u.type # "TRADE" /\ u.side \in Sides /\ u.price \in Prices
               /\ \/ c.fault = "deallocated level" /\ ~Full(b)
                  \/ /\ IsBook(c) /\ Same(c)' /\ (Full(b) => Full(c)')
                     /\ c.bbo_ = b.bbo_ /\ c.fault = "none"
               /\ TablesElsewhere(u)
    <2>1. /\ u.type = "ADD" /\ u.side = order.side_ /\ u.price = order.price_
          /\ order \in MEOrder
      BY <1>1 DEF Adds, Update
    <2>2. u.side \in Sides /\ u.price \in Prices
      BY <2>1 DEF MEOrder
    <2>3. c = AddOrder(b, u)
      BY <2>1 DEF Applied
    <2>4. /\ Deallocated(b, u.price) => c.fault = "deallocated level" /\ ~Full(b)
          /\ ~Deallocated(b, u.price) => /\ IsBook(c) /\ Same(c)' /\ (Full(b) => Full(c)')
                                         /\ c.bbo_ = b.bbo_ /\ c.fault = b.fault
          /\ TablesElsewhere(u)
      BY <1>1, <2>3, AddKeepsSame
    <2> QED BY <2>1, <2>2, <2>4
  <1>2. ASSUME NEW id, Changes(u, id)
        PROVE  u.side \in Sides /\ u.price \in Prices
    <2>1. id \in Live /\ u.side = order_pool_[id].side_ /\ u.price = order_pool_[id].price_
      BY <1>2 DEF Changes
    <2>2. order_pool_[id] \in MEOrder
      BY <2>1, OrderPlace
    <2> QED BY <2>1, <2>2 DEF MEOrder
  <1>3. ASSUME NEW id, Removes(u, id)
        PROVE  /\ u.type # "TRADE" /\ u.side \in Sides /\ u.price \in Prices
               /\ IsBook(c) /\ Same(c)' /\ (Full(b) => Full(c)')
               /\ c.bbo_ = b.bbo_ /\ c.fault = "none"
               /\ TablesElsewhere(u)
    <2>1. u.type = "CANCEL" /\ Changes(u, id)
      BY <1>3 DEF Removes
    <2>2. c = CancelOrder(b, u)
      BY <2>1 DEF Applied
    <2>3. /\ IsBook(c) /\ Same(c)' /\ (Full(b) => Full(c)')
          /\ c.bbo_ = b.bbo_ /\ c.fault = b.fault /\ TablesElsewhere(u)
      BY <1>3, <2>2, CancelKeepsSame
    <2>4. u.side \in Sides /\ u.price \in Prices
      BY <1>2, <2>1
    <2> QED BY <2>1, <2>3, <2>4
  <1>4. ASSUME NEW id, Modifies(u, id)
        PROVE  /\ u.type # "TRADE" /\ u.side \in Sides /\ u.price \in Prices
               /\ IsBook(c) /\ Same(c)' /\ (Full(b) => Full(c)')
               /\ c.bbo_ = b.bbo_ /\ c.fault = "none"
               /\ TablesElsewhere(u)
    <2>1. u.type = "MODIFY" /\ Changes(u, id)
      BY <1>4 DEF Modifies
    <2>2. c = ModifyOrder(b, u)
      BY <2>1 DEF Applied
    <2>3. /\ IsBook(c) /\ Same(c)' /\ (Full(b) => Full(c)')
          /\ c.bbo_ = b.bbo_ /\ c.fault = b.fault /\ TablesElsewhere(u)
      BY <1>4, <2>2, ModifyKeepsSame
    <2>4. u.side \in Sides /\ u.price \in Prices
      BY <1>2, <2>1
    <2> QED BY <2>1, <2>3, <2>4
  <1> QED BY <1>1, <1>3, <1>4 DEF Explained, Outcome

LEMMA UpdateKeeps ==
    ASSUME NoAliasing, BookInv, BookInv', NEW u, Explained(u),
           NEW b, IsBook(b), Same(b), b.fault = "none", NEW d, d = onMarketUpdate(b, u)
    PROVE  /\ d.fault # "null"
           /\ d.fault = "none" => /\ IsBook(d) /\ Same(d)'
                                  /\ BBORight(b) => BBORight(d)
           /\ Full(b) => d.fault = "none" /\ Full(d)'
  <1>c. PICK c : c = Applied(b, u)
    OBVIOUS
  <1>1. /\ u.type # "TRADE" /\ u.side \in Sides /\ u.price \in Prices
        /\ \/ c.fault = "deallocated level" /\ ~Full(b)
           \/ /\ IsBook(c) /\ Same(c)' /\ (Full(b) => Full(c)')
              /\ c.bbo_ = b.bbo_ /\ c.fault = "none"
        /\ TablesElsewhere(u)
    <2>1. Outcome(b, u, c)
      BY <1>c, AppliedKeepsSame, Zenon
    <2> QED BY <2>1 DEF Outcome
  <1>2. CASE c.fault = "deallocated level" /\ ~Full(b)
    <2>1. d = c
      BY <1>c, <1>1, <1>2, UpdateFails
    <2> QED BY <1>2, <2>1
  <1>3. CASE /\ IsBook(c) /\ Same(c)' /\ (Full(b) => Full(c)')
             /\ c.bbo_ = b.bbo_ /\ c.fault = "none"
    <2>1. d = BookOf(c.oid_to_order_, c.price_orders_at_price_, c.by_price,
                     [s \in Sides |-> IF IsUpdated(b, u, s) THEN TopOf(c, s) ELSE c.bbo_[s]],
                     c.fault)
      BY <1>c, <1>1, <1>3, UpdateIs
    <2>2. /\ d.oid_to_order_ = c.oid_to_order_ /\ d.by_price = c.by_price
          /\ d.price_orders_at_price_ = c.price_orders_at_price_ /\ d.fault = "none"
          /\ d = BookOf(d.oid_to_order_, d.price_orders_at_price_, d.by_price, d.bbo_, d.fault)
      BY <1>3, <2>1 DEF BookOf
    <2>3. IsBook(d)
      BY <1>3, <2>2 DEF IsBook
    <2>4. Same(d)'
      BY <1>3, <2>2 DEF Same
    <2>5. Full(b) => Full(d)'
      BY <1>3, <2>2 DEF Full
    <2>6. ASSUME BBORight(b) PROVE BBORight(d)
      <3>1. WellFormed(b)
        BY SameIsWellFormed DEF SameAreWellFormed
      <3>2. SameAreWellFormed'
        BY SameIsWellFormed
      <3>3. WellFormed(c)
        BY <1>3, <3>2 DEF SameAreWellFormed, WellFormed
      <3>4. Elsewhere(b, c, u)
        BY <1>1, <1>3, ElsewhereBoth
      <3> QED BY <1>1, <1>3, <2>1, <2>6, <3>1, <3>3, <3>4, BBOKept
    <2> QED BY <2>2, <2>3, <2>4, <2>5, <2>6
  <1> QED BY <1>1, <1>2, <1>3

(* A trade is not larger than the order at the head of the best level of    *)
(* the side it hits.                                                        *)
Traded(t) ==
    /\ t.type = "TRADE" /\ t.side \in Sides /\ t.qty \in Nat
    /\ \E x \in Indices : /\ IsBest(Opposite(t.side), x)
                          /\ t.qty <= order_pool_[FirstOrder(x)].qty_

TablesStay == UNCHANGED <<order_pool_, price_orders_at_price_, by_price>>

Messages(us) ==
    \/ us = <<>> /\ TablesStay
    \/ \E u : us = <<u>> /\ Explained(u)
    \/ \E t, u : us = <<t, u>> /\ Traded(t) /\ Explained(u)

(* The updates of a step say what it does to the book.                      *)
LEMMA MatchIsExplained ==
    ASSUME BookInv, NEW x \in Indices, Match(x)
    PROVE  \E t, u : updates' = <<t, u>> /\ Traded(t) /\ Explained(u)
  <1>i. PICK id : id = FirstOrder(x)
    OBVIOUS
  <1>o. PICK order : order = order_pool_[id]
    OBVIOUS
  <1>0. TypeOK /\ LevelLists /\ PriceMapping /\ TimePriority
    BY DEF BookInv, Structure
  <1>1. adding \in Adding /\ adding.leaves_qty \in Nat /\ adding.side \in Sides
        /\ IsBest(Opposite(adding.side), x) /\ x \in by_price[Opposite(adding.side)]
    BY <1>0 DEF Match, Matchable, IsBest, TypeOK, Adding
  <1>2. x \in Levels
    BY <1>0, <1>1 DEF LevelLists, Opposite, Sides
  <1>3. id \in Live
    <2>1. 1 \in 1 .. Len(price_orders_at_price_[x].orders)
      BY <1>0, <1>2, LevelFacts
    <2>2. id \in OrdersOf(x)
      BY <1>i, <2>1 DEF FirstOrder, OrdersOf
    <2> QED BY <1>0, <1>2, <2>2 DEF LevelLists
  <1>4. id \in MarketOrderIds /\ order \in MEOrder /\ order.qty_ \in Nat
    BY <1>0, <1>3, <1>o, OrderFacts DEF MEOrder
  <1>5. PICK fill \in Nat : /\ fill <= order.qty_
                           /\ fill = FillQty(adding.leaves_qty, order.qty_)
    BY <1>1, <1>4 DEF FillQty
  <1>l. PICK left : left = order.qty_ - fill
    OBVIOUS
  <1>t. PICK t : t = Update("TRADE", NULL, adding.side, order.price_, fill, NULL)
    OBVIOUS
  <1>u. PICK u : u = FillUpdate(id, order, left)
    OBVIOUS
  <1>6. updates' = <<t, u>>
    BY <1>i, <1>o, <1>5, <1>l, <1>t, <1>u DEF Match
  <1>7. Traded(t)
    <2>1. t.type = "TRADE" /\ t.side = adding.side /\ t.qty = fill
      BY <1>t DEF Update
    <2> QED BY <1>1, <1>i, <1>o, <1>5, <2>1 DEF Traded
  <1>8. Explained(u)
    <2>1. CASE left = 0
      <3>1. u = Update("CANCEL", id, order.side_, order.price_, order.qty_, NULL)
        BY <1>u, <2>1 DEF FillUpdate
      <3>2. removeOrder(id)
        BY <1>i, <1>o, <1>5, <1>l, <2>1 DEF Match
      <3>3. Removes(u, id)
        BY <1>3, <1>o, <3>1, <3>2 DEF Removes, Changes, Update
      <3> QED BY <3>3 DEF Explained
    <2>2. CASE left # 0
      <3>1. u = Update("MODIFY", id, order.side_, order.price_, left, order.priority_)
        BY <1>u, <2>2 DEF FillUpdate
      <3>2. /\ order_pool_' = [order_pool_ EXCEPT ![id].qty_ = left]
            /\ UNCHANGED <<price_orders_at_price_, by_price>>
        BY <1>i, <1>o, <1>5, <1>l, <2>2 DEF Match
      <3>3. u.type = "MODIFY" /\ u.order_id = id /\ u.side = order.side_
            /\ u.price = order.price_ /\ u.qty = left
        BY <3>1 DEF Update
      <3>4. Modifies(u, id)
        BY <1>3, <1>o, <3>2, <3>3 DEF Modifies, Changes
      <3> QED BY <3>4 DEF Explained
    <2> QED BY <2>1, <2>2
  <1> QED BY <1>6, <1>7, <1>8

LEMMA RestIsExplained ==
    ASSUME BookInv, ~TailSends, Rest
    PROVE  \E u : updates' = <<u>> /\ Explained(u)
  <1>0. TypeOK /\ IdsInOrder /\ Structure /\ adding # NULL /\ adding \in Adding
    BY DEF BookInv, Rest, NoMatch, TypeOK
  <1>i. PICK id \in MarketOrderIds : id = adding.market_order_id
    BY <1>0 DEF Adding
  <1>p. PICK priority \in Nat : priority = getNextPriority(adding.price)
    BY <1>0, NextPriorityIsNatural DEF Adding
  <1>o. PICK order : order = [client_id_ |-> adding.client_id,
                              client_order_id_ |-> adding.client_order_id,
                              side_ |-> adding.side, price_ |-> adding.price,
                              qty_ |-> adding.leaves_qty, priority_ |-> priority]
    OBVIOUS
  <1>u. PICK u : u = Update("ADD", id, adding.side, adding.price, adding.leaves_qty, priority)
    OBVIOUS
  <1>1. order \in MEOrder
    BY <1>0, <1>p, <1>o DEF MEOrder, Adding
  <1>2. addOrder(id, order) /\ updates' = <<u>>
    BY <1>i, <1>o, <1>p, <1>u DEF Rest
  <1>3. id \notin Live
    <2> SUFFICES ASSUME id \in Live PROVE FALSE
      OBVIOUS
    <2>1. id < id
      BY <1>0, <1>i DEF IdsInOrder
    <2>2. id \in Int
      BY BoundAssumption DEF MarketOrderIds
    <2> QED BY <2>1, <2>2
  <1>4. u = Update("ADD", id, order.side_, order.price_, order.qty_, order.priority_)
    BY <1>o, <1>u
  <1>5. Adds(u, id, order)
    BY <1>1, <1>2, <1>3, <1>4 DEF Adds
  <1> QED BY <1>2, <1>5 DEF Explained

LEMMA StepIsExplained ==
    ASSUME BookInv, MapLive, ~TailSends, Next
    PROVE  Messages(updates')
  <1>1. ASSUME NEW c \in ClientIds, NEW o \in OrderIds, NEW s \in Sides,
               NEW p \in Prices, NEW q \in Qtys, Accept(c, o, s, p, q)
        PROVE  Messages(updates')
    BY <1>1 DEF Accept, bookVars, Messages, TablesStay
  <1>2. ASSUME NEW x \in Indices, Match(x) PROVE Messages(updates')
    BY <1>2, MatchIsExplained DEF Messages
  <1>3. CASE Rest
    BY <1>3, RestIsExplained DEF Messages
  <1>4. CASE Done
    BY <1>4 DEF Done, bookVars, Messages, TablesStay
  <1>5. ASSUME NEW c \in ClientIds \cup {OtherClient}, NEW o \in OrderIds, Cancel(c, o)
        PROVE  Messages(updates')
    <2>1. PICK id : id = Target(c, o)
      OBVIOUS
    <2>o. PICK order : order = order_pool_[id]
      OBVIOUS
    <2>u. PICK u : u = Update("CANCEL", id, order.side_, order.price_, 0, order.priority_)
      OBVIOUS
    <2>2. id # NULL /\ removeOrder(id) /\ updates' = <<u>>
      BY <1>5, <2>1, <2>o, <2>u DEF Cancel
    <2>3. id \in Live
      BY <2>1, <2>2 DEF Target, MapLive
    <2>4. Removes(u, id)
      BY <2>o, <2>u, <2>2, <2>3 DEF Removes, Changes, Update
    <2>5. Explained(u)
      BY <2>4 DEF Explained
    <2> QED BY <2>2, <2>5 DEF Messages
  <1>6. ASSUME NEW c \in ClientIds \cup {OtherClient}, NEW o \in OrderIds, CancelReject(c, o)
        PROVE  Messages(updates')
    BY <1>6 DEF CancelReject, bookVars, Messages, TablesStay
  <1> QED BY <1>1, <1>2, <1>3, <1>4, <1>5, <1>6 DEF Next, Finish, MatchStep

-----------------------------------------------------------------------------
(* The recovery: what the snapshot's updates make of a book.                *)
Beginning(s, m) == [k \in 1 .. m |-> s[k]]

LEMMA BeginningGrows ==
    ASSUME NEW D, NEW s \in Seq(D), NEW j \in 1 .. Len(s)
    PROVE  /\ Beginning(s, j - 1) \in Seq(D)
           /\ Append(Beginning(s, j - 1), s[j]) = Beginning(s, j)
           /\ j = 1 => <<s[j]>> = Beginning(s, j)
           /\ Beginning(s, Len(s)) = s
  <1>1. j \in Nat /\ j - 1 \in Nat /\ Len(s) \in Nat /\ j <= Len(s)
    OBVIOUS
  <1>2. \A k \in 1 .. Len(s) : s[k] \in D
    OBVIOUS
  <1>3. Beginning(s, j - 1) \in Seq(D) /\ Len(Beginning(s, j - 1)) = j - 1
    <2>1. \A k \in 1 .. j - 1 : s[k] \in D
      BY <1>1, <1>2
    <2> QED BY <1>1, <2>1 DEF Beginning
  <1>4. Append(Beginning(s, j - 1), s[j]) = Beginning(s, j)
    <2>1. s[j] \in D
      BY <1>2
    <2>2. PICK a : a = Append(Beginning(s, j - 1), s[j])
      OBVIOUS
    <2>3. a \in Seq(D) /\ Len(a) = j
      BY <1>1, <1>3, <2>1, <2>2
    <2>4. a[j] = s[j] /\ \A k \in 1 .. j - 1 : a[k] = Beginning(s, j - 1)[k]
      BY <1>1, <1>3, <2>1, <2>2
    <2>5. \A k \in 1 .. j - 1 : Beginning(s, j - 1)[k] = s[k]
      BY DEF Beginning
    <2>6. \A k \in 1 .. j : a[k] = s[k]
      <3> TAKE k \in 1 .. j
      <3>1. k = j \/ k \in 1 .. j - 1
        BY <1>1
      <3> QED BY <2>4, <2>5, <3>1
    <2>7. a = [k \in 1 .. j |-> a[k]]
      BY <2>3
    <2>8. a = Beginning(s, j)
      BY <2>6, <2>7 DEF Beginning
    <2> QED BY <2>2, <2>8
  <1>5. j = 1 => <<s[j]>> = Beginning(s, j)
    BY DEF Beginning
  <1>6. Beginning(s, Len(s)) = s
    BY DEF Beginning
  <1> QED BY <1>3, <1>4, <1>5, <1>6

(* The book after CLEAR and the orders up to n. *)
Partly(c, n) ==
    /\ IsBook(c) /\ c.fault = "none"
    /\ \A i \in MarketOrderIds :
         c.oid_to_order_[i] = IF i <= n THEN View(order_pool_[i]) ELSE NULL
    /\ \A s \in Sides : c.by_price[s] = {x \in by_price[s] : \E i \in OrdersOf(x) : i <= n}
    /\ \A s \in Sides : \A x \in c.by_price[s] :
         \E m \in 1 .. Len(price_orders_at_price_[x].orders) :
           /\ \A k \in 1 .. Len(price_orders_at_price_[x].orders) :
                price_orders_at_price_[x].orders[k] <= n <=> k <= m
           /\ c.price_orders_at_price_[x] =
                [price_orders_at_price_[x] EXCEPT
                   !.orders = Beginning(price_orders_at_price_[x].orders, m)]

Recovering(c, n) == c.fault = "deallocated level" \/ Partly(c, n)

(* A CLEAR leaves nothing of the book but its table of levels. *)
LEMMA ClearStarts ==
    ASSUME BookInv, NEW b, IsBook(b), b.fault = "none"
    PROVE  Recovering(onMarketUpdate(b, ClearUpdate), 0)
  <1>u. PICK u : u = ClearUpdate
    OBVIOUS
  <1>c. PICK c : c = Applied(b, u)
    OBVIOUS
  <1>d. PICK d : d = onMarketUpdate(b, u)
    OBVIOUS
  <1>0. u.type = "CLEAR"
    BY <1>u DEF ClearUpdate, Update
  <1>1. c = Clear(b)
    BY <1>c, <1>0 DEF Applied
  <1>2. c = BookOf([i \in MarketOrderIds |-> NULL], b.price_orders_at_price_,
                   [s \in Sides |-> {}], b.bbo_, b.fault)
    BY <1>1, ClearIs
  <1>3. /\ c.oid_to_order_ = [i \in MarketOrderIds |-> NULL]
        /\ c.price_orders_at_price_ = b.price_orders_at_price_
        /\ c.by_price = [s \in Sides |-> {}] /\ c.fault = "none"
        /\ c = BookOf(c.oid_to_order_, c.price_orders_at_price_, c.by_price, c.bbo_, c.fault)
    BY <1>2 DEF BookOf
  <1>4. IsBook(c)
    BY <1>3 DEF IsBook
  <1>5. d = BookOf(c.oid_to_order_, c.price_orders_at_price_, c.by_price,
                   [s \in Sides |-> IF IsUpdated(b, u, s) THEN TopOf(c, s) ELSE c.bbo_[s]],
                   c.fault)
    BY <1>c, <1>d, <1>0, <1>3, <1>4, UpdateIs
  <1>6. /\ d.oid_to_order_ = c.oid_to_order_ /\ d.by_price = c.by_price
        /\ d.price_orders_at_price_ = c.price_orders_at_price_ /\ d.fault = "none"
        /\ d = BookOf(d.oid_to_order_, d.price_orders_at_price_, d.by_price, d.bbo_, d.fault)
    BY <1>3, <1>5 DEF BookOf
  <1>7. IsBook(d)
    BY <1>4, <1>6 DEF IsBook
  <1>8. \A i \in MarketOrderIds : i \in Nat /\ ~(i <= 0)
    BY BoundAssumption DEF MarketOrderIds
  <1>9. \A s \in Sides : \A x \in by_price[s] : \A i \in OrdersOf(x) : ~(i <= 0)
    <2> TAKE s \in Sides
    <2> TAKE x \in by_price[s]
    <2> TAKE i \in OrdersOf(x)
    <2>1. i \in Live
      BY LevelOrders
    <2> QED BY <1>8, <2>1 DEF Live
  <1>10. \A s \in Sides : d.by_price[s] = {}
    BY <1>3, <1>6
  <1>11. Partly(d, 0)
    BY <1>3, <1>6, <1>7, <1>8, <1>9, <1>10 DEF Partly
  <1> QED BY <1>d, <1>u, <1>11 DEF Recovering

(* An ADD of the snapshot puts its order behind the older ones of its level.*)
LEMMA AddGoesOn ==
    ASSUME BookInv, NEW n \in MarketOrderIds, n \in Live, NEW c, Partly(c, n - 1)
    PROVE  Recovering(onMarketUpdate(c, AddUpdate(n)), n)
  <1>u. PICK u : u = AddUpdate(n)
    OBVIOUS
  <1>o. PICK order : order = order_pool_[n]
    OBVIOUS
  <1>x. PICK x : x = priceToIndex(order.price_)
    OBVIOUS
  <1>l. PICK level : level = price_orders_at_price_[x]
    OBVIOUS
  <1>s. PICK L : L = level.orders
    OBVIOUS
  <1>a. PICK a : a = Applied(c, u)
    OBVIOUS
  <1>d. PICK d : d = onMarketUpdate(c, u)
    OBVIOUS
  <1>0. TypeOK /\ LevelLists /\ PriceMapping /\ TimePriority
    BY DEF BookInv, Structure
  <1>n. n \in Nat /\ n >= 1 /\ \A i \in MarketOrderIds : i \in Nat
    BY BoundAssumption DEF MarketOrderIds
  <1>1. /\ order \in MEOrder /\ x \in Levels /\ x \in Indices /\ n \in OrdersOf(x)
        /\ level \in MEOrdersAtPrice
        /\ level.price_ = order.price_ /\ level.side_ = order.side_ /\ order.side_ \in Sides
        /\ \A s \in Sides : x \in by_price[s] <=> s = order.side_
    BY <1>o, <1>x, <1>l, OrderPlace DEF LevelPrice, MEOrder
  <1>2. /\ u.type = "ADD" /\ u.order_id = n /\ u.side = order.side_ /\ u.price = order.price_
        /\ MarketOrder(u) = View(order)
    <2>1. u = Update("ADD", n, order.side_, order.price_, order.qty_, order.priority_)
      BY <1>o, <1>u DEF AddUpdate
    <2>2. order # NULL
      BY <1>1, ViewIs
    <2> QED BY <2>1, <2>2 DEF Update, MarketOrder, View
  <1>3. L \in Seq(MarketOrderIds) /\ Increasing(L) /\ Len(L) > 0 /\ level # NULL
    BY <1>0, <1>1, <1>l, <1>s, LevelFacts DEF Levels
  <1>4. PICK j \in 1 .. Len(L) : L[j] = n
    BY <1>1, <1>l, <1>s DEF OrdersOf
  <1>5. /\ \A k \in 1 .. Len(L) : L[k] <= n <=> k <= j
        /\ \A k \in 1 .. Len(L) : L[k] <= n - 1 <=> k <= j - 1
    <2> SUFFICES ASSUME NEW k \in 1 .. Len(L)
                 PROVE  (L[k] <= n <=> k <= j) /\ (L[k] <= n - 1 <=> k <= j - 1)
      OBVIOUS
    <2>1. L[k] \in Nat /\ k \in Nat /\ j \in Nat
      <3>1. L[k] \in MarketOrderIds
        BY <1>3
      <3>2. L[k] \in Nat
        BY <1>n, <3>1
      <3> QED BY <3>2
    <2>2. CASE k < j
      <3>1. L[k] < n
        BY <1>3, <1>4, <2>2 DEF Increasing
      <3> QED BY <1>n, <2>1, <2>2, <3>1
    <2>3. CASE k = j
      BY <1>n, <1>4, <2>1, <2>3
    <2>4. CASE k > j
      <3>1. n < L[k]
        BY <1>3, <1>4, <2>4 DEF Increasing
      <3> QED BY <1>n, <2>1, <2>4, <3>1
    <2> QED BY <2>1, <2>2, <2>3, <2>4
  <1>6. IsBook(c) /\ c.fault = "none"
    BY DEF Partly
  <1>7. ASSUME NEW s \in Sides, x \in c.by_price[s] PROVE s = order.side_
    <2>1. x \in by_price[s]
      BY <1>7 DEF Partly
    <2> QED BY <1>1, <2>1
  <1>8. a = AddOrder(c, u)
    BY <1>a, <1>2 DEF Applied
  <1>9. CASE Deallocated(c, u.price)
    <2>1. a.fault = "deallocated level"
      BY <1>6, <1>8, <1>9, AddIs
    <2>2. d = a
      BY <1>a, <1>d, <1>2, <1>6, <2>1, UpdateFails
    <2> QED BY <1>d, <1>u, <2>1, <2>2 DEF Recovering
  <1>10. CASE ~Deallocated(c, u.price)
    <2>1. a = BookOf([c.oid_to_order_ EXCEPT ![n] = View(order)],
                     LevelsWith(c, u), ListsWith(c, u), c.bbo_, c.fault)
      BY <1>2, <1>6, <1>8, <1>10, AddIs
    <2>g. PICK grown : grown = [level EXCEPT !.orders = Beginning(L, j)]
      OBVIOUS
    <2>2. /\ LevelsWith(c, u) = [c.price_orders_at_price_ EXCEPT ![x] = grown]
          /\ \A s \in Sides : ListsWith(c, u)[s] =
               IF s = order.side_ THEN c.by_price[s] \cup {x} ELSE c.by_price[s]
          /\ ListsWith(c, u) \in [Sides -> SUBSET Indices]
      <3>b. /\ c.by_price \in [Sides -> SUBSET Indices]
            /\ c.price_orders_at_price_ \in [Indices -> MEOrdersAtPrice \cup {NULL}]
        BY <1>6 DEF IsBook
      <3>1. CASE x \in c.by_price[order.side_]
        <4>1. PICK m \in 1 .. Len(L) :
                /\ \A k \in 1 .. Len(L) : L[k] <= n - 1 <=> k <= m
                /\ c.price_orders_at_price_[x] = [level EXCEPT !.orders = Beginning(L, m)]
          BY <1>1, <1>l, <1>s, <3>1 DEF Partly
        <4>2. m = j - 1 /\ j - 1 \in 1 .. Len(L)
          <5>1. j \in Nat /\ m \in Nat /\ Len(L) \in Nat /\ m <= Len(L) /\ m >= 1 /\ j <= Len(L)
            BY <1>3
          <5>2. \A k \in 1 .. Len(L) : k <= j - 1 <=> k <= m
            BY <1>5, <4>1
          <5>3. m <= j - 1
            BY <5>1, <5>2
          <5>4. j - 1 \in 1 .. Len(L)
            BY <5>1, <5>3
          <5>5. j - 1 <= m
            BY <5>1, <5>2, <5>4
          <5> QED BY <5>1, <5>3, <5>4, <5>5
        <4>3. /\ Append(Beginning(L, j - 1), n) = Beginning(L, j)
              /\ Beginning(L, j - 1) \in Seq(MarketOrderIds)
          BY <1>3, <1>4, BeginningGrows
        <4>p. PICK part : part = Beginning(L, j - 1)
          OBVIOUS
        <4>c. PICK mine : mine = c.price_orders_at_price_[x]
          OBVIOUS
        <4>4. mine = [level EXCEPT !.orders = part]
          BY <4>1, <4>2, <4>p, <4>c
        <4>5. mine \in MEOrdersAtPrice /\ mine.orders = part
          BY <1>1, <4>3, <4>4, <4>p DEF MEOrdersAtPrice
        <4>6. mine # NULL
          BY <4>5, NullAssumption
        <4>7. [mine EXCEPT !.orders = Append(@, n)] = grown
          <5>1. Append(mine.orders, n) = Beginning(L, j)
            BY <4>3, <4>5, <4>p
          <5>2. [mine EXCEPT !.orders = Append(@, n)] = [mine EXCEPT !.orders = Beginning(L, j)]
            BY <5>1
          <5>3. [mine EXCEPT !.orders = Beginning(L, j)] = grown
            BY <1>1, <2>g, <4>4 DEF MEOrdersAtPrice
          <5> QED BY <5>2, <5>3
        <4>8. LevelsWith(c, u) = [c.price_orders_at_price_ EXCEPT ![x] =
                                    [mine EXCEPT !.orders = Append(@, n)]]
          BY <1>2, <1>x, <4>c, <4>6 DEF LevelsWith
        <4>9. ListsWith(c, u) = c.by_price
          BY <1>2, <1>x, <4>c, <4>6 DEF ListsWith
        <4>10. c.by_price[order.side_] \cup {x} = c.by_price[order.side_]
          BY <3>1
        <4> QED BY <3>b, <4>7, <4>8, <4>9, <4>10
      <3>2. CASE x \notin c.by_price[order.side_]
        <4>1. \A s \in Sides : x \notin c.by_price[s]
          BY <1>7, <3>2
        <4>2. c.price_orders_at_price_[x] = NULL
          BY <1>2, <1>x, <1>10, <4>1 DEF Deallocated
        <4>3. j = 1
          <5>1. \A i \in OrdersOf(x) : ~(i <= n - 1)
            BY <1>1, <3>2 DEF Partly
          <5>2. 1 \in 1 .. Len(L) /\ L[1] \in OrdersOf(x)
            BY <1>3, <1>l, <1>s DEF OrdersOf
          <5>3. ~(1 <= j - 1)
            BY <1>5, <5>1, <5>2
          <5> QED BY <1>3, <5>3
        <4>4. <<n>> = Beginning(L, j)
          BY <1>3, <1>4, <4>3, BeginningGrows
        <4>5. [side_ |-> u.side, price_ |-> u.price, orders |-> <<u.order_id>>] = grown
          BY <1>1, <1>2, <2>g, <4>4 DEF MEOrdersAtPrice
        <4>6. LevelsWith(c, u) = [c.price_orders_at_price_ EXCEPT ![x] =
                [side_ |-> u.side, price_ |-> u.price, orders |-> <<u.order_id>>]]
          BY <1>2, <1>x, <4>2 DEF LevelsWith
        <4>7. ListsWith(c, u) = [c.by_price EXCEPT ![order.side_] = @ \cup {x}]
          BY <1>2, <1>x, <4>2 DEF ListsWith
        <4>8. LevelsWith(c, u) = [c.price_orders_at_price_ EXCEPT ![x] = grown]
          BY <4>5, <4>6
        <4>w. PICK lists : lists = ListsWith(c, u)
          OBVIOUS
        <4>o. PICK old : old = c.by_price
          OBVIOUS
        <4>9. lists = [old EXCEPT ![order.side_] = old[order.side_] \cup {x}]
          BY <4>7, <4>w, <4>o
        <4>10. old \in [Sides -> SUBSET Indices]
          BY <3>b, <4>o
        <4>11. lists \in [Sides -> SUBSET Indices]
          BY <1>1, <4>9, <4>10
        <4>12. \A s \in Sides :
                 lists[s] = IF s = order.side_ THEN old[s] \cup {x} ELSE old[s]
          BY <1>1, <4>9, <4>10
        <4> QED BY <4>8, <4>11, <4>12, <4>w, <4>o
      <3> QED BY <3>1, <3>2
    <2>3. /\ a.oid_to_order_ = [c.oid_to_order_ EXCEPT ![n] = View(order)]
          /\ a.price_orders_at_price_ = [c.price_orders_at_price_ EXCEPT ![x] = grown]
          /\ a.by_price \in [Sides -> SUBSET Indices]
          /\ \A s \in Sides : a.by_price[s] =
               IF s = order.side_ THEN c.by_price[s] \cup {x} ELSE c.by_price[s]
          /\ a.fault = "none"
          /\ a = BookOf(a.oid_to_order_, a.price_orders_at_price_, a.by_price, a.bbo_, a.fault)
      BY <1>6, <2>1, <2>2 DEF BookOf
    <2>4. grown \in MEOrdersAtPrice
      <3>1. Beginning(L, j) \in Seq(MarketOrderIds)
        <4>1. \A k \in 1 .. j : L[k] \in MarketOrderIds
          BY <1>3
        <4> QED BY <4>1 DEF Beginning
      <3> QED BY <1>1, <2>g, <3>1 DEF MEOrdersAtPrice
    <2>5. View(order) \in MarketOrders
      BY <1>1, ViewIs
    <2>6. IsBook(a)
      <3>1. a.oid_to_order_ \in [MarketOrderIds -> MarketOrders \cup {NULL}]
        BY <1>6, <2>3, <2>5 DEF IsBook
      <3>2. a.price_orders_at_price_ \in [Indices -> MEOrdersAtPrice \cup {NULL}]
        BY <1>6, <2>3, <2>4 DEF IsBook
      <3> QED BY <2>3, <3>1, <3>2 DEF IsBook
    <2>7. d = BookOf(a.oid_to_order_, a.price_orders_at_price_, a.by_price,
                     [s \in Sides |-> IF IsUpdated(c, u, s) THEN TopOf(a, s) ELSE a.bbo_[s]],
                     a.fault)
      BY <1>a, <1>d, <1>2, <1>6, <2>3, <2>6, UpdateIs
    <2>8. /\ d.oid_to_order_ = a.oid_to_order_ /\ d.by_price = a.by_price
          /\ d.price_orders_at_price_ = a.price_orders_at_price_ /\ d.fault = "none"
          /\ d = BookOf(d.oid_to_order_, d.price_orders_at_price_, d.by_price, d.bbo_, d.fault)
      BY <2>3, <2>7 DEF BookOf
    <2>9. IsBook(d)
      BY <2>6, <2>8 DEF IsBook
    <2>10. \A i \in MarketOrderIds :
             d.oid_to_order_[i] = IF i <= n THEN View(order_pool_[i]) ELSE NULL
      <3> TAKE i \in MarketOrderIds
      <3>1. c.oid_to_order_ \in [MarketOrderIds -> MarketOrders \cup {NULL}]
        BY <1>6 DEF IsBook
      <3>2. CASE i = n
        BY <1>n, <1>o, <2>3, <2>8, <3>1, <3>2
      <3>3. CASE i # n
        <4>1. d.oid_to_order_[i] = c.oid_to_order_[i]
          BY <2>3, <2>8, <3>1, <3>3
        <4>2. i <= n - 1 <=> i <= n
          BY <1>n, <3>3
        <4> QED BY <4>1, <4>2 DEF Partly
      <3> QED BY <3>2, <3>3
    <2>11. ASSUME NEW s \in Sides, NEW y \in by_price[s], y # x, NEW i \in OrdersOf(y)
           PROVE  i <= n - 1 <=> i <= n
      <3>1. i \in Live /\ priceToIndex(order_pool_[i].price_) = y
        BY LevelOrders
      <3>2. i # n
        BY <1>o, <1>x, <2>11, <3>1
      <3>3. i \in Nat
        BY <1>n, <3>1 DEF Live
      <3> QED BY <1>n, <3>2, <3>3
    <2>12. ASSUME NEW s \in Sides
           PROVE  d.by_price[s] = {y \in by_price[s] : \E i \in OrdersOf(y) : i <= n}
      <3>1. c.by_price[s] = {y \in by_price[s] : \E i \in OrdersOf(y) : i <= n - 1}
        BY DEF Partly
      <3>2. d.by_price[s] = IF s = order.side_ THEN c.by_price[s] \cup {x} ELSE c.by_price[s]
        BY <2>3, <2>8
      <3>3. x \in d.by_price[s] <=> s = order.side_
        BY <1>7, <3>2
      <3>4. (x \in by_price[s] /\ \E i \in OrdersOf(x) : i <= n) <=> s = order.side_
        <4>1. n <= n
          BY <1>n
        <4> QED BY <1>1, <4>1
      <3>5. ASSUME NEW y, y # x
            PROVE  y \in d.by_price[s] <=> y \in by_price[s] /\ \E i \in OrdersOf(y) : i <= n
        <4>1. y \in d.by_price[s] <=> y \in c.by_price[s]
          BY <3>2, <3>5
        <4> QED BY <2>11, <3>1, <3>5, <4>1
      <3> QED BY <3>3, <3>4, <3>5
    <2>13. ASSUME NEW s \in Sides, NEW y \in d.by_price[s]
           PROVE  \E m \in 1 .. Len(price_orders_at_price_[y].orders) :
                    /\ \A k \in 1 .. Len(price_orders_at_price_[y].orders) :
                         price_orders_at_price_[y].orders[k] <= n <=> k <= m
                    /\ d.price_orders_at_price_[y] =
                         [price_orders_at_price_[y] EXCEPT
                            !.orders = Beginning(price_orders_at_price_[y].orders, m)]
      <3>c. c.price_orders_at_price_ \in [Indices -> MEOrdersAtPrice \cup {NULL}]
            /\ d.by_price \in [Sides -> SUBSET Indices]
        BY <1>6, <2>9 DEF IsBook
      <3>1. CASE y = x
        <4>1. d.price_orders_at_price_[x] = grown
          BY <1>1, <2>3, <2>8, <3>c
        <4> QED BY <1>5, <1>l, <1>s, <2>g, <3>1, <4>1
      <3>2. CASE y # x
        <4>1. y \in c.by_price[s] /\ y \in Indices
          <5>1. d.by_price[s] = IF s = order.side_ THEN c.by_price[s] \cup {x} ELSE c.by_price[s]
            BY <2>3, <2>8
          <5>2. y \in c.by_price[s]
            BY <3>2, <5>1
          <5>3. y \in Indices
            BY <3>c
          <5> QED BY <5>2, <5>3
        <4>2. y \in by_price[s]
          BY <4>1 DEF Partly
        <4>3. d.price_orders_at_price_[y] = c.price_orders_at_price_[y]
          BY <2>3, <2>8, <3>2, <3>c, <4>1
        <4>o. PICK orders : orders = price_orders_at_price_[y].orders
          OBVIOUS
        <4>4. PICK m \in 1 .. Len(orders) :
                /\ \A k \in 1 .. Len(orders) : orders[k] <= n - 1 <=> k <= m
                /\ c.price_orders_at_price_[y] =
                     [price_orders_at_price_[y] EXCEPT !.orders = Beginning(orders, m)]
          BY <4>1, <4>o DEF Partly
        <4>5. \A k \in 1 .. Len(orders) : orders[k] \in OrdersOf(y)
          BY <4>o DEF OrdersOf
        <4>6. \A k \in 1 .. Len(orders) : orders[k] <= n <=> k <= m
          BY <2>11, <3>2, <4>2, <4>4, <4>5
        <4> QED BY <4>3, <4>4, <4>6, <4>o
      <3> QED BY <3>1, <3>2
    <2>14. Partly(d, n)
      BY <2>8, <2>9, <2>10, <2>12, <2>13 DEF Partly
    <2> QED BY <1>d, <1>u, <2>14 DEF Recovering
  <1> QED BY <1>9, <1>10

(* The snapshot, one order id after the other. *)
LEMMA SnapshotSteps ==
    \E D, sent :
      /\ sent \in [0 .. MaxOrders -> Seq(D)] /\ sent[0] = <<ClearUpdate>>
      /\ \A n \in 1 .. MaxOrders :
           sent[n] = IF n \in Live THEN Append(sent[n - 1], AddUpdate(n)) ELSE sent[n - 1]
      /\ Snapshot = sent[MaxOrders]
  <1>m. PICK N \in Nat : N = MaxOrders
    BY BoundAssumption
  <1>l. PICK live : live = Live
    OBVIOUS
  <1>c. PICK clear : clear = ClearUpdate
    OBVIOUS
  <1>a. PICK add : add = [n \in 1 .. N |-> AddUpdate(n)]
    OBVIOUS
  <1>d. PICK D : D = {clear} \cup {add[n] : n \in 1 .. N}
    OBVIOUS
  <1>g. PICK G : G = [n \in 1 .. N |-> [s \in Seq(D) |->
                        IF n \in live THEN Append(s, add[n]) ELSE s]]
    OBVIOUS
  <1> DEFINE F(f) == [n \in 0 .. MaxOrders |->
                        IF n = 0 THEN <<ClearUpdate>>
                        ELSE IF n \in Live THEN Append(f[n - 1], AddUpdate(n)) ELSE f[n - 1]]
  <1>1. <<clear>> \in Seq(D) /\ \A n \in 1 .. N : add[n] \in D
    BY <1>d
  <1>2. G \in [1 .. N -> [Seq(D) -> Seq(D)]]
    <2>1. ASSUME NEW n \in 1 .. N
          PROVE  [s \in Seq(D) |-> IF n \in live THEN Append(s, add[n]) ELSE s]
                   \in [Seq(D) -> Seq(D)]
      <3>1. add[n] \in D
        BY <1>1
      <3>2. \A s \in Seq(D) : Append(s, add[n]) \in Seq(D)
        BY <3>1
      <3> QED BY <3>2
    <2> QED BY <1>g, <2>1
  <1>3. PICK f : Follows(f, N, Seq(D), <<clear>>, G)
    <2>1. \E f : Follows(f, N, Seq(D), <<clear>>, G)
      BY <1>1, <1>2, StepByStep, Zenon
    <2> QED BY <2>1
  <1>4. /\ f \in [0 .. N -> Seq(D)] /\ f[0] = <<clear>>
        /\ \A n \in 1 .. N : f[n] = G[n][f[n - 1]]
    BY <1>3 DEF Follows
  <1>5. \A n \in 1 .. N : f[n] = IF n \in Live THEN Append(f[n - 1], AddUpdate(n)) ELSE f[n - 1]
    <2> TAKE n \in 1 .. N
    <2>1. n - 1 \in 0 .. N
      OBVIOUS
    <2>2. f[n - 1] \in Seq(D)
      BY <1>4, <2>1
    <2>3. G[n][f[n - 1]] = IF n \in live THEN Append(f[n - 1], add[n]) ELSE f[n - 1]
      BY <1>g, <2>2
    <2>4. add[n] = AddUpdate(n)
      BY <1>a
    <2> QED BY <1>4, <1>l, <2>3, <2>4
  <1>6. f = F(f)
    <2>1. \A n \in 0 .. N : n # 0 => n \in 1 .. N
      OBVIOUS
    <2>2. \A n \in 0 .. N : f[n] = F(f)[n]
      BY <1>c, <1>m, <1>4, <1>5, <2>1
    <2>3. f = [n \in 0 .. N |-> f[n]]
      BY <1>4
    <2> QED BY <1>m, <2>2, <2>3
  <1>7. PICK h : h = CHOOSE g : g = F(g)
    OBVIOUS
  <1>8. h = F(h)
    BY <1>6, <1>7
  <1>9. Snapshot = h[N]
    BY <1>m, <1>7 DEF Snapshot
  <1>10. /\ h[0] = <<ClearUpdate>>
         /\ \A n \in 1 .. N : h[n] = IF n \in Live THEN Append(h[n - 1], AddUpdate(n)) ELSE h[n - 1]
    <2>1. h[0] = <<ClearUpdate>>
      <3>1. 0 \in 0 .. MaxOrders
        BY <1>m
      <3> QED BY <1>8, <3>1, Zenon
    <2>2. ASSUME NEW n \in 1 .. N
          PROVE  h[n] = IF n \in Live THEN Append(h[n - 1], AddUpdate(n)) ELSE h[n - 1]
      <3>1. n \in 0 .. MaxOrders /\ n # 0
        BY <1>m
      <3> QED BY <1>8, <3>1, Zenon
    <2> QED BY <2>1, <2>2
  <1> DEFINE T == {n \in 0 .. N : h[n] = f[n]}
  <1>11. 0 \in T
    <2>1. 0 \in 0 .. N
      OBVIOUS
    <2>2. h[0] = f[0]
      BY <1>c, <1>4, <1>10, Zenon
    <2> QED BY <2>1, <2>2
  <1>12. ASSUME NEW n \in 1 .. N, n - 1 \in T PROVE n \in T
    BY <1>5, <1>10, <1>12
  <1> HIDE DEF T
  <1>13. 0 .. N \subseteq T
    BY <1>11, <1>12, UpTo
  <1>14. N \in T
    BY <1>13
  <1>15. h[N] = f[N]
    BY <1>14 DEF T
  <1> QED BY <1>c, <1>m, <1>4, <1>5, <1>9, <1>15

(* A recovery ends with the exchange's book, or on a level of which only    *)
(* the table's stale pointer is left; never on an order that is not known.  *)
LEMMA RecoveryIsComplete ==
    ASSUME BookInv, NEW b, IsBook(b), b.fault = "none", NEW d, d = ApplyAll(b, Snapshot)
    PROVE  \/ d.fault = "deallocated level"
           \/ d.fault = "none" /\ IsBook(d) /\ Same(d)
  <1>m. PICK N \in Nat : N = MaxOrders
    BY BoundAssumption
  <1>0. TypeOK /\ LevelLists /\ PriceMapping /\ TimePriority /\ MarketOrderIds = 1 .. N
    BY <1>m DEF BookInv, Structure, MarketOrderIds
  <1>1. PICK D, sent :
          /\ sent \in [0 .. N -> Seq(D)] /\ sent[0] = <<ClearUpdate>>
          /\ \A n \in 1 .. N :
               sent[n] = IF n \in Live THEN Append(sent[n - 1], AddUpdate(n)) ELSE sent[n - 1]
          /\ Snapshot = sent[N]
    BY <1>m, SnapshotSteps
  <1> DEFINE T == {n \in 0 .. N : Recovering(ApplyAll(b, sent[n]), n)}
  <1>2. 0 \in T
    <2>1. ApplyAll(b, <<ClearUpdate>>) = onMarketUpdate(b, ClearUpdate)
      BY ApplyOne
    <2>2. Recovering(onMarketUpdate(b, ClearUpdate), 0)
      BY ClearStarts
    <2>3. ApplyAll(b, sent[0]) = onMarketUpdate(b, ClearUpdate)
      BY <1>1, <2>1
    <2>4. Recovering(ApplyAll(b, sent[0]), 0)
      BY <2>2, <2>3
    <2>5. 0 \in 0 .. N
      OBVIOUS
    <2> QED BY <2>4, <2>5
  <1>3. ASSUME NEW n \in 1 .. N, n - 1 \in T PROVE n \in T
    <2>c. PICK c : c = ApplyAll(b, sent[n - 1])
      OBVIOUS
    <2>1. Recovering(c, n - 1)
      BY <1>3, <2>c
    <2>2. n \in 0 .. N /\ n - 1 \in 0 .. N
      OBVIOUS
    <2>s. PICK us \in Seq(D) : us = sent[n - 1]
      BY <1>1, <2>2
    <2>3. ASSUME n \in Live PROVE Recovering(ApplyAll(b, sent[n]), n)
      <3>1. ApplyAll(b, Append(us, AddUpdate(n))) = onMarketUpdate(ApplyAll(b, us), AddUpdate(n))
        BY ApplyLast
      <3>2. ApplyAll(b, sent[n]) = onMarketUpdate(c, AddUpdate(n))
        BY <1>1, <2>3, <2>c, <2>s, <3>1
      <3>3. CASE c.fault = "deallocated level"
        <4>1. onMarketUpdate(c, AddUpdate(n)) = c
          BY <3>3 DEF onMarketUpdate
        <4> QED BY <3>2, <3>3, <4>1 DEF Recovering
      <3>4. CASE Partly(c, n - 1)
        BY <1>0, <2>3, <3>2, <3>4, AddGoesOn
      <3> QED BY <2>1, <3>3, <3>4 DEF Recovering
    <2>4. ASSUME n \notin Live PROVE Recovering(ApplyAll(b, sent[n]), n)
      <3>1. ApplyAll(b, sent[n]) = c
        BY <1>1, <2>4, <2>c
      <3>2. ASSUME Partly(c, n - 1) PROVE Partly(c, n)
        <4>1. \A i \in MarketOrderIds : i # n => (i <= n - 1 <=> i <= n)
          BY <1>0
        <4>2. \A i \in Live : i <= n - 1 <=> i <= n
          BY <2>4, <4>1 DEF Live
        <4>3. ASSUME NEW i \in MarketOrderIds
              PROVE  c.oid_to_order_[i] = IF i <= n THEN View(order_pool_[i]) ELSE NULL
          <5>1. CASE i = n
            <6>1. order_pool_[n] = NULL /\ ~(n <= n - 1)
              BY <1>0, <2>4 DEF Live
            <6>2. View(order_pool_[n]) = NULL
              BY <6>1 DEF View
            <6> QED BY <3>2, <5>1, <6>1, <6>2 DEF Partly
          <5>2. CASE i # n
            BY <3>2, <4>1, <5>2 DEF Partly
          <5> QED BY <5>1, <5>2
        <4>4. ASSUME NEW s \in Sides, NEW x \in by_price[s], NEW i \in OrdersOf(x)
              PROVE  i <= n - 1 <=> i <= n
          <5>1. i \in Live
            BY LevelOrders
          <5> QED BY <4>2, <5>1
        <4>5. ASSUME NEW s \in Sides
              PROVE  c.by_price[s] = {x \in by_price[s] : \E i \in OrdersOf(x) : i <= n}
          <5>1. c.by_price[s] = {x \in by_price[s] : \E i \in OrdersOf(x) : i <= n - 1}
            BY <3>2 DEF Partly
          <5> QED BY <4>4, <5>1
        <4>6. ASSUME NEW s \in Sides, NEW x \in c.by_price[s]
              PROVE  \E m \in 1 .. Len(price_orders_at_price_[x].orders) :
                       /\ \A k \in 1 .. Len(price_orders_at_price_[x].orders) :
                            price_orders_at_price_[x].orders[k] <= n <=> k <= m
                       /\ c.price_orders_at_price_[x] =
                            [price_orders_at_price_[x] EXCEPT
                               !.orders = Beginning(price_orders_at_price_[x].orders, m)]
          <5>o. PICK orders : orders = price_orders_at_price_[x].orders
            OBVIOUS
          <5>1. PICK m \in 1 .. Len(orders) :
                  /\ \A k \in 1 .. Len(orders) : orders[k] <= n - 1 <=> k <= m
                  /\ c.price_orders_at_price_[x] =
                       [price_orders_at_price_[x] EXCEPT !.orders = Beginning(orders, m)]
            BY <3>2, <5>o DEF Partly
          <5>2. x \in by_price[s]
            BY <3>2 DEF Partly
          <5>3. \A k \in 1 .. Len(orders) : orders[k] \in OrdersOf(x)
            BY <5>o DEF OrdersOf
          <5>4. \A k \in 1 .. Len(orders) : orders[k] <= n <=> k <= m
            BY <4>4, <5>1, <5>2, <5>3
          <5> QED BY <5>1, <5>4, <5>o
        <4> QED BY <3>2, <4>3, <4>5, <4>6 DEF Partly
      <3> QED BY <2>1, <3>1, <3>2 DEF Recovering
    <2> QED BY <2>2, <2>3, <2>4
  <1> HIDE DEF T
  <1>4. 0 .. N \subseteq T
    BY <1>2, <1>3, UpTo
  <1>5. N \in T
    BY <1>4
  <1>6. Recovering(d, N)
    BY <1>1, <1>5 DEF T
  <1>7. ASSUME Partly(d, N) PROVE d.fault = "none" /\ IsBook(d) /\ Same(d)
    <2>1. IsBook(d) /\ d.fault = "none"
      BY <1>7 DEF Partly
    <2>2. \A i \in MarketOrderIds : i <= N
      BY <1>0
    <2>3. d.oid_to_order_ = [i \in MarketOrderIds |-> View(order_pool_[i])]
      <3>1. \A i \in MarketOrderIds : d.oid_to_order_[i] = View(order_pool_[i])
        BY <1>7, <2>2 DEF Partly
      <3> QED BY <2>1, <3>1 DEF IsBook
    <2>4. ASSUME NEW s \in Sides, NEW x \in by_price[s]
          PROVE  /\ price_orders_at_price_[x].orders \in Seq(MarketOrderIds)
                 /\ Len(price_orders_at_price_[x].orders) > 0
                 /\ price_orders_at_price_[x] \in MEOrdersAtPrice
      <3>1. x \in Levels
        BY <1>0 DEF LevelLists
      <3> QED BY <1>0, <3>1, LevelFacts
    <2>5. ASSUME NEW s \in Sides PROVE d.by_price[s] = by_price[s]
      <3>1. d.by_price[s] = {x \in by_price[s] : \E i \in OrdersOf(x) : i <= N}
        BY <1>7 DEF Partly
      <3>2. ASSUME NEW x \in by_price[s] PROVE \E i \in OrdersOf(x) : i <= N
        <4>o. PICK orders \in Seq(MarketOrderIds) : orders = price_orders_at_price_[x].orders
                                                   /\ Len(orders) > 0
          BY <2>4
        <4>1. 1 \in 1 .. Len(orders) /\ orders[1] \in MarketOrderIds
          BY <4>o
        <4>2. orders[1] \in OrdersOf(x)
          BY <4>o, <4>1 DEF OrdersOf
        <4> QED BY <2>2, <4>1, <4>2
      <3> QED BY <3>1, <3>2
    <2>6. d.by_price = by_price
      <3>1. d.by_price \in [Sides -> SUBSET Indices] /\ by_price \in [Sides -> SUBSET Indices]
        BY <1>0, <2>1 DEF IsBook, TypeOK
      <3> QED BY <2>5, <3>1
    <2>7. ASSUME NEW s \in Sides, NEW x \in by_price[s]
          PROVE  d.price_orders_at_price_[x] = price_orders_at_price_[x]
      <3>l. PICK level \in MEOrdersAtPrice : level = price_orders_at_price_[x]
        BY <2>4
      <3>o. PICK orders \in Seq(MarketOrderIds) : orders = level.orders /\ Len(orders) > 0
        BY <2>4, <3>l
      <3>1. x \in d.by_price[s]
        BY <2>5
      <3>2. PICK m \in 1 .. Len(orders) :
              /\ \A k \in 1 .. Len(orders) : orders[k] <= N <=> k <= m
              /\ d.price_orders_at_price_[x] = [level EXCEPT !.orders = Beginning(orders, m)]
        BY <1>7, <3>1, <3>l, <3>o DEF Partly
      <3>3. m = Len(orders)
        <4>1. Len(orders) \in 1 .. Len(orders) /\ orders[Len(orders)] \in MarketOrderIds
          BY <3>o
        <4>2. Len(orders) <= m
          BY <2>2, <3>2, <4>1
        <4> QED BY <4>1, <4>2
      <3>4. Beginning(orders, m) = orders
        BY <3>3 DEF Beginning
      <3>5. [level EXCEPT !.orders = orders] = level
        BY <3>o DEF MEOrdersAtPrice
      <3> QED BY <3>2, <3>4, <3>5, <3>l
    <2> QED BY <2>1, <2>3, <2>6, <2>7 DEF Same
  <1> QED BY <1>6, <1>7 DEF Recovering

-----------------------------------------------------------------------------
(* The client's book is the exchange's whenever its feed is live; until the *)
(* first loss its table of levels is, too, and its BBO is right.  The table *)
(* is what makes the rest inductive: with it no ADD meets a level that only *)
(* the table still has.                                                     *)
ClientInv ==
    /\ IInv
    /\ book.fault # "null"
    /\ book.fault = "none" => IsBook(book)
    /\ Sound => Same(book)
    /\ losses \in Nat
    /\ losses = 0 => /\ feed = "live" /\ book.fault = "none"
                     /\ Full(book) /\ BBORight(book)

LEMMA InitClientInv == ClientInit => ClientInv
  <1> SUFFICES ASSUME ClientInit PROVE ClientInv
    OBVIOUS
  <1>1. Init /\ IInv
    BY InitIInv DEF ClientInit
  <1>2. book = Empty /\ feed = "live" /\ losses = 0
    BY DEF ClientInit
  <1>3. IsBook(book) /\ book.fault = "none"
    BY <1>2 DEF IsBook, BookOf, Empty
  <1>4. Same(book)
    <2>1. \A i \in MarketOrderIds : View(order_pool_[i]) = NULL
      BY <1>1 DEF Init, View
    <2>2. book.oid_to_order_ = [i \in MarketOrderIds |-> View(order_pool_[i])]
      BY <1>2, <2>1 DEF Empty
    <2>3. book.by_price = by_price /\ \A s \in Sides : by_price[s] = {}
      BY <1>1, <1>2 DEF Empty, Init
    <2> QED BY <2>2, <2>3 DEF Same
  <1>5. Full(book)
    BY <1>1, <1>2 DEF Full, Empty, Init
  <1>6. BBORight(book)
    BY <1>2 DEF BBORight, Empty
  <1> QED BY <1>1, <1>2, <1>3, <1>4, <1>5, <1>6 DEF ClientInv

LEMMA DeliverKeepsInv ==
    ASSUME NoAliasing, ~TailSends, ClientInv, Deliver
    PROVE  ClientInv'
  <1>d. PICK d : d = book'
    OBVIOUS
  <1>b. PICK b : b = book
    OBVIOUS
  <1>0. /\ IInv /\ BookInv /\ MapLive /\ Next /\ b.fault = "none" /\ IsBook(b) /\ Same(b)
        /\ losses \in Nat /\ (losses = 0 => Full(b) /\ BBORight(b))
        /\ losses' = losses /\ feed = "live" /\ feed' = "live"
        /\ d = ApplyAll(b, updates')
    BY <1>b, <1>d DEF Deliver, ClientInv, IInv, Sound
  <1>1. IInv'
    <2>1. [Next]_vars
      BY <1>0
    <2> QED BY <1>0, <2>1, NextKeepsIInv
  <1>2. BookInv'
    BY <1>1 DEF IInv
  <1>3. /\ d.fault # "null"
        /\ d.fault = "none" => /\ IsBook(d) /\ Same(d)'
                               /\ BBORight(b) => BBORight(d)
        /\ Full(b) => d.fault = "none" /\ Full(d)'
    <2>1. CASE updates' = <<>> /\ TablesStay
      <3>1. d = b
        BY <1>0, <2>1, ApplyNone
      <3>2. Same(d)' /\ (Full(b) => Full(d)')
        BY <1>0, <2>1, <3>1 DEF TablesStay, Same, Full
      <3> QED BY <1>0, <3>1, <3>2
    <2>2. ASSUME NEW u, updates' = <<u>>, Explained(u)
          PROVE  d = onMarketUpdate(b, u)
      BY <1>0, <2>2, ApplyOne
    <2>3. ASSUME NEW t, NEW u, updates' = <<t, u>>, Traded(t), Explained(u)
          PROVE  d = onMarketUpdate(b, u)
      <3>1. onMarketUpdate(b, t) = b
        BY <2>3 DEF onMarketUpdate, Traded
      <3> QED BY <1>0, <2>3, <3>1, ApplyTwo
    <2>4. ASSUME NEW u, Explained(u), d = onMarketUpdate(b, u)
          PROVE  /\ d.fault # "null"
                 /\ d.fault = "none" => /\ IsBook(d) /\ Same(d)'
                                        /\ BBORight(b) => BBORight(d)
                 /\ Full(b) => d.fault = "none" /\ Full(d)'
      BY <1>0, <1>2, <2>4, UpdateKeeps
    <2>5. Messages(updates')
      BY <1>0, StepIsExplained
    <2> QED BY <2>1, <2>2, <2>3, <2>4, <2>5 DEF Messages
  <1>4. Same(d)' => Same(book)'
    BY <1>d DEF Same
  <1>5. Full(d)' => Full(book)'
    BY <1>d DEF Full
  <1>6. (IsBook(d) => IsBook(book)') /\ (BBORight(d) => BBORight(book)')
    BY <1>d
  <1> QED BY <1>0, <1>1, <1>3, <1>4, <1>5, <1>6, <1>d DEF ClientInv, Sound

LEMMA ClientNextKeepsInv ==
    ASSUME NoAliasing, ~TailSends, ClientInv, [ClientNext]_clientVars
    PROVE  ClientInv'
  <1>1. CASE Deliver
    BY <1>1, DeliverKeepsInv
  <1>2. CASE Miss
    <2>1. IInv /\ [Next]_vars
      BY <1>2 DEF Miss, ClientInv
    <2>2. IInv'
      BY <2>1, NextKeepsIInv
    <2>3. book' = book /\ book.fault = "none" /\ feed' = "recovering"
      BY <1>2 DEF Miss
    <2>4. losses' \in Nat /\ losses' # 0
      BY <1>2 DEF Miss, ClientInv
    <2>5. book'.fault # "null" /\ (book'.fault = "none" => IsBook(book)')
      BY <2>3 DEF ClientInv
    <2> QED BY <2>2, <2>3, <2>4, <2>5 DEF ClientInv, Sound
  <1>3. CASE Recover
    <2>b. PICK b : b = book
      OBVIOUS
    <2>d. PICK d : d = book'
      OBVIOUS
    <2>1. /\ BookInv /\ IsBook(b) /\ b.fault = "none" /\ d = ApplyAll(b, Snapshot)
          /\ losses' = losses /\ losses \in Nat /\ losses # 0 /\ UNCHANGED vars
      BY <1>3, <2>b, <2>d DEF Recover, ClientInv, IInv
    <2>2. \/ d.fault = "deallocated level"
          \/ d.fault = "none" /\ IsBook(d) /\ Same(d)
      BY <2>1, RecoveryIsComplete
    <2>3. IInv'
      <3>1. IInv /\ [Next]_vars
        BY <2>1 DEF ClientInv
      <3> QED BY <3>1, NextKeepsIInv
    <2>4. Same(d) => Same(book)'
      BY <2>1, <2>d DEF Same, vars, bookVars
    <2> QED BY <2>1, <2>2, <2>3, <2>4, <2>d DEF ClientInv, Sound
  <1>4. CASE UNCHANGED clientVars
    <2>1. IInv /\ [Next]_vars
      BY <1>4 DEF ClientInv, clientVars
    <2>2. IInv'
      BY <2>1, NextKeepsIInv
    <2>3. book' = book /\ feed' = feed /\ losses' = losses
      BY <1>4 DEF clientVars
    <2>4. (Same(book) => Same(book)') /\ (Full(book) => Full(book)')
      BY <1>4 DEF clientVars, vars, bookVars, Same, Full
    <2> QED BY <2>2, <2>3, <2>4 DEF ClientInv, Sound
  <1> QED BY <1>1, <1>2, <1>3, <1>4 DEF ClientNext

-----------------------------------------------------------------------------
(* What the strategies make of it.                                          *)
EngineOf(b, f, q, t) == [book |-> b, features |-> f, quote |-> q, take |-> t]

LEMMA OnBook ==
    ASSUME NEW b, NEW f, NEW q, NEW t, NEW u, u.type # "TRADE",
           NEW d, d = onMarketUpdate(b, u), d.fault = "none"
    PROVE  process(EngineOf(b, f, q, t), u) =
             IF ~BothValid(d) THEN EngineOf(d, f, q, t)
             ELSE EngineOf(d, [f EXCEPT !.mkt_price_ = mktPrice(d)],
                           makerQuote(d, mktPrice(d)), t)
  <1>e. PICK e : e = EngineOf(d, f, q, t)
    OBVIOUS
  <1>1. [EngineOf(b, f, q, t) EXCEPT !.book = onMarketUpdate(@, u)] = e
    BY <1>e DEF EngineOf
  <1>2. e.book = d /\ e.features = f /\ e.quote = q /\ e.take = t
    BY <1>e DEF EngineOf
  <1>3. process(EngineOf(b, f, q, t), u) = onOrderBookUpdate(e)
    BY <1>1, <1>2 DEF process
  <1>4. CASE ~BothValid(d)
    BY <1>e, <1>2, <1>3, <1>4 DEF onOrderBookUpdate
  <1>5. CASE BothValid(d)
    <2>p. PICK fair : fair = mktPrice(d)
      OBVIOUS
    <2>q. PICK moved : moved = makerQuote(d, fair)
      OBVIOUS
    <2>1. onOrderBookUpdate(e) = [e EXCEPT !.features.mkt_price_ = fair, !.quote = moved]
      BY <1>2, <1>5, <2>p, <2>q DEF onOrderBookUpdate
    <2>2. [e EXCEPT !.features.mkt_price_ = fair, !.quote = moved]
            = EngineOf(d, [f EXCEPT !.mkt_price_ = fair], moved, t)
      <3>g. PICK g : g = [f EXCEPT !.mkt_price_ = fair]
        OBVIOUS
      <3>1. [e EXCEPT !.features.mkt_price_ = fair, !.quote = moved]
              = [e EXCEPT !.features = g, !.quote = moved]
        BY <1>2, <3>g
      <3>2. [e EXCEPT !.features = g, !.quote = moved] = EngineOf(d, g, moved, t)
        <4>1. PICK next : next = [e EXCEPT !.features = g]
          OBVIOUS
        <4>2. next = EngineOf(d, g, q, t)
          BY <1>e, <4>1 DEF EngineOf
        <4>3. [next EXCEPT !.quote = moved] = EngineOf(d, g, moved, t)
          BY <4>2 DEF EngineOf
        <4> QED BY <4>1, <4>3
      <3> QED BY <3>g, <3>1, <3>2
    <2> QED BY <1>3, <1>5, <2>p, <2>q, <2>1, <2>2
  <1> QED BY <1>4, <1>5

LEMMA OnTrade ==
    ASSUME NEW b, NEW f, NEW q, NEW t, NEW u, u.type = "TRADE", b.fault = "none"
    PROVE  \E taken : process(EngineOf(b, f, q, t), u) =
             IF ~BothValid(b) THEN EngineOf(b, f, q, t)
             ELSE EngineOf(b, [f EXCEPT !.agg_trade_qty_ratio_ = aggTradeQtyRatio(b, u)],
                           q, taken)
  <1>e. PICK e : e = EngineOf(b, f, q, t)
    OBVIOUS
  <1>0. onMarketUpdate(b, u) = b
    BY DEF onMarketUpdate
  <1>1. [e EXCEPT !.book = onMarketUpdate(@, u)] = e
    BY <1>e, <1>0 DEF EngineOf
  <1>2. e.book = b /\ e.features = f /\ e.quote = q /\ e.take = t
    BY <1>e DEF EngineOf
  <1>3. process(e, u) = onTradeUpdate(e, u)
    BY <1>1, <1>2 DEF process
  <1>4. CASE ~BothValid(b)
    BY <1>e, <1>2, <1>3, <1>4 DEF onTradeUpdate
  <1>5. CASE BothValid(b)
    <2>r. PICK ratio : ratio = aggTradeQtyRatio(b, u)
      OBVIOUS
    <2>f. PICK g : g = [f EXCEPT !.agg_trade_qty_ratio_ = ratio]
      OBVIOUS
    <2>s. PICK seen : seen = [e EXCEPT !.features.agg_trade_qty_ratio_ = ratio]
      OBVIOUS
    <2>t. PICK taken : taken = takerOrder(seen, u)
      OBVIOUS
    <2>1. onTradeUpdate(e, u) = [seen EXCEPT !.take = taken]
      BY <1>2, <1>5, <2>r, <2>s, <2>t DEF onTradeUpdate
    <2>2. seen = EngineOf(b, g, q, t)
      BY <1>e, <2>f, <2>s DEF EngineOf
    <2>3. [seen EXCEPT !.take = taken] = EngineOf(b, g, q, taken)
      BY <2>2 DEF EngineOf
    <2> QED BY <1>e, <1>3, <1>5, <2>r, <2>f, <2>1, <2>3
  <1> QED BY <1>4, <1>5

(* The two sides of a right BBO are apart, and so are the maker's prices.   *)
QuotesApart ==
    BookInv => \A r : Same(r) /\ BBORight(r) /\ BothValid(r) =>
      \A fair : makerQuote(r, fair).bid < makerQuote(r, fair).ask

LEMMA MakerStaysOutside == QuotesApart /\ QuotesApart'
  <1>1. QuotesApart
    <2> SUFFICES ASSUME BookInv, NEW r, Same(r), BBORight(r), BothValid(r), NEW fair
                 PROVE  makerQuote(r, fair).bid < makerQuote(r, fair).ask
      BY DEF QuotesApart
    <2>0. TypeOK /\ LevelLists /\ TimePriority /\ NotCrossed
      BY DEF BookInv, Structure
    <2>1. ASSUME NEW s \in Sides, r.bbo_[s].price # NULL
          PROVE  \E i \in Live : order_pool_[i].side_ = s /\ order_pool_[i].price_ = r.bbo_[s].price
                                 /\ r.bbo_[s].price \in Prices
      <3>1. r.bbo_[s] = TopOf(r, s)
        BY <2>1 DEF BBORight
      <3>2. r.by_price[s] # {}
        BY <2>1, <3>1 DEF TopOf
      <3>3. WellFormed(r)
        BY SameIsWellFormed DEF SameAreWellFormed
      <3>4. PICK x : BestOf(r, s, x)
        BY <3>2, <3>3, TopExists
      <3>5. r.bbo_[s].price = PriceAt(r, x)
        BY <3>1, <3>3, <3>4, TopIs
      <3>6. x \in by_price[s] /\ PriceAt(r, x) = LevelPrice(x)
        BY <3>4 DEF BestOf, Same, PriceAt, LevelPrice
      <3>7. x \in Levels /\ price_orders_at_price_[x].side_ = s
        BY <2>0, <3>6 DEF LevelLists
      <3>8. 1 \in 1 .. Len(price_orders_at_price_[x].orders) /\ LevelPrice(x) \in Prices
        BY <2>0, <3>7, LevelFacts
      <3>9. FirstOrder(x) \in OrdersOf(x)
        BY <3>8 DEF FirstOrder, OrdersOf
      <3>10. FirstOrder(x) \in Live /\ order_pool_[FirstOrder(x)].price_ = LevelPrice(x)
             /\ order_pool_[FirstOrder(x)].side_ = s
        BY <2>0, <3>7, <3>9 DEF LevelLists
      <3> QED BY <3>5, <3>6, <3>8, <3>10
    <2>2. bid(r).price # NULL /\ ask(r).price # NULL
      BY DEF BothValid
    <2>3. PICK i \in Live : order_pool_[i].side_ = "BUY" /\ order_pool_[i].price_ = bid(r).price
                            /\ bid(r).price \in Prices
      BY <2>1, <2>2 DEF bid, Sides
    <2>4. PICK j \in Live : order_pool_[j].side_ = "SELL" /\ order_pool_[j].price_ = ask(r).price
                            /\ ask(r).price \in Prices
      BY <2>1, <2>2 DEF ask, Sides
    <2>5. bid(r).price < ask(r).price
      BY <2>0, <2>3, <2>4 DEF NotCrossed
    <2>6. bid(r).price \in Int /\ ask(r).price \in Int
      BY <2>3, <2>4, PricesAreNumbers
    <2>7. PICK p \in {0, 1} : makerQuote(r, fair).bid = bid(r).price - p
      <3>1. makerQuote(r, fair).bid = bid(r).price -
              (IF AtLeast(Fraction(fair.n - bid(r).price * fair.d, fair.d),
                          threshold_, Denominator) THEN 0 ELSE 1)
        BY DEF makerQuote
      <3>2. PICK far : far = AtLeast(Fraction(fair.n - bid(r).price * fair.d, fair.d),
                                     threshold_, Denominator)
        OBVIOUS
      <3>3. makerQuote(r, fair).bid = bid(r).price - (IF far THEN 0 ELSE 1)
        BY <3>1, <3>2
      <3> QED BY <3>3
    <2>8. PICK c \in {0, 1} : makerQuote(r, fair).ask = ask(r).price + c
      <3>1. makerQuote(r, fair).ask = ask(r).price +
              (IF AtLeast(Fraction(ask(r).price * fair.d - fair.n, fair.d),
                          threshold_, Denominator) THEN 0 ELSE 1)
        BY DEF makerQuote
      <3>2. PICK far : far = AtLeast(Fraction(ask(r).price * fair.d - fair.n, fair.d),
                                     threshold_, Denominator)
        OBVIOUS
      <3>3. makerQuote(r, fair).ask = ask(r).price + (IF far THEN 0 ELSE 1)
        BY <3>1, <3>2
      <3> QED BY <3>3
    <2> QED BY <2>5, <2>6, <2>7, <2>8
  <1> QED BY <1>1, PTL

(* A trade fits into what the client has at the top of the side it hits.    *)
LEMMA TradeFits ==
    ASSUME BookInv, NEW b, Same(b), BBORight(b), BothValid(b), NEW t, Traded(t)
    PROVE  aggTradeQtyRatio(b, t).n <= aggTradeQtyRatio(b, t).d
  <1>0. TypeOK /\ LevelLists /\ PriceMapping /\ TimePriority
    BY DEF BookInv, Structure
  <1>s. PICK s \in Sides : s = Opposite(t.side)
    BY DEF Traded, Opposite, Sides
  <1>x. PICK x \in Indices : IsBest(s, x) /\ t.qty <= order_pool_[FirstOrder(x)].qty_
    BY <1>s DEF Traded
  <1>1. aggTradeQtyRatio(b, t).n = t.qty /\ aggTradeQtyRatio(b, t).d = b.bbo_[s].qty
    BY <1>s DEF aggTradeQtyRatio, Fraction, Opposite, Traded, Sides, bid, ask
  <1>2. b.bbo_[s] = TopOf(b, s)
    BY DEF BBORight, BothValid, bid, ask, Sides
  <1>3. x \in by_price[s] /\ x \in Levels
    BY <1>0, <1>x DEF IsBest, LevelLists
  <1>4. \A y \in by_price[s] : PriceAt(b, y) = LevelPrice(y)
    BY DEF Same, PriceAt, LevelPrice
  <1>5. BestOf(b, s, x)
    BY <1>x, <1>3, <1>4 DEF BestOf, IsBest, Same
  <1>6. WellFormed(b)
    BY SameIsWellFormed DEF SameAreWellFormed
  <1>o. PICK orders \in Seq(MarketOrderIds) : orders = price_orders_at_price_[x].orders
                                              /\ Len(orders) > 0
    BY <1>0, <1>3, LevelFacts
  <1>7. b.price_orders_at_price_[x].orders = orders
    BY <1>3, <1>o DEF Same
  <1>q. PICK q : q = QtysOf(b, orders)
    OBVIOUS
  <1>8. b.bbo_[s].qty = Total(q)
    BY <1>2, <1>5, <1>6, <1>7, <1>q, TopIs
  <1>9. ASSUME NEW k \in 1 .. Len(orders)
        PROVE  q[k] = order_pool_[orders[k]].qty_ /\ q[k] \in Nat
    <2>1. orders[k] \in OrdersOf(x)
      BY <1>o DEF OrdersOf
    <2>2. orders[k] \in Live
      BY <1>0, <1>3, <2>1 DEF LevelLists
    <2>3. order_pool_[orders[k]] \in MEOrder /\ orders[k] \in MarketOrderIds
      BY <1>0, <2>2, OrderFacts
    <2>4. b.oid_to_order_[orders[k]] = View(order_pool_[orders[k]])
      BY <2>3 DEF Same
    <2>5. q[k] = b.oid_to_order_[orders[k]].qty_
      BY <1>q DEF QtysOf
    <2> QED BY <2>3, <2>4, <2>5, ViewIs DEF MEOrder
  <1>10. q \in Seq(Nat) /\ Len(q) > 0
    <2>1. q = [k \in 1 .. Len(orders) |-> q[k]] /\ Len(orders) \in Nat
      BY <1>q DEF QtysOf
    <2>2. q \in [1 .. Len(orders) -> Nat]
      BY <1>9, <2>1
    <2>3. q \in Seq(Nat)
      BY <2>1, <2>2
    <2>4. Len(q) = Len(orders)
      BY <2>1, <2>2
    <2> QED BY <1>o, <2>3, <2>4
  <1>11. Total(q) \in Nat /\ q[1] <= Total(q)
    BY <1>10, FirstIsPart
  <1>12. q[1] = order_pool_[FirstOrder(x)].qty_ /\ q[1] \in Nat
    <2>1. 1 \in 1 .. Len(orders) /\ FirstOrder(x) = orders[1]
      BY <1>o DEF FirstOrder
    <2> QED BY <1>9, <2>1
  <1>13. t.qty \in Nat
    BY DEF Traded
  <1> QED BY <1>1, <1>8, <1>11, <1>12, <1>13, <1>x

(* A record of the two features; a ratio of at most 1, or a NaN; prices of  *)
(* the market maker that do not cross.                                      *)
IsFeatures(f) == /\ DOMAIN f = {"mkt_price_", "agg_trade_qty_ratio_"}
                 /\ f = [x \in DOMAIN f |-> f[x]]
Fits(f) == f.agg_trade_qty_ratio_.d # 0 =>
             f.agg_trade_qty_ratio_.n <= f.agg_trade_qty_ratio_.d
Apart(q) == q # NoQuote => q.bid < q.ask

(* What holds of the strategies until the feed is lost. *)
TradeInv ==
    /\ ClientInv
    /\ losses = 0 => IsFeatures(features) /\ Fits(features) /\ Apart(quote)

LEMMA InitTradeInv == TradeInit => TradeInv
  <1> SUFFICES ASSUME TradeInit PROVE TradeInv
    OBVIOUS
  <1>1. ClientInv
    BY InitClientInv DEF TradeInit
  <1>2. features = [mkt_price_ |-> Feature_INVALID, agg_trade_qty_ratio_ |-> Feature_INVALID]
        /\ quote = NoQuote
    BY DEF TradeInit
  <1>3. features.agg_trade_qty_ratio_.d = 0
    BY <1>2 DEF Feature_INVALID, Fraction
  <1>4. DOMAIN features = {"mkt_price_", "agg_trade_qty_ratio_"}
        /\ features = [f \in DOMAIN features |-> features[f]]
    BY <1>2
  <1> QED BY <1>1, <1>2, <1>3, <1>4 DEF TradeInv, IsFeatures, Fits, Apart

LEMMA FeatureChanges ==
    ASSUME NEW f, IsFeatures(f), NEW v
    PROVE  /\ IsFeatures([f EXCEPT !.mkt_price_ = v])
           /\ [f EXCEPT !.mkt_price_ = v].agg_trade_qty_ratio_ = f.agg_trade_qty_ratio_
           /\ IsFeatures([f EXCEPT !.agg_trade_qty_ratio_ = v])
           /\ [f EXCEPT !.agg_trade_qty_ratio_ = v].agg_trade_qty_ratio_ = v
  <1>1. DOMAIN f = {"mkt_price_", "agg_trade_qty_ratio_"}
    BY DEF IsFeatures
  <1>2. /\ IsFeatures([f EXCEPT !.mkt_price_ = v])
        /\ [f EXCEPT !.mkt_price_ = v].agg_trade_qty_ratio_ = f.agg_trade_qty_ratio_
    BY <1>1 DEF IsFeatures
  <1>3. /\ IsFeatures([f EXCEPT !.agg_trade_qty_ratio_ = v])
        /\ [f EXCEPT !.agg_trade_qty_ratio_ = v].agg_trade_qty_ratio_ = v
    BY <1>1 DEF IsFeatures
  <1> QED BY <1>2, <1>3

LEMMA OnUpdatesKeepsInv ==
    ASSUME NoAliasing, ~TailSends, TradeInv, OnUpdates
    PROVE  TradeInv'
  <1>b. PICK b : b = book
    OBVIOUS
  <1>d. PICK d : d = book'
    OBVIOUS
  <1>f. PICK f : f = features
    OBVIOUS
  <1>q. PICK q : q = quote
    OBVIOUS
  <1>t. PICK t : t = take
    OBVIOUS
  <1>1. ClientInv /\ ClientInv'
    BY DeliverKeepsInv DEF TradeInv, OnUpdates
  <1>l. losses' = losses
    BY DEF OnUpdates, Deliver
  <1> SUFFICES ASSUME losses = 0
               PROVE  IsFeatures(features') /\ Fits(features') /\ Apart(quote')
    BY <1>1, <1>l DEF TradeInv
  <1>2. /\ BookInv /\ MapLive /\ Next /\ Same(b) /\ BBORight(b) /\ b.fault = "none"
        /\ IsFeatures(f) /\ Fits(f) /\ Apart(q) /\ d = ApplyAll(b, updates')
    BY <1>b, <1>d, <1>f, <1>q
       DEF OnUpdates, Deliver, TradeInv, ClientInv, IInv, Sound
  <1>3. BookInv' /\ BBORight(d) /\ d.fault = "none"
    BY <1>1, <1>d, <1>l DEF ClientInv, IInv
  <1>4. Same(d)'
    <2>1. Same(book)'
      BY <1>1, <1>l DEF ClientInv, Sound
    <2> QED BY <1>d, <2>1 DEF Same
  <1>e. PICK e : e = EngineOf(b, f, q, t)
    OBVIOUS
  <1>5. features' = ProcessAll(e, updates').features /\ quote' = ProcessAll(e, updates').quote
    BY <1>b, <1>f, <1>q, <1>t, <1>e DEF OnUpdates, Handle, Engine, EngineOf
  <1>6. ASSUME NEW g, IsFeatures(g), Fits(g), NEW taken, NEW u, u.type # "TRADE",
               d = onMarketUpdate(b, u), NEW after, after = process(EngineOf(b, g, q, taken), u)
        PROVE  IsFeatures(after.features) /\ Fits(after.features) /\ Apart(after.quote)
    <2>1. after = IF ~BothValid(d) THEN EngineOf(d, g, q, taken)
                  ELSE EngineOf(d, [g EXCEPT !.mkt_price_ = mktPrice(d)],
                                makerQuote(d, mktPrice(d)), taken)
      BY <1>3, <1>6, OnBook
    <2>2. CASE ~BothValid(d)
      <3>1. after.features = g /\ after.quote = q
        BY <2>1, <2>2 DEF EngineOf
      <3> QED BY <1>2, <1>6, <3>1
    <2>3. CASE BothValid(d)
      <3>1. after.features = [g EXCEPT !.mkt_price_ = mktPrice(d)]
            /\ after.quote = makerQuote(d, mktPrice(d))
        BY <2>1, <2>3 DEF EngineOf
      <3>2. IsFeatures(after.features) /\ Fits(after.features)
        <4>g. PICK new : new = after.features
          OBVIOUS
        <4>p. PICK fair : fair = mktPrice(d)
          OBVIOUS
        <4>1. new = [g EXCEPT !.mkt_price_ = fair]
          BY <3>1, <4>g, <4>p
        <4>2. IsFeatures(new) /\ new.agg_trade_qty_ratio_ = g.agg_trade_qty_ratio_
          BY <1>6, <4>1, FeatureChanges
        <4>3. Fits(new)
          BY <1>6, <4>2 DEF Fits
        <4> QED BY <4>2, <4>3, <4>g
      <3>3. QuotesApart'
        BY MakerStaysOutside
      <3>4. makerQuote(d, mktPrice(d)).bid < makerQuote(d, mktPrice(d)).ask
        BY <1>3, <1>4, <2>3, <3>3 DEF QuotesApart
      <3> QED BY <3>1, <3>2, <3>4 DEF Apart
    <2> QED BY <2>2, <2>3
  <1>7. CASE updates' = <<>>
    <2>1. features' = f /\ quote' = q
      BY <1>5, <1>7, <1>e, ProcessNone DEF EngineOf
    <2> QED BY <1>2, <2>1
  <1>8. ASSUME NEW u, updates' = <<u>>, Explained(u)
        PROVE  IsFeatures(features') /\ Fits(features') /\ Apart(quote')
    <2>1. u.type # "TRADE"
      BY <1>8 DEF Explained, Adds, Removes, Modifies, Update
    <2>2. d = onMarketUpdate(b, u)
      BY <1>2, <1>8, ApplyOne
    <2>3. ProcessAll(e, updates') = process(EngineOf(b, f, q, t), u)
      BY <1>8, <1>e, ProcessOne
    <2> QED BY <1>2, <1>5, <1>6, <2>1, <2>2, <2>3
  <1>9. ASSUME NEW tr, NEW u, updates' = <<tr, u>>, Traded(tr), Explained(u)
        PROVE  IsFeatures(features') /\ Fits(features') /\ Apart(quote')
    <2>1. u.type # "TRADE" /\ tr.type = "TRADE"
      BY <1>9 DEF Explained, Adds, Removes, Modifies, Update, Traded
    <2>2. d = onMarketUpdate(b, u)
      <3>1. onMarketUpdate(b, tr) = b
        BY <2>1 DEF onMarketUpdate
      <3> QED BY <1>2, <1>9, <3>1, ApplyTwo
    <2>m. PICK between : between = process(EngineOf(b, f, q, t), tr)
      OBVIOUS
    <2>3. ProcessAll(e, updates') = process(between, u)
      BY <1>9, <1>e, <2>m, ProcessTwo
    <2>4. PICK taken : between =
             IF ~BothValid(b) THEN EngineOf(b, f, q, t)
             ELSE EngineOf(b, [f EXCEPT !.agg_trade_qty_ratio_ = aggTradeQtyRatio(b, tr)],
                           q, taken)
      BY <1>2, <2>1, <2>m, OnTrade
    <2>5. CASE ~BothValid(b)
      <3>1. between = EngineOf(b, f, q, t)
        BY <2>4, <2>5
      <3> QED BY <1>2, <1>5, <1>6, <2>1, <2>2, <2>3, <3>1
    <2>6. CASE BothValid(b)
      <3>g. PICK g : g = [f EXCEPT !.agg_trade_qty_ratio_ = aggTradeQtyRatio(b, tr)]
        OBVIOUS
      <3>1. between = EngineOf(b, g, q, taken)
        BY <2>4, <2>6, <3>g
      <3>2. IsFeatures(g) /\ g.agg_trade_qty_ratio_ = aggTradeQtyRatio(b, tr)
        BY <1>2, <3>g, FeatureChanges
      <3>3. aggTradeQtyRatio(b, tr).n <= aggTradeQtyRatio(b, tr).d
        BY <1>2, <1>9, <2>6, TradeFits
      <3>4. Fits(g)
        BY <3>2, <3>3 DEF Fits
      <3> QED BY <1>5, <1>6, <2>1, <2>2, <2>3, <3>1, <3>2, <3>4
    <2> QED BY <2>5, <2>6
  <1>10. Messages(updates')
    BY <1>2, StepIsExplained
  <1> QED BY <1>7, <1>8, <1>9, <1>10 DEF Messages

LEMMA TradeNextKeepsInv ==
    ASSUME NoAliasing, ~TailSends, TradeInv, [TradeNext]_engineVars
    PROVE  TradeInv'
  <1>1. CASE OnUpdates
    BY <1>1, OnUpdatesKeepsInv
  <1>2. CASE OnSnapshot
    <2>1. Recover
      BY <1>2 DEF OnSnapshot
    <2>2. ClientInv'
      BY <2>1, ClientNextKeepsInv DEF ClientNext, TradeInv
    <2>3. losses' # 0
      BY <2>1 DEF Recover, TradeInv, ClientInv
    <2> QED BY <2>2, <2>3 DEF TradeInv
  <1>3. CASE OnNothing
    <2>1. Miss
      BY <1>3 DEF OnNothing
    <2>2. ClientInv'
      BY <2>1, ClientNextKeepsInv DEF ClientNext, TradeInv
    <2>3. losses' # 0
      BY <2>1 DEF Miss, TradeInv, ClientInv
    <2> QED BY <2>2, <2>3 DEF TradeInv
  <1>4. CASE UNCHANGED engineVars
    <2>1. UNCHANGED clientVars /\ features' = features /\ quote' = quote
      BY <1>4 DEF engineVars
    <2>2. ClientInv'
      BY <2>1, ClientNextKeepsInv DEF TradeInv
    <2>3. losses' = losses
      BY <2>1 DEF clientVars
    <2> QED BY <2>1, <2>2, <2>3 DEF TradeInv
  <1> QED BY <1>1, <1>2, <1>3, <1>4 DEF TradeNext

(* The inductive invariant of exchange, feed and client together.           *)
THEOREM TradeInvariant == NoAliasing /\ ~TailSends => (TradeSpec => []TradeInv)
  <1> SUFFICES ASSUME NoAliasing, ~TailSends PROVE TradeSpec => []TradeInv
    OBVIOUS
  <1>1. TradeInv /\ [TradeNext]_engineVars => TradeInv'
    BY TradeNextKeepsInv
  <1> QED BY <1>1, InitTradeInv, PTL DEF TradeSpec

(* No MODIFY or CANCEL, live or of a snapshot, names an order the client's  *)
(* book does not have (market_order_book.cpp:34-41).                        *)
THEOREM OrdersAreAlwaysKnown ==
    NoAliasing /\ ~TailSends => (TradeSpec => []OrdersAreKnown)
  <1>1. TradeInv => OrdersAreKnown
    BY DEF TradeInv, ClientInv, OrdersAreKnown
  <1> QED BY <1>1, TradeInvariant, PTL

(* On a live feed the client's book is the exchange's, order for order and  *)
(* queue for queue, also after any number of losses and recoveries.         *)
THEOREM ClientHasExchangeBook ==
    NoAliasing /\ ~TailSends => (TradeSpec => []BookIsExchangeBook)
  <1>1. TradeInv => BookIsExchangeBook
    <2> SUFFICES ASSUME TradeInv, Sound
                 PROVE  /\ \A i \in MarketOrderIds :
                             IF i \in Live
                             THEN book.oid_to_order_[i] =
                                    [side_ |-> order_pool_[i].side_,
                                     price_ |-> order_pool_[i].price_,
                                     qty_ |-> order_pool_[i].qty_,
                                     priority_ |-> order_pool_[i].priority_]
                             ELSE book.oid_to_order_[i] = NULL
                        /\ book.by_price = by_price
                        /\ \A s \in Sides, x \in Indices :
                             x \in by_price[s] =>
                               book.price_orders_at_price_[x] = price_orders_at_price_[x]
      BY DEF BookIsExchangeBook
    <2>1. Same(book)
      BY DEF TradeInv, ClientInv
    <2>2. \A i \in MarketOrderIds : book.oid_to_order_[i] = View(order_pool_[i])
      BY <2>1 DEF Same
    <2> QED BY <2>1, <2>2 DEF Same, View, Live
  <1> QED BY <1>1, TradeInvariant, PTL

(* Until the feed is lost a side of the BBO is the top of the book with all *)
(* of its quantity, or unknown: onMarketUpdate recomputes it whenever it    *)
(* would otherwise be wrong (market_order_book.cpp:21-22, 78).              *)
THEOREM BBOIsNeverWrong ==
    NoAliasing /\ ~TailSends => (TradeSpec => []BBONeverWrong)
  <1>1. TradeInv => BBONeverWrong
    BY DEF TradeInv, ClientInv, BBONeverWrong, BBORight
  <1> QED BY <1>1, TradeInvariant, PTL

(* Until the feed is lost the market maker never asks for a bid at or above *)
(* its own ask, whatever the fair price and the threshold.                  *)
THEOREM MakerNeverCrosses ==
    NoAliasing /\ ~TailSends => (TradeSpec => []QuotesNeverCross)
  <1>1. TradeInv => QuotesNeverCross
    BY DEF TradeInv, Apart, QuotesNeverCross, NotCrossedWithItself
  <1> QED BY <1>1, TradeInvariant, PTL

(* Until the feed is lost no trade is larger than the quantity the client   *)
(* has at the top of the side it hit.                                       *)
THEOREM TradesFitTheirLevel ==
    NoAliasing /\ ~TailSends => (TradeSpec => []RatioAtMostOne)
  <1>1. TradeInv => RatioAtMostOne
    BY DEF TradeInv, Fits, RatioAtMostOne
  <1> QED BY <1>1, TradeInvariant, PTL
=============================================================================
