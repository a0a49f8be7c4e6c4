------------------------ MODULE PositionKeeperProofs ------------------------
(***************************************************************************)
(* What the profit of PositionInfo is worth, for any prices, quantities and *)
(* number of fills, any width of position_ the bound on the position leaves *)
(* room in, and whatever the memory of open_vwap_ held at first.            *)
(***************************************************************************)
EXTENDS PositionKeeper, TLAPS

-----------------------------------------------------------------------------
(* The unsigned arithmetic.                                                *)
LEMMA WordFacts == Half \in Nat \ {0} /\ Word \in Nat \ {0} /\ Word = Half + Half
  BY BoundAssumption DEF Word

LEMMA TimesWordLessOne == \A k, w \in Int : k * (w - 1) = k * w - k
  BY SMT

LEMMA ProductNatural == \A k, w \in Nat : k * w \in Nat
  BY SMT

(* No fill ever counts as one against the position (position_keeper.h:43): *)
(* lines 45 to 54 do not run.                                              *)
LEMMA EveryFillOpens == \A old \in Int, side \in Sides : Opens(old, side)
  <1> SUFFICES ASSUME NEW old \in Int, NEW side \in Sides PROVE Opens(old, side)
    OBVIOUS
  <1>1. PICK w \in Nat \ {0} : w = Word
    BY WordFacts
  <1>2. PICK v \in Int : v = sideToValue(side)
    BY <1>1 DEF sideToValue
  <1>3. PICK n \in Int : n = old * v
    BY SMT
  <1>4. n % w >= 0
    BY SMT
  <1> QED BY <1>1, <1>2, <1>3, <1>4 DEF Opens

LEMMA RemainderIs ==
    \A w \in Nat \ {0}, r \in Nat, k \in Int : r < w => (k * w + r) % w = r
  OBVIOUS

LEMMA CutIs ==
    ASSUME NEW n \in Int, -Half < n, n < Half, NEW k \in Int
    PROVE  int32_t(k * Word + n) = n
  <1>w. PICK w \in Nat \ {0} : w = Word /\ w = Half + Half
    BY WordFacts
  <1>1. CASE n >= 0
    <2>1. (k * w + n) % w = n
      BY <1>1, <1>w, RemainderIs, WordFacts
    <2> QED BY <1>w, <2>1 DEF int32_t
  <1>2. CASE n < 0
    <2>1. PICK r \in Nat : r = n + w /\ r < w /\ ~(r < Half)
      BY <1>2, <1>w, WordFacts
    <2>2. PICK j \in Int : j = k - 1
      OBVIOUS
    <2>3. (j * w + r) % w = r
      BY <2>1, RemainderIs
    <2>4. j * w + r = k * w + n
      <3>1. j * w = k * w - w
        BY <2>2
      <3>2. PICK a \in Int, b \in Int : a = j * w /\ b = k * w
        OBVIOUS
      <3> QED BY <2>1, <3>1, <3>2
    <2>5. int32_t(k * Word + n) = r - w
      BY <1>w, <2>1, <2>3, <2>4 DEF int32_t
    <2> QED BY <2>1, <2>5
  <1> QED BY <1>1, <1>2

(* A fill moves position_ by its quantity, up or down.                      *)
LEMMA PositionMoves ==
    ASSUME NEW p \in Int, NEW q \in Nat, NEW side \in Sides, NEW n,
           n = IF side = "BUY" THEN p + q ELSE p - q, Abs(n) <= MaxPosition
    PROVE  int32_t(p + q * sideToValue(side)) = n
  <1>1. n \in Int /\ -Half < n /\ n < Half
    BY BoundAssumption DEF Abs
  <1>2. PICK w \in Nat \ {0} : w = Word
    BY WordFacts
  <1>3. CASE side = "BUY"
    <2>1. p + q * sideToValue(side) = n
      BY <1>3 DEF sideToValue
    <2>2. int32_t(0 * Word + n) = n
      BY <1>1, CutIs
    <2>3. 0 * Word + n = n
      BY <1>1, <1>2
    <2> QED BY <2>1, <2>2, <2>3
  <1>4. CASE side # "BUY"
    <2>1. PICK t \in Int : t = q * w
      BY SMT
    <2>2. q * (w - 1) = t - q
      BY <2>1, TimesWordLessOne
    <2>3. p + q * sideToValue(side) = q * Word + n
      <3>1. sideToValue(side) = w - 1
        BY <1>2, <1>4 DEF sideToValue
      <3>2. n = p - q
        BY <1>4
      <3>3. p + (t - q) = t + n
        BY <2>1, <3>2
      <3> QED BY <1>2, <2>1, <2>2, <3>1, <3>3
    <2> QED BY <1>1, <2>3, CutIs
  <1> QED BY <1>3, <1>4

-----------------------------------------------------------------------------
(* position_ is what is held and nothing is realised; a side that had no    *)
(* fill since the position was last flat has no open price, and the two     *)
(* sides differ by the money; the profit is what one of them says.          *)
Types ==
    /\ info \in [position_ : Int, real_pnl_ : Int, unreal_pnl_ : Int, total_pnl_ : Int,
                 open_vwap_ : [Sides -> Int]]
    /\ held \in Int /\ cash \in Int /\ mark \in Int /\ sides \in SUBSET Sides /\ clean \in BOOLEAN

Follows == info.position_ = held /\ info.real_pnl_ = 0

Sided == /\ "BUY" \notin sides => held <= 0
         /\ "SELL" \notin sides => held >= 0
         /\ held = 0 => sides = {} /\ cash = 0

Worth(i, position, price) ==
    IF position = 0 THEN 0
    ELSE IF position > 0 THEN price * position - i.open_vwap_["BUY"]
                         ELSE i.open_vwap_["SELL"] + price * position

Open == \A s \in Sides : info.open_vwap_[s] >= 0 /\ (s \notin sides => info.open_vwap_[s] = 0)

Books == clean => /\ Open
                  /\ cash = info.open_vwap_["SELL"] - info.open_vwap_["BUY"]
                  /\ info.total_pnl_ = Worth(info, held, mark)

IInv == Types /\ Follows /\ Sided /\ Books

LEMMA BooksTell == IInv => ProfitSinceFlat
  <1> SUFFICES ASSUME IInv, clean PROVE /\ sides # Sides => info.total_pnl_ = Made
                                        /\ held >= 0 => info.total_pnl_ <= Made
                                        /\ held <= 0 => info.total_pnl_ >= Made
    BY DEF ProfitSinceFlat
  <1>1. PICK b \in Int, s \in Int : b = info.open_vwap_["BUY"] /\ s = info.open_vwap_["SELL"]
    BY DEF IInv, Types, Sides
  <1>2. /\ held \in Int /\ cash = s - b /\ b >= 0 /\ s >= 0
        /\ "BUY" \notin sides => b = 0 /\ held <= 0
        /\ "SELL" \notin sides => s = 0 /\ held >= 0
        /\ held = 0 => sides = {}
    BY <1>1 DEF IInv, Types, Sided, Books, Open, Sides
  <1>3. sides # Sides => "BUY" \notin sides \/ "SELL" \notin sides
    BY DEF IInv, Types, Sides
  <1>4. PICK m \in Int : m = mark * held /\ m = held * mark
    BY DEF IInv, Types
  <1>5. Made = s - b + m
    BY <1>2, <1>4 DEF Made
  <1>6. info.total_pnl_ = IF held = 0 THEN 0 ELSE IF held > 0 THEN m - b ELSE s + m
    BY <1>1, <1>4 DEF IInv, Books, Worth
  <1>7. held = 0 => m = 0 /\ s = 0 /\ b = 0
    BY <1>2, <1>4 DEF IInv, Types
  <1> QED BY <1>2, <1>3, <1>5, <1>6, <1>7

LEMMA InitInv == Init => IInv
  <1> SUFFICES ASSUME Init PROVE IInv
    OBVIOUS
  <1>1. PICK first \in [Sides -> FirstVwaps] :
          /\ info = [position_ |-> 0, real_pnl_ |-> 0, unreal_pnl_ |-> 0, total_pnl_ |-> 0,
                     open_vwap_ |-> first]
          /\ clean = (\A s \in Sides : first[s] = 0)
    BY DEF Init
  <1>2. held = 0 /\ cash = 0 /\ sides = {} /\ mark = 0 /\ first \in [Sides -> Int]
    BY <1>1, MemoryAssumption DEF Init
  <1>3. Types /\ Follows /\ Sided
    BY <1>1, <1>2 DEF Types, Follows, Sided
  <1>4. Books
    <2>1. info.open_vwap_ = first /\ info.total_pnl_ = 0
      BY <1>1
    <2>2. clean => \A s \in Sides : info.open_vwap_[s] = 0
      BY <1>1, <2>1
    <2> QED BY <1>2, <2>1, <2>2 DEF Books, Open, Worth, Sides
  <1> QED BY <1>3, <1>4 DEF IInv

(* What Valued and unrealised make of the position after a fill or a BBO.   *)
LEMMA ValuedIs ==
    ASSUME NEW i \in [position_ : Int, real_pnl_ : Int, unreal_pnl_ : Int, total_pnl_ : Int,
                      open_vwap_ : [Sides -> Int]], i.real_pnl_ = 0, NEW unreal \in Int
    PROVE  /\ Valued(i, unreal) \in [position_ : Int, real_pnl_ : Int, unreal_pnl_ : Int,
                                     total_pnl_ : Int, open_vwap_ : [Sides -> Int]]
           /\ Valued(i, unreal).position_ = i.position_ /\ Valued(i, unreal).real_pnl_ = 0
           /\ Valued(i, unreal).open_vwap_ = i.open_vwap_
           /\ Valued(i, unreal).total_pnl_ = unreal
  <1>1. PICK v : v = [i EXCEPT !.unreal_pnl_ = unreal, !.total_pnl_ = unreal]
    OBVIOUS
  <1>2. Valued(i, unreal) = v
    <2>1. unreal + i.real_pnl_ = unreal
      OBVIOUS
    <2>2. Valued(i, unreal) = [i EXCEPT !.unreal_pnl_ = unreal,
                                        !.total_pnl_ = unreal + i.real_pnl_]
      BY Zenon DEF Valued
    <2> QED BY <1>1, <2>1, <2>2, Zenon
  <1>3. /\ v \in [position_ : Int, real_pnl_ : Int, unreal_pnl_ : Int, total_pnl_ : Int,
                  open_vwap_ : [Sides -> Int]]
        /\ v.position_ = i.position_ /\ v.real_pnl_ = 0 /\ v.open_vwap_ = i.open_vwap_
        /\ v.total_pnl_ = unreal
    BY <1>1
  <1> QED BY <1>2, <1>3

LEMMA UnrealisedIs ==
    ASSUME NEW i \in [position_ : Int, real_pnl_ : Int, unreal_pnl_ : Int, total_pnl_ : Int,
                      open_vwap_ : [Sides -> Int]], i.position_ # 0, NEW price \in Int
    PROVE  unrealised(i, price) \in Int /\ unrealised(i, price) = Worth(i, i.position_, price)
  BY DEF unrealised, Worth, Sides

(* The PositionInfo after a fill.                                           *)
LEMMA AddFillDoes ==
    ASSUME IInv, NEW side \in Sides, NEW price \in Nat, NEW qty \in Nat, NEW now \in Int,
           now = IF side = "BUY" THEN held + qty ELSE held - qty, Abs(now) <= MaxPosition,
           addFill(side, price, qty)
    PROVE  /\ info' \in [position_ : Int, real_pnl_ : Int, unreal_pnl_ : Int, total_pnl_ : Int,
                         open_vwap_ : [Sides -> Int]]
           /\ info'.position_ = now /\ info'.real_pnl_ = 0
           /\ info'.open_vwap_ = IF now = 0 THEN [s \in Sides |-> 0]
                                 ELSE [info.open_vwap_ EXCEPT ![side] = @ + price * qty]
           /\ info'.total_pnl_ = Worth(info', now, price)
  <1> DEFINE R == [position_ : Int, real_pnl_ : Int, unreal_pnl_ : Int, total_pnl_ : Int,
                   open_vwap_ : [Sides -> Int]]
  <1>1. info \in R /\ held \in Int /\ info.position_ = held /\ info.real_pnl_ = 0
    BY DEF IInv, Types, Follows
  <1>2. int32_t(info.position_ + qty * sideToValue(side)) = now
    BY <1>1, PositionMoves
  <1>3. Opens(info.position_, side)
    BY <1>1, EveryFillOpens
  <1>4. PICK moved : moved = [info EXCEPT !.position_ = now]
    OBVIOUS
  <1>5. PICK paid \in Int : paid = price * qty
    OBVIOUS
  <1>6. PICK after : after = [moved EXCEPT !.open_vwap_[side] = @ + paid]
    OBVIOUS
  <1>7. moved \in R /\ moved.position_ = now /\ moved.real_pnl_ = 0
        /\ moved.open_vwap_ = info.open_vwap_
    BY <1>1, <1>4
  <1>8. after \in R /\ after.position_ = now /\ after.real_pnl_ = 0
        /\ after.open_vwap_ = [info.open_vwap_ EXCEPT ![side] = @ + paid]
    BY <1>6, <1>7
  <1>9. PICK flat : flat = [after EXCEPT !.open_vwap_ = [s \in Sides |-> 0]]
    OBVIOUS
  <1>10. flat \in R /\ flat.position_ = now /\ flat.real_pnl_ = 0
         /\ flat.open_vwap_ = [s \in Sides |-> 0]
    BY <1>8, <1>9
  <1>11. info' = IF now = 0 THEN Valued(flat, 0) ELSE Valued(after, unrealised(after, price))
    BY <1>2, <1>3, <1>4, <1>5, <1>6, <1>7, <1>9 DEF addFill, Opened
  <1>12. CASE now = 0
    <2>1. info' = Valued(flat, 0)
      BY <1>11, <1>12
    <2>2. info' \in R /\ info'.position_ = now /\ info'.real_pnl_ = 0
          /\ info'.open_vwap_ = [s \in Sides |-> 0] /\ info'.total_pnl_ = 0
      BY <1>10, <2>1, ValuedIs
    <2> QED BY <1>12, <2>2 DEF Worth
  <1>13. CASE now # 0
    <2>1. info' = Valued(after, unrealised(after, price))
      BY <1>11, <1>13
    <2>2. unrealised(after, price) \in Int
          /\ unrealised(after, price) = Worth(after, now, price)
      BY <1>8, <1>13, UnrealisedIs
    <2>3. info' \in R /\ info'.position_ = now /\ info'.real_pnl_ = 0
          /\ info'.open_vwap_ = after.open_vwap_ /\ info'.total_pnl_ = Worth(after, now, price)
      BY <1>8, <2>1, <2>2, ValuedIs
    <2>4. Worth(info', now, price) = Worth(after, now, price)
      BY <2>3 DEF Worth
    <2> QED BY <1>5, <1>8, <1>13, <2>3, <2>4
  <1> QED BY <1>12, <1>13

LEMMA FillStep ==
    ASSUME IInv, NEW side \in Sides, NEW price \in Prices, NEW qty \in Qtys,
           Fill(side, price, qty)
    PROVE  IInv'
  <1>1. price \in Nat /\ qty \in Nat /\ qty > 0
    BY PriceAssumption, QtyAssumption
  <1>2. held \in Int /\ cash \in Int /\ sides \in SUBSET Sides /\ clean \in BOOLEAN
        /\ info.open_vwap_ \in [Sides -> Int]
    BY DEF IInv, Types
  <1>3. PICK now \in Int : now = IF side = "BUY" THEN held + qty ELSE held - qty
    BY <1>1, <1>2
  <1>4. PICK p \in Nat : p = 2 * price
    BY <1>1
  <1>5. PICK paid \in Nat : paid = p * qty
    BY <1>1
  <1>6. /\ Abs(now) <= MaxPosition /\ addFill(side, p, qty)
        /\ held' = now /\ mark' = p
        /\ cash' = IF now = 0 THEN 0 ELSE IF side = "BUY" THEN cash - paid ELSE cash + paid
        /\ sides' = IF now = 0 THEN {} ELSE sides \cup {side}
        /\ clean' = (clean \/ now = 0)
    BY <1>3, <1>4, <1>5 DEF Fill
  <1>7. /\ info' \in [position_ : Int, real_pnl_ : Int, unreal_pnl_ : Int, total_pnl_ : Int,
                      open_vwap_ : [Sides -> Int]]
        /\ info'.position_ = now /\ info'.real_pnl_ = 0
        /\ info'.open_vwap_ = IF now = 0 THEN [s \in Sides |-> 0]
                              ELSE [info.open_vwap_ EXCEPT ![side] = @ + paid]
        /\ info'.total_pnl_ = Worth(info', now, p)
    BY <1>1, <1>3, <1>5, <1>6, AddFillDoes
  <1>8. Types' /\ Follows'
    BY <1>2, <1>6, <1>7 DEF Types, Follows
  <1>9. Sided'
    <2>1. /\ "BUY" \notin sides => held <= 0
          /\ "SELL" \notin sides => held >= 0
      BY DEF IInv, Sided
    <2> QED BY <1>1, <1>2, <1>3, <1>6, <2>1 DEF Sided, Sides
  <1>10. Books'
    <2>1. CASE now = 0
      <3>1. info'.open_vwap_ = [s \in Sides |-> 0] /\ sides' = {} /\ cash' = 0
        BY <1>6, <1>7, <2>1
      <3> QED BY <1>6, <1>7, <3>1 DEF Books, Open, Sides
    <2>2. CASE now # 0
      <3> SUFFICES ASSUME clean PROVE Books'
        BY <1>6, <2>2 DEF Books
      <3>1. info'.open_vwap_ = [info.open_vwap_ EXCEPT ![side] = @ + paid]
            /\ sides' = sides \cup {side}
            /\ cash' = IF side = "BUY" THEN cash - paid ELSE cash + paid
        BY <1>6, <1>7, <2>2
      <3>2. Open /\ cash = info.open_vwap_["SELL"] - info.open_vwap_["BUY"]
        BY DEF IInv, Books
      <3>3. Open'
        BY <1>2, <3>1, <3>2 DEF Open
      <3>4. cash' = info'.open_vwap_["SELL"] - info'.open_vwap_["BUY"]
        BY <1>2, <3>1, <3>2 DEF Sides
      <3> QED BY <1>6, <1>7, <3>3, <3>4 DEF Books
    <2> QED BY <2>1, <2>2
  <1> QED BY <1>8, <1>9, <1>10 DEF IInv

LEMMA UpdateStep ==
    ASSUME IInv, NEW bid \in Prices \cup {Price_INVALID}, NEW ask \in Prices \cup {Price_INVALID},
           updateBBO(bid, ask)
    PROVE  IInv'
  <1>1. UNCHANGED <<held, cash, sides, clean>>
    BY DEF updateBBO
  <1>2. CASE UNCHANGED <<info, mark>>
    BY <1>1, <1>2 DEF IInv, Types, Follows, Sided, Books, Open, Worth
  <1>3. CASE ~UNCHANGED <<info, mark>>
    <2>1. /\ info.position_ # 0 /\ Price_INVALID \notin {bid, ask}
          /\ info' = Valued(info, unrealised(info, bid + ask)) /\ mark' = bid + ask
      BY <1>3 DEF updateBBO
    <2>2. PICK m \in Int : m = bid + ask
      BY <2>1, PriceAssumption
    <2>3. Types /\ Follows
      BY DEF IInv
    <2>4. unrealised(info, m) \in Int /\ unrealised(info, m) = Worth(info, held, m)
      BY <2>1, <2>3, UnrealisedIs DEF Types, Follows
    <2>5. /\ info' \in [position_ : Int, real_pnl_ : Int, unreal_pnl_ : Int, total_pnl_ : Int,
                        open_vwap_ : [Sides -> Int]]
          /\ info'.position_ = held /\ info'.real_pnl_ = 0
          /\ info'.open_vwap_ = info.open_vwap_ /\ info'.total_pnl_ = Worth(info, held, m)
      BY <2>1, <2>2, <2>3, <2>4, ValuedIs DEF Types, Follows
    <2>6. Worth(info', held, m) = Worth(info, held, m)
      BY <2>5 DEF Worth
    <2>7. Types' /\ Follows' /\ Sided'
      BY <1>1, <2>1, <2>2, <2>5 DEF IInv, Types, Follows, Sided
    <2>8. Books'
      BY <1>1, <2>1, <2>2, <2>5, <2>6 DEF IInv, Books, Open
    <2> QED BY <2>7, <2>8 DEF IInv
  <1> QED BY <1>2, <1>3

(* Whatever fills of both sides and BBOs come in whatever order, and        *)
(* whatever the memory held: once open_vwap_ is clean, total_pnl_ is what   *)
(* the fills of one side have made since the position was last flat, and of *)
(* fills of both sides it is at most that for a long position and at least  *)
(* that for a short one.                                                    *)
THEOREM ProfitSinceFlatHolds == Spec => []ProfitSinceFlat
  <1>1. IInv /\ [Next]_vars => IInv'
    <2> SUFFICES ASSUME IInv, [Next]_vars PROVE IInv'
      OBVIOUS
    <2>1. CASE UNCHANGED vars
      BY <2>1 DEF vars, IInv, Types, Follows, Sided, Books, Open, Worth
    <2> QED BY <2>1, FillStep, UpdateStep DEF Next
  <1> QED BY <1>1, InitInv, BooksTell, PTL DEF Spec
=============================================================================
