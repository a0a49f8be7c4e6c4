-------------------------- MODULE MarketDataProofs --------------------------
(***************************************************************************)
(* For any number of updates and of lost and reordered incremental         *)
(* datagrams: as long as no datagram of a snapshot is lost, the client's   *)
(* book is always one the exchange's book has been, and out of recovery    *)
(* the one before the update expected next.  And as long as nothing is     *)
(* reordered, it is never an older one than it was, whatever is lost.      *)
(***************************************************************************)
EXTENDS MarketData, FiniteSetTheorems, SequenceTheorems, WellFoundedInduction, TLAPS

(* Induction over 0 .. n, for a set in the place of a predicate. *)
LEMMA UpTo ==
    ASSUME NEW n \in Nat, NEW T, 0 \in T, \A k \in 1 .. n : k - 1 \in T => k \in T
    PROVE  0 .. n \subseteq T
  <1> DEFINE U == {k \in 0 .. n : k \notin T}
  <1> SUFFICES ASSUME U # {} PROVE FALSE
    OBVIOUS
  <1>1. U \subseteq Nat /\ U # {}
    OBVIOUS
  <1> HIDE DEF U
  <1>2. PICK t \in U : \A u \in U : ~(<<u, t>> \in OpToRel(<, Nat))
    BY <1>1, WFMin, NatLessThanWellFounded, Zenon
  <1>3. \A u \in U : ~(u < t)
    BY <1>1, <1>2, Zenon DEF OpToRel
  <1>4. t \in 0 .. n /\ t \notin T /\ t # 0
    BY DEF U
  <1>5. t \in 1 .. n /\ t - 1 \in 0 .. n /\ t - 1 < t
    BY <1>4
  <1>6. t - 1 \in U
    BY <1>4, <1>5 DEF U
  <1> QED BY <1>3, <1>5, <1>6

-----------------------------------------------------------------------------
(* The two loops: over the updates that are applied to a book, and over the *)
(* messages of a datagram.                                                  *)
Applies(after, book, s) ==
    /\ after[0] = book
    /\ \A k \in 1 .. Len(s) : after[k] = Apply(after[k - 1], s[k])
    /\ ApplyAll(book, s) = after[Len(s)]

LEMMA ApplyAllSteps ==
    ASSUME NEW book, NEW s, Len(s) \in Nat PROVE \E after : Applies(after, book, s)
  <1> DEFINE F(f) == [k \in 0 .. Len(s) |-> IF k = 0 THEN book ELSE Apply(f[k - 1], s[k])]
             Steps(f, m) == /\ f[0] = book
                            /\ \A k \in 1 .. m : f[k] = Apply(f[k - 1], s[k])
             T == {m \in 0 .. Len(s) : \E f : Steps(f, m)}
  <1>1. 0 \in T
    <2>1. PICK f : f = [k \in {0} |-> book]
      OBVIOUS
    <2>2. f[0] = book /\ 1 .. 0 = {}
      BY <2>1
    <2>3. Steps(f, 0)
      BY <2>2
    <2>4. 0 \in 0 .. Len(s)
      OBVIOUS
    <2> QED BY <2>3, <2>4
  <1>2. ASSUME NEW k \in 1 .. Len(s), k - 1 \in T PROVE k \in T
    <2>1. PICK f : Steps(f, k - 1)
      BY <1>2
    <2> DEFINE g == [i \in 0 .. k |-> IF i < k THEN f[i] ELSE Apply(f[k - 1], s[k])]
    <2>2. g[0] = book
      BY <2>1
    <2>3. ASSUME NEW i \in 1 .. k PROVE g[i] = Apply(g[i - 1], s[i])
      <3>1. i \in 0 .. k /\ i - 1 \in 0 .. k /\ i - 1 < k
        OBVIOUS
      <3>2. g[i - 1] = f[i - 1]
        BY <3>1
      <3>3. CASE i = k
        BY <3>1, <3>2, <3>3
      <3>4. CASE i < k
        <4>1. i \in 1 .. k - 1
          BY <3>4
        <4>2. f[i] = Apply(f[i - 1], s[i])
          BY <2>1, <4>1
        <4> QED BY <3>1, <3>2, <3>4, <4>2
      <3> QED BY <3>3, <3>4
    <2>4. Steps(g, k)
      BY <2>2, <2>3
    <2>5. k \in 0 .. Len(s)
      OBVIOUS
    <2> QED BY <2>4, <2>5
  <1>3. Len(s) \in T
    <2> HIDE DEF T
    <2>1. 0 .. Len(s) \subseteq T
      BY <1>1, <1>2, UpTo
    <2> QED BY <2>1
  <1>4. PICK f : Steps(f, Len(s))
    BY <1>3
  <1>5. F(f) = F(F(f))
    <2>1. ASSUME NEW k \in 0 .. Len(s), k # 0 PROVE f[k - 1] = F(f)[k - 1]
      <3>1. k - 1 \in 0 .. Len(s)
        BY <2>1
      <3>2. CASE k - 1 = 0
        BY <1>4, <3>1, <3>2
      <3>3. CASE k - 1 # 0
        BY <1>4, <3>1, <3>3
      <3> QED BY <3>2, <3>3
    <2> QED BY <2>1
  <1> DEFINE after == CHOOSE g : g = F(g)
  <1>6. after = F(after)
    BY <1>5
  <1>7. ApplyAll(book, s) = after[Len(s)]
    BY DEF ApplyAll
  <1> HIDE DEF after
  <1>8. after[0] = book
    BY <1>6
  <1>9. \A k \in 1 .. Len(s) : after[k] = Apply(after[k - 1], s[k])
    BY <1>6
  <1> QED BY <1>7, <1>8, <1>9 DEF Applies

Handles(after, b, d) ==
    /\ after[0] = consumer
    /\ \A k \in 1 .. Len(d) : after[k] = handle(after[k - 1], b, d[k])
    /\ recvCallback(b, d) = IF b /\ ~consumer.in_recovery THEN consumer ELSE after[Len(d)]

LEMMA CallbackSteps ==
    ASSUME NEW b, NEW d, Len(d) \in Nat PROVE \E after : Handles(after, b, d)
  <1> DEFINE F(f) == [k \in 0 .. Len(d) |-> IF k = 0 THEN consumer ELSE handle(f[k - 1], b, d[k])]
             Steps(f, m) == /\ f[0] = consumer
                            /\ \A k \in 1 .. m : f[k] = handle(f[k - 1], b, d[k])
             T == {m \in 0 .. Len(d) : \E f : Steps(f, m)}
  <1>1. 0 \in T
    <2>1. PICK f : f = [k \in {0} |-> consumer]
      OBVIOUS
    <2>2. f[0] = consumer /\ 1 .. 0 = {}
      BY <2>1
    <2>3. Steps(f, 0)
      BY <2>2
    <2>4. 0 \in 0 .. Len(d)
      OBVIOUS
    <2> QED BY <2>3, <2>4
  <1>2. ASSUME NEW k \in 1 .. Len(d), k - 1 \in T PROVE k \in T
    <2>1. PICK f : Steps(f, k - 1)
      BY <1>2
    <2> DEFINE g == [i \in 0 .. k |-> IF i < k THEN f[i] ELSE handle(f[k - 1], b, d[k])]
    <2>2. g[0] = consumer
      BY <2>1
    <2>3. ASSUME NEW i \in 1 .. k PROVE g[i] = handle(g[i - 1], b, d[i])
      <3>1. i \in 0 .. k /\ i - 1 \in 0 .. k /\ i - 1 < k
        OBVIOUS
      <3>2. g[i - 1] = f[i - 1]
        BY <3>1
      <3>3. CASE i = k
        BY <3>1, <3>2, <3>3
      <3>4. CASE i < k
        <4>1. i \in 1 .. k - 1
          BY <3>4
        <4>2. f[i] = handle(f[i - 1], b, d[i])
          BY <2>1, <4>1
        <4> QED BY <3>1, <3>2, <3>4, <4>2
      <3> QED BY <3>3, <3>4
    <2>4. Steps(g, k)
      BY <2>2, <2>3
    <2>5. k \in 0 .. Len(d)
      OBVIOUS
    <2> QED BY <2>4, <2>5
  <1>3. Len(d) \in T
    <2> HIDE DEF T
    <2>1. 0 .. Len(d) \subseteq T
      BY <1>1, <1>2, UpTo
    <2> QED BY <2>1
  <1>4. PICK f : Steps(f, Len(d))
    BY <1>3
  <1>5. F(f) = F(F(f))
    <2>1. ASSUME NEW k \in 0 .. Len(d), k # 0 PROVE f[k - 1] = F(f)[k - 1]
      <3>1. k - 1 \in 0 .. Len(d)
        BY <2>1
      <3>2. CASE k - 1 = 0
        BY <1>4, <3>1, <3>2
      <3>3. CASE k - 1 # 0
        BY <1>4, <3>1, <3>3
      <3> QED BY <3>2, <3>3
    <2> QED BY <2>1
  <1> DEFINE after == CHOOSE g : g = F(g)
  <1>6. after = F(after)
    BY <1>5
  <1>7. recvCallback(b, d) = IF b /\ ~consumer.in_recovery THEN consumer ELSE after[Len(d)]
    BY DEF recvCallback
  <1> HIDE DEF after
  <1>8. after[0] = consumer
    BY <1>6
  <1>9. \A k \in 1 .. Len(d) : after[k] = handle(after[k - 1], b, d[k])
    BY <1>6
  <1> QED BY <1>7, <1>8, <1>9 DEF Handles

-----------------------------------------------------------------------------
(* The orders of a snapshot are those of the book, each of them named once. *)
LEMMA NthEnumerates ==
    ASSUME NEW S \in SUBSET Nat, IsFiniteSet(S)
    PROVE  /\ Cardinality(S) \in Nat
           /\ \A k \in 1 .. Cardinality(S) : Nth(S, k) \in S
           /\ \A x \in S : \E k \in 1 .. Cardinality(S) : Nth(S, k) = x
  <1>n. PICK n \in Nat : n = Cardinality(S)
    BY FS_CardinalityType
  <1> DEFINE Below(x) == {i \in S : i < x}
             r == [x \in S |-> Cardinality(Below(x))]
  <1>1. ASSUME NEW x \in S
        PROVE  IsFiniteSet(Below(x)) /\ Cardinality(Below(x)) \in Nat /\ Cardinality(Below(x)) < n
    <2>1. Below(x) \in SUBSET S /\ x \notin Below(x)
      OBVIOUS
    <2> HIDE DEF Below
    <2>2. /\ IsFiniteSet(Below(x)) /\ Cardinality(Below(x)) <= Cardinality(S)
          /\ Cardinality(S) = Cardinality(Below(x)) => S = Below(x)
      BY <2>1, FS_Subset
    <2>3. Cardinality(Below(x)) \in Nat
      BY <2>2, FS_CardinalityType
    <2>4. Cardinality(Below(x)) # n
      BY <1>n, <2>1, <2>2
    <2> QED BY <1>n, <2>2, <2>3, <2>4
  <1>2. ASSUME NEW x \in S, NEW y \in S, x < y PROVE Cardinality(Below(x)) # Cardinality(Below(y))
    <2>0. x \in Int /\ y \in Int /\ \A z \in S : z \in Int
      OBVIOUS
    <2>a. ASSUME NEW z \in S, z < x PROVE z < y
      BY <1>2, <2>0, <2>a
    <2>1. Below(x) \in SUBSET Below(y) /\ x \in Below(y) /\ x \notin Below(x)
      <3>1. ASSUME NEW i \in Below(x) PROVE i \in Below(y)
        BY <2>a
      <3>2. x \in Below(y)
        BY <1>2
      <3>3. x \notin Below(x)
        BY <2>0
      <3> QED BY <3>1, <3>2, <3>3
    <2>2. Cardinality(Below(y)) = Cardinality(Below(x)) => Below(y) = Below(x)
      BY <1>1, <2>1, FS_Subset
    <2> HIDE DEF Below
    <2> QED BY <2>1, <2>2
  <1>3. ASSUME NEW x \in S, NEW y \in S, Cardinality(Below(x)) = Cardinality(Below(y)) PROVE x = y
    <2>1. ~(x < y) /\ ~(y < x)
      BY <1>2, <1>3
    <2>2. x \in Int /\ y \in Int
      OBVIOUS
    <2> QED BY <2>1, <2>2
  <1> HIDE DEF Below
  <1>4. r \in Injection(S, 0 .. n - 1)
    <2>1. r \in [S -> 0 .. n - 1]
      BY <1>1
    <2>2. \A x, y \in S : r[x] = r[y] => x = y
      BY <1>3
    <2> QED BY <2>1, <2>2 DEF Injection, IsInjective
  <1>5. IsFiniteSet(0 .. n - 1) /\ Cardinality(0 .. n - 1) = n
    <2>1. 0 \in Int /\ n - 1 \in Int
      OBVIOUS
    <2>2. /\ IsFiniteSet(0 .. n - 1)
          /\ Cardinality(0 .. n - 1) = IF 0 > n - 1 THEN 0 ELSE n - 1 - 0 + 1
      BY <2>1, FS_Interval
    <2> QED BY <2>2
  <1>6. r \in Surjection(S, 0 .. n - 1)
    BY <1>4, <1>5, <1>n, FS_Injection
  <1>7. ASSUME NEW k \in 1 .. n PROVE Nth(S, k) \in S /\ Cardinality(Below(Nth(S, k))) = k - 1
    <2>1. k - 1 \in 0 .. n - 1
      OBVIOUS
    <2>2. \E x \in S : Cardinality(Below(x)) = k - 1
      BY <1>6, <2>1 DEF Surjection
    <2> QED BY <2>2 DEF Nth, Below
  <1>8. ASSUME NEW x \in S PROVE \E k \in 1 .. n : Nth(S, k) = x
    <2>1. PICK k \in 1 .. n : k - 1 = Cardinality(Below(x))
      <3>1. PICK m : m = Cardinality(Below(x))
        OBVIOUS
      <3>2. m \in Nat /\ m < n
        BY <1>1, <3>1
      <3>3. m + 1 \in 1 .. n /\ (m + 1) - 1 = m
        BY <3>2
      <3> QED BY <3>1, <3>3
    <2>2. Nth(S, k) \in S /\ Cardinality(Below(Nth(S, k))) = Cardinality(Below(x))
      BY <1>7, <2>1
    <2> QED BY <1>3, <2>2
  <1> QED BY <1>n, <1>7, <1>8

(* The first seq_num that is not queued exists: the search ends. *)
LEMMA FirstMissingIs ==
    ASSUME NEW queued, NEW n \in Nat, NEW L \in Nat, DOMAIN queued \subseteq 1 .. L, n <= L + 1
    PROVE  /\ FirstMissing(queued, n) \in n .. L + 1
           /\ n .. FirstMissing(queued, n) - 1 \subseteq DOMAIN queued
  <1>D. PICK D \in SUBSET (1 .. L) : D = DOMAIN queued
    OBVIOUS
  <1> DEFINE T == {m \in Nat : m >= n /\ m \notin D}
  <1>1. T \subseteq Nat /\ T # {}
    <2>1. L + 1 \in T
      OBVIOUS
    <2> QED BY <2>1
  <1> HIDE DEF T
  <1>2. PICK t \in T : \A u \in T : ~(<<u, t>> \in OpToRel(<, Nat))
    BY <1>1, WFMin, NatLessThanWellFounded, Zenon
  <1>3. \A u \in T : ~(u < t)
    BY <1>1, <1>2, Zenon DEF OpToRel
  <1>4. t \in Nat /\ t >= n /\ t \notin D
    BY DEF T
  <1>5. n .. t - 1 \subseteq D
    BY <1>3, <1>4 DEF T
  <1>6. IsFiniteSet(D) /\ Cardinality(D) \in Nat
    <2>1. IsFiniteSet(1 .. L)
      BY FS_Interval
    <2>2. IsFiniteSet(D)
      BY <2>1, FS_Subset
    <2> QED BY <2>2, FS_CardinalityType
  <1>7. t <= n + Cardinality(D)
    <2>1. n \in Int /\ t - 1 \in Int
      BY <1>4
    <2>2. Cardinality(n .. t - 1) = IF n > t - 1 THEN 0 ELSE t - 1 - n + 1
      BY <2>1, FS_Interval
    <2>3. Cardinality(n .. t - 1) <= Cardinality(D)
      BY <1>5, <1>6, FS_Subset
    <2> QED BY <1>4, <1>6, <2>2, <2>3
  <1>8. t \in n .. n + Cardinality(DOMAIN queued) /\ t \notin DOMAIN queued /\ n .. t - 1 \subseteq DOMAIN queued
    BY <1>D, <1>4, <1>5, <1>6, <1>7
  <1>m. PICK m : m = FirstMissing(queued, n)
    OBVIOUS
  <1>9. m \in n .. n + Cardinality(DOMAIN queued) /\ m \notin DOMAIN queued /\ n .. m - 1 \subseteq DOMAIN queued
    BY <1>8, <1>m DEF FirstMissing
  <1>c. PICK c \in Nat : c = Cardinality(D)
    BY <1>6
  <1>d. m \in n .. n + c
    BY <1>9, <1>c, <1>D
  <1>10. m \in Nat /\ m >= n /\ n .. m - 1 \subseteq D
    BY <1>9, <1>d, <1>D
  <1>11. m <= L + 1
    <2> SUFFICES ASSUME m > L + 1 PROVE FALSE
      BY <1>10
    <2>1. m - 1 \in n .. m - 1 /\ m - 1 \notin 1 .. L
      BY <1>10
    <2> QED BY <1>10, <2>1
  <1> QED BY <1>m, <1>9, <1>10, <1>11

-----------------------------------------------------------------------------
Types == {"ADD", "CANCEL", "CLEAR", "SNAPSHOT_START", "SNAPSHOT_END"}
Updates == [type : Types, order_id : Nat]
Message == [seq_num : Nat, type : Types, order_id : Nat]

(* The messages of the snapshot with n orders that was taken after update   *)
(* last.                                                                    *)
IsSnapshot(msgs, orders, last, n) ==
    /\ last \in Nat /\ orders \in SUBSET Nat /\ n \in Nat
    /\ msgs \in Seq(Message) /\ Len(msgs) = n + 3
    /\ msgs[1] = Msg(0, Update("SNAPSHOT_START", last))
    /\ msgs[2] = Msg(1, Update("CLEAR", 0))
    /\ \A k \in 1 .. n : /\ Nth(orders, k) \in orders
                         /\ msgs[k + 2] = Msg(k + 1, Update("ADD", Nth(orders, k)))
    /\ msgs[n + 3] = Msg(n + 2, Update("SNAPSHOT_END", last))
    /\ \A x \in orders : \E k \in 1 .. n : Nth(orders, k) = x

LEMMA SnapshotIs ==
    ASSUME NEW orders \in SUBSET Nat, IsFiniteSet(orders), NEW last \in Nat
    PROVE  /\ Cardinality(orders) \in Nat
           /\ IsSnapshot(snapshotMsgs(orders, last), orders, last, Cardinality(orders))
  <1>n. PICK n \in Nat : n = Cardinality(orders)
    BY NthEnumerates
  <1>1. /\ \A k \in 1 .. n : Nth(orders, k) \in orders
        /\ \A x \in orders : \E k \in 1 .. n : Nth(orders, k) = x
    BY <1>n, NthEnumerates
  <1>2. PICK adds : adds = [k \in 1 .. n |-> Update("ADD", Nth(orders, k))]
    OBVIOUS
  <1>3. adds \in Seq(Updates) /\ Len(adds) = n
    <2>1. \A k \in 1 .. n : Update("ADD", Nth(orders, k)) \in Updates
      BY <1>1 DEF Update, Updates, Types
    <2> QED BY <1>2, <2>1
  <1>4. PICK first : first = <<Update("SNAPSHOT_START", last), Update("CLEAR", 0)>>
    OBVIOUS
  <1>5. first \in Seq(Updates) /\ Len(first) = 2
    BY <1>4 DEF Update, Updates, Types
  <1>6. PICK end : end = <<Update("SNAPSHOT_END", last)>>
    OBVIOUS
  <1>7. end \in Seq(Updates) /\ Len(end) = 1
    BY <1>6 DEF Update, Updates, Types
  <1>8. PICK body : body = first \o adds \o end
    OBVIOUS
  <1>9. PICK both : both = first \o adds
    OBVIOUS
  <1>a. /\ both \in Seq(Updates) /\ Len(both) = Len(first) + Len(adds)
        /\ \A i \in 1 .. Len(first) + Len(adds) :
             both[i] = IF i <= Len(first) THEN first[i] ELSE adds[i - Len(first)]
    BY <1>3, <1>5, <1>9, ConcatProperties, Zenon
  <1>10. both \in Seq(Updates) /\ Len(both) = n + 2 /\ both[1] = first[1] /\ both[2] = first[2]
    <2>1. 1 \in 1 .. 2 + n /\ 2 \in 1 .. 2 + n /\ 1 <= 2 /\ 2 <= 2 /\ 2 + n = n + 2
      OBVIOUS
    <2> QED BY <1>3, <1>5, <1>a, <2>1
  <1>11. ASSUME NEW k \in 1 .. n PROVE both[k + 2] = adds[k]
    <2>1. k + 2 \in 1 .. 2 + n /\ ~(k + 2 <= 2) /\ k + 2 - 2 = k
      OBVIOUS
    <2> QED BY <1>3, <1>5, <1>a, <2>1
  <1>b. /\ body \in Seq(Updates) /\ Len(body) = Len(both) + Len(end)
        /\ \A i \in 1 .. Len(both) + Len(end) :
             body[i] = IF i <= Len(both) THEN both[i] ELSE end[i - Len(both)]
    <2>1. body = both \o end
      BY <1>8, <1>9
    <2> QED BY <1>7, <1>10, <2>1, ConcatProperties, Zenon
  <1>c. Len(both) + Len(end) = n + 3
    BY <1>7, <1>10
  <1>12. body \in Seq(Updates) /\ Len(body) = n + 3
    BY <1>b, <1>c
  <1>13. \A k \in 1 .. n + 3 : body[k] = IF k <= n + 2 THEN both[k] ELSE end[k - (n + 2)]
    BY <1>10, <1>b, <1>c, Zenon
  <1>14. /\ body[1] = first[1] /\ body[2] = first[2] /\ body[n + 3] = end[1]
         /\ \A k \in 1 .. n : body[k + 2] = adds[k]
    <2>1. 1 \in 1 .. n + 3 /\ 2 \in 1 .. n + 3 /\ n + 3 \in 1 .. n + 3 /\ (n + 3) - (n + 2) = 1
      OBVIOUS
    <2>2. \A k \in 1 .. n : k + 2 \in 1 .. n + 3 /\ k + 2 <= n + 2
      OBVIOUS
    <2> QED BY <1>10, <1>11, <1>13, <2>1, <2>2
  <1>15. PICK msgs : msgs = [k \in 1 .. n + 3 |-> Msg(k - 1, body[k])]
    OBVIOUS
  <1>16. snapshotMsgs(orders, last) = msgs
    <2>1. body = <<Update("SNAPSHOT_START", last), Update("CLEAR", 0)>>
                \o [k \in 1 .. Cardinality(orders) |-> Update("ADD", Nth(orders, k))]
                \o <<Update("SNAPSHOT_END", last)>>
      BY <1>2, <1>4, <1>6, <1>8, <1>n
    <2> QED BY <1>12, <1>15, <2>1 DEF snapshotMsgs
  <1>17. msgs \in Seq(Message) /\ Len(msgs) = n + 3
    <2>1. ASSUME NEW k \in 1 .. n + 3 PROVE Msg(k - 1, body[k]) \in Message
      <3>1. body[k] \in Updates
        BY <1>12
      <3>2. k - 1 \in Nat
        OBVIOUS
      <3> QED BY <3>1, <3>2 DEF Updates, Msg, Message
    <2>2. msgs \in [1 .. n + 3 -> Message]
      BY <1>15, <2>1
    <2> QED BY <2>2
  <1>18. msgs[1] = Msg(0, Update("SNAPSHOT_START", last)) /\ msgs[2] = Msg(1, Update("CLEAR", 0))
    BY <1>4, <1>14, <1>15
  <1>19. msgs[n + 3] = Msg(n + 2, Update("SNAPSHOT_END", last))
    <2>1. n + 3 \in 1 .. n + 3 /\ (n + 3) - 1 = n + 2
      OBVIOUS
    <2> QED BY <1>6, <1>14, <1>15, <2>1
  <1>20. ASSUME NEW k \in 1 .. n PROVE msgs[k + 2] = Msg(k + 1, Update("ADD", Nth(orders, k)))
    <2>1. k + 2 \in 1 .. n + 3 /\ (k + 2) - 1 = k + 1
      OBVIOUS
    <2>2. adds[k] = Update("ADD", Nth(orders, k))
      BY <1>2
    <2> QED BY <1>14, <1>15, <2>1, <2>2
  <1>21. IsSnapshot(msgs, orders, last, n)
    BY <1>1, <1>17, <1>18, <1>19, <1>20, Zenon DEF IsSnapshot
  <1> QED BY <1>16, <1>21, <1>n

(* Every message of a snapshot is numbered by its place, and only the last  *)
(* is its end.                                                              *)
LEMMA SnapshotNumbers ==
    ASSUME NEW msgs, NEW orders, NEW last, NEW n, IsSnapshot(msgs, orders, last, n),
           NEW k \in 1 .. n + 3
    PROVE  /\ msgs[k] \in Message /\ msgs[k].seq_num = k - 1
           /\ msgs[k].type = "SNAPSHOT_END" <=> k = n + 3
  <1>0. n \in Nat /\ msgs \in Seq(Message) /\ Len(msgs) = n + 3
    BY DEF IsSnapshot
  <1>1. msgs[k] \in Message
    BY <1>0
  <1>2. CASE k = 1
    BY <1>0, <1>1, <1>2 DEF IsSnapshot, Msg, Update
  <1>3. CASE k = 2
    BY <1>0, <1>1, <1>3 DEF IsSnapshot, Msg, Update
  <1>4. CASE k \in 3 .. n + 2
    <2>1. PICK i \in 1 .. n : k = i + 2
      <3>1. k - 2 \in 1 .. n /\ k = (k - 2) + 2
        BY <1>0, <1>4
      <3> QED BY <3>1
    <2>2. msgs[k] = Msg(i + 1, Update("ADD", Nth(orders, i)))
      BY <2>1 DEF IsSnapshot
    <2>3. msgs[k].seq_num = i + 1 /\ msgs[k].type = "ADD"
      BY <2>2 DEF Msg, Update
    <2> QED BY <1>0, <1>1, <2>1, <2>3
  <1>5. CASE k = n + 3
    BY <1>0, <1>1, <1>5 DEF IsSnapshot, Msg, Update
  <1>6. k = 1 \/ k = 2 \/ k \in 3 .. n + 2 \/ k = n + 3
    BY <1>0
  <1> QED BY <1>2, <1>3, <1>4, <1>5, <1>6

-----------------------------------------------------------------------------
(* The exchange's book after the first n updates of h. *)
Book(h, n) == IF n = 0 THEN {} ELSE h[n].book

Published == [type : Types, order_id : Nat, book : SUBSET Nat]

(* What has been published is a sequence of updates, each with the book     *)
(* that it makes of the one before.                                         *)
IsHistory(h) ==
    /\ h \in Seq(Published)
    /\ \A n \in 1 .. Len(h) : /\ IsFiniteSet(h[n].book)
                              /\ h[n].book = Apply(Book(h, n - 1), h[n])

LEMMA BookIs ==
    ASSUME NEW h, IsHistory(h), NEW n \in 0 .. Len(h)
    PROVE  Book(h, n) \in SUBSET Nat /\ IsFiniteSet(Book(h, n))
  <1>1. CASE n = 0
    BY <1>1, FS_EmptySet DEF Book
  <1>2. CASE n # 0
    <2>1. n \in 1 .. Len(h) /\ h \in Seq(Published)
      BY <1>2 DEF IsHistory
    <2>2. h[n] \in Published
      BY <2>1
    <2>3. h[n].book \in SUBSET Nat
      BY <2>2 DEF Published
    <2> QED BY <1>2, <2>1, <2>3 DEF Book, IsHistory
  <1> QED BY <1>1, <1>2

LEMMA ApplyMsg ==
    ASSUME NEW book, NEW n, NEW u PROVE Apply(book, Msg(n, u)) = Apply(book, u)
  <1>1. Msg(n, u).type = u.type /\ Msg(n, u).order_id = u.order_id
    BY DEF Msg
  <1> QED BY <1>1, Zenon DEF Apply

(* Whatever the client's book was: a snapshot and the updates after it make *)
(* it the exchange's book after the last of them.                           *)
LEMMA Rebuilt ==
    ASSUME NEW h, IsHistory(h), NEW last \in 0 .. Len(h), NEW n, NEW msgs,
           IsSnapshot(msgs, Book(h, last), last, n),
           NEW e \in Nat, last + e <= Len(h), NEW events, Len(events) = n + 3 + e,
           \A k \in 1 .. n + 3 : events[k] = msgs[k],
           \A k \in 1 .. e : events[n + 3 + k] = Msg(last + k, h[last + k]),
           NEW book
    PROVE  ApplyAll(book, events) = Book(h, last + e)
  <1>0. n \in Nat /\ last \in Nat /\ Len(events) \in Nat /\ Len(h) \in Nat
    BY DEF IsSnapshot, IsHistory
  <1>o. PICK orders : orders = Book(h, last)
    OBVIOUS
  <1>1. PICK after : /\ after[0] = book
                     /\ \A k \in 1 .. Len(events) : after[k] = Apply(after[k - 1], events[k])
                     /\ ApplyAll(book, events) = after[Len(events)]
    <2>1. \E after : Applies(after, book, events)
      BY <1>0, ApplyAllSteps
    <2> QED BY <2>1 DEF Applies
  <1>2. \A k \in 1 .. n + 3 : k \in 1 .. Len(events) /\ after[k] = Apply(after[k - 1], msgs[k])
    BY <1>0, <1>1
  <1>3. after[2] = {}
    <2>1. after[2] = Apply(after[1], msgs[2])
      BY <1>0, <1>2
    <2>2. msgs[2] = Msg(1, Update("CLEAR", 0))
      BY DEF IsSnapshot
    <2>3. Update("CLEAR", 0).type = "CLEAR"
      BY DEF Update
    <2>4. after[2] = Apply(after[1], Update("CLEAR", 0))
      BY <2>1, <2>2, ApplyMsg
    <2> QED BY <2>3, <2>4 DEF Apply
  <1> DEFINE Named(k) == {Nth(orders, i) : i \in 1 .. k}
             T == {k \in 0 .. n : after[k + 2] = Named(k)}
  <1>4. 0 \in T
    BY <1>0, <1>3
  <1>5. ASSUME NEW k \in 1 .. n, k - 1 \in T PROVE k \in T
    <2>1. after[(k - 1) + 2] = Named(k - 1) /\ (k - 1) + 2 = (k + 2) - 1
      BY <1>0, <1>5
    <2>2. after[k + 2] = Apply(Named(k - 1), msgs[k + 2])
      <3>1. k + 2 \in 1 .. n + 3
        BY <1>0
      <3> QED BY <1>2, <2>1, <3>1
    <2>3. msgs[k + 2] = Msg(k + 1, Update("ADD", Nth(orders, k)))
      BY <1>o DEF IsSnapshot
    <2>4. after[k + 2] = Named(k - 1) \cup {Nth(orders, k)}
      <3>1. Apply(Named(k - 1), msgs[k + 2]) = Apply(Named(k - 1), Update("ADD", Nth(orders, k)))
        BY <2>3, ApplyMsg
      <3>2. /\ Update("ADD", Nth(orders, k)).type = "ADD"
            /\ Update("ADD", Nth(orders, k)).order_id = Nth(orders, k)
        BY DEF Update
      <3> HIDE DEF Named
      <3> QED BY <2>2, <3>1, <3>2 DEF Apply
    <2>5. 1 .. k = (1 .. k - 1) \cup {k}
      BY <1>0
    <2>6. Named(k) = Named(k - 1) \cup {Nth(orders, k)}
      BY <2>5
    <2>7. k \in 0 .. n
      BY <1>0
    <2> QED BY <2>4, <2>6, <2>7
  <1>6. n \in T
    <2> HIDE DEF T
    <2>1. 0 .. n \subseteq T
      BY <1>0, <1>4, <1>5, UpTo
    <2> QED BY <1>0, <2>1
  <1>7. after[n + 2] = orders
    <2>1. Named(n) \subseteq orders
      BY <1>o DEF IsSnapshot
    <2>2. \A x \in orders : \E i \in 1 .. n : Nth(orders, i) = x
      BY <1>o DEF IsSnapshot
    <2> QED BY <1>6, <2>1, <2>2
  <1>8. after[n + 3] = orders
    <2>1. n + 3 \in 1 .. n + 3 /\ (n + 3) - 1 = n + 2
      BY <1>0
    <2>2. after[n + 3] = Apply(orders, msgs[n + 3])
      BY <1>2, <1>7, <2>1
    <2>3. msgs[n + 3] = Msg(n + 2, Update("SNAPSHOT_END", last))
      BY DEF IsSnapshot
    <2>4. Update("SNAPSHOT_END", last).type = "SNAPSHOT_END"
      BY DEF Update
    <2>5. after[n + 3] = Apply(orders, Update("SNAPSHOT_END", last))
      BY <2>2, <2>3, ApplyMsg
    <2> QED BY <2>4, <2>5 DEF Apply
  <1> DEFINE V == {k \in 0 .. e : after[n + 3 + k] = Book(h, last + k)}
  <1>9. 0 \in V
    <2>1. n + 3 + 0 = n + 3 /\ last + 0 = last
      BY <1>0
    <2> QED BY <1>o, <1>8, <2>1
  <1>10. ASSUME NEW k \in 1 .. e, k - 1 \in V PROVE k \in V
    <2>1. /\ n + 3 + k \in 1 .. Len(events) /\ (n + 3 + k) - 1 = n + 3 + (k - 1)
          /\ last + k \in 1 .. Len(h) /\ (last + k) - 1 = last + (k - 1)
          /\ k \in 0 .. e /\ last + k # 0
      <3>1. k \in Nat /\ k >= 1 /\ k <= e /\ k - 1 \in Nat
        OBVIOUS
      <3>2. n + 3 + k \in 1 .. Len(events) /\ (n + 3 + k) - 1 = n + 3 + (k - 1)
        BY <1>0, <3>1
      <3>3. last + k \in 1 .. Len(h) /\ (last + k) - 1 = last + (k - 1)
        BY <1>0, <3>1
      <3> QED BY <1>0, <3>1, <3>2, <3>3
    <2>2. after[n + 3 + k] = Apply(Book(h, last + (k - 1)), Msg(last + k, h[last + k]))
      BY <1>1, <1>10, <2>1
    <2>3. after[n + 3 + k] = Apply(Book(h, last + (k - 1)), h[last + k])
      BY <2>2, ApplyMsg
    <2>4. h[last + k].book = Apply(Book(h, last + (k - 1)), h[last + k])
      BY <2>1 DEF IsHistory
    <2>5. Book(h, last + k) = h[last + k].book
      BY <2>1 DEF Book
    <2> QED BY <2>1, <2>3, <2>4, <2>5
  <1>11. e \in V
    <2> HIDE DEF V
    <2>1. 0 .. e \subseteq V
      BY <1>9, <1>10, UpTo
    <2> QED BY <2>1
  <1> QED BY <1>1, <1>11

-----------------------------------------------------------------------------
(* The consumer. *)
Record(next, in_recovery, snapshot, incremental, book, applied) ==
    [next_exp_inc_seq_num |-> next, in_recovery |-> in_recovery,
     snapshot_queued |-> snapshot, incremental_queued |-> incremental,
     book |-> book, applied |-> applied]

IsConsumer(c) ==
    c = Record(c.next_exp_inc_seq_num, c.in_recovery, c.snapshot_queued,
               c.incremental_queued, c.book, c.applied)

(* Queued incremental messages are ones that have been published. *)
Queued(queued, h) ==
    /\ DOMAIN queued \subseteq 1 .. Len(h)
    /\ \A n \in DOMAIN queued : queued[n] = Msg(n, h[n])

Synced(c, h) ==
    /\ IsConsumer(c)
    /\ c.next_exp_inc_seq_num \in Nat /\ c.in_recovery \in BOOLEAN
    /\ c.applied \in 0 .. Len(h) /\ c.book = Book(h, c.applied)
    /\ ~c.in_recovery => /\ c.applied = c.next_exp_inc_seq_num - 1
                         /\ c.snapshot_queued = NoMsgs
    /\ Queued(c.incremental_queued, h)

(* The first p messages of a snapshot. *)
First(msgs, p) == [i \in 0 .. p - 1 |-> msgs[i + 1]]

(* After p messages of it, a snapshot is queued whole so far, or not at all.*)
SnapshotPart(queued, msgs, p) ==
    queued = NoMsgs \/ (p \in 1 .. Len(msgs) - 1 /\ queued = First(msgs, p))

LEMMA NoMsgsQueued == ASSUME NEW h PROVE Queued(NoMsgs, h) /\ DOMAIN NoMsgs = {}
  BY DEF NoMsgs, Queued

LEMMA Recovers ==
    ASSUME NEW h, IsHistory(h), NEW last \in 0 .. Len(h), NEW n, NEW msgs,
           IsSnapshot(msgs, Book(h, last), last, n),
           NEW c, Synced(c, h), c.in_recovery, c.snapshot_queued = First(msgs, n + 3)
    PROVE  Synced(recover(c, n + 2), h) /\ recover(c, n + 2).snapshot_queued = NoMsgs
  <1>0. n \in Nat /\ last \in Nat /\ Len(h) \in Nat /\ last <= Len(h) /\ msgs \in Seq(Message) /\ Len(msgs) = n + 3
    BY DEF IsSnapshot, IsHistory
  <1>q. PICK sq : sq = c.snapshot_queued
    OBVIOUS
  <1>i. PICK iq : iq = c.incremental_queued
    OBVIOUS
  <1>1. \A k \in 1 .. n + 3 : sq[k - 1] = msgs[k]
    <2> TAKE k \in 1 .. n + 3
    <2>1. k - 1 \in 0 .. n + 3 - 1 /\ (k - 1) + 1 = k
      BY <1>0
    <2>2. First(msgs, n + 3)[k - 1] = msgs[(k - 1) + 1]
      BY <1>0, <2>1 DEF First
    <2> QED BY <1>q, <2>1, <2>2
  <1>2. sq[n + 2].order_id = last
    <2>1. n + 3 \in 1 .. n + 3 /\ (n + 3) - 1 = n + 2
      BY <1>0
    <2>2. sq[n + 2] = Msg(n + 2, Update("SNAPSHOT_END", last))
      BY <1>1, <2>1 DEF IsSnapshot
    <2> QED BY <2>2 DEF Msg, Update
  <1>n. PICK next : next = FirstMissing(iq, last + 1)
    OBVIOUS
  <1>3. DOMAIN iq \subseteq 1 .. Len(h) /\ \A k \in DOMAIN iq : iq[k] = Msg(k, h[k])
    BY <1>i DEF Synced, Queued
  <1>4. next \in last + 1 .. Len(h) + 1 /\ last + 1 .. next - 1 \subseteq DOMAIN iq
    <2>1. last + 1 \in Nat /\ last + 1 <= Len(h) + 1
      BY <1>0
    <2> QED BY <1>0, <1>3, <1>n, <2>1, FirstMissingIs
  <1>e. PICK e \in Nat : next = last + 1 + e /\ last + e <= Len(h) /\ next - 1 = last + e
    <2>1. next - (last + 1) \in Nat /\ next = last + 1 + (next - (last + 1))
      BY <1>0, <1>4
    <2>2. last + (next - (last + 1)) <= Len(h) /\ next - 1 = last + (next - (last + 1))
      BY <1>0, <1>4
    <2> QED BY <2>1, <2>2
  <1>5. PICK s : s = Between(sq, 0, n + 2)
    OBVIOUS
  <1>6. s \in Seq(Message) /\ Len(s) = n + 3 /\ \A k \in 1 .. n + 3 : s[k] = msgs[k]
    <2>1. n + 2 - 0 + 1 = n + 3 /\ \A k \in 1 .. n + 3 : 0 + k - 1 = k - 1
      BY <1>0
    <2>2. s = [k \in 1 .. n + 3 |-> sq[k - 1]]
      <3>1. s = [k \in 1 .. n + 2 - 0 + 1 |-> sq[0 + k - 1]]
        BY <1>0, <1>5 DEF Between
      <3> QED BY <2>1, <3>1
    <2>3. \A k \in 1 .. n + 3 : msgs[k] \in Message
      BY <1>0
    <2>4. s \in [1 .. n + 3 -> Message]
      BY <1>1, <2>2, <2>3
    <2>5. n + 3 \in Nat
      BY <1>0
    <2> QED BY <1>1, <2>2, <2>4, <2>5
  <1>7. PICK t : t = Between(iq, last + 1, next - 1)
    OBVIOUS
  <1>8. t \in Seq(Message) /\ Len(t) = e /\ \A k \in 1 .. e : t[k] = Msg(last + k, h[last + k])
    <2>1. next - 1 - (last + 1) + 1 = e /\ \A k \in 1 .. e : last + 1 + k - 1 = last + k
      BY <1>0, <1>e
    <2>2. t = [k \in 1 .. e |-> iq[last + k]]
      BY <1>7, <2>1 DEF Between
    <2>3. ASSUME NEW k \in 1 .. e
          PROVE  last + k \in 1 .. Len(h) /\ iq[last + k] = Msg(last + k, h[last + k])
      <3>1. last + k \in last + 1 .. next - 1 /\ last + k \in 1 .. Len(h)
        BY <1>0, <1>e
      <3> QED BY <1>3, <1>4, <3>1
    <2>4. ASSUME NEW k \in 1 .. Len(h) PROVE Msg(k, h[k]) \in Message
      <3>1. h[k] \in Published
        BY DEF IsHistory
      <3> QED BY <1>0, <3>1 DEF Published, Message, Msg
    <2>5. t \in [1 .. e -> Message]
      BY <2>2, <2>3, <2>4
    <2>6. \A k \in 1 .. e : t[k] = Msg(last + k, h[last + k])
      BY <2>2, <2>3
    <2>7. e \in Nat
      BY <1>e
    <2> QED BY <2>5, <2>6, <2>7
  <1>9. PICK events : events = s \o t
    OBVIOUS
  <1>10. /\ events \in Seq(Message) /\ Len(events) = Len(s) + Len(t)
         /\ \A k \in 1 .. Len(s) + Len(t) :
              events[k] = IF k <= Len(s) THEN s[k] ELSE t[k - Len(s)]
    BY <1>6, <1>8, <1>9, ConcatProperties, Zenon
  <1>11. Len(events) = n + 3 + e /\ \A k \in 1 .. n + 3 : events[k] = msgs[k]
    <2>1. \A k \in 1 .. n + 3 : k \in 1 .. n + 3 + e /\ k <= n + 3
      BY <1>0
    <2> QED BY <1>6, <1>8, <1>10, <2>1
  <1>12. ASSUME NEW k \in 1 .. e PROVE events[n + 3 + k] = Msg(last + k, h[last + k])
    <2>1. n + 3 + k \in 1 .. n + 3 + e /\ ~(n + 3 + k <= n + 3) /\ n + 3 + k - (n + 3) = k
      BY <1>0
    <2>2. \A j \in 1 .. n + 3 + e : events[j] = IF j <= n + 3 THEN s[j] ELSE t[j - (n + 3)]
      BY <1>6, <1>8, <1>10
    <2>3. events[n + 3 + k] = t[k]
      <3>1. PICK j : j = n + 3 + k
        OBVIOUS
      <3>2. j \in 1 .. n + 3 + e /\ ~(j <= n + 3)
        BY <2>1, <3>1
      <3>3. events[j] = t[j - (n + 3)]
        BY <2>2, <3>2
      <3>4. j - (n + 3) = k
        BY <1>0, <3>1
      <3> QED BY <3>1, <3>3, <3>4
    <2> QED BY <1>8, <2>3
  <1>13. ApplyAll(c.book, events) = Book(h, last + e)
    BY <1>11, <1>12, <1>e, Rebuilt
  <1>14. recover(c, n + 2) =
           IF NoneBeyond(iq, next)
           THEN Record(next, FALSE, NoMsgs, NoMsgs, ApplyAll(c.book, events), next - 1)
           ELSE [c EXCEPT !.next_exp_inc_seq_num = next, !.snapshot_queued = NoMsgs]
    BY <1>q, <1>i, <1>2, <1>n, <1>5, <1>7, <1>9 DEF recover, Record
  <1>15. PICK d : d = recover(c, n + 2)
    OBVIOUS
  <1>16. next \in Nat /\ next - 1 \in 0 .. Len(h)
    BY <1>0, <1>4
  <1>17. CASE NoneBeyond(iq, next)
    <2>1. d = Record(next, FALSE, NoMsgs, NoMsgs, Book(h, last + e), next - 1)
      BY <1>13, <1>14, <1>15, <1>17
    <2>2. Synced(d, h) /\ d.snapshot_queued = NoMsgs
      <3>1. /\ IsConsumer(d) /\ d.next_exp_inc_seq_num = next /\ d.in_recovery = FALSE
            /\ d.snapshot_queued = NoMsgs /\ d.incremental_queued = NoMsgs
            /\ d.book = Book(h, last + e) /\ d.applied = next - 1
        BY <2>1 DEF Record, IsConsumer
      <3>2. d.book = Book(h, d.applied)
        BY <1>e, <3>1
      <3> QED BY <1>16, <3>1, <3>2, NoMsgsQueued DEF Synced
    <2> QED BY <1>15, <2>2
  <1>18. CASE ~NoneBeyond(iq, next)
    <2>1. c = Record(c.next_exp_inc_seq_num, c.in_recovery, c.snapshot_queued,
                     c.incremental_queued, c.book, c.applied)
      BY DEF Synced, IsConsumer
    <2>2. d = Record(next, c.in_recovery, NoMsgs, c.incremental_queued, c.book, c.applied)
      BY <1>14, <1>15, <1>18, <2>1 DEF Record
    <2>3. Synced(d, h) /\ d.snapshot_queued = NoMsgs
      <3>1. /\ IsConsumer(d) /\ d.next_exp_inc_seq_num = next /\ d.in_recovery = c.in_recovery
            /\ d.snapshot_queued = NoMsgs /\ d.incremental_queued = c.incremental_queued
            /\ d.book = c.book /\ d.applied = c.applied
        BY <2>2 DEF Record, IsConsumer
      <3> QED BY <1>16, <3>1 DEF Synced
    <2> QED BY <1>15, <2>3
  <1> QED BY <1>17, <1>18

-----------------------------------------------------------------------------
(* What checkSnapshotSync may find queued after p messages of a snapshot:   *)
(* nothing, all of them, or the last of them alone.                         *)
Partial(queued, msgs, p) ==
    \/ queued = NoMsgs
    \/ p >= 1 /\ queued = First(msgs, p)
    \/ p >= 2 /\ queued = [i \in {p - 1} |-> msgs[p]]

LEMMA Requeued ==
    ASSUME NEW h, NEW c, Synced(c, h), c.in_recovery, NEW q
    PROVE  LET d == [c EXCEPT !.snapshot_queued = q]
           IN  Synced(d, h) /\ d.in_recovery /\ d.snapshot_queued = q
  <1>1. c = Record(c.next_exp_inc_seq_num, c.in_recovery, c.snapshot_queued,
                   c.incremental_queued, c.book, c.applied)
    BY DEF Synced, IsConsumer
  <1>2. PICK d : d = [c EXCEPT !.snapshot_queued = q]
    OBVIOUS
  <1>3. d = Record(c.next_exp_inc_seq_num, c.in_recovery, q,
                   c.incremental_queued, c.book, c.applied)
    BY <1>1, <1>2 DEF Record
  <1>4. /\ IsConsumer(d) /\ d.next_exp_inc_seq_num = c.next_exp_inc_seq_num
        /\ d.in_recovery = c.in_recovery /\ d.snapshot_queued = q
        /\ d.incremental_queued = c.incremental_queued
        /\ d.book = c.book /\ d.applied = c.applied
    BY <1>3 DEF Record, IsConsumer
  <1>5. Synced(d, h)
    BY <1>4 DEF Synced
  <1> QED BY <1>2, <1>4, <1>5

LEMMA SyncChecked ==
    ASSUME NEW h, IsHistory(h), NEW last \in 0 .. Len(h), NEW n, NEW msgs,
           IsSnapshot(msgs, Book(h, last), last, n),
           NEW c, Synced(c, h), c.in_recovery,
           NEW p \in 0 .. n + 3, Partial(c.snapshot_queued, msgs, p)
    PROVE  /\ Synced(checkSnapshotSync(c), h)
           /\ SnapshotPart(checkSnapshotSync(c).snapshot_queued, msgs, p)
  <1>0. n \in Nat /\ p \in Nat /\ Len(msgs) = n + 3
    BY DEF IsSnapshot
  <1>q. PICK q : q = c.snapshot_queued
    OBVIOUS
  <1>e. PICK end : end = Cardinality(DOMAIN q) - 1
    OBVIOUS
  <1>d. PICK d : d = [c EXCEPT !.snapshot_queued = NoMsgs]
    OBVIOUS
  <1>1. Synced(d, h) /\ d.snapshot_queued = NoMsgs
    BY <1>d, Requeued, ZenonT(30)
  <1>2. checkSnapshotSync(c) = IF end = -1 THEN c
                               ELSE IF ~Gapless(q) THEN d
                               ELSE IF q[end].type # "SNAPSHOT_END" THEN c
                               ELSE recover(c, end)
    BY <1>q, <1>e, <1>d DEF checkSnapshotSync
  <1>3. CASE q = NoMsgs
    <2>1. end = -1
      BY <1>e, <1>3, NoMsgsQueued, FS_EmptySet
    <2> QED BY <1>2, <1>3, <1>q, <2>1 DEF SnapshotPart
  <1>4. CASE p >= 1 /\ q = First(msgs, p)
    <2>1. DOMAIN q = 0 .. p - 1
      BY <1>4 DEF First
    <2>2. Cardinality(0 .. p - 1) = p
      <3>1. 0 \in Int /\ p - 1 \in Int
        BY <1>0
      <3>2. Cardinality(0 .. p - 1) = IF 0 > p - 1 THEN 0 ELSE p - 1 - 0 + 1
        BY <3>1, FS_Interval
      <3> QED BY <1>0, <1>4, <3>2
    <2>3. end = p - 1 /\ end # -1
      BY <1>0, <1>4, <1>e, <2>1, <2>2
    <2>4. q[end] = msgs[p]
      <3>1. p - 1 \in 0 .. p - 1 /\ (p - 1) + 1 = p
        BY <1>0, <1>4
      <3>2. First(msgs, p)[p - 1] = msgs[(p - 1) + 1]
        BY <1>0, <3>1 DEF First
      <3> QED BY <1>4, <2>3, <3>1, <3>2
    <2>5. p \in 1 .. n + 3
      BY <1>0, <1>4
    <2>6. msgs[p].type = "SNAPSHOT_END" <=> p = n + 3
      BY <2>5, SnapshotNumbers
    <2>7. CASE ~Gapless(q)
      BY <1>1, <1>2, <2>3, <2>7 DEF SnapshotPart
    <2>8. CASE Gapless(q) /\ p # n + 3
      <3>1. checkSnapshotSync(c) = c
        BY <1>2, <2>3, <2>4, <2>6, <2>8
      <3>2. p \in 1 .. Len(msgs) - 1
        BY <1>0, <1>4, <2>8
      <3> QED BY <1>4, <1>q, <3>1, <3>2 DEF SnapshotPart
    <2>9. CASE Gapless(q) /\ p = n + 3
      <3>1. end = n + 2
        BY <1>0, <2>3, <2>9
      <3>2. checkSnapshotSync(c) = recover(c, n + 2)
        BY <1>2, <2>3, <2>4, <2>6, <2>9, <3>1
      <3>3. c.snapshot_queued = First(msgs, n + 3)
        BY <1>4, <1>q, <2>9
      <3>4. Synced(recover(c, n + 2), h) /\ recover(c, n + 2).snapshot_queued = NoMsgs
        BY <3>3, Recovers
      <3> QED BY <3>2, <3>4 DEF SnapshotPart
    <2> QED BY <2>7, <2>8, <2>9
  <1>5. CASE p >= 2 /\ q = [i \in {p - 1} |-> msgs[p]]
    <2>1. DOMAIN q = {p - 1} /\ Cardinality(DOMAIN q) = 1
      BY <1>5, FS_Singleton
    <2>2. end = 0
      BY <1>e, <2>1
    <2>3. 0 \in 0 .. 1 - 1 /\ 0 # p - 1
      BY <1>0, <1>5
    <2>4. DOMAIN q # 0 .. Cardinality(DOMAIN q) - 1
      <3>1. 0 .. Cardinality(DOMAIN q) - 1 = 0 .. 1 - 1
        BY <2>1
      <3>2. 0 \notin DOMAIN q
        BY <2>1, <2>3
      <3> QED BY <2>3, <3>1, <3>2
    <2>5. ~Gapless(q)
      BY <2>4 DEF Gapless
    <2> QED BY <1>1, <1>2, <2>2, <2>5 DEF SnapshotPart
  <1> QED BY <1>3, <1>4, <1>5, <1>q DEF Partial

(* A message of the snapshot, or an incremental one, is queued. *)
LEMMA SnapshotQueued ==
    ASSUME NEW h, IsHistory(h), NEW last \in 0 .. Len(h), NEW n, NEW msgs,
           IsSnapshot(msgs, Book(h, last), last, n),
           NEW c, Synced(c, h), c.in_recovery,
           NEW p \in 0 .. n + 2, SnapshotPart(c.snapshot_queued, msgs, p)
    PROVE  LET d == queueMessage(c, TRUE, msgs[p + 1])
           IN  Synced(d, h) /\ SnapshotPart(d.snapshot_queued, msgs, p + 1)
  <1>0. n \in Nat /\ p \in Nat /\ Len(msgs) = n + 3
    BY DEF IsSnapshot
  <1>m. PICK m : m = msgs[p + 1]
    OBVIOUS
  <1>1. p + 1 \in 1 .. n + 3 /\ m.seq_num = p
    <2>1. p + 1 \in 1 .. n + 3 /\ (p + 1) - 1 = p
      BY <1>0
    <2> QED BY <1>m, <2>1, SnapshotNumbers
  <1>q. PICK q : q = c.snapshot_queued
    OBVIOUS
  <1>r. PICK r : r = Put(IF p \in DOMAIN q THEN NoMsgs ELSE q, m)
    OBVIOUS
  <1>d. PICK d : d = [c EXCEPT !.snapshot_queued = r]
    OBVIOUS
  <1>2. queueMessage(c, TRUE, m) = checkSnapshotSync(d)
    BY <1>1, <1>q, <1>r, <1>d DEF queueMessage
  <1>3. Synced(d, h) /\ d.in_recovery /\ d.snapshot_queued = r
    BY <1>d, Requeued, ZenonT(30)
  <1>6. ASSUME Partial(r, msgs, p + 1)
        PROVE  /\ Synced(queueMessage(c, TRUE, msgs[p + 1]), h)
               /\ SnapshotPart(queueMessage(c, TRUE, msgs[p + 1]).snapshot_queued, msgs, p + 1)
    <2>1. p + 1 \in 0 .. n + 3 /\ Partial(d.snapshot_queued, msgs, p + 1)
      BY <1>0, <1>3, <1>6
    <2>2. /\ Synced(checkSnapshotSync(d), h)
          /\ SnapshotPart(checkSnapshotSync(d).snapshot_queued, msgs, p + 1)
      BY <1>3, <2>1, SyncChecked
    <2> QED BY <1>2, <1>m, <2>2
  <1>4. CASE q = NoMsgs
    <2>1. r = [i \in {p} |-> m]
      <3>1. DOMAIN NoMsgs = {}
        BY NoMsgsQueued
      <3>2. r = Put(NoMsgs, m)
        BY <1>r, <1>4
      <3> QED BY <1>1, <3>1, <3>2 DEF Put
    <2>2. ASSUME p = 0 PROVE Partial(r, msgs, p + 1)
      <3>1. First(msgs, p + 1) = [i \in 0 .. 0 |-> msgs[i + 1]]
        BY <2>2 DEF First
      <3>2. 0 .. 0 = {0} /\ m = msgs[0 + 1]
        BY <1>m, <2>2
      <3>3. r = First(msgs, p + 1)
        BY <2>1, <2>2, <3>1, <3>2
      <3> QED BY <1>0, <3>3 DEF Partial
    <2>3. ASSUME p # 0 PROVE Partial(r, msgs, p + 1)
      <3>1. p + 1 >= 2 /\ (p + 1) - 1 = p
        BY <1>0, <2>3
      <3> QED BY <1>m, <2>1, <3>1 DEF Partial
    <2>4. Partial(r, msgs, p + 1)
      BY <2>2, <2>3
    <2> QED BY <2>4, <1>6
  <1>5. CASE p \in 1 .. Len(msgs) - 1 /\ q = First(msgs, p)
    <2>1. DOMAIN q = 0 .. p - 1 /\ p \notin 0 .. p - 1
      BY <1>0, <1>5 DEF First
    <2>2. r = [i \in (0 .. p - 1) \cup {p} |-> IF i = p THEN m ELSE q[i]]
      BY <1>1, <1>r, <2>1 DEF Put
    <2>3. (0 .. p - 1) \cup {p} = 0 .. (p + 1) - 1
      BY <1>0
    <2>4. ASSUME NEW i \in 0 .. (p + 1) - 1
          PROVE  (IF i = p THEN m ELSE q[i]) = msgs[i + 1]
      <3>1. CASE i = p
        BY <1>m, <3>1
      <3>2. CASE i # p
        <4>1. i \in 0 .. p - 1
          BY <1>0, <3>2
        <4>2. q[i] = msgs[i + 1]
          BY <1>5, <4>1 DEF First
        <4> QED BY <3>2, <4>2
      <3> QED BY <3>1, <3>2
    <2>5. r = First(msgs, p + 1)
      BY <2>2, <2>3, <2>4 DEF First
    <2>6. Partial(r, msgs, p + 1)
      BY <1>0, <2>5 DEF Partial
    <2> QED BY <2>6, <1>6
  <1> QED BY <1>4, <1>5, <1>q DEF SnapshotPart

(* The incremental messages published so far. *)
Incremental(h) == {Msg(n, h[n]) : n \in 1 .. Len(h)}

LEMMA IncrementalQueued ==
    ASSUME NEW h, IsHistory(h), NEW last \in 0 .. Len(h), NEW n, NEW msgs,
           IsSnapshot(msgs, Book(h, last), last, n),
           NEW c, Synced(c, h), c.in_recovery,
           NEW p \in 0 .. n + 3, SnapshotPart(c.snapshot_queued, msgs, p),
           NEW m \in Incremental(h)
    PROVE  LET d == queueMessage(c, FALSE, m)
           IN  Synced(d, h) /\ SnapshotPart(d.snapshot_queued, msgs, p)
  <1>1. PICK k \in 1 .. Len(h) : m = Msg(k, h[k])
    BY DEF Incremental
  <1>2. m.seq_num = k
    BY <1>1 DEF Msg
  <1>q. PICK q : q = c.incremental_queued
    OBVIOUS
  <1>r. PICK r : r = Put(q, m)
    OBVIOUS
  <1>3. Queued(q, h)
    BY <1>q DEF Synced
  <1>4. Queued(r, h)
    <2>1. r = [i \in DOMAIN q \cup {k} |-> IF i = k THEN m ELSE q[i]]
      BY <1>2, <1>r DEF Put
    <2>2. DOMAIN r = DOMAIN q \cup {k}
      BY <2>1
    <2>3. DOMAIN r \subseteq 1 .. Len(h)
      BY <1>3, <2>2 DEF Queued
    <2>4. ASSUME NEW i \in DOMAIN r PROVE r[i] = Msg(i, h[i])
      <3>1. CASE i = k
        BY <1>1, <2>1, <2>2, <3>1
      <3>2. CASE i # k
        <4>1. i \in DOMAIN q /\ r[i] = q[i]
          BY <2>1, <2>2, <3>2
        <4> QED BY <1>3, <4>1 DEF Queued
      <3> QED BY <3>1, <3>2
    <2> QED BY <2>3, <2>4 DEF Queued
  <1>d. PICK d : d = [c EXCEPT !.incremental_queued = r]
    OBVIOUS
  <1>5. queueMessage(c, FALSE, m) = checkSnapshotSync(d)
    BY <1>q, <1>r, <1>d DEF queueMessage
  <1>6. c = Record(c.next_exp_inc_seq_num, c.in_recovery, c.snapshot_queued,
                   c.incremental_queued, c.book, c.applied)
    BY DEF Synced, IsConsumer
  <1>7. d = Record(c.next_exp_inc_seq_num, c.in_recovery, c.snapshot_queued,
                   r, c.book, c.applied)
    BY <1>6, <1>d DEF Record
  <1>8. /\ IsConsumer(d) /\ d.next_exp_inc_seq_num = c.next_exp_inc_seq_num
        /\ d.in_recovery = c.in_recovery /\ d.snapshot_queued = c.snapshot_queued
        /\ d.incremental_queued = r /\ d.book = c.book /\ d.applied = c.applied
    BY <1>7 DEF Record, IsConsumer
  <1>9. Synced(d, h)
    BY <1>4, <1>8 DEF Synced
  <1>10. Partial(d.snapshot_queued, msgs, p)
    <2>1. p \in 1 .. Len(msgs) - 1 => p >= 1
      OBVIOUS
    <2> QED BY <1>8, <2>1 DEF SnapshotPart, Partial
  <1>11. /\ Synced(checkSnapshotSync(d), h)
         /\ SnapshotPart(checkSnapshotSync(d).snapshot_queued, msgs, p)
    BY <1>8, <1>9, <1>10, SyncChecked
  <1> QED BY <1>5, <1>11

(* A gap has been seen: recovery begins with nothing queued. *)
LEMMA Started ==
    ASSUME NEW h, NEW c, Synced(c, h)
    PROVE  LET d == startSnapshotSync([c EXCEPT !.in_recovery = TRUE])
           IN  Synced(d, h) /\ d.in_recovery /\ d.snapshot_queued = NoMsgs
  <1>1. c = Record(c.next_exp_inc_seq_num, c.in_recovery, c.snapshot_queued,
                   c.incremental_queued, c.book, c.applied)
    BY DEF Synced, IsConsumer
  <1>2. PICK e : e = [c EXCEPT !.in_recovery = TRUE]
    OBVIOUS
  <1>3. e = Record(c.next_exp_inc_seq_num, TRUE, c.snapshot_queued,
                   c.incremental_queued, c.book, c.applied)
    BY <1>1, <1>2 DEF Record
  <1>4. PICK d : d = startSnapshotSync(e)
    OBVIOUS
  <1>5. d = Record(c.next_exp_inc_seq_num, TRUE, NoMsgs, NoMsgs, c.book, c.applied)
    BY <1>3, <1>4 DEF Record, startSnapshotSync
  <1>6. /\ IsConsumer(d) /\ d.next_exp_inc_seq_num = c.next_exp_inc_seq_num
        /\ d.in_recovery = TRUE /\ d.snapshot_queued = NoMsgs
        /\ d.incremental_queued = NoMsgs /\ d.book = c.book /\ d.applied = c.applied
    BY <1>5 DEF Record, IsConsumer
  <1>7. Synced(d, h)
    BY <1>6, NoMsgsQueued DEF Synced
  <1> QED BY <1>2, <1>4, <1>6, <1>7

(* One message of recvCallback. *)
LEMMA IncrementalHandled ==
    ASSUME NEW h, IsHistory(h), NEW last \in 0 .. Len(h), NEW n, NEW msgs,
           IsSnapshot(msgs, Book(h, last), last, n),
           NEW c, Synced(c, h),
           NEW p \in 0 .. n + 3, SnapshotPart(c.snapshot_queued, msgs, p),
           NEW m \in Incremental(h)
    PROVE  LET d == handle(c, FALSE, m)
           IN  Synced(d, h) /\ SnapshotPart(d.snapshot_queued, msgs, p)
  <1>s. PICK s : s = startSnapshotSync([c EXCEPT !.in_recovery = TRUE])
    OBVIOUS
  <1>1. Synced(s, h) /\ s.in_recovery /\ s.snapshot_queued = NoMsgs
    BY <1>s, Started
  <1>d. PICK d : d = handle(c, FALSE, m)
    OBVIOUS
  <1>2. CASE ~c.in_recovery /\ m.seq_num # c.next_exp_inc_seq_num
    <2>1. d = queueMessage(s, FALSE, m)
      BY <1>d, <1>s, <1>2 DEF handle
    <2>2. SnapshotPart(s.snapshot_queued, msgs, p)
      BY <1>1 DEF SnapshotPart
    <2> QED BY <1>1, <1>d, <2>1, <2>2, IncrementalQueued
  <1>3. CASE c.in_recovery
    <2>1. d = queueMessage(c, FALSE, m)
      BY <1>d, <1>3 DEF handle
    <2> QED BY <1>3, <1>d, <2>1, IncrementalQueued
  <1>4. CASE ~c.in_recovery /\ m.seq_num = c.next_exp_inc_seq_num
    <2>1. PICK k \in 1 .. Len(h) : m = Msg(k, h[k])
      BY DEF Incremental
    <2>2. m.seq_num = k /\ k \in Nat /\ k # 0
      BY <2>1 DEF Msg
    <2>3. c.next_exp_inc_seq_num = k /\ c.applied = k - 1 /\ c.snapshot_queued = NoMsgs
      BY <1>4, <2>2 DEF Synced
    <2>4. c = Record(c.next_exp_inc_seq_num, c.in_recovery, c.snapshot_queued,
                     c.incremental_queued, c.book, c.applied)
      BY DEF Synced, IsConsumer
    <2>5. d = [c EXCEPT !.next_exp_inc_seq_num = @ + 1, !.book = Apply(@, m), !.applied = m.seq_num]
      BY <1>d, <1>4 DEF handle
    <2>6. d = Record(k + 1, c.in_recovery, NoMsgs, c.incremental_queued, Apply(c.book, m), k)
      BY <2>2, <2>3, <2>4, <2>5 DEF Record
    <2>7. /\ IsConsumer(d) /\ d.next_exp_inc_seq_num = k + 1
          /\ d.in_recovery = c.in_recovery /\ d.snapshot_queued = NoMsgs
          /\ d.incremental_queued = c.incremental_queued
          /\ d.book = Apply(c.book, m) /\ d.applied = k
      BY <2>6 DEF Record, IsConsumer
    <2>8. Apply(c.book, m) = Book(h, k)
      <3>1. c.book = Book(h, k - 1)
        BY <2>3 DEF Synced
      <3>2. Apply(c.book, m) = Apply(Book(h, k - 1), h[k])
        BY <2>1, <3>1, ApplyMsg
      <3>3. h[k].book = Apply(Book(h, k - 1), h[k])
        BY DEF IsHistory
      <3> QED BY <2>2, <3>2, <3>3 DEF Book
    <2>9. k + 1 \in Nat /\ k \in 0 .. Len(h) /\ k = (k + 1) - 1
      BY <2>2
    <2>10. Synced(d, h)
      BY <2>7, <2>8, <2>9 DEF Synced
    <2> QED BY <1>d, <2>7, <2>10 DEF SnapshotPart
  <1> QED BY <1>2, <1>3, <1>4

LEMMA SnapshotHandled ==
    ASSUME NEW h, IsHistory(h), NEW last \in 0 .. Len(h), NEW n, NEW msgs,
           IsSnapshot(msgs, Book(h, last), last, n),
           NEW c, Synced(c, h),
           NEW p \in 0 .. n + 2, SnapshotPart(c.snapshot_queued, msgs, p)
    PROVE  LET d == handle(c, TRUE, msgs[p + 1])
           IN  Synced(d, h) /\ SnapshotPart(d.snapshot_queued, msgs, p + 1)
  <1>m. PICK m : m = msgs[p + 1]
    OBVIOUS
  <1>s. PICK s : s = startSnapshotSync([c EXCEPT !.in_recovery = TRUE])
    OBVIOUS
  <1>1. Synced(s, h) /\ s.in_recovery /\ s.snapshot_queued = NoMsgs
    BY <1>s, Started
  <1>d. PICK d : d = handle(c, TRUE, m)
    OBVIOUS
  <1>2. CASE ~c.in_recovery /\ m.seq_num # c.next_exp_inc_seq_num
    <2>1. d = queueMessage(s, TRUE, m)
      BY <1>d, <1>s, <1>2 DEF handle
    <2>2. SnapshotPart(s.snapshot_queued, msgs, p)
      BY <1>1 DEF SnapshotPart
    <2> QED BY <1>1, <1>d, <1>m, <2>1, <2>2, SnapshotQueued
  <1>3. CASE c.in_recovery
    <2>1. d = queueMessage(c, TRUE, m)
      BY <1>d, <1>3 DEF handle
    <2> QED BY <1>3, <1>d, <1>m, <2>1, SnapshotQueued
  <1>4. CASE ~c.in_recovery /\ m.seq_num = c.next_exp_inc_seq_num
    <2>1. d = c
      BY <1>d, <1>4 DEF handle
    <2>2. c.snapshot_queued = NoMsgs
      BY <1>4 DEF Synced
    <2> QED BY <1>d, <1>m, <2>1, <2>2 DEF SnapshotPart
  <1> QED BY <1>2, <1>3, <1>4

-----------------------------------------------------------------------------
(* The number of messages in the first j datagrams of a snapshot. *)
Sent(j) == IF j = 0 THEN 0 ELSE j + 2

LEMMA DatagramsAre ==
    ASSUME NEW n \in Nat, NEW msgs \in Seq(Message), Len(msgs) = n + 3
    PROVE  LET D == snapshotDatagrams(msgs)
           IN  /\ D \in Seq(Seq(Message)) /\ Len(D) = n + 1
               /\ \A j \in 1 .. n + 1 :
                    /\ Len(D[j]) = Sent(j) - Sent(j - 1)
                    /\ \A i \in 1 .. Len(D[j]) : D[j][i] = msgs[Sent(j - 1) + i]
  <1>D. PICK D : D = snapshotDatagrams(msgs)
    OBVIOUS
  <1>f. PICK f : f = SubSeq(msgs, 1, 3)
    OBVIOUS
  <1>1. f \in Seq(Message) /\ Len(f) = 3 /\ \A i \in 1 .. 3 : f[i] = msgs[i]
    <2>1. \A i \in 1 .. 3 : i \in 1 .. Len(msgs) /\ msgs[i] \in Message
      OBVIOUS
    <2>2. /\ f \in Seq(Message) /\ Len(f) = IF 1 <= 3 THEN 3 - 1 + 1 ELSE 0
          /\ \A i \in 1 .. 3 - 1 + 1 : f[i] = msgs[1 + i - 1]
      BY <1>f, <2>1, SubSeqProperties
    <2>3. \A i \in 1 .. 3 : f[i] = msgs[i]
      BY <2>2
    <2> QED BY <2>2, <2>3
  <1>r. PICK r : r = [k \in 1 .. n |-> <<msgs[k + 3]>>]
    OBVIOUS
  <1>2. r \in Seq(Seq(Message)) /\ Len(r) = n
    <2>1. \A k \in 1 .. n : msgs[k + 3] \in Message
      OBVIOUS
    <2>2. \A k \in 1 .. n : <<msgs[k + 3]>> \in Seq(Message)
      BY <2>1
    <2> QED BY <1>r, <2>2
  <1>3. D = <<f>> \o r
    <2>1. CASE n = 0
      <3>1. f = msgs
        BY <1>f, <2>1, SubSeqFull
      <3>2. <<f>> \in Seq(Seq(Message)) /\ r = <<>>
        BY <1>1, <1>2, <2>1, EmptySeq
      <3>3. <<f>> \o r = <<f>>
        BY <3>2, ConcatEmptySeq
      <3>4. D = <<msgs>>
        BY <1>D, <2>1 DEF snapshotDatagrams
      <3> QED BY <3>1, <3>3, <3>4
    <2>2. CASE n # 0
      <3>1. Len(msgs) # 3 /\ Len(msgs) - 3 = n
        BY <2>2
      <3> QED BY <1>D, <1>f, <1>r, <3>1 DEF snapshotDatagrams
    <2> QED BY <2>1, <2>2
  <1>4. <<f>> \in Seq(Seq(Message)) /\ Len(<<f>>) = 1 /\ <<f>>[1] = f
    BY <1>1
  <1>5. /\ D \in Seq(Seq(Message)) /\ Len(D) = Len(<<f>>) + Len(r)
        /\ \A i \in 1 .. Len(<<f>>) + Len(r) :
             D[i] = IF i <= Len(<<f>>) THEN <<f>>[i] ELSE r[i - Len(<<f>>)]
    BY <1>2, <1>3, <1>4, ConcatProperties, Zenon
  <1>6. Len(D) = n + 1
    BY <1>2, <1>4, <1>5
  <1>7. ASSUME NEW j \in 1 .. n + 1
        PROVE  /\ Len(D[j]) = Sent(j) - Sent(j - 1)
               /\ \A i \in 1 .. Len(D[j]) : D[j][i] = msgs[Sent(j - 1) + i]
    <2>1. D[j] = IF j <= 1 THEN f ELSE r[j - 1]
      BY <1>2, <1>4, <1>5
    <2>2. CASE j = 1
      <3>1. D[j] = f
        BY <2>1, <2>2
      <3>2. Sent(j) = 3 /\ Sent(j - 1) = 0
        BY <2>2 DEF Sent
      <3>3. \A i \in 1 .. 3 : f[i] = msgs[0 + i]
        BY <1>1
      <3>4. Len(D[j]) = 3 - 0
        BY <1>1, <3>1
      <3> QED BY <3>1, <3>2, <3>3, <3>4
    <2>3. CASE j # 1
      <3>1. j - 1 \in 1 .. n /\ ~(j <= 1) /\ j # 0 /\ j - 1 # 0
        BY <2>3
      <3>2. D[j] = <<msgs[(j - 1) + 3]>>
        BY <1>r, <2>1, <3>1
      <3>3. Sent(j) = j + 2 /\ Sent(j - 1) = (j - 1) + 2
        BY <3>1 DEF Sent
      <3>4. Len(D[j]) = 1 /\ D[j][1] = msgs[(j - 1) + 3]
        BY <3>2
      <3>5. Sent(j) - Sent(j - 1) = 1 /\ Sent(j - 1) + 1 = (j - 1) + 3
        BY <3>3
      <3> QED BY <3>4, <3>5
    <2> QED BY <2>2, <2>3
  <1> QED BY <1>D, <1>5, <1>6, <1>7

-----------------------------------------------------------------------------
(* A datagram. *)
LEMMA IncrementalDatagram ==
    ASSUME NEW h, IsHistory(h), NEW last \in 0 .. Len(h), NEW n, NEW msgs,
           IsSnapshot(msgs, Book(h, last), last, n), Synced(consumer, h),
           NEW p \in 0 .. n + 3, SnapshotPart(consumer.snapshot_queued, msgs, p),
           NEW d \in Seq(Incremental(h))
    PROVE  /\ Synced(recvCallback(FALSE, d), h)
           /\ SnapshotPart(recvCallback(FALSE, d).snapshot_queued, msgs, p)
  <1>l. PICK l \in Nat : l = Len(d)
    OBVIOUS
  <1>0. \A k \in 1 .. l : d[k] \in Incremental(h)
    BY <1>l
  <1>1. PICK after : Handles(after, FALSE, d)
    <2>1. Len(d) \in Nat
      BY <1>l
    <2> QED BY <2>1, CallbackSteps
  <1>2. /\ after[0] = consumer
        /\ \A k \in 1 .. l : after[k] = handle(after[k - 1], FALSE, d[k])
        /\ recvCallback(FALSE, d) = after[l]
    BY <1>1, <1>l DEF Handles
  <1> DEFINE Good(c) == Synced(c, h) /\ SnapshotPart(c.snapshot_queued, msgs, p)
             T == {k \in 0 .. l : Good(after[k])}
  <1>3. 0 \in T
    BY <1>2
  <1>4. ASSUME NEW k \in 1 .. l, k - 1 \in T PROVE k \in T
    <2>1. Good(after[k - 1])
      BY <1>4
    <2>2. Good(handle(after[k - 1], FALSE, d[k]))
      BY <1>0, <2>1, IncrementalHandled
    <2>3. Good(after[k])
      BY <1>2, <2>2
    <2> QED BY <2>3
  <1>5. l \in T
    <2> HIDE DEF T
    <2>1. 0 .. l \subseteq T
      BY <1>3, <1>4, UpTo
    <2> QED BY <2>1
  <1> QED BY <1>2, <1>5

(* The l messages of datagram d are those of the snapshot from p + 1 on.    *)
Arrives(h, last, n, msgs, p, d, l) ==
    /\ IsHistory(h) /\ last \in 0 .. Len(h) /\ IsSnapshot(msgs, Book(h, last), last, n)
    /\ Synced(consumer, h)
    /\ p \in Nat /\ SnapshotPart(consumer.snapshot_queued, msgs, p)
    /\ l \in Nat /\ Len(d) = l /\ p + l <= n + 3
    /\ \A i \in 1 .. l : d[i] = msgs[p + i]

LEMMA SnapshotDatagram ==
    ASSUME NEW h, NEW last, NEW n, NEW msgs, NEW p, NEW d, NEW l,
           Arrives(h, last, n, msgs, p, d, l)
    PROVE  /\ Synced(recvCallback(TRUE, d), h)
           /\ SnapshotPart(recvCallback(TRUE, d).snapshot_queued, msgs, p + l)
  <1>a. /\ IsHistory(h) /\ last \in 0 .. Len(h) /\ IsSnapshot(msgs, Book(h, last), last, n)
        /\ Synced(consumer, h)
        /\ p \in Nat /\ SnapshotPart(consumer.snapshot_queued, msgs, p)
        /\ l \in Nat /\ Len(d) = l /\ p + l <= n + 3
        /\ \A i \in 1 .. l : d[i] = msgs[p + i]
    BY DEF Arrives
  <1>0. n \in Nat
    BY <1>a DEF IsSnapshot
  <1>1. PICK after : Handles(after, TRUE, d)
    BY <1>a, CallbackSteps
  <1>2. /\ after[0] = consumer
        /\ \A k \in 1 .. l : after[k] = handle(after[k - 1], TRUE, msgs[p + k])
        /\ recvCallback(TRUE, d) = IF ~consumer.in_recovery THEN consumer ELSE after[l]
    BY <1>1, <1>a DEF Handles
  <1> DEFINE Good(c, k) == Synced(c, h) /\ SnapshotPart(c.snapshot_queued, msgs, p + k)
             T == {k \in 0 .. l : Good(after[k], k)}
  <1>3. 0 \in T
    <2>1. p + 0 = p /\ 0 \in 0 .. l
      BY <1>a
    <2> QED BY <1>2, <1>a, <2>1
  <1>4. ASSUME NEW k \in 1 .. l, k - 1 \in T PROVE k \in T
    <2>1. Good(after[k - 1], k - 1)
      BY <1>4
    <2>2. p + (k - 1) \in 0 .. n + 2 /\ (p + (k - 1)) + 1 = p + k
      BY <1>0, <1>a
    <2>3. LET c == handle(after[k - 1], TRUE, msgs[(p + (k - 1)) + 1])
          IN  Synced(c, h) /\ SnapshotPart(c.snapshot_queued, msgs, (p + (k - 1)) + 1)
      BY <1>a, <2>1, <2>2, SnapshotHandled
    <2>4. Good(after[k], k)
      BY <1>2, <2>2, <2>3
    <2> QED BY <2>4
  <1>5. l \in T
    <2> HIDE DEF T
    <2>1. 0 .. l \subseteq T
      BY <1>3, <1>4, <1>a, UpTo
    <2> QED BY <1>a, <2>1
  <1>6. CASE consumer.in_recovery
    BY <1>2, <1>5, <1>6
  <1>7. CASE ~consumer.in_recovery
    <2>1. consumer.snapshot_queued = NoMsgs
      BY <1>7, <1>a DEF Synced
    <2> QED BY <1>2, <1>7, <1>a, <2>1 DEF SnapshotPart
  <1> QED BY <1>6, <1>7

-----------------------------------------------------------------------------
(* What is said of the updates published so far stays true of more of them. *)
LEMMA SeqOfMore == ASSUME NEW S, NEW T, S \subseteq T PROVE Seq(S) \subseteq Seq(T)
  <1> SUFFICES ASSUME NEW s \in Seq(S) PROVE s \in Seq(T)
    OBVIOUS
  <1>1. Len(s) \in Nat /\ s \in [1 .. Len(s) -> S]
    BY LenProperties
  <1>2. s \in [1 .. Len(s) -> T]
    BY <1>1
  <1> QED BY <1>1, <1>2

LEMMA Grows ==
    ASSUME NEW h, IsHistory(h), NEW e \in Published, IsFiniteSet(e.book),
           e.book = Apply(Book(h, Len(h)), e), NEW g, g = Append(h, e)
    PROVE  /\ IsHistory(g) /\ Len(g) = Len(h) + 1
           /\ \A n \in 1 .. Len(h) : g[n] = h[n]
           /\ \A n \in 0 .. Len(h) : Book(g, n) = Book(h, n)
           /\ Incremental(h) \subseteq Incremental(g)
           /\ Msg(Len(h) + 1, e) \in Incremental(g)
  <1>l. PICK l \in Nat : l = Len(h)
    BY DEF IsHistory
  <1>0. h \in Seq(Published)
    BY DEF IsHistory
  <1>1. g \in Seq(Published) /\ Len(g) = l + 1 /\ g[l + 1] = e /\ \A n \in 1 .. l : g[n] = h[n]
    BY <1>0, <1>l
  <1>2. \A n \in 0 .. l : Book(g, n) = Book(h, n)
    BY <1>1 DEF Book
  <1>3. ASSUME NEW n \in 1 .. l + 1
        PROVE  IsFiniteSet(g[n].book) /\ g[n].book = Apply(Book(g, n - 1), g[n])
    <2>1. n - 1 \in 0 .. l
      OBVIOUS
    <2>2. Book(g, n - 1) = Book(h, n - 1)
      BY <1>2, <2>1
    <2>3. CASE n = l + 1
      BY <1>1, <1>l, <2>2, <2>3
    <2>4. CASE n # l + 1
      <3>1. n \in 1 .. l
        BY <2>4
      <3> QED BY <1>1, <1>l, <2>2, <3>1 DEF IsHistory
    <2> QED BY <2>3, <2>4
  <1>4. IsHistory(g)
    BY <1>1, <1>3 DEF IsHistory
  <1>5. Incremental(h) \subseteq Incremental(g)
    <2>1. \A n \in 1 .. l : n \in 1 .. l + 1
      OBVIOUS
    <2> QED BY <1>1, <1>l, <2>1 DEF Incremental
  <1>6. Msg(l + 1, e) \in Incremental(g)
    <2>1. l + 1 \in 1 .. l + 1
      OBVIOUS
    <2> QED BY <1>1, <2>1 DEF Incremental
  <1> QED BY <1>l, <1>1, <1>2, <1>4, <1>5, <1>6

LEMMA StaysSynced ==
    ASSUME NEW h, NEW g, NEW c, Len(h) \in Nat, Len(g) = Len(h) + 1, Synced(c, h),
           \A n \in 1 .. Len(h) : g[n] = h[n],
           \A n \in 0 .. Len(h) : Book(g, n) = Book(h, n)
    PROVE  Synced(c, g)
  <1>1. \A n \in 1 .. Len(h) : n \in 1 .. Len(g)
    OBVIOUS
  <1>2. c.applied \in 0 .. Len(g) /\ c.book = Book(g, c.applied)
    BY DEF Synced
  <1>3. Queued(c.incremental_queued, g)
    BY <1>1 DEF Synced, Queued
  <1> QED BY <1>2, <1>3 DEF Synced

-----------------------------------------------------------------------------
(* The datagrams of the last snapshot that are under way, and what of it    *)
(* is queued.                                                               *)
UnderWay(net, queued, h, last, n, msgs, j) ==
    /\ last \in 0 .. Len(h) /\ IsSnapshot(msgs, Book(h, last), last, n)
    /\ j \in 0 .. n + 1
    /\ net = SubSeq(snapshotDatagrams(msgs), j + 1, n + 1)
    /\ SnapshotPart(queued, msgs, Sent(j))

SnapshotUnderWay(net, queued, h) ==
    \E last, n, msgs, j : UnderWay(net, queued, h, last, n, msgs, j)

IInv ==
    /\ IsHistory(history)
    /\ outbound \in Seq(Incremental(history))
    /\ inc_net \in Seq(Seq(Incremental(history)))
    /\ synth.last_inc_seq_num \in 0 .. Len(history)
    /\ synth.orders = Book(history, synth.last_inc_seq_num)
    /\ Synced(consumer, history)
    /\ SnapshotUnderWay(snap_net, consumer.snapshot_queued, history)

LEMMA SnapshotGrows ==
    ASSUME NEW h, NEW g, NEW net, NEW queued, Len(h) \in Nat, Len(g) = Len(h) + 1,
           \A n \in 0 .. Len(h) : Book(g, n) = Book(h, n), SnapshotUnderWay(net, queued, h)
    PROVE  SnapshotUnderWay(net, queued, g)
  <1>1. PICK last, n, msgs, j : UnderWay(net, queued, h, last, n, msgs, j)
    BY DEF SnapshotUnderWay
  <1>2. last \in 0 .. Len(g) /\ Book(g, last) = Book(h, last)
    BY <1>1 DEF UnderWay
  <1>3. UnderWay(net, queued, g, last, n, msgs, j)
    BY <1>1, <1>2 DEF UnderWay
  <1> QED BY <1>3 DEF SnapshotUnderWay

(* A snapshot as it is sent. *)
LEMMA SnapshotBegins ==
    ASSUME NEW h, IsHistory(h), NEW last \in 0 .. Len(h), NEW queued, queued = NoMsgs
    PROVE  SnapshotUnderWay(snapshotDatagrams(snapshotMsgs(Book(h, last), last)), queued, h)
  <1>m. PICK msgs : msgs = snapshotMsgs(Book(h, last), last)
    OBVIOUS
  <1>n. PICK n : n = Cardinality(Book(h, last))
    OBVIOUS
  <1>1. last \in Nat /\ Book(h, last) \in SUBSET Nat /\ IsFiniteSet(Book(h, last))
    BY BookIs DEF IsHistory
  <1>2. IsSnapshot(msgs, Book(h, last), last, n)
    BY <1>1, <1>m, <1>n, SnapshotIs
  <1>3. n \in Nat /\ msgs \in Seq(Message) /\ Len(msgs) = n + 3
    BY <1>2 DEF IsSnapshot
  <1>4. snapshotDatagrams(msgs) \in Seq(Seq(Message)) /\ Len(snapshotDatagrams(msgs)) = n + 1
    BY <1>3, DatagramsAre
  <1>5. snapshotDatagrams(msgs) = SubSeq(snapshotDatagrams(msgs), 0 + 1, n + 1)
    BY <1>3, <1>4, SubSeqFull
  <1>6. 0 \in 0 .. n + 1
    BY <1>3
  <1>7. SnapshotPart(queued, msgs, Sent(0))
    BY DEF SnapshotPart
  <1>8. UnderWay(snapshotDatagrams(msgs), queued, h, last, n, msgs, 0)
    BY <1>2, <1>5, <1>6, <1>7 DEF UnderWay
  <1> QED BY <1>m, <1>8 DEF SnapshotUnderWay

(* The datagram that arrives next, and the ones that are left. *)
LEMMA NextDatagram ==
    ASSUME NEW net, NEW queued, NEW h, NEW last, NEW n, NEW msgs, NEW j,
           UnderWay(net, queued, h, last, n, msgs, j), net # <<>>
    PROVE  /\ n \in Nat /\ j \in 0 .. n
           /\ Tail(net) = SubSeq(snapshotDatagrams(msgs), (j + 1) + 1, n + 1)
           /\ Len(Head(net)) = Sent(j + 1) - Sent(j)
           /\ \A i \in 1 .. Len(Head(net)) : Head(net)[i] = msgs[Sent(j) + i]
  <1>D. PICK D : D = snapshotDatagrams(msgs)
    OBVIOUS
  <1>1. n \in Nat /\ msgs \in Seq(Message) /\ Len(msgs) = n + 3
    BY DEF UnderWay, IsSnapshot
  <1>2. /\ D \in Seq(Seq(Message)) /\ Len(D) = n + 1
        /\ \A k \in 1 .. n + 1 :
             /\ Len(D[k]) = Sent(k) - Sent(k - 1)
             /\ \A i \in 1 .. Len(D[k]) : D[k][i] = msgs[Sent(k - 1) + i]
    BY <1>D, <1>1, DatagramsAre
  <1>3. j \in 0 .. n + 1 /\ net = SubSeq(D, j + 1, n + 1)
    BY <1>D DEF UnderWay
  <1>4. j # n + 1
    <2> SUFFICES ASSUME j = n + 1 PROVE FALSE
      OBVIOUS
    <2>1. n + 1 < j + 1 /\ j + 1 \in Int /\ n + 1 \in Int
      BY <1>1
    <2> QED BY <1>3, <2>1, SubSeqEmpty
  <1>5. j \in 0 .. n /\ j + 1 \in 1 .. Len(D) /\ n + 1 \in j + 1 .. Len(D)
    BY <1>1, <1>2, <1>3, <1>4
  <1>6. Head(net) = D[j + 1] /\ Tail(net) = SubSeq(D, (j + 1) + 1, n + 1)
    BY <1>2, <1>3, <1>5, HeadTailOfSubSeq
  <1>7. j + 1 \in 1 .. n + 1 /\ (j + 1) - 1 = j
    BY <1>1, <1>5
  <1> QED BY <1>1, <1>2, <1>5, <1>6, <1>7, <1>D

-----------------------------------------------------------------------------
(* One step per action. *)
LEMMA InitHolds == Init => IInv
  <1> SUFFICES ASSUME Init PROVE IInv
    OBVIOUS
  <1>1. /\ history = <<>> /\ outbound = <<>> /\ inc_net = <<>> /\ snap_net = <<>>
        /\ synth = [orders |-> {}, last_inc_seq_num |-> 0]
        /\ consumer = Record(1, FALSE, NoMsgs, NoMsgs, {}, 0)
    BY DEF Init, Record
  <1>2. history \in Seq(Published) /\ Len(history) = 0 /\ 1 .. Len(history) = {}
    BY <1>1
  <1>3. IsHistory(history)
    BY <1>2 DEF IsHistory
  <1>4. outbound \in Seq(Incremental(history)) /\ inc_net \in Seq(Seq(Incremental(history)))
    BY <1>1
  <1>5. 0 \in 0 .. Len(history) /\ Book(history, 0) = {}
    BY <1>2 DEF Book
  <1>6. /\ synth.last_inc_seq_num \in 0 .. Len(history)
        /\ synth.orders = Book(history, synth.last_inc_seq_num)
    BY <1>1, <1>5
  <1>7. /\ IsConsumer(consumer) /\ consumer.next_exp_inc_seq_num = 1
        /\ consumer.in_recovery = FALSE /\ consumer.snapshot_queued = NoMsgs
        /\ consumer.incremental_queued = NoMsgs
        /\ consumer.book = {} /\ consumer.applied = 0
    BY <1>1 DEF Record, IsConsumer
  <1>8. Synced(consumer, history)
    <2>1. consumer.applied \in 0 .. Len(history) /\ consumer.book = Book(history, consumer.applied)
      BY <1>5, <1>7
    <2>2. consumer.applied = consumer.next_exp_inc_seq_num - 1 /\ consumer.next_exp_inc_seq_num \in Nat
      BY <1>7
    <2>3. consumer.in_recovery \in BOOLEAN
      BY <1>7
    <2>4. Queued(consumer.incremental_queued, history)
      BY <1>7, NoMsgsQueued
    <2> QED BY <1>7, <2>1, <2>2, <2>3, <2>4 DEF Synced
  <1>9. SnapshotUnderWay(snap_net, consumer.snapshot_queued, history)
    <2>m. PICK msgs : msgs = snapshotMsgs({}, 0)
      OBVIOUS
    <2>1. Cardinality({}) = 0 /\ IsFiniteSet({}) /\ {} \in SUBSET Nat
      BY FS_EmptySet
    <2>2. IsSnapshot(msgs, {}, 0, 0)
      BY <2>m, <2>1, SnapshotIs
    <2>3. <<>> = SubSeq(snapshotDatagrams(msgs), 1 + 1, 0 + 1)
      <3>1. 0 + 1 < 1 + 1 /\ 1 + 1 \in Int /\ 0 + 1 \in Int
        OBVIOUS
      <3> QED BY <3>1, SubSeqEmpty
    <2>4. SnapshotPart(NoMsgs, msgs, Sent(1)) /\ 1 \in 0 .. 0 + 1
      BY DEF SnapshotPart
    <2>5. UnderWay(<<>>, NoMsgs, history, 0, 0, msgs, 1)
      BY <1>5, <2>2, <2>3, <2>4 DEF UnderWay
    <2> QED BY <1>1, <1>7, <2>5 DEF SnapshotUnderWay
  <1> QED BY <1>3, <1>4, <1>6, <1>8, <1>9 DEF IInv

(* A new update makes the history longer and is told to everybody. *)
LEMMA Publishes ==
    ASSUME IsHistory(history), outbound \in Seq(Incremental(history)),
           inc_net \in Seq(Seq(Incremental(history))), PublishIncremental
    PROVE  /\ IsHistory(history') /\ Len(history') = Len(history) + 1
           /\ \A n \in 1 .. Len(history) : history'[n] = history[n]
           /\ \A n \in 0 .. Len(history) : Book(history', n) = Book(history, n)
           /\ outbound' \in Seq(Incremental(history')) /\ inc_net' \in Seq(Seq(Incremental(history')))
           /\ \E m \in Incremental(history') :
                m.seq_num = Len(history) + 1 /\ outbound' = Append(outbound, m)
           /\ UNCHANGED <<synth, inc_net, snap_net, consumer>>
  <1>h. PICK h : h = history
    OBVIOUS
  <1>l. PICK l \in Nat : l = Len(h)
    BY <1>h DEF IsHistory
  <1>1. PICK u \in NextUpdates :
          /\ history' = Append(h, [type |-> u.type, order_id |-> u.order_id,
                                   book |-> Apply(BookAfter(l), u)])
          /\ outbound' = Append(outbound, Msg(l + 1, u))
    BY <1>h, <1>l DEF PublishIncremental
  <1>2. UNCHANGED <<synth, inc_net, snap_net, consumer>>
    BY DEF PublishIncremental
  <1>b. PICK b : b = Book(h, l)
    OBVIOUS
  <1>3. BookAfter(l) = b /\ IsHistory(h)
    BY <1>b, <1>h DEF BookAfter, Book
  <1>4. b \in SUBSET Nat /\ IsFiniteSet(b)
    BY <1>b, <1>3, <1>l, BookIs
  <1>5. u.type \in Types /\ u.order_id \in Nat
    <2> DEFINE used == {h[n].order_id : n \in DOMAIN h}
    <2>1. IsFiniteSet(used) /\ Cardinality(used) \in Nat
      <3> DEFINE f == [n \in 1 .. l |-> h[n].order_id]
      <3>1. DOMAIN h = 1 .. l
        BY <1>3, <1>l DEF IsHistory
      <3>2. f \in Surjection(1 .. l, used)
        BY <3>1 DEF Surjection
      <3>3. IsFiniteSet(1 .. l)
        BY FS_Interval
      <3> HIDE DEF used, f
      <3>4. IsFiniteSet(used)
        BY <3>2, <3>3, FS_Surjection
      <3> QED BY <3>4, FS_CardinalityType
    <2>2. \/ u = Update("ADD", Cardinality(used) + 1)
          \/ \E i \in b : u = Update("CANCEL", i)
      BY <1>h, <1>l, <1>3 DEF NextUpdates
    <2> HIDE DEF used
    <2>3. Cardinality(used) + 1 \in Nat
      BY <2>1
    <2> QED BY <1>4, <2>2, <2>3 DEF Update, Types
  <1>e. PICK e : e = [type |-> u.type, order_id |-> u.order_id, book |-> Apply(b, u)]
    OBVIOUS
  <1>6. e.type = u.type /\ e.order_id = u.order_id /\ e.book = Apply(b, u)
    BY <1>e
  <1>7. e.book \in SUBSET Nat /\ IsFiniteSet(e.book) /\ e.book = Apply(b, e)
    <2>1. e.book = Apply(b, e)
      BY <1>6 DEF Apply
    <2>2. Apply(b, u) \in {{}, b, b \cup {u.order_id}, b \ {u.order_id}}
      BY DEF Apply
    <2>3. IsFiniteSet(b \cup {u.order_id}) /\ IsFiniteSet(b \ {u.order_id}) /\ IsFiniteSet({})
      BY <1>4, FS_AddElement, FS_RemoveElement, FS_EmptySet
    <2> QED BY <1>4, <1>5, <1>6, <2>1, <2>2, <2>3
  <1>8. e \in Published
    BY <1>5, <1>6, <1>7, <1>e DEF Published
  <1>g. PICK g : g = Append(h, e)
    OBVIOUS
  <1>9. history' = g
    BY <1>1, <1>3, <1>e, <1>g
  <1>10. /\ IsHistory(g) /\ Len(g) = Len(h) + 1
         /\ \A n \in 1 .. Len(h) : g[n] = h[n]
         /\ \A n \in 0 .. Len(h) : Book(g, n) = Book(h, n)
         /\ Incremental(h) \subseteq Incremental(g)
         /\ Msg(Len(h) + 1, e) \in Incremental(g)
    BY <1>3, <1>7, <1>8, <1>b, <1>g, <1>l, Grows
  <1>11. outbound' \in Seq(Incremental(g)) /\ inc_net' \in Seq(Seq(Incremental(g)))
    <2>1. outbound \in Seq(Incremental(h)) /\ inc_net \in Seq(Seq(Incremental(h)))
      BY <1>h
    <2>2. Seq(Incremental(h)) \subseteq Seq(Incremental(g))
      BY <1>10, SeqOfMore
    <2>3. Seq(Seq(Incremental(h))) \subseteq Seq(Seq(Incremental(g)))
      BY <2>2, SeqOfMore
    <2>4. Msg(l + 1, u) = Msg(l + 1, e)
      BY <1>6 DEF Msg
    <2>5. outbound \in Seq(Incremental(g)) /\ Msg(l + 1, u) \in Incremental(g)
      BY <1>10, <1>l, <2>1, <2>2, <2>4
    <2>6. Append(outbound, Msg(l + 1, u)) \in Seq(Incremental(g))
      BY <2>5
    <2> QED BY <1>1, <1>2, <2>1, <2>3, <2>6
  <1>12. \E m \in Incremental(g) : m.seq_num = Len(h) + 1 /\ outbound' = Append(outbound, m)
    <2>m. PICK m : m = Msg(l + 1, e)
      OBVIOUS
    <2>1. m \in Incremental(g) /\ m.seq_num = Len(h) + 1
      BY <1>10, <1>l, <2>m DEF Msg
    <2>2. outbound' = Append(outbound, m)
      BY <1>1, <1>6, <2>m DEF Msg
    <2> QED BY <2>1, <2>2
  <1> QED BY <1>2, <1>9, <1>10, <1>11, <1>12, <1>h

LEMMA PublishIncrementalKeeps == IInv /\ PublishIncremental => IInv'
  <1> SUFFICES ASSUME IInv, PublishIncremental PROVE IInv'
    OBVIOUS
  <1>h. PICK h : h = history
    OBVIOUS
  <1>g. PICK g : g = history'
    OBVIOUS
  <1>l. PICK l \in Nat : l = Len(h)
    BY <1>h DEF IInv, IsHistory
  <1>1. /\ IsHistory(g) /\ Len(g) = l + 1
        /\ \A n \in 1 .. l : g[n] = h[n]
        /\ \A n \in 0 .. l : Book(g, n) = Book(h, n)
        /\ outbound' \in Seq(Incremental(g)) /\ inc_net' \in Seq(Seq(Incremental(g)))
        /\ UNCHANGED <<synth, inc_net, snap_net, consumer>>
    BY <1>g, <1>h, <1>l, Publishes DEF IInv
  <1>2. /\ synth'.last_inc_seq_num \in 0 .. Len(g)
        /\ synth'.orders = Book(g, synth'.last_inc_seq_num)
    <2>1. synth.last_inc_seq_num \in 0 .. l /\ synth.orders = Book(h, synth.last_inc_seq_num)
      BY <1>h, <1>l DEF IInv
    <2>2. 0 .. l \subseteq 0 .. Len(g)
      BY <1>1, <1>l
    <2> QED BY <1>1, <2>1, <2>2
  <1>3. Synced(consumer', g)
    <2>1. Synced(consumer, h)
      BY <1>h DEF IInv
    <2>2. Synced(consumer, g)
      BY <1>1, <1>l, <2>1, StaysSynced
    <2> QED BY <1>1, <2>2
  <1>4. SnapshotUnderWay(snap_net', consumer'.snapshot_queued, g)
    <2>1. SnapshotUnderWay(snap_net, consumer.snapshot_queued, h)
      BY <1>h DEF IInv
    <2>2. SnapshotUnderWay(snap_net, consumer.snapshot_queued, g)
      BY <1>1, <1>l, <2>1, SnapshotGrows
    <2> QED BY <1>1, <2>2
  <1> QED BY <1>1, <1>2, <1>3, <1>4, <1>g DEF IInv

LEMMA SendIncrementalKeeps == IInv /\ SendIncremental => IInv'
  <1> SUFFICES ASSUME IInv, SendIncremental PROVE IInv'
    OBVIOUS
  <1>1. UNCHANGED <<history, synth, snap_net, consumer>>
    BY DEF SendIncremental
  <1>2. inc_net' = Append(inc_net, outbound) /\ outbound' = <<>>
    BY DEF SendIncremental
  <1>3. outbound' \in Seq(Incremental(history)) /\ inc_net' \in Seq(Seq(Incremental(history)))
    <2>1. outbound \in Seq(Incremental(history)) /\ inc_net \in Seq(Seq(Incremental(history)))
      BY DEF IInv
    <2> QED BY <1>2, <2>1
  <1> QED BY <1>1, <1>3 DEF IInv

LEMMA AddToSnapshotKeeps == IInv /\ AddToSnapshot => IInv'
  <1> SUFFICES ASSUME IInv, AddToSnapshot PROVE IInv'
    OBVIOUS
  <1>1. UNCHANGED <<history, outbound, inc_net, snap_net, consumer>>
    BY DEF AddToSnapshot
  <1>n. PICK n : n = synth.last_inc_seq_num + 1
    OBVIOUS
  <1>2. /\ synth.last_inc_seq_num < Len(history)
        /\ synth' = [orders |-> Apply(synth.orders, history[n]), last_inc_seq_num |-> n]
    BY <1>n DEF AddToSnapshot
  <1>3. n \in 1 .. Len(history) /\ n # 0 /\ n \in 0 .. Len(history) /\ n - 1 = synth.last_inc_seq_num
    <2>1. Len(history) \in Nat /\ synth.last_inc_seq_num \in 0 .. Len(history)
      BY DEF IInv, IsHistory
    <2> QED BY <1>n, <1>2, <2>1
  <1>4. Apply(synth.orders, history[n]) = history[n].book
    BY <1>3 DEF IInv, IsHistory
  <1>5. synth'.last_inc_seq_num = n /\ synth'.orders = Book(history, n)
    BY <1>2, <1>3, <1>4 DEF Book
  <1> QED BY <1>1, <1>3, <1>5 DEF IInv

LEMMA PublishSnapshotKeeps == IInv /\ PublishSnapshot => IInv'
  <1> SUFFICES ASSUME IInv, PublishSnapshot PROVE IInv'
    OBVIOUS
  <1>1. UNCHANGED <<history, outbound, synth, inc_net, consumer>>
    BY DEF PublishSnapshot, exchangeVars
  <1>l. PICK last : last = synth.last_inc_seq_num
    OBVIOUS
  <1>2. last \in 0 .. Len(history) /\ synth.orders = Book(history, last) /\ IsHistory(history)
    BY <1>l DEF IInv
  <1>3. snap_net = <<>> /\ snap_net' = snapshotDatagrams(snapshotMsgs(Book(history, last), last))
    BY <1>l, <1>2 DEF PublishSnapshot
  <1>4. consumer.snapshot_queued = NoMsgs
    <2>1. PICK old, n, msgs, j : UnderWay(snap_net, consumer.snapshot_queued, history, old, n, msgs, j)
      BY DEF IInv, SnapshotUnderWay
    <2>2. n \in Nat /\ Len(msgs) = n + 3 /\ msgs \in Seq(Message) /\ j \in 0 .. n + 1
      BY <2>1 DEF UnderWay, IsSnapshot
    <2>3. j = n + 1
      <3> SUFFICES ASSUME j # n + 1 PROVE FALSE
        OBVIOUS
      <3>1. snapshotDatagrams(msgs) \in Seq(Seq(Message)) /\ Len(snapshotDatagrams(msgs)) = n + 1
        BY <2>2, DatagramsAre
      <3>2. snap_net = SubSeq(snapshotDatagrams(msgs), j + 1, n + 1)
        BY <2>1 DEF UnderWay
      <3>3. j + 1 \in Int /\ n + 1 \in Int /\ j + 1 <= n + 1 /\ n + 1 - (j + 1) + 1 # 0
        BY <2>2
      <3>4. \A i \in j + 1 .. n + 1 : i \in 1 .. Len(snapshotDatagrams(msgs))
        BY <2>2, <3>1
      <3>5. \A i \in j + 1 .. n + 1 : snapshotDatagrams(msgs)[i] \in Seq(Message)
        BY <3>1, <3>4
      <3>6. Len(snap_net) = n + 1 - (j + 1) + 1
        <4>D. PICK D : D = snapshotDatagrams(msgs)
          OBVIOUS
        <4>1. PICK a \in Int, b \in Int : a = j + 1 /\ b = n + 1
          BY <3>3
        <4>2. a <= b /\ \A i \in a .. b : D[i] \in Seq(Message)
          BY <3>3, <3>5, <4>1, <4>D
        <4>3. Len(SubSeq(D, a, b)) = b - a + 1
          BY <4>2, SubSeqProperties
        <4>4. snap_net = SubSeq(D, a, b)
          BY <3>2, <4>1, <4>D
        <4> QED BY <2>2, <4>1, <4>3, <4>4
      <3>7. Len(snap_net) = 0
        BY <1>3
      <3> QED BY <3>3, <3>6, <3>7
    <2>4. Sent(j) = n + 3
      BY <2>2, <2>3 DEF Sent
    <2>5. Sent(j) \notin 1 .. Len(msgs) - 1
      BY <2>2, <2>4
    <2> QED BY <2>1, <2>5 DEF UnderWay, SnapshotPart
  <1>5. SnapshotUnderWay(snap_net', consumer.snapshot_queued, history)
    BY <1>2, <1>3, <1>4, SnapshotBegins
  <1> QED BY <1>1, <1>5 DEF IInv

LEMMA ReceiveIncrementalKeeps ==
    ASSUME NEW k, IInv, ReceiveIncremental(k) PROVE IInv'
  <1>1. UNCHANGED <<history, outbound, synth, snap_net>>
    BY DEF ReceiveIncremental, exchangeVars
  <1>I. PICK I : I = Incremental(history)
    OBVIOUS
  <1>d. PICK d : d = inc_net[k]
    OBVIOUS
  <1>2. /\ k \in DOMAIN inc_net /\ consumer' = recvCallback(FALSE, d)
        /\ inc_net' = RemoveAt(inc_net, k)
    BY <1>d DEF ReceiveIncremental
  <1>3. inc_net \in Seq(Seq(I))
    BY <1>I DEF IInv
  <1>4. k \in 1 .. Len(inc_net) /\ d \in Seq(I)
    BY <1>2, <1>3, <1>d
  <1>5. inc_net' \in Seq(Seq(I))
    <2>1. Len(inc_net) \in Nat /\ k \in Int
      BY <1>3, <1>4
    <2>2. SubSeq(inc_net, 1, k - 1) \in Seq(Seq(I))
      <3>1. \A i \in 1 .. k - 1 : i \in 1 .. Len(inc_net)
        BY <1>4, <2>1
      <3>2. \A i \in 1 .. k - 1 : inc_net[i] \in Seq(I)
        BY <1>3, <3>1
      <3>3. 1 \in Int /\ k - 1 \in Int
        BY <2>1
      <3> QED BY <3>2, <3>3, SubSeqProperties
    <2>3. SubSeq(inc_net, k + 1, Len(inc_net)) \in Seq(Seq(I))
      <3>1. \A i \in k + 1 .. Len(inc_net) : i \in 1 .. Len(inc_net)
        BY <1>4, <2>1
      <3>2. \A i \in k + 1 .. Len(inc_net) : inc_net[i] \in Seq(I)
        BY <1>3, <3>1
      <3>3. k + 1 \in Int /\ Len(inc_net) \in Int
        BY <2>1
      <3> QED BY <3>2, <3>3, SubSeqProperties
    <2> QED BY <1>2, <2>2, <2>3, ConcatProperties DEF RemoveAt
  <1>u. PICK last, n, msgs, j : UnderWay(snap_net, consumer.snapshot_queued, history, last, n, msgs, j)
    BY DEF IInv, SnapshotUnderWay
  <1>6. /\ last \in 0 .. Len(history) /\ IsSnapshot(msgs, Book(history, last), last, n)
        /\ n \in Nat /\ j \in 0 .. n + 1
        /\ SnapshotPart(consumer.snapshot_queued, msgs, Sent(j))
    BY <1>u DEF UnderWay, IsSnapshot
  <1>7. Sent(j) \in 0 .. n + 3
    BY <1>6 DEF Sent
  <1>8. IsHistory(history) /\ Synced(consumer, history) /\ d \in Seq(Incremental(history))
    BY <1>4, <1>I DEF IInv
  <1>9. Synced(consumer', history) /\ SnapshotPart(consumer'.snapshot_queued, msgs, Sent(j))
    BY <1>2, <1>6, <1>7, <1>8, IncrementalDatagram
  <1>10. UnderWay(snap_net, consumer'.snapshot_queued, history, last, n, msgs, j)
    BY <1>9, <1>u DEF UnderWay
  <1>11. SnapshotUnderWay(snap_net, consumer'.snapshot_queued, history)
    BY <1>10 DEF SnapshotUnderWay
  <1>12. inc_net' \in Seq(Seq(Incremental(history)))
    BY <1>5, <1>I
  <1> QED BY <1>1, <1>9, <1>11, <1>12 DEF IInv

LEMMA ReceiveSnapshotKeeps == IInv /\ ReceiveSnapshot => IInv'
  <1> SUFFICES ASSUME IInv, ReceiveSnapshot PROVE IInv'
    OBVIOUS
  <1>1. UNCHANGED <<history, outbound, synth, inc_net>>
    BY DEF ReceiveSnapshot, exchangeVars
  <1>d. PICK d : d = Head(snap_net)
    OBVIOUS
  <1>2. /\ snap_net # <<>> /\ consumer' = recvCallback(TRUE, d)
        /\ snap_net' = Tail(snap_net)
    BY <1>d DEF ReceiveSnapshot
  <1>u. PICK last, n, msgs, j : UnderWay(snap_net, consumer.snapshot_queued, history, last, n, msgs, j)
    BY DEF IInv, SnapshotUnderWay
  <1>3. /\ n \in Nat /\ j \in 0 .. n
        /\ Tail(snap_net) = SubSeq(snapshotDatagrams(msgs), (j + 1) + 1, n + 1)
        /\ Len(d) = Sent(j + 1) - Sent(j)
        /\ \A i \in 1 .. Len(d) : d[i] = msgs[Sent(j) + i]
    BY <1>2, <1>d, <1>u, NextDatagram, SMTT(20)
  <1>4. /\ last \in 0 .. Len(history) /\ IsSnapshot(msgs, Book(history, last), last, n)
        /\ SnapshotPart(consumer.snapshot_queued, msgs, Sent(j))
    BY <1>u DEF UnderWay
  <1>p. PICK p : p = Sent(j)
    OBVIOUS
  <1>l. PICK l : l = Len(d)
    OBVIOUS
  <1>5. p \in Nat /\ l \in Nat /\ p + l = Sent(j + 1) /\ p + l <= n + 3
    <2>1. Sent(j + 1) = j + 3
      BY <1>3 DEF Sent
    <2>2. p \in Nat /\ p <= j + 3
      BY <1>3, <1>p DEF Sent
    <2>3. l = j + 3 - p
      <3>1. l = Sent(j + 1) - p
        BY <1>3, <1>l, <1>p
      <3>2. j \in Int
        BY <1>3
      <3> QED BY <2>1, <2>2, <3>1, <3>2
    <2>4. j \in Nat /\ j <= n /\ n \in Nat
      BY <1>3
    <2>5. l \in Nat
      BY <2>2, <2>3, <2>4
    <2>6. p + l = j + 3 /\ j + 3 <= n + 3
      BY <2>2, <2>3, <2>4
    <2> QED BY <2>1, <2>2, <2>5, <2>6
  <1>6. IsHistory(history) /\ Synced(consumer, history)
    BY DEF IInv
  <1>7. \A i \in 1 .. l : d[i] = msgs[p + i]
    BY <1>3, <1>l, <1>p
  <1>8. Synced(consumer', history) /\ SnapshotPart(consumer'.snapshot_queued, msgs, p + l)
    <2>1. SnapshotPart(consumer.snapshot_queued, msgs, p) /\ Len(d) = l
      BY <1>4, <1>l, <1>p
    <2>2. /\ Synced(recvCallback(TRUE, d), history)
          /\ SnapshotPart(recvCallback(TRUE, d).snapshot_queued, msgs, p + l)
      <3>1. Arrives(history, last, n, msgs, p, d, l)
        BY <1>4, <1>5, <1>6, <1>7, <2>1, Zenon DEF Arrives
      <3> QED BY <3>1, SnapshotDatagram
    <2> QED BY <1>2, <2>2
  <1>9. UnderWay(snap_net', consumer'.snapshot_queued, history, last, n, msgs, j + 1)
    <2>1. j + 1 \in 0 .. n + 1
      BY <1>3
    <2> QED BY <1>2, <1>3, <1>4, <1>5, <1>8, <2>1 DEF UnderWay
  <1>10. SnapshotUnderWay(snap_net', consumer'.snapshot_queued, history)
    BY <1>9 DEF SnapshotUnderWay
  <1> QED BY <1>1, <1>8, <1>10 DEF IInv

LEMMA LoseIncrementalKeeps == IInv /\ LoseIncremental => IInv'
  <1> SUFFICES ASSUME IInv, LoseIncremental PROVE IInv'
    OBVIOUS
  <1>1. UNCHANGED <<history, outbound, synth, snap_net, consumer>>
    BY DEF LoseIncremental, exchangeVars
  <1>2. inc_net # <<>> /\ inc_net' = Tail(inc_net)
    BY DEF LoseIncremental
  <1>3. inc_net' \in Seq(Seq(Incremental(history)))
    <2>1. inc_net \in Seq(Seq(Incremental(history)))
      BY DEF IInv
    <2> QED BY <1>2, <2>1, HeadTailProperties
  <1> QED BY <1>1, <1>3 DEF IInv

(* Whatever incremental datagrams are lost or come late: the client's book  *)
(* is one the exchange's book has been, and out of recovery the one before  *)
(* the update expected next, so long as no datagram of a snapshot is lost.  *)
(* MarketDataConsumer::recvCallback, queueMessage, checkSnapshotSync        *)
THEOREM BookInSyncHolds == ~LosesSnapshots /\ Spec => []BookInSync
  <1> SUFFICES ASSUME ~LosesSnapshots PROVE Spec => []BookInSync
    OBVIOUS
  <1>1. Init => IInv
    BY InitHolds
  <1>2. IInv /\ [Next]_vars => IInv'
    <2> SUFFICES ASSUME IInv, [Next]_vars PROVE IInv'
      OBVIOUS
    <2>1. CASE PublishIncremental
      BY <2>1, PublishIncrementalKeeps
    <2>2. CASE SendIncremental
      BY <2>2, SendIncrementalKeeps
    <2>3. CASE AddToSnapshot
      BY <2>3, AddToSnapshotKeeps
    <2>4. CASE PublishSnapshot
      BY <2>4, PublishSnapshotKeeps
    <2>5. CASE ReceiveSomeIncremental
      BY <2>5, ReceiveIncrementalKeeps DEF ReceiveSomeIncremental
    <2>6. CASE ReceiveSnapshot
      BY <2>6, ReceiveSnapshotKeeps
    <2>7. CASE LoseIncremental
      BY <2>7, LoseIncrementalKeeps
    <2>8. CASE LoseSnapshot
      BY <2>8 DEF LoseSnapshot
    <2>9. CASE UNCHANGED vars
      BY <2>9 DEF vars, exchangeVars, IInv
    <2> QED BY <2>1, <2>2, <2>3, <2>4, <2>5, <2>6, <2>7, <2>8, <2>9 DEF Next
  <1>3. IInv => BookInSync
    <2> SUFFICES ASSUME IInv PROVE BookInSync
      OBVIOUS
    <2>1. Synced(consumer, history)
      BY DEF IInv
    <2>2. BookAfter(consumer.applied) = Book(history, consumer.applied)
      BY DEF BookAfter, Book
    <2> QED BY <2>1, <2>2 DEF Synced, BookInSync
  <1> QED BY <1>1, <1>2, <1>3, PTL DEF Spec

-----------------------------------------------------------------------------
(***************************************************************************)
(* Never back to an older book, while nothing is reordered.  Snapshots may *)
(* lose datagrams here, so nothing is said of what the book is.            *)
(***************************************************************************)
NoEnd(queued) ==
    /\ IsFiniteSet(DOMAIN queued)
    /\ \A k \in DOMAIN queued : queued[k].type # "SNAPSHOT_END"

(* The beginning of a snapshot. *)
Prefix(queued) == \E n \in Nat : DOMAIN queued = 0 .. n - 1

Follows(c, h) ==
    /\ IsConsumer(c)
    /\ c.next_exp_inc_seq_num \in Nat /\ c.in_recovery \in BOOLEAN
    /\ c.applied \in 0 .. Len(h)
    /\ ~c.in_recovery => c.applied = c.next_exp_inc_seq_num - 1
    /\ Queued(c.incremental_queued, h) /\ NoEnd(c.snapshot_queued)

(* This holds of a consumer after every check. *)
Tracks(c, h) == Follows(c, h) /\ Prefix(c.snapshot_queued)

(* No update after number t has been queued. *)
Seen(c, t) == \A k \in DOMAIN c.incremental_queued : k <= t

(* What is still to come is newer than the client's book, and so is one of  *)
(* the updates that are queued.                                             *)
Ahead(c, t) ==
    /\ c.applied <= t
    /\ c.in_recovery => \E k \in DOMAIN c.incremental_queued : k > c.applied

(* Or else the next snapshot is at least as new as the client's book. *)
Sided(c, t, last) == Ahead(c, t) \/ c.applied <= last

LEMMA NoMsgsNoEnd == NoEnd(NoMsgs) /\ Prefix(NoMsgs)
  <1>1. DOMAIN NoMsgs = {}
    BY DEF NoMsgs
  <1>2. NoEnd(NoMsgs)
    BY <1>1, FS_EmptySet DEF NoEnd
  <1>3. 0 \in Nat /\ 0 .. 0 - 1 = {}
    OBVIOUS
  <1>4. Prefix(NoMsgs)
    BY <1>1, <1>3 DEF Prefix
  <1> QED BY <1>2, <1>4

(* The queue is gapless: its last message is there. *)
LEMMA GaplessEnd ==
    ASSUME NEW q, IsFiniteSet(DOMAIN q), Gapless(q), Cardinality(DOMAIN q) - 1 # -1
    PROVE  Cardinality(DOMAIN q) - 1 \in DOMAIN q
  <1>n. PICK n \in Nat : n = Cardinality(DOMAIN q)
    BY FS_CardinalityType
  <1>1. n # 0
    BY <1>n
  <1>2. n - 1 \in 0 .. n - 1
    BY <1>1
  <1> QED BY <1>2, <1>n DEF Gapless

LEMMA Tracked ==
    ASSUME NEW h, NEW c, Follows(c, h), NEW q, NoEnd(q)
    PROVE  LET d == [c EXCEPT !.snapshot_queued = q]
           IN  /\ Follows(d, h) /\ d.in_recovery = c.in_recovery
               /\ d.incremental_queued = c.incremental_queued
               /\ d.snapshot_queued = q /\ d.applied = c.applied
  <1>1. c = Record(c.next_exp_inc_seq_num, c.in_recovery, c.snapshot_queued,
                   c.incremental_queued, c.book, c.applied)
    BY DEF Follows, IsConsumer
  <1>2. PICK d : d = [c EXCEPT !.snapshot_queued = q]
    OBVIOUS
  <1>3. d = Record(c.next_exp_inc_seq_num, c.in_recovery, q,
                   c.incremental_queued, c.book, c.applied)
    BY <1>1, <1>2 DEF Record
  <1>4. /\ IsConsumer(d) /\ d.next_exp_inc_seq_num = c.next_exp_inc_seq_num
        /\ d.in_recovery = c.in_recovery /\ d.snapshot_queued = q
        /\ d.incremental_queued = c.incremental_queued
        /\ d.book = c.book /\ d.applied = c.applied
    BY <1>3 DEF Record, IsConsumer
  <1>5. Follows(d, h)
    BY <1>4 DEF Follows
  <1> QED BY <1>2, <1>4, <1>5

(* What queueing an incremental message, or one of a snapshot that is not   *)
(* its end, leaves alone.                                                   *)
Waits(d, c, h) ==
    /\ Tracks(d, h) /\ d.in_recovery = c.in_recovery
    /\ d.incremental_queued = c.incremental_queued /\ d.applied = c.applied

LEMMA SyncWaits ==
    ASSUME NEW h, NEW c, Follows(c, h) PROVE Waits(checkSnapshotSync(c), c, h)
  <1>q. PICK q : q = c.snapshot_queued
    OBVIOUS
  <1>e. PICK end : end = Cardinality(DOMAIN q) - 1
    OBVIOUS
  <1>d. PICK d : d = [c EXCEPT !.snapshot_queued = NoMsgs]
    OBVIOUS
  <1>1. checkSnapshotSync(c) = IF end = -1 THEN c
                               ELSE IF ~Gapless(q) THEN d
                               ELSE IF q[end].type # "SNAPSHOT_END" THEN c
                               ELSE recover(c, end)
    BY <1>q, <1>e, <1>d DEF checkSnapshotSync
  <1>2. NoEnd(q)
    BY <1>q DEF Follows
  <1>3. end # -1 /\ Gapless(q) => q[end].type # "SNAPSHOT_END"
    BY <1>2, <1>e, GaplessEnd DEF NoEnd
  <1>4. \/ checkSnapshotSync(c) = c /\ (end = -1 \/ Gapless(q))
        \/ checkSnapshotSync(c) = d
    BY <1>1, <1>3
  <1>5. Waits(d, c, h)
    BY <1>d, NoMsgsNoEnd, Tracked DEF Waits, Tracks
  <1>6. ASSUME end = -1 \/ Gapless(q) PROVE Waits(c, c, h)
    <2>n. PICK n \in Nat : n = Cardinality(DOMAIN q)
      BY <1>2, FS_CardinalityType DEF NoEnd
    <2>1. CASE end = -1
      <3>1. n = 0
        BY <1>e, <2>n, <2>1
      <3>2. DOMAIN q = {}
        BY <1>2, <2>n, <3>1, FS_EmptySet DEF NoEnd
      <3>3. 0 \in Nat /\ DOMAIN q = 0 .. 0 - 1
        BY <3>2
      <3>4. Prefix(q)
        BY <3>3 DEF Prefix
      <3> QED BY <1>q, <3>4 DEF Waits, Tracks
    <2>2. CASE Gapless(q)
      <3>1. Prefix(q)
        BY <2>n, <2>2 DEF Prefix, Gapless
      <3> QED BY <1>q, <3>1 DEF Waits, Tracks
    <2> QED BY <1>6, <2>1, <2>2
  <1> QED BY <1>4, <1>5, <1>6

(* Recovery takes the client forward. *)
LEMMA RecoversForward ==
    ASSUME NEW h, Len(h) \in Nat, NEW c, NEW end, NEW last \in 0 .. Len(h), NEW t \in Nat,
           IsConsumer(c), c.applied \in 0 .. Len(h), c.in_recovery \in BOOLEAN, c.in_recovery,
           Queued(c.incremental_queued, h), c.snapshot_queued[end].order_id = last,
           Seen(c, t), Sided(c, t, last)
    PROVE  LET d == recover(c, end)
           IN  Tracks(d, h) /\ Seen(d, t) /\ Sided(d, t, last) /\ d.applied >= c.applied
  <1>i. PICK iq : iq = c.incremental_queued
    OBVIOUS
  <1>n. PICK next : next = FirstMissing(iq, last + 1)
    OBVIOUS
  <1>1. DOMAIN iq \subseteq 1 .. Len(h)
    BY <1>i DEF Queued
  <1>2. next \in last + 1 .. Len(h) + 1 /\ last + 1 .. next - 1 \subseteq DOMAIN iq
    <2>1. last + 1 \in Nat /\ last + 1 <= Len(h) + 1
      OBVIOUS
    <2> QED BY <1>1, <1>n, <2>1, FirstMissingIs
  <1>a. PICK a \in Nat : a = c.applied
    OBVIOUS
  <1>d. PICK d : d = recover(c, end)
    OBVIOUS
  <1>3. next \in Nat /\ next - 1 \in 0 .. Len(h) /\ next > last
    BY <1>2
  <1>4. PICK book : d = IF NoneBeyond(iq, next)
                        THEN Record(next, FALSE, NoMsgs, NoMsgs, book, next - 1)
                        ELSE [c EXCEPT !.next_exp_inc_seq_num = next, !.snapshot_queued = NoMsgs]
    BY <1>d, <1>i, <1>n DEF recover, Record
  <1>5. CASE NoneBeyond(iq, next)
    <2>1. d = Record(next, FALSE, NoMsgs, NoMsgs, book, next - 1)
      BY <1>4, <1>5
    <2>2. /\ IsConsumer(d) /\ d.next_exp_inc_seq_num = next /\ d.in_recovery = FALSE
          /\ d.snapshot_queued = NoMsgs /\ d.incremental_queued = NoMsgs
          /\ d.applied = next - 1
      BY <2>1 DEF Record, IsConsumer
    <2>3. Tracks(d, h)
      BY <1>3, <2>2, NoMsgsQueued, NoMsgsNoEnd DEF Tracks, Follows
    <2>4. Seen(d, t)
      BY <2>2, NoMsgsQueued DEF Seen
    <2>5. \A k \in DOMAIN iq : k < next
      BY <1>5 DEF NoneBeyond
    <2>6. next - 1 >= a
      <3>1. CASE a <= last
        BY <1>3, <3>1
      <3>2. CASE Ahead(c, t)
        <4>1. PICK k \in DOMAIN iq : k > a
          BY <1>a, <1>i, <3>2 DEF Ahead
        <4>2. k < next /\ k \in Int
          BY <1>1, <2>5
        <4> QED BY <1>3, <4>1, <4>2
      <3> QED BY <1>a, <3>1, <3>2 DEF Sided
    <2>7. next - 1 <= last \/ next - 1 <= t
      <3>1. CASE next = last + 1
        BY <3>1
      <3>2. CASE next # last + 1
        <4>1. next - 1 \in last + 1 .. next - 1
          BY <1>2, <3>2
        <4>2. next - 1 \in DOMAIN iq
          BY <1>2, <4>1
        <4> QED BY <1>i, <4>2 DEF Seen
      <3> QED BY <3>1, <3>2
    <2>8. Sided(d, t, last)
      BY <2>2, <2>7 DEF Sided, Ahead
    <2>9. d.applied >= c.applied
      BY <1>a, <2>2, <2>6
    <2> QED BY <1>d, <2>3, <2>4, <2>8, <2>9
  <1>6. CASE ~NoneBeyond(iq, next)
    <2>1. c = Record(c.next_exp_inc_seq_num, c.in_recovery, c.snapshot_queued,
                     c.incremental_queued, c.book, c.applied)
      BY DEF IsConsumer
    <2>2. d = Record(next, c.in_recovery, NoMsgs, c.incremental_queued, c.book, c.applied)
      BY <1>4, <1>6, <2>1 DEF Record
    <2>3. /\ IsConsumer(d) /\ d.next_exp_inc_seq_num = next /\ d.in_recovery = c.in_recovery
          /\ d.snapshot_queued = NoMsgs /\ d.incremental_queued = c.incremental_queued
          /\ d.book = c.book /\ d.applied = c.applied
      BY <2>2 DEF Record, IsConsumer
    <2>4. Tracks(d, h)
      BY <1>3, <2>3, NoMsgsNoEnd DEF Tracks, Follows
    <2>5. Seen(d, t) /\ Sided(d, t, last)
      BY <2>3 DEF Seen, Sided, Ahead
    <2>6. d.applied >= c.applied
      BY <1>a, <2>3
    <2> QED BY <1>d, <2>4, <2>5, <2>6
  <1> QED BY <1>5, <1>6

(* From c to d, when t was the number of the last update heard of before    *)
(* and u is that now: not to an older book, and never out of what is ahead. *)
Forward(c, t, d, u) ==
    /\ d.applied >= c.applied
    /\ Ahead(d, u) \/ (~Ahead(c, t) /\ d.applied = c.applied)

(* An incremental message that is newer than all before is queued. *)
LEMMA NewerQueued ==
    ASSUME NEW h, NEW c, Tracks(c, h), Len(h) \in Nat, c.in_recovery, NEW t \in Nat, Seen(c, t),
           NEW m \in Incremental(h), m.seq_num > t
    PROVE  LET d == queueMessage(c, FALSE, m)
           IN  /\ Tracks(d, h) /\ Seen(d, m.seq_num) /\ d.in_recovery
               /\ d.applied = c.applied /\ m.seq_num \in DOMAIN d.incremental_queued
               /\ DOMAIN c.incremental_queued \subseteq DOMAIN d.incremental_queued
  <1>1. PICK k \in 1 .. Len(h) : m = Msg(k, h[k])
    BY DEF Incremental
  <1>2. m.seq_num = k /\ k \in Nat
    BY <1>1 DEF Msg
  <1>q. PICK q : q = c.incremental_queued
    OBVIOUS
  <1>r. PICK r : r = Put(q, m)
    OBVIOUS
  <1>3. Queued(q, h)
    BY <1>q DEF Tracks, Follows
  <1>4. DOMAIN r = DOMAIN q \cup {k} /\ r = [i \in DOMAIN q \cup {k} |-> IF i = k THEN m ELSE q[i]]
    BY <1>2, <1>r DEF Put
  <1>5. Queued(r, h)
    <2>1. DOMAIN r \subseteq 1 .. Len(h)
      BY <1>3, <1>4 DEF Queued
    <2>2. ASSUME NEW i \in DOMAIN r PROVE r[i] = Msg(i, h[i])
      <3>1. CASE i = k
        BY <1>1, <1>4, <3>1
      <3>2. CASE i # k
        <4>1. i \in DOMAIN q /\ r[i] = q[i]
          BY <1>4, <3>2
        <4> QED BY <1>3, <4>1 DEF Queued
      <3> QED BY <3>1, <3>2
    <2> QED BY <2>1, <2>2 DEF Queued
  <1>6. \A i \in DOMAIN r : i <= k
    <2> SUFFICES ASSUME NEW i \in DOMAIN r PROVE i <= k
      OBVIOUS
    <2>1. i \in 1 .. Len(h)
      BY <1>5 DEF Queued
    <2>2. CASE i \in DOMAIN q
      <3>1. i <= t /\ t < k
        BY <1>2, <1>q, <2>2 DEF Seen
      <3> QED BY <1>2, <2>1, <3>1
    <2>3. CASE i = k
      BY <1>2, <2>3
    <2> QED BY <1>4, <2>2, <2>3
  <1>d. PICK d : d = [c EXCEPT !.incremental_queued = r]
    OBVIOUS
  <1>7. queueMessage(c, FALSE, m) = checkSnapshotSync(d)
    BY <1>q, <1>r, <1>d DEF queueMessage
  <1>8. c = Record(c.next_exp_inc_seq_num, c.in_recovery, c.snapshot_queued,
                   c.incremental_queued, c.book, c.applied)
    BY DEF Tracks, Follows, IsConsumer
  <1>9. d = Record(c.next_exp_inc_seq_num, c.in_recovery, c.snapshot_queued,
                   r, c.book, c.applied)
    BY <1>8, <1>d DEF Record
  <1>10. /\ IsConsumer(d) /\ d.next_exp_inc_seq_num = c.next_exp_inc_seq_num
         /\ d.in_recovery = c.in_recovery /\ d.snapshot_queued = c.snapshot_queued
         /\ d.incremental_queued = r /\ d.book = c.book /\ d.applied = c.applied
    BY <1>9 DEF Record, IsConsumer
  <1>11. Follows(d, h)
    BY <1>5, <1>10 DEF Tracks, Follows
  <1>12. Waits(checkSnapshotSync(d), d, h)
    BY <1>11, SyncWaits
  <1>e. PICK e : e = queueMessage(c, FALSE, m)
    OBVIOUS
  <1>13. Tracks(e, h) /\ e.in_recovery /\ e.incremental_queued = r /\ e.applied = c.applied
    BY <1>7, <1>10, <1>12, <1>e DEF Waits
  <1>14. Seen(e, m.seq_num)
    BY <1>2, <1>6, <1>13 DEF Seen
  <1>15. m.seq_num \in DOMAIN e.incremental_queued
    BY <1>2, <1>4, <1>13
  <1>16. DOMAIN c.incremental_queued \subseteq DOMAIN e.incremental_queued
    BY <1>4, <1>13, <1>q
  <1> QED BY <1>13, <1>14, <1>15, <1>16, <1>e

LEMMA StartTracks ==
    ASSUME NEW h, NEW c, Tracks(c, h)
    PROVE  LET d == startSnapshotSync([c EXCEPT !.in_recovery = TRUE])
           IN  /\ Tracks(d, h) /\ d.in_recovery /\ d.applied = c.applied
               /\ d.incremental_queued = NoMsgs
  <1>1. c = Record(c.next_exp_inc_seq_num, c.in_recovery, c.snapshot_queued,
                   c.incremental_queued, c.book, c.applied)
    BY DEF Tracks, Follows, IsConsumer
  <1>2. PICK e : e = [c EXCEPT !.in_recovery = TRUE]
    OBVIOUS
  <1>3. e = Record(c.next_exp_inc_seq_num, TRUE, c.snapshot_queued,
                   c.incremental_queued, c.book, c.applied)
    BY <1>1, <1>2 DEF Record
  <1>4. PICK d : d = startSnapshotSync(e)
    OBVIOUS
  <1>5. d = Record(c.next_exp_inc_seq_num, TRUE, NoMsgs, NoMsgs, c.book, c.applied)
    BY <1>3, <1>4 DEF Record, startSnapshotSync
  <1>6. /\ IsConsumer(d) /\ d.next_exp_inc_seq_num = c.next_exp_inc_seq_num
        /\ d.in_recovery = TRUE /\ d.snapshot_queued = NoMsgs
        /\ d.incremental_queued = NoMsgs /\ d.applied = c.applied
    BY <1>5 DEF Record, IsConsumer
  <1>7. Tracks(d, h)
    BY <1>6, NoMsgsQueued, NoMsgsNoEnd DEF Tracks, Follows
  <1> QED BY <1>2, <1>4, <1>6, <1>7

(* One incremental message, newer than all before. *)
LEMMA NewerHandled ==
    ASSUME NEW h, NEW c, Tracks(c, h), Len(h) \in Nat, NEW t \in Nat, Seen(c, t),
           NEW m \in Incremental(h), m.seq_num > t
    PROVE  LET d == handle(c, FALSE, m)
           IN  Tracks(d, h) /\ Seen(d, m.seq_num) /\ Forward(c, t, d, m.seq_num)
  <1>s. PICK s : s = startSnapshotSync([c EXCEPT !.in_recovery = TRUE])
    OBVIOUS
  <1>1. /\ Tracks(s, h) /\ s.in_recovery /\ s.applied = c.applied
        /\ s.incremental_queued = NoMsgs
    BY <1>s, StartTracks
  <1>2. Seen(s, t)
    BY <1>1, NoMsgsQueued DEF Seen
  <1>3. PICK k \in 1 .. Len(h) : m = Msg(k, h[k])
    BY DEF Incremental
  <1>4. m.seq_num = k /\ k \in Nat /\ k > t
    BY <1>3 DEF Msg
  <1>5. c.applied \in Nat
    BY DEF Tracks, Follows
  <1>d. PICK d : d = handle(c, FALSE, m)
    OBVIOUS
  <1>6. CASE ~c.in_recovery /\ m.seq_num # c.next_exp_inc_seq_num
    <2>1. d = queueMessage(s, FALSE, m)
      BY <1>d, <1>s, <1>6 DEF handle
    <2>2. /\ Tracks(d, h) /\ Seen(d, k) /\ d.in_recovery
          /\ d.applied = c.applied /\ k \in DOMAIN d.incremental_queued
      BY <1>1, <1>2, <1>4, <2>1, NewerQueued
    <2>3. Ahead(d, k) \/ ~Ahead(c, t)
      <3> SUFFICES ASSUME Ahead(c, t) PROVE Ahead(d, k)
        OBVIOUS
      <3>1. c.applied <= t
        BY DEF Ahead
      <3>2. d.applied < k
        BY <1>4, <1>5, <2>2, <3>1
      <3>3. d.applied <= k /\ k > d.applied
        BY <1>4, <1>5, <2>2, <3>2
      <3> QED BY <2>2, <3>3 DEF Ahead
    <2>4. d.applied >= c.applied
      BY <1>5, <2>2
    <2>5. Forward(c, t, d, k)
      BY <2>2, <2>3, <2>4 DEF Forward
    <2> QED BY <1>d, <1>4, <2>2, <2>5
  <1>7. CASE c.in_recovery
    <2>1. d = queueMessage(c, FALSE, m)
      BY <1>d, <1>7 DEF handle
    <2>2. /\ Tracks(d, h) /\ Seen(d, k) /\ d.in_recovery
          /\ d.applied = c.applied
          /\ DOMAIN c.incremental_queued \subseteq DOMAIN d.incremental_queued
      BY <1>4, <1>7, <2>1, NewerQueued
    <2>3. Ahead(d, k) \/ ~Ahead(c, t)
      <3> SUFFICES ASSUME Ahead(c, t) PROVE Ahead(d, k)
        OBVIOUS
      <3>1. c.applied <= t /\ \E i \in DOMAIN c.incremental_queued : i > c.applied
        BY <1>7 DEF Ahead
      <3>2. d.applied <= k
        BY <1>4, <1>5, <2>2, <3>1
      <3>3. \E i \in DOMAIN d.incremental_queued : i > d.applied
        BY <2>2, <3>1
      <3> QED BY <3>2, <3>3 DEF Ahead
    <2>4. d.applied >= c.applied
      BY <1>5, <2>2
    <2>5. Forward(c, t, d, k)
      BY <2>2, <2>3, <2>4 DEF Forward
    <2> QED BY <1>d, <1>4, <2>2, <2>5
  <1>8. CASE ~c.in_recovery /\ m.seq_num = c.next_exp_inc_seq_num
    <2>1. c.next_exp_inc_seq_num = k /\ c.applied = k - 1
      BY <1>4, <1>8 DEF Tracks, Follows
    <2>2. c = Record(c.next_exp_inc_seq_num, c.in_recovery, c.snapshot_queued,
                     c.incremental_queued, c.book, c.applied)
      BY DEF Tracks, Follows, IsConsumer
    <2>3. d = [c EXCEPT !.next_exp_inc_seq_num = @ + 1, !.book = Apply(@, m), !.applied = m.seq_num]
      BY <1>d, <1>8 DEF handle
    <2>4. d = Record(k + 1, c.in_recovery, c.snapshot_queued, c.incremental_queued,
                     Apply(c.book, m), k)
      BY <1>4, <2>1, <2>2, <2>3 DEF Record
    <2>5. /\ IsConsumer(d) /\ d.next_exp_inc_seq_num = k + 1
          /\ d.in_recovery = c.in_recovery /\ d.snapshot_queued = c.snapshot_queued
          /\ d.incremental_queued = c.incremental_queued /\ d.applied = k
      BY <2>4 DEF Record, IsConsumer
    <2>6. k + 1 \in Nat /\ k \in 0 .. Len(h) /\ k = (k + 1) - 1
      BY <1>4
    <2>7. Tracks(d, h)
      BY <2>5, <2>6 DEF Tracks, Follows
    <2>8. Seen(d, k)
      <3> SUFFICES ASSUME NEW i \in DOMAIN c.incremental_queued PROVE i <= k
        BY <2>5 DEF Seen
      <3>1. i <= t /\ i \in 1 .. Len(h)
        BY DEF Seen, Tracks, Follows, Queued
      <3> QED BY <1>4, <3>1
    <2>9. Ahead(d, k)
      <3>1. ~d.in_recovery
        BY <1>8, <2>5
      <3>2. d.applied <= k
        BY <1>4, <2>5
      <3> QED BY <3>1, <3>2 DEF Ahead
    <2>10. d.applied >= c.applied
      <3>1. k >= k - 1
        BY <1>4
      <3> QED BY <2>1, <2>5, <3>1
    <2>11. Forward(c, t, d, k)
      BY <2>9, <2>10 DEF Forward
    <2> QED BY <1>d, <1>4, <2>7, <2>8, <2>11
  <1> QED BY <1>6, <1>7, <1>8

LEMMA FurtherForward ==
    ASSUME NEW c, NEW d, NEW e, NEW t, NEW u, NEW v, Forward(c, t, d, u), Forward(d, u, e, v),
           c.applied \in Int, d.applied \in Int, e.applied \in Int
    PROVE  Forward(c, t, e, v)
  <1>1. d.applied >= c.applied /\ e.applied >= d.applied
    BY DEF Forward
  <1>2. e.applied >= c.applied
    BY <1>1
  <1>3. CASE Ahead(e, v)
    BY <1>2, <1>3 DEF Forward
  <1>4. CASE ~Ahead(e, v)
    <2>1. ~Ahead(d, u) /\ e.applied = d.applied
      BY <1>4 DEF Forward
    <2>2. ~Ahead(c, t) /\ d.applied = c.applied
      BY <2>1 DEF Forward
    <2> QED BY <1>2, <2>1, <2>2 DEF Forward
  <1> QED BY <1>3, <1>4

(* A datagram whose messages are in order and newer than number t. *)
Rising(d) == \A i, j \in 1 .. Len(d) : i < j => d[i].seq_num < d[j].seq_num
Newer(d, t) == \A i \in 1 .. Len(d) : d[i].seq_num > t

(* The last number heard of after it. *)
LastNumber(d, t) == IF Len(d) = 0 THEN t ELSE d[Len(d)].seq_num

LEMMA NewerDatagram ==
    ASSUME NEW h, Len(h) \in Nat, Tracks(consumer, h), NEW t \in Nat, Seen(consumer, t),
           NEW d \in Seq(Incremental(h)), Rising(d), Newer(d, t)
    PROVE  LET c == recvCallback(FALSE, d)
               u == LastNumber(d, t)
           IN  Tracks(c, h) /\ Seen(c, u) /\ Forward(consumer, t, c, u)
  <1>l. PICK l \in Nat : l = Len(d)
    OBVIOUS
  <1>0. \A k \in 1 .. l : d[k] \in Incremental(h) /\ d[k].seq_num \in Nat
    <2> SUFFICES ASSUME NEW k \in 1 .. l PROVE d[k] \in Incremental(h) /\ d[k].seq_num \in Nat
      OBVIOUS
    <2>1. d[k] \in Incremental(h)
      BY <1>l
    <2>2. PICK n \in 1 .. Len(h) : d[k] = Msg(n, h[n])
      BY <2>1 DEF Incremental
    <2> QED BY <2>1, <2>2 DEF Msg
  <1>1. PICK after : Handles(after, FALSE, d)
    <2>1. Len(d) \in Nat
      BY <1>l
    <2> QED BY <2>1, CallbackSteps
  <1>2. /\ after[0] = consumer
        /\ \A k \in 1 .. l : after[k] = handle(after[k - 1], FALSE, d[k])
        /\ recvCallback(FALSE, d) = after[l]
    BY <1>1, <1>l DEF Handles
  <1>u. PICK U : U = [k \in 0 .. l |-> IF k = 0 THEN t ELSE d[k].seq_num]
    OBVIOUS
  <1>3. ASSUME NEW k \in 1 .. l
        PROVE  U[k - 1] \in Nat /\ U[k] = d[k].seq_num /\ d[k].seq_num > U[k - 1]
    <2>1. k \in 0 .. l /\ k - 1 \in 0 .. l /\ k # 0
      OBVIOUS
    <2>2. U[k] = d[k].seq_num /\ U[k - 1] = IF k - 1 = 0 THEN t ELSE d[k - 1].seq_num
      BY <1>u, <2>1
    <2>3. CASE k - 1 = 0
      BY <1>l, <2>2, <2>3 DEF Newer
    <2>4. CASE k - 1 # 0
      <3>1. k - 1 \in 1 .. l /\ k - 1 < k
        BY <2>4
      <3>2. d[k - 1].seq_num < d[k].seq_num
        BY <1>l, <3>1 DEF Rising
      <3>3. U[k - 1] = d[k - 1].seq_num
        BY <2>2, <2>4
      <3>4. d[k - 1].seq_num \in Nat /\ d[k].seq_num \in Nat
        BY <1>0, <3>1
      <3> QED BY <2>2, <3>2, <3>3, <3>4
    <2> QED BY <2>3, <2>4
  <1> DEFINE Good(c, u) == Tracks(c, h) /\ Seen(c, u) /\ Forward(consumer, t, c, u)
             T == {k \in 0 .. l : Good(after[k], U[k])}
  <1>4. 0 \in T
    <2>1. U[0] = t /\ 0 \in 0 .. l
      BY <1>u
    <2>2. consumer.applied >= consumer.applied
      BY DEF Tracks, Follows
    <2>3. Forward(consumer, t, consumer, t)
      BY <2>2 DEF Forward
    <2> QED BY <1>2, <2>1, <2>3
  <1>5. ASSUME NEW k \in 1 .. l, k - 1 \in T PROVE k \in T
    <2>b. PICK b : b = after[k - 1]
      OBVIOUS
    <2>v. PICK v : v = U[k - 1]
      OBVIOUS
    <2>e. PICK e : e = after[k]
      OBVIOUS
    <2>1. Tracks(b, h) /\ Seen(b, v) /\ Forward(consumer, t, b, v)
      BY <1>5, <2>b, <2>v
    <2>2. v \in Nat /\ U[k] = d[k].seq_num /\ d[k].seq_num > v
      BY <1>3, <2>v
    <2>3. e = handle(b, FALSE, d[k])
      BY <1>2, <2>b, <2>e
    <2>4. Tracks(e, h) /\ Seen(e, d[k].seq_num) /\ Forward(b, v, e, d[k].seq_num)
      BY <1>0, <2>1, <2>2, <2>3, NewerHandled
    <2>5. consumer.applied \in Int /\ b.applied \in Int /\ e.applied \in Int
      BY <2>1, <2>4 DEF Tracks, Follows
    <2>6. Forward(consumer, t, e, d[k].seq_num)
      BY <2>1, <2>4, <2>5, FurtherForward
    <2>7. Good(after[k], U[k])
      BY <2>2, <2>4, <2>6, <2>e
    <2>8. k \in 0 .. l
      OBVIOUS
    <2> QED BY <2>7, <2>8
  <1>6. l \in T
    <2> HIDE DEF T
    <2>1. 0 .. l \subseteq T
      BY <1>4, <1>5, UpTo
    <2> QED BY <2>1
  <1>7. U[l] = LastNumber(d, t)
    <2>1. l \in 0 .. l
      OBVIOUS
    <2> QED BY <1>l, <1>u, <2>1 DEF LastNumber
  <1> QED BY <1>2, <1>6, <1>7

(* One message of a snapshot taken after update last. *)
LEMMA SnapshotForward ==
    ASSUME NEW h, Len(h) \in Nat, NEW c, Tracks(c, h), c.in_recovery, NEW t \in Nat, Seen(c, t),
           NEW last \in 0 .. Len(h), Sided(c, t, last), NEW m \in Message,
           m.type = "SNAPSHOT_END" => m.order_id = last
    PROVE  LET d == handle(c, TRUE, m)
           IN  /\ Tracks(d, h) /\ Seen(d, t) /\ Sided(d, t, last) /\ d.applied >= c.applied
               /\ m.type # "SNAPSHOT_END" => d.in_recovery
  <1>q. PICK q : q = c.snapshot_queued
    OBVIOUS
  <1>s. PICK s : s \in Nat /\ s = m.seq_num
    BY DEF Message
  <1>b. PICK b : b = IF s \in DOMAIN q THEN NoMsgs ELSE q
    OBVIOUS
  <1>r. PICK r : r = Put(b, m)
    OBVIOUS
  <1>e. PICK e : e = [c EXCEPT !.snapshot_queued = r]
    OBVIOUS
  <1>d. PICK d : d = handle(c, TRUE, m)
    OBVIOUS
  <1>1. d = checkSnapshotSync(e)
    BY <1>d, <1>e, <1>r, <1>b, <1>q, <1>s DEF handle, queueMessage
  <1>2. Follows(c, h) /\ NoEnd(q) /\ Prefix(q) /\ c.applied \in Nat
    BY <1>q DEF Tracks, Follows
  <1>3. NoEnd(b) /\ Prefix(b) /\ s \notin DOMAIN b
    BY <1>2, <1>b, NoMsgsNoEnd, NoMsgsQueued
  <1>4. DOMAIN r = DOMAIN b \cup {s} /\ r = [i \in DOMAIN b \cup {s} |-> IF i = s THEN m ELSE b[i]]
    BY <1>r, <1>s DEF Put
  <1>5. r[s] = m /\ \A i \in DOMAIN b : r[i] = b[i]
    BY <1>3, <1>4
  <1>6. IsFiniteSet(DOMAIN b) /\ IsFiniteSet(DOMAIN r)
    BY <1>3, <1>4, FS_AddElement DEF NoEnd
  <1>7. CASE m.type # "SNAPSHOT_END"
    <2>1. NoEnd(r)
      <3> SUFFICES ASSUME NEW i \in DOMAIN r PROVE r[i].type # "SNAPSHOT_END"
        BY <1>6 DEF NoEnd
      <3>1. CASE i = s
        BY <1>5, <1>7, <3>1
      <3>2. CASE i \in DOMAIN b
        BY <1>3, <1>5, <3>2 DEF NoEnd
      <3> QED BY <1>4, <3>1, <3>2
    <2>2. /\ Follows(e, h) /\ e.in_recovery = c.in_recovery
          /\ e.incremental_queued = c.incremental_queued /\ e.applied = c.applied
      BY <1>2, <1>e, <2>1, Tracked, ZenonT(30)
    <2>3. Waits(d, e, h)
      BY <1>1, <2>2, SyncWaits
    <2>4. /\ Tracks(d, h) /\ d.in_recovery = c.in_recovery
          /\ d.incremental_queued = c.incremental_queued /\ d.applied = c.applied
      BY <2>2, <2>3 DEF Waits
    <2>5. Seen(d, t) /\ Sided(d, t, last)
      BY <2>4 DEF Seen, Sided, Ahead
    <2>6. d.applied >= c.applied /\ d.in_recovery
      BY <1>2, <2>4
    <2> QED BY <1>d, <2>4, <2>5, <2>6
  <1>8. CASE m.type = "SNAPSHOT_END"
    <2>n. PICK n \in Nat : DOMAIN b = 0 .. n - 1
      BY <1>3 DEF Prefix
    <2>1. Cardinality(DOMAIN b) = n
      <3>1. 0 \in Int /\ n - 1 \in Int
        OBVIOUS
      <3>2. Cardinality(0 .. n - 1) = IF 0 > n - 1 THEN 0 ELSE n - 1 - 0 + 1
        BY <3>1, FS_Interval
      <3> QED BY <2>n, <3>2
    <2>2. Cardinality(DOMAIN r) = n + 1
      BY <1>3, <1>4, <1>6, <2>1, FS_AddElement
    <2>f. PICK f : f = [e EXCEPT !.snapshot_queued = NoMsgs]
      OBVIOUS
    <2>3. (n + 1) - 1 = n /\ n # -1
      BY <2>n
    <2>4. c = Record(c.next_exp_inc_seq_num, c.in_recovery, c.snapshot_queued,
                     c.incremental_queued, c.book, c.applied)
      BY <1>2 DEF Follows, IsConsumer
    <2>5. e = Record(c.next_exp_inc_seq_num, c.in_recovery, r,
                     c.incremental_queued, c.book, c.applied)
      BY <1>e, <2>4 DEF Record
    <2>6. /\ IsConsumer(e) /\ e.in_recovery = c.in_recovery /\ e.snapshot_queued = r
          /\ e.incremental_queued = c.incremental_queued /\ e.applied = c.applied
      BY <2>5 DEF Record, IsConsumer
    <2>7. d = IF ~Gapless(r) THEN f
              ELSE IF r[n].type # "SNAPSHOT_END" THEN e
              ELSE recover(e, n)
      <3>x. PICK x : x = Cardinality(DOMAIN r) - 1
        OBVIOUS
      <3>1. d = IF x = -1 THEN e
                ELSE IF ~Gapless(r) THEN f
                ELSE IF r[x].type # "SNAPSHOT_END" THEN e
                ELSE recover(e, x)
        BY <1>1, <2>6, <2>f, <3>x DEF checkSnapshotSync
      <3>2. x = n /\ x # -1
        BY <2>2, <2>3, <3>x
      <3> QED BY <3>1, <3>2
    <2>8. CASE ~Gapless(r)
      <3>1. f = [c EXCEPT !.snapshot_queued = NoMsgs]
        <4>1. f = Record(c.next_exp_inc_seq_num, c.in_recovery, NoMsgs,
                         c.incremental_queued, c.book, c.applied)
          BY <2>5, <2>f DEF Record
        <4>g. PICK g : g = [c EXCEPT !.snapshot_queued = NoMsgs]
          OBVIOUS
        <4>2. g = Record(c.next_exp_inc_seq_num, c.in_recovery, NoMsgs,
                         c.incremental_queued, c.book, c.applied)
          BY <2>4, <4>g DEF Record
        <4> QED BY <4>1, <4>2, <4>g
      <3>2. /\ Follows(f, h) /\ f.snapshot_queued = NoMsgs
            /\ f.incremental_queued = c.incremental_queued /\ f.applied = c.applied
        BY <1>2, <3>1, NoMsgsNoEnd, Tracked
      <3>3. Tracks(f, h)
        BY <3>2, NoMsgsNoEnd DEF Tracks
      <3>4. Seen(f, t) /\ Sided(f, t, last)
        BY <3>2 DEF Seen, Sided, Ahead
      <3>5. f.applied >= c.applied
        BY <1>2, <3>2
      <3> QED BY <1>8, <1>d, <2>7, <2>8, <3>3, <3>4, <3>5
    <2>9. CASE Gapless(r)
      <3>1. DOMAIN r = 0 .. (n + 1) - 1
        BY <2>2, <2>9 DEF Gapless
      <3>2. n \in DOMAIN r /\ n \notin DOMAIN b
        BY <2>n, <3>1
      <3>3. s = n
        BY <1>4, <3>2
      <3>4. d = recover(e, n) /\ r[n] = m
        BY <1>5, <1>8, <2>7, <2>9, <3>3
      <3>5. e.snapshot_queued[n].order_id = last
        BY <1>8, <2>6, <3>4
      <3>6. /\ e.applied \in 0 .. Len(h) /\ e.in_recovery \in BOOLEAN /\ e.in_recovery
            /\ Queued(e.incremental_queued, h)
        BY <1>2, <2>6 DEF Follows
      <3>7. Seen(e, t) /\ Sided(e, t, last)
        BY <2>6 DEF Seen, Sided, Ahead
      <3>8. Tracks(d, h) /\ Seen(d, t) /\ Sided(d, t, last) /\ d.applied >= e.applied
        BY <2>6, <3>4, <3>5, <3>6, <3>7, RecoversForward
      <3> QED BY <1>8, <1>d, <2>6, <3>8
    <2> QED BY <2>8, <2>9
  <1> QED BY <1>7, <1>8

(* A datagram of the snapshot taken after update last: only the last message*)
(* may be the end of it.                                                    *)
Ends(d, last) ==
    \A i \in 1 .. Len(d) : d[i].type = "SNAPSHOT_END" => i = Len(d) /\ d[i].order_id = last

LEMMA SnapshotDatagramForward ==
    ASSUME NEW h, Len(h) \in Nat, Tracks(consumer, h), NEW t \in Nat, Seen(consumer, t),
           NEW last \in 0 .. Len(h), Sided(consumer, t, last),
           NEW d \in Seq(Message), Ends(d, last)
    PROVE  LET c == recvCallback(TRUE, d)
           IN  Tracks(c, h) /\ Seen(c, t) /\ Sided(c, t, last) /\ c.applied >= consumer.applied
  <1>l. PICK l \in Nat : l = Len(d)
    OBVIOUS
  <1>a. PICK a \in Nat : a = consumer.applied
    BY DEF Tracks, Follows
  <1>1. PICK after : Handles(after, TRUE, d)
    <2>1. Len(d) \in Nat
      BY <1>l
    <2> QED BY <2>1, CallbackSteps
  <1>2. /\ after[0] = consumer
        /\ \A k \in 1 .. l : after[k] = handle(after[k - 1], TRUE, d[k])
        /\ recvCallback(TRUE, d) = IF ~consumer.in_recovery THEN consumer ELSE after[l]
    BY <1>1, <1>l DEF Handles
  <1>3. CASE ~consumer.in_recovery
    <2>1. recvCallback(TRUE, d) = consumer
      BY <1>2, <1>3
    <2>2. consumer.applied >= consumer.applied
      BY <1>a
    <2> QED BY <2>1, <2>2
  <1>4. CASE consumer.in_recovery
    <2> DEFINE Good(c, k) == /\ Tracks(c, h) /\ Seen(c, t) /\ Sided(c, t, last)
                             /\ c.applied >= a /\ (k < l => c.in_recovery)
               T == {k \in 0 .. l : Good(after[k], k)}
    <2>1. 0 \in T
      <3>1. consumer.applied >= a
        BY <1>a
      <3>2. Good(consumer, 0)
        BY <1>4, <3>1
      <3> QED BY <1>2, <3>2
    <2>2. ASSUME NEW k \in 1 .. l, k - 1 \in T PROVE k \in T
      <3>b. PICK b : b = after[k - 1]
        OBVIOUS
      <3>e. PICK e : e = after[k]
        OBVIOUS
      <3>1. Good(b, k - 1) /\ k - 1 < l
        BY <2>2, <3>b
      <3>2. e = handle(b, TRUE, d[k])
        BY <1>2, <3>b, <3>e
      <3>3. /\ d[k] \in Message
            /\ d[k].type = "SNAPSHOT_END" => k = l /\ d[k].order_id = last
        BY <1>l DEF Ends
      <3>4. /\ Tracks(e, h) /\ Seen(e, t) /\ Sided(e, t, last) /\ e.applied >= b.applied
            /\ d[k].type # "SNAPSHOT_END" => e.in_recovery
        BY <3>1, <3>2, <3>3, SnapshotForward
      <3>5. e.applied >= a
        <4>1. e.applied \in Int /\ b.applied \in Int /\ b.applied >= a
          BY <3>1, <3>4 DEF Tracks, Follows
        <4> QED BY <3>4, <4>1
      <3>6. k < l => e.in_recovery
        BY <3>3, <3>4
      <3>7. Good(after[k], k) /\ k \in 0 .. l
        BY <3>4, <3>5, <3>6, <3>e
      <3> QED BY <3>7
    <2>3. l \in T
      <3> HIDE DEF T
      <3>1. 0 .. l \subseteq T
        BY <2>1, <2>2, UpTo
      <3> QED BY <3>1
    <2> QED BY <1>2, <1>4, <1>a, <2>3
  <1> QED BY <1>3, <1>4

-----------------------------------------------------------------------------
(* The incremental datagrams still to come, the one being filled included,  *)
(* are in order and newer than number t.                                    *)
Before(d, e) == \A i \in 1 .. Len(d), j \in 1 .. Len(e) : d[i].seq_num < e[j].seq_num

InOrder(s, t) ==
    \A a \in 1 .. Len(s) : /\ Rising(s[a]) /\ Newer(s[a], t)
                           /\ \A b \in 1 .. Len(s) : a < b => Before(s[a], s[b])

(* The datagrams left of the snapshot taken after update last. *)
SnapshotOf(net, last) ==
    net \in Seq(Seq(Message)) /\ \A k \in 1 .. Len(net) : Ends(net[k], last)

Reach(c, s, net, synced, t, last) ==
    /\ Seen(c, t) /\ InOrder(s, t) /\ SnapshotOf(net, last)
    /\ Ahead(c, t) \/ (c.applied <= synced /\ (net # <<>> => c.applied <= last))

FInv ==
    /\ IsHistory(history)
    /\ outbound \in Seq(Incremental(history))
    /\ inc_net \in Seq(Seq(Incremental(history)))
    /\ synth.last_inc_seq_num \in 0 .. Len(history)
    /\ synth.orders = Book(history, synth.last_inc_seq_num)
    /\ Tracks(consumer, history)
    /\ \E t \in 0 .. Len(history), last \in 0 .. synth.last_inc_seq_num :
         Reach(consumer, Append(inc_net, outbound), snap_net, synth.last_inc_seq_num, t, last)

LEMMA SnapshotEnds ==
    ASSUME NEW h, IsHistory(h), NEW last \in 0 .. Len(h)
    PROVE  SnapshotOf(snapshotDatagrams(snapshotMsgs(Book(h, last), last)), last)
  <1>m. PICK msgs : msgs = snapshotMsgs(Book(h, last), last)
    OBVIOUS
  <1>n. PICK n : n = Cardinality(Book(h, last))
    OBVIOUS
  <1>b. PICK orders : orders = Book(h, last)
    OBVIOUS
  <1>1. last \in Nat /\ orders \in SUBSET Nat /\ IsFiniteSet(orders)
    BY <1>b, BookIs DEF IsHistory
  <1>2. IsSnapshot(msgs, orders, last, n)
    BY <1>1, <1>b, <1>m, <1>n, SnapshotIs
  <1>3. n \in Nat /\ msgs \in Seq(Message) /\ Len(msgs) = n + 3
    BY <1>2 DEF IsSnapshot
  <1>D. PICK D : D = snapshotDatagrams(msgs)
    OBVIOUS
  <1>4. /\ D \in Seq(Seq(Message)) /\ Len(D) = n + 1
        /\ \A j \in 1 .. n + 1 :
             /\ Len(D[j]) = Sent(j) - Sent(j - 1)
             /\ \A i \in 1 .. Len(D[j]) : D[j][i] = msgs[Sent(j - 1) + i]
    BY <1>3, <1>D, DatagramsAre
  <1>5. ASSUME NEW j \in 1 .. n + 1 PROVE Ends(D[j], last)
    <2> SUFFICES ASSUME NEW i \in 1 .. Len(D[j]), D[j][i].type = "SNAPSHOT_END"
                 PROVE  i = Len(D[j]) /\ D[j][i].order_id = last
      BY DEF Ends
    <2>p. PICK p : p = Sent(j - 1)
      OBVIOUS
    <2>1. Sent(j) = j + 2
      BY DEF Sent
    <2>2. p \in Nat /\ p <= j + 2
      BY <2>p DEF Sent
    <2>l. PICK l \in Nat : l = (j + 2) - p
      BY <2>2
    <2>3. Len(D[j]) = l /\ D[j][i] = msgs[p + i]
      BY <1>4, <2>1, <2>l, <2>p
    <2>4. i \in 1 .. l /\ j \in Int /\ j <= n + 1
      BY <1>3, <2>3
    <2>5. p + i \in 1 .. n + 3
      BY <1>3, <2>2, <2>4, <2>l
    <2>6. msgs[p + i].type = "SNAPSHOT_END" <=> p + i = n + 3
      BY <1>2, <2>5, SnapshotNumbers
    <2>7. p + i = n + 3
      BY <2>3, <2>6
    <2>8. i = l
      BY <1>3, <2>2, <2>4, <2>7, <2>l
    <2>9. msgs[n + 3].order_id = last
      BY <1>2 DEF IsSnapshot, Msg, Update
    <2> QED BY <2>3, <2>7, <2>8, <2>9
  <1>6. SnapshotOf(D, last)
    BY <1>4, <1>5 DEF SnapshotOf
  <1> QED BY <1>6, <1>D, <1>m

(* One step per action. *)
LEMMA InitForward == Init => FInv
  <1> SUFFICES ASSUME Init PROVE FInv
    OBVIOUS
  <1>1. IInv
    BY InitHolds
  <1>2. /\ history = <<>> /\ outbound = <<>> /\ inc_net = <<>> /\ snap_net = <<>>
        /\ synth = [orders |-> {}, last_inc_seq_num |-> 0]
        /\ consumer = Record(1, FALSE, NoMsgs, NoMsgs, {}, 0)
    BY DEF Init, Record
  <1>3. /\ IsConsumer(consumer) /\ consumer.next_exp_inc_seq_num = 1
        /\ consumer.in_recovery = FALSE /\ consumer.snapshot_queued = NoMsgs
        /\ consumer.incremental_queued = NoMsgs /\ consumer.applied = 0
    BY <1>2 DEF Record, IsConsumer
  <1>4. Len(history) = 0
    BY <1>2
  <1>5. Tracks(consumer, history)
    <2>1. consumer.applied \in 0 .. Len(history)
      BY <1>3, <1>4
    <2>2. consumer.applied = consumer.next_exp_inc_seq_num - 1 /\ consumer.next_exp_inc_seq_num \in Nat
      BY <1>3
    <2>3. consumer.in_recovery \in BOOLEAN
      BY <1>3
    <2> QED BY <1>3, <2>1, <2>2, <2>3, NoMsgsQueued, NoMsgsNoEnd DEF Tracks, Follows
  <1>6. Seen(consumer, 0)
    BY <1>3, NoMsgsQueued DEF Seen
  <1>s. PICK s : s = Append(inc_net, outbound)
    OBVIOUS
  <1>7. s = << <<>> >>
    BY <1>2, <1>s
  <1>8. InOrder(s, 0)
    <2>1. Len(s) = 1 /\ s[1] = <<>> /\ Len(s[1]) = 0
      BY <1>7
    <2>2. Rising(s[1]) /\ Newer(s[1], 0)
      BY <2>1 DEF Rising, Newer
    <2> QED BY <2>1, <2>2 DEF InOrder
  <1>9. SnapshotOf(snap_net, 0)
    BY <1>2 DEF SnapshotOf
  <1>10. Ahead(consumer, 0)
    BY <1>3 DEF Ahead
  <1>11. 0 \in 0 .. Len(history) /\ 0 \in 0 .. synth.last_inc_seq_num
    BY <1>2, <1>4
  <1>12. Reach(consumer, s, snap_net, synth.last_inc_seq_num, 0, 0)
    BY <1>6, <1>8, <1>9, <1>10 DEF Reach
  <1> QED BY <1>1, <1>5, <1>11, <1>12, <1>s DEF FInv, IInv

(* What becomes of the order. *)
LEMMA NumbersAre ==
    ASSUME NEW h, Len(h) \in Nat, NEW d \in Seq(Incremental(h)), NEW i \in 1 .. Len(d)
    PROVE  d[i].seq_num \in Nat /\ d[i].seq_num <= Len(h)
  <1>1. d[i] \in Incremental(h)
    OBVIOUS
  <1>2. PICK n \in 1 .. Len(h) : d[i] = Msg(n, h[n])
    BY <1>1 DEF Incremental
  <1> QED BY <1>2 DEF Msg

LEMMA OrderPublished ==
    ASSUME NEW h, Len(h) \in Nat, NEW net \in Seq(Seq(Incremental(h))),
           NEW out \in Seq(Incremental(h)), NEW m, m.seq_num = Len(h) + 1,
           NEW t \in 0 .. Len(h), InOrder(Append(net, out), t)
    PROVE  InOrder(Append(net, Append(out, m)), t)
  <1>l. PICK l \in Nat : l = Len(h)
    OBVIOUS
  <1>n. PICK n \in Nat : n = Len(net)
    OBVIOUS
  <1>k. PICK k \in Nat : k = Len(out)
    OBVIOUS
  <1>s. PICK s : s = Append(net, out)
    OBVIOUS
  <1>e. PICK e : e = Append(out, m)
    OBVIOUS
  <1>r. PICK r : r = Append(net, e)
    OBVIOUS
  <1>1. Len(e) = k + 1 /\ e[k + 1] = m /\ \A i \in 1 .. k : e[i] = out[i]
    BY <1>e, <1>k
  <1>2. /\ Len(s) = n + 1 /\ s[n + 1] = out /\ \A i \in 1 .. n : s[i] = net[i]
        /\ Len(r) = n + 1 /\ r[n + 1] = e /\ \A i \in 1 .. n : r[i] = net[i]
    BY <1>n, <1>s, <1>r
  <1>3. ASSUME NEW d \in Seq(Incremental(h)) PROVE \A i \in 1 .. Len(d) : d[i].seq_num < m.seq_num
    <2> SUFFICES ASSUME NEW i \in 1 .. Len(d) PROVE d[i].seq_num < m.seq_num
      OBVIOUS
    <2>1. d[i].seq_num \in Nat /\ d[i].seq_num <= l
      BY <1>l, NumbersAre
    <2> QED BY <1>l, <2>1
  <1>4. /\ Rising(out) /\ Newer(out, t)
        /\ \A a \in 1 .. n : Rising(net[a]) /\ Newer(net[a], t) /\ Before(net[a], out)
        /\ \A a, b \in 1 .. n : a < b => Before(net[a], net[b])
    <2>1. n + 1 \in 1 .. n + 1 /\ \A a \in 1 .. n : a \in 1 .. n + 1 /\ a < n + 1
      BY <1>n
    <2> QED BY <1>2, <1>s, <2>1 DEF InOrder
  <1>5. Rising(e)
    <2> SUFFICES ASSUME NEW i \in 1 .. k + 1, NEW j \in 1 .. k + 1, i < j
                 PROVE  e[i].seq_num < e[j].seq_num
      BY <1>1 DEF Rising
    <2>1. i \in 1 .. k /\ e[i] = out[i]
      BY <1>1
    <2>2. CASE j = k + 1
      BY <1>1, <1>3, <1>k, <2>1, <2>2
    <2>3. CASE j # k + 1
      <3>1. j \in 1 .. k /\ e[j] = out[j]
        BY <1>1, <2>3
      <3> QED BY <1>4, <1>k, <2>1, <3>1 DEF Rising
    <2> QED BY <2>2, <2>3
  <1>6. Newer(e, t)
    <2> SUFFICES ASSUME NEW i \in 1 .. k + 1 PROVE e[i].seq_num > t
      BY <1>1 DEF Newer
    <2>1. CASE i = k + 1
      BY <1>1, <1>l, <2>1
    <2>2. CASE i # k + 1
      <3>1. i \in 1 .. k /\ e[i] = out[i]
        BY <1>1, <2>2
      <3> QED BY <1>4, <1>k, <3>1 DEF Newer
    <2> QED BY <2>1, <2>2
  <1>7. ASSUME NEW a \in 1 .. n PROVE Before(net[a], e)
    <2> SUFFICES ASSUME NEW i \in 1 .. Len(net[a]), NEW j \in 1 .. k + 1
                 PROVE  net[a][i].seq_num < e[j].seq_num
      BY <1>1 DEF Before
    <2>1. CASE j = k + 1
      <3>1. net[a] \in Seq(Incremental(h))
        BY <1>n
      <3> QED BY <1>1, <1>3, <2>1, <3>1
    <2>2. CASE j # k + 1
      <3>1. j \in 1 .. k /\ e[j] = out[j]
        BY <1>1, <2>2
      <3> QED BY <1>4, <1>k, <3>1 DEF Before
    <2> QED BY <2>1, <2>2
  <1>8. ASSUME NEW a \in 1 .. n + 1
        PROVE  /\ Rising(r[a]) /\ Newer(r[a], t)
               /\ \A b \in 1 .. n + 1 : a < b => Before(r[a], r[b])
    <2>1. CASE a = n + 1
      <3>1. \A b \in 1 .. n + 1 : ~(a < b)
        BY <2>1
      <3> QED BY <1>2, <1>5, <1>6, <2>1, <3>1
    <2>2. CASE a # n + 1
      <3>1. a \in 1 .. n /\ r[a] = net[a]
        BY <1>2, <2>2
      <3>2. ASSUME NEW b \in 1 .. n + 1, a < b PROVE Before(r[a], r[b])
        <4>1. CASE b = n + 1
          BY <1>2, <1>7, <3>1, <4>1
        <4>2. CASE b # n + 1
          <5>1. b \in 1 .. n /\ r[b] = net[b]
            BY <1>2, <4>2
          <5> QED BY <1>4, <3>1, <3>2, <5>1
        <4> QED BY <4>1, <4>2
      <3> QED BY <1>4, <3>1, <3>2
    <2> QED BY <2>1, <2>2
  <1>9. InOrder(r, t)
    BY <1>2, <1>8 DEF InOrder
  <1> QED BY <1>9, <1>e, <1>r

LEMMA OrderSent ==
    ASSUME NEW S, NEW s \in Seq(S), NEW t, InOrder(s, t) PROVE InOrder(Append(s, <<>>), t)
  <1>n. PICK n \in Nat : n = Len(s)
    OBVIOUS
  <1>r. PICK r : r = Append(s, <<>>)
    OBVIOUS
  <1>1. Len(r) = n + 1 /\ r[n + 1] = <<>> /\ \A i \in 1 .. n : r[i] = s[i]
    BY <1>n, <1>r
  <1>2. Len(r[n + 1]) = 0
    BY <1>1
  <1>3. Rising(r[n + 1]) /\ Newer(r[n + 1], t) /\ \A a \in 1 .. n : Before(r[a], r[n + 1])
    BY <1>2 DEF Rising, Newer, Before
  <1>4. ASSUME NEW a \in 1 .. n + 1
        PROVE  /\ Rising(r[a]) /\ Newer(r[a], t)
               /\ \A b \in 1 .. n + 1 : a < b => Before(r[a], r[b])
    <2>1. CASE a = n + 1
      <3>1. \A b \in 1 .. n + 1 : ~(a < b)
        BY <2>1
      <3> QED BY <1>3, <2>1, <3>1
    <2>2. CASE a # n + 1
      <3>1. a \in 1 .. n /\ r[a] = s[a]
        BY <1>1, <2>2
      <3>2. Rising(s[a]) /\ Newer(s[a], t) /\ \A b \in 1 .. n : a < b => Before(s[a], s[b])
        BY <1>n, <3>1 DEF InOrder
      <3>3. ASSUME NEW b \in 1 .. n + 1, a < b PROVE Before(r[a], r[b])
        <4>1. CASE b = n + 1
          BY <1>3, <3>1, <4>1
        <4>2. CASE b # n + 1
          <5>1. b \in 1 .. n /\ r[b] = s[b]
            BY <1>1, <4>2
          <5> QED BY <3>1, <3>2, <3>3, <5>1
        <4> QED BY <4>1, <4>2
      <3> QED BY <3>1, <3>2, <3>3
    <2> QED BY <2>1, <2>2
  <1>5. InOrder(r, t)
    BY <1>1, <1>4 DEF InOrder
  <1> QED BY <1>5, <1>r

(* The first datagram arrives, or is lost. *)
LEMMA OrderArrived ==
    ASSUME NEW S, NEW s \in Seq(Seq(S)), NEW t, InOrder(s, t), s # <<>>
    PROVE  /\ Rising(s[1]) /\ Newer(s[1], t)
           /\ InOrder(Tail(s), t) /\ InOrder(Tail(s), LastNumber(s[1], t))
  <1>n. PICK n \in Nat : n = Len(s) /\ n >= 1
    <2>1. Len(s) \in Nat /\ Len(s) # 0
      OBVIOUS
    <2> QED BY <2>1
  <1>d. PICK d : d = s[1]
    OBVIOUS
  <1>r. PICK r : r = Tail(s)
    OBVIOUS
  <1>1. Len(r) = n - 1 /\ \A i \in 1 .. n - 1 : r[i] = s[i + 1]
    BY <1>n, <1>r
  <1>2. 1 \in 1 .. n /\ d \in Seq(S) /\ Len(d) \in Nat
    BY <1>d, <1>n
  <1>3. Rising(d) /\ Newer(d, t) /\ \A b \in 1 .. n : 1 < b => Before(d, s[b])
    BY <1>2, <1>d, <1>n DEF InOrder
  <1>4. ASSUME NEW a \in 1 .. n - 1
        PROVE  /\ Rising(r[a]) /\ Newer(r[a], t) /\ Before(d, r[a])
               /\ \A b \in 1 .. n - 1 : a < b => Before(r[a], r[b])
    <2>1. a + 1 \in 1 .. n /\ 1 < a + 1 /\ r[a] = s[a + 1]
      BY <1>1
    <2>2. Rising(r[a]) /\ Newer(r[a], t) /\ Before(d, r[a])
      BY <1>3, <1>n, <2>1 DEF InOrder
    <2>3. ASSUME NEW b \in 1 .. n - 1, a < b PROVE Before(r[a], r[b])
      <3>1. b + 1 \in 1 .. n /\ a + 1 < b + 1 /\ r[b] = s[b + 1]
        BY <1>1, <2>3
      <3> QED BY <1>n, <2>1, <3>1 DEF InOrder
    <2> QED BY <2>2, <2>3
  <1>5. ASSUME NEW a \in 1 .. n - 1 PROVE Newer(r[a], LastNumber(d, t))
    <2>1. CASE Len(d) = 0
      BY <1>4, <2>1 DEF LastNumber
    <2>2. CASE Len(d) # 0
      <3>1. Len(d) \in 1 .. Len(d)
        BY <1>2, <2>2
      <3>2. ASSUME NEW i \in 1 .. Len(r[a]) PROVE r[a][i].seq_num > LastNumber(d, t)
        <4>1. d[Len(d)].seq_num < r[a][i].seq_num
          BY <1>4, <3>1 DEF Before
        <4>2. LastNumber(d, t) = d[Len(d)].seq_num
          BY <2>2 DEF LastNumber
        <4> QED BY <4>1, <4>2
      <3> QED BY <3>2 DEF Newer
    <2> QED BY <2>1, <2>2
  <1>6. InOrder(r, t) /\ InOrder(r, LastNumber(d, t))
    BY <1>1, <1>4, <1>5 DEF InOrder
  <1> QED BY <1>3, <1>6, <1>d, <1>r

LEMMA StreamTail ==
    ASSUME NEW S, NEW net \in Seq(S), NEW out \in S, net # <<>>
    PROVE  /\ Append(net, out) \in Seq(S) /\ Append(net, out) # <<>>
           /\ Append(net, out)[1] = net[1] /\ net[1] \in S /\ Tail(net) \in Seq(S)
           /\ Tail(Append(net, out)) = Append(Tail(net), out)
           /\ RemoveAt(net, 1) = Tail(net)
  <1>n. PICK n \in Nat : n = Len(net) /\ n >= 1
    <2>1. Len(net) \in Nat /\ Len(net) # 0
      OBVIOUS
    <2> QED BY <2>1
  <1>s. PICK s : s = Append(net, out)
    OBVIOUS
  <1>1. s \in Seq(S) /\ Len(s) = n + 1 /\ s # <<>> /\ s[n + 1] = out /\ \A i \in 1 .. n : s[i] = net[i]
    BY <1>n, <1>s
  <1>2. s[1] = net[1] /\ net[1] \in S
    BY <1>1, <1>n
  <1>t. PICK t : t = Tail(net)
    OBVIOUS
  <1>3. t \in Seq(S) /\ Len(t) = n - 1 /\ \A i \in 1 .. n - 1 : t[i] = net[i + 1]
    BY <1>n, <1>t
  <1>4. Tail(s) = Append(t, out)
    BY <1>s, <1>t, HeadTailAppend
  <1>5. RemoveAt(net, 1) = t
    <2>1. SubSeq(net, 1, 1 - 1) = <<>>
      <3>1. 1 - 1 < 1 /\ 1 \in Int /\ 1 - 1 \in Int
        OBVIOUS
      <3> QED BY <3>1, SubSeqEmpty
    <2>2. SubSeq(net, 1 + 1, Len(net)) = t
      BY <1>t, HeadTailProperties
    <2>3. RemoveAt(net, 1) = <<>> \o t
      BY <2>1, <2>2 DEF RemoveAt
    <2> QED BY <1>3, <2>3, ConcatEmptySeq
  <1> QED BY <1>1, <1>2, <1>3, <1>4, <1>5, <1>s, <1>t

-----------------------------------------------------------------------------
(* One step per action: the invariant is kept, and the client's book is not *)
(* an older one.                                                            *)
LEMMA TracksMore ==
    ASSUME NEW h, NEW g, NEW c, Len(h) \in Nat, Len(g) = Len(h) + 1, Tracks(c, h),
           \A n \in 1 .. Len(h) : g[n] = h[n]
    PROVE  Tracks(c, g)
  <1>1. 1 .. Len(h) \subseteq 1 .. Len(g) /\ 0 .. Len(h) \subseteq 0 .. Len(g)
    OBVIOUS
  <1>2. Queued(c.incremental_queued, h) /\ c.applied \in 0 .. Len(h)
    BY DEF Tracks, Follows
  <1>3. Queued(c.incremental_queued, g)
    BY <1>1, <1>2 DEF Queued
  <1>4. c.applied \in 0 .. Len(g)
    BY <1>1, <1>2
  <1> QED BY <1>3, <1>4 DEF Tracks, Follows

LEMMA PublishIncrementalForward == FInv /\ PublishIncremental => FInv'
  <1> SUFFICES ASSUME FInv, PublishIncremental PROVE FInv'
    OBVIOUS
  <1>l. PICK l \in Nat : l = Len(history)
    BY DEF FInv, IsHistory
  <1>1. /\ IsHistory(history') /\ Len(history') = l + 1
        /\ \A n \in 1 .. l : history'[n] = history[n]
        /\ \A n \in 0 .. l : Book(history', n) = Book(history, n)
        /\ outbound' \in Seq(Incremental(history')) /\ inc_net' \in Seq(Seq(Incremental(history')))
        /\ UNCHANGED <<synth, inc_net, snap_net, consumer>>
    BY <1>l, Publishes DEF FInv
  <1>2. PICK m : m.seq_num = l + 1 /\ outbound' = Append(outbound, m)
    BY <1>l, Publishes DEF FInv
  <1>3. /\ synth'.last_inc_seq_num \in 0 .. Len(history')
        /\ synth'.orders = Book(history', synth'.last_inc_seq_num)
    <2>1. synth.last_inc_seq_num \in 0 .. l /\ synth.orders = Book(history, synth.last_inc_seq_num)
      BY <1>l DEF FInv
    <2>2. 0 .. l \subseteq 0 .. Len(history')
      BY <1>1, <1>l
    <2> QED BY <1>1, <2>1, <2>2
  <1>4. Tracks(consumer', history')
    <2>h. PICK h : h = history
      OBVIOUS
    <2>g. PICK g : g = history'
      OBVIOUS
    <2>1. /\ Tracks(consumer, h) /\ Len(h) \in Nat /\ Len(g) = Len(h) + 1
          /\ \A n \in 1 .. Len(h) : g[n] = h[n]
      BY <1>1, <1>l, <2>g, <2>h DEF FInv
    <2>2. Tracks(consumer, g)
      BY <2>1, TracksMore
    <2> QED BY <1>1, <2>2, <2>g
  <1>5. PICK t \in 0 .. l, last \in 0 .. synth.last_inc_seq_num :
          Reach(consumer, Append(inc_net, outbound), snap_net, synth.last_inc_seq_num, t, last)
    BY <1>l DEF FInv
  <1>s. PICK s : s = Append(inc_net, Append(outbound, m))
    OBVIOUS
  <1>6. InOrder(s, t)
    <2>1. InOrder(Append(inc_net, outbound), t)
      BY <1>5 DEF Reach
    <2>2. outbound \in Seq(Incremental(history)) /\ inc_net \in Seq(Seq(Incremental(history)))
      BY DEF FInv
    <2> QED BY <1>2, <1>l, <1>s, <2>1, <2>2, OrderPublished
  <1>7. Reach(consumer, s, snap_net, synth.last_inc_seq_num, t, last)
    BY <1>5, <1>6 DEF Reach
  <1>8. s = Append(inc_net', outbound') /\ t \in 0 .. Len(history') /\ last \in 0 .. synth'.last_inc_seq_num
    BY <1>1, <1>2, <1>5, <1>l, <1>s
  <1>9. Reach(consumer', Append(inc_net', outbound'), snap_net', synth'.last_inc_seq_num, t, last)
    BY <1>1, <1>7, <1>8
  <1> QED BY <1>1, <1>3, <1>4, <1>8, <1>9 DEF FInv

LEMMA SendIncrementalForward == FInv /\ SendIncremental => FInv'
  <1> SUFFICES ASSUME FInv, SendIncremental PROVE FInv'
    OBVIOUS
  <1>1. UNCHANGED <<history, synth, snap_net, consumer>>
    BY DEF SendIncremental
  <1>2. inc_net' = Append(inc_net, outbound) /\ outbound' = <<>>
    BY DEF SendIncremental
  <1>I. PICK I : I = Incremental(history)
    OBVIOUS
  <1>3. outbound \in Seq(I) /\ inc_net \in Seq(Seq(I))
    BY <1>I DEF FInv
  <1>4. outbound' \in Seq(I) /\ inc_net' \in Seq(Seq(I))
    BY <1>2, <1>3
  <1>5. PICK t \in 0 .. Len(history), last \in 0 .. synth.last_inc_seq_num :
          Reach(consumer, Append(inc_net, outbound), snap_net, synth.last_inc_seq_num, t, last)
    BY DEF FInv
  <1>6. InOrder(Append(inc_net', outbound'), t)
    <2>1. InOrder(inc_net', t)
      BY <1>2, <1>5 DEF Reach
    <2> QED BY <1>2, <1>4, <2>1, OrderSent
  <1>7. Reach(consumer, Append(inc_net', outbound'), snap_net, synth.last_inc_seq_num, t, last)
    BY <1>5, <1>6 DEF Reach
  <1> QED BY <1>1, <1>4, <1>5, <1>7, <1>I DEF FInv

LEMMA AddToSnapshotForward == FInv /\ AddToSnapshot => FInv'
  <1> SUFFICES ASSUME FInv, AddToSnapshot PROVE FInv'
    OBVIOUS
  <1>1. UNCHANGED <<history, outbound, inc_net, snap_net, consumer>>
    BY DEF AddToSnapshot
  <1>n. PICK n : n = synth.last_inc_seq_num + 1
    OBVIOUS
  <1>2. /\ synth.last_inc_seq_num < Len(history)
        /\ synth' = [orders |-> Apply(synth.orders, history[n]), last_inc_seq_num |-> n]
    BY <1>n DEF AddToSnapshot
  <1>3. n \in 1 .. Len(history) /\ n # 0 /\ n \in 0 .. Len(history) /\ n - 1 = synth.last_inc_seq_num
    <2>1. Len(history) \in Nat /\ synth.last_inc_seq_num \in 0 .. Len(history)
      BY DEF FInv, IsHistory
    <2> QED BY <1>n, <1>2, <2>1
  <1>4. Apply(synth.orders, history[n]) = history[n].book
    BY <1>3 DEF FInv, IsHistory
  <1>5. synth'.last_inc_seq_num = n /\ synth'.orders = Book(history, n)
    BY <1>2, <1>3, <1>4 DEF Book
  <1>6. PICK t \in 0 .. Len(history), last \in 0 .. synth.last_inc_seq_num :
          Reach(consumer, Append(inc_net, outbound), snap_net, synth.last_inc_seq_num, t, last)
    BY DEF FInv
  <1>7. last \in 0 .. n
    BY <1>3, <1>6
  <1>8. consumer.applied <= synth.last_inc_seq_num => consumer.applied <= n
    <2>1. consumer.applied \in Int /\ synth.last_inc_seq_num \in Int
      BY <1>3 DEF FInv, Tracks, Follows
    <2> QED BY <1>n, <2>1
  <1>9. Reach(consumer, Append(inc_net, outbound), snap_net, n, t, last)
    BY <1>6, <1>8 DEF Reach
  <1>10. t \in 0 .. Len(history)
    BY <1>6
  <1> QED BY <1>1, <1>3, <1>5, <1>7, <1>9, <1>10 DEF FInv

LEMMA PublishSnapshotForward == FInv /\ PublishSnapshot => FInv'
  <1> SUFFICES ASSUME FInv, PublishSnapshot PROVE FInv'
    OBVIOUS
  <1>1. UNCHANGED <<history, outbound, synth, inc_net, consumer>>
    BY DEF PublishSnapshot, exchangeVars
  <1>l. PICK last : last = synth.last_inc_seq_num
    OBVIOUS
  <1>2. last \in 0 .. Len(history) /\ synth.orders = Book(history, last) /\ IsHistory(history)
    BY <1>l DEF FInv
  <1>3. snap_net' = snapshotDatagrams(snapshotMsgs(Book(history, last), last))
    BY <1>l, <1>2 DEF PublishSnapshot
  <1>4. SnapshotOf(snap_net', last)
    BY <1>2, <1>3, SnapshotEnds
  <1>5. PICK t \in 0 .. Len(history), old \in 0 .. last :
          Reach(consumer, Append(inc_net, outbound), snap_net, last, t, old)
    BY <1>l DEF FInv
  <1>6. Reach(consumer, Append(inc_net, outbound), snap_net', last, t, last)
    BY <1>4, <1>5 DEF Reach
  <1>7. last \in 0 .. last
    BY <1>2
  <1> QED BY <1>1, <1>5, <1>6, <1>7, <1>l DEF FInv

(* Nothing overtakes: the datagram that arrives is the first. *)
LEMMA ReceiveIncrementalForward ==
    ASSUME ~Reorders, NEW k, FInv, ReceiveIncremental(k)
    PROVE  FInv' /\ consumer'.applied >= consumer.applied
  <1>1. UNCHANGED <<history, outbound, synth, snap_net>>
    BY DEF ReceiveIncremental, exchangeVars
  <1>I. PICK I : I = Incremental(history)
    OBVIOUS
  <1>2. inc_net \in Seq(Seq(I)) /\ outbound \in Seq(I) /\ Len(history) \in Nat
    BY <1>I DEF FInv, IsHistory
  <1>3. k = 1
    <2>1. k \in 1 .. Len(inc_net) /\ Len(inc_net) \in Nat
      BY <1>2 DEF ReceiveIncremental
    <2>2. ~(k > 1)
      BY DEF ReceiveIncremental
    <2> QED BY <2>1, <2>2
  <1>4. inc_net # <<>>
    <2>1. 1 \in DOMAIN inc_net
      BY <1>3 DEF ReceiveIncremental
    <2> QED BY <2>1
  <1>d. PICK d : d = inc_net[1]
    OBVIOUS
  <1>5. consumer' = recvCallback(FALSE, d) /\ inc_net' = RemoveAt(inc_net, 1)
    BY <1>3, <1>d DEF ReceiveIncremental
  <1>s. PICK s : s = Append(inc_net, outbound)
    OBVIOUS
  <1>6. /\ s \in Seq(Seq(I)) /\ s # <<>> /\ s[1] = d /\ d \in Seq(I) /\ inc_net' \in Seq(Seq(I))
        /\ Tail(s) = Append(inc_net', outbound)
    <2>T. PICK T : T = Seq(I)
      OBVIOUS
    <2>1. inc_net \in Seq(T) /\ outbound \in T
      BY <1>2, <2>T
    <2>2. /\ s \in Seq(T) /\ s # <<>> /\ Tail(inc_net) \in Seq(T)
          /\ Tail(s) = Append(Tail(inc_net), outbound)
      BY <1>4, <1>s, <2>1, StreamTail
    <2>a. s[1] = inc_net[1] /\ inc_net[1] \in T
      BY <1>4, <1>s, <2>1, StreamTail
    <2>b. RemoveAt(inc_net, 1) = Tail(inc_net)
      BY <1>4, <2>1, StreamTail
    <2>3. s \in Seq(T) /\ s # <<>> /\ s[1] = d /\ d \in T
      BY <1>d, <2>2, <2>a
    <2>4. inc_net' = Tail(inc_net)
      BY <1>5, <2>b
    <2>5. inc_net' \in Seq(T) /\ Tail(s) = Append(inc_net', outbound)
      BY <2>2, <2>4
    <2> QED BY <2>T, <2>3, <2>5
  <1>7. PICK t \in 0 .. Len(history), last \in 0 .. synth.last_inc_seq_num :
          Reach(consumer, s, snap_net, synth.last_inc_seq_num, t, last)
    BY <1>s DEF FInv
  <1>u. PICK u : u = LastNumber(d, t)
    OBVIOUS
  <1>8. Rising(d) /\ Newer(d, t) /\ InOrder(Tail(s), u)
    <2>1. InOrder(s, t)
      BY <1>7 DEF Reach
    <2> QED BY <1>6, <1>u, <2>1, OrderArrived
  <1>9. /\ Tracks(consumer', history) /\ Seen(consumer', u)
        /\ Forward(consumer, t, consumer', u)
    <2>1. Tracks(consumer, history) /\ Seen(consumer, t) /\ t \in Nat
      BY <1>7 DEF FInv, Reach
    <2>2. d \in Seq(Incremental(history))
      BY <1>6, <1>I
    <2>3. /\ Tracks(recvCallback(FALSE, d), history) /\ Seen(recvCallback(FALSE, d), u)
          /\ Forward(consumer, t, recvCallback(FALSE, d), u)
      BY <1>2, <1>8, <1>u, <2>1, <2>2, NewerDatagram
    <2> QED BY <1>5, <2>3
  <1>10. u \in 0 .. Len(history)
    <2>1. CASE Len(d) = 0
      BY <1>7, <1>u, <2>1 DEF LastNumber
    <2>2. CASE Len(d) # 0
      <3>1. Len(d) \in 1 .. Len(d) /\ d \in Seq(Incremental(history))
        <4>1. Len(d) \in Nat /\ d \in Seq(I)
          BY <1>6
        <4> QED BY <1>I, <2>2, <4>1
      <3>2. u = d[Len(d)].seq_num
        BY <1>u, <2>2 DEF LastNumber
      <3>3. d[Len(d)].seq_num \in Nat /\ d[Len(d)].seq_num <= Len(history)
        BY <1>2, <3>1, NumbersAre
      <3> QED BY <1>2, <3>2, <3>3
    <2> QED BY <2>1, <2>2
  <1>11. \/ Ahead(consumer', u)
         \/ /\ consumer'.applied <= synth.last_inc_seq_num
            /\ snap_net # <<>> => consumer'.applied <= last
    BY <1>7, <1>9 DEF Reach, Forward
  <1>12. SnapshotOf(snap_net, last)
    BY <1>7 DEF Reach
  <1>13. Reach(consumer', Append(inc_net', outbound), snap_net, synth.last_inc_seq_num, u, last)
    BY <1>6, <1>8, <1>9, <1>11, <1>12 DEF Reach
  <1>14. FInv'
    BY <1>1, <1>2, <1>6, <1>7, <1>9, <1>10, <1>13, <1>I DEF FInv
  <1>15. consumer'.applied >= consumer.applied
    BY <1>9 DEF Forward
  <1> QED BY <1>14, <1>15

LEMMA ReceiveSnapshotForward ==
    ASSUME FInv, ReceiveSnapshot PROVE FInv' /\ consumer'.applied >= consumer.applied
  <1>1. UNCHANGED <<history, outbound, synth, inc_net>>
    BY DEF ReceiveSnapshot, exchangeVars
  <1>d. PICK d : d = Head(snap_net)
    OBVIOUS
  <1>2. snap_net # <<>> /\ consumer' = recvCallback(TRUE, d) /\ snap_net' = Tail(snap_net)
    BY <1>d DEF ReceiveSnapshot
  <1>s. PICK synced : synced = synth.last_inc_seq_num
    OBVIOUS
  <1>3. Len(history) \in Nat /\ synced \in 0 .. Len(history)
    BY <1>s DEF FInv, IsHistory
  <1>4. PICK t \in 0 .. Len(history), last \in 0 .. synced :
          Reach(consumer, Append(inc_net, outbound), snap_net, synced, t, last)
    BY <1>s DEF FInv
  <1>5. SnapshotOf(snap_net, last)
    BY <1>4 DEF Reach
  <1>6. d \in Seq(Message) /\ Ends(d, last) /\ SnapshotOf(snap_net', last)
    <2>1. snap_net \in Seq(Seq(Message)) /\ \A k \in 1 .. Len(snap_net) : Ends(snap_net[k], last)
      BY <1>5 DEF SnapshotOf
    <2>2. Len(snap_net) \in Nat /\ 1 \in 1 .. Len(snap_net) /\ d = snap_net[1]
      BY <1>2, <1>d, <2>1
    <2>3. /\ snap_net' \in Seq(Seq(Message)) /\ Len(snap_net') = Len(snap_net) - 1
          /\ \A k \in 1 .. Len(snap_net') : snap_net'[k] = snap_net[k + 1]
      BY <1>2, <2>1, HeadTailProperties
    <2>4. \A k \in 1 .. Len(snap_net') : Ends(snap_net'[k], last)
      <3> SUFFICES ASSUME NEW k \in 1 .. Len(snap_net') PROVE Ends(snap_net'[k], last)
        OBVIOUS
      <3>1. k + 1 \in 1 .. Len(snap_net)
        BY <2>2, <2>3
      <3> QED BY <2>1, <2>3, <3>1
    <2> QED BY <2>1, <2>2, <2>3, <2>4 DEF SnapshotOf
  <1>7. Sided(consumer, t, last)
    BY <1>2, <1>4 DEF Reach, Sided
  <1>8. /\ Tracks(consumer', history) /\ Seen(consumer', t)
        /\ Sided(consumer', t, last) /\ consumer'.applied >= consumer.applied
    <2>1. /\ Tracks(consumer, history) /\ Seen(consumer, t) /\ t \in Nat
          /\ last \in 0 .. Len(history)
      BY <1>3, <1>4 DEF FInv, Reach
    <2>2. LET c == recvCallback(TRUE, d)
          IN  /\ Tracks(c, history) /\ Seen(c, t)
              /\ Sided(c, t, last) /\ c.applied >= consumer.applied
      BY <1>3, <1>6, <1>7, <2>1, SnapshotDatagramForward
    <2> QED BY <1>2, <2>2
  <1>9. consumer'.applied <= last => consumer'.applied <= synced
    <2>1. consumer'.applied \in Int
      BY <1>8 DEF Tracks, Follows
    <2> QED BY <1>3, <1>4, <2>1
  <1>10. Reach(consumer', Append(inc_net, outbound), snap_net', synced, t, last)
    BY <1>4, <1>6, <1>8, <1>9 DEF Reach, Sided
  <1>11. FInv'
    BY <1>1, <1>4, <1>8, <1>10, <1>s DEF FInv
  <1> QED BY <1>8, <1>11

LEMMA LoseIncrementalForward == FInv /\ LoseIncremental => FInv'
  <1> SUFFICES ASSUME FInv, LoseIncremental PROVE FInv'
    OBVIOUS
  <1>1. UNCHANGED <<history, outbound, synth, snap_net, consumer>>
    BY DEF LoseIncremental, exchangeVars
  <1>2. inc_net # <<>> /\ inc_net' = Tail(inc_net)
    BY DEF LoseIncremental
  <1>I. PICK I : I = Incremental(history)
    OBVIOUS
  <1>3. inc_net \in Seq(Seq(I)) /\ outbound \in Seq(I)
    BY <1>I DEF FInv
  <1>s. PICK s : s = Append(inc_net, outbound)
    OBVIOUS
  <1>4. /\ s \in Seq(Seq(I)) /\ s # <<>> /\ inc_net' \in Seq(Seq(I))
        /\ Tail(s) = Append(inc_net', outbound)
    BY <1>2, <1>3, <1>s, StreamTail
  <1>5. PICK t \in 0 .. Len(history), last \in 0 .. synth.last_inc_seq_num :
          Reach(consumer, s, snap_net, synth.last_inc_seq_num, t, last)
    BY <1>s DEF FInv
  <1>6. InOrder(Tail(s), t)
    <2>1. InOrder(s, t)
      BY <1>5 DEF Reach
    <2> QED BY <1>4, <2>1, OrderArrived
  <1>7. Reach(consumer, Append(inc_net', outbound), snap_net, synth.last_inc_seq_num, t, last)
    BY <1>4, <1>5, <1>6 DEF Reach
  <1> QED BY <1>1, <1>3, <1>4, <1>5, <1>7, <1>I DEF FInv

LEMMA LoseSnapshotForward == FInv /\ LoseSnapshot => FInv'
  <1> SUFFICES ASSUME FInv, LoseSnapshot PROVE FInv'
    OBVIOUS
  <1>1. UNCHANGED <<history, outbound, synth, inc_net, consumer>>
    BY DEF LoseSnapshot, exchangeVars
  <1>2. snap_net # <<>> /\ snap_net' = Tail(snap_net)
    BY DEF LoseSnapshot
  <1>3. PICK t \in 0 .. Len(history), last \in 0 .. synth.last_inc_seq_num :
          Reach(consumer, Append(inc_net, outbound), snap_net, synth.last_inc_seq_num, t, last)
    BY DEF FInv
  <1>4. SnapshotOf(snap_net', last)
    <2>1. snap_net \in Seq(Seq(Message)) /\ \A k \in 1 .. Len(snap_net) : Ends(snap_net[k], last)
      BY <1>3 DEF Reach, SnapshotOf
    <2>2. /\ snap_net' \in Seq(Seq(Message)) /\ Len(snap_net') = Len(snap_net) - 1
          /\ \A k \in 1 .. Len(snap_net') : snap_net'[k] = snap_net[k + 1]
      BY <1>2, <2>1, HeadTailProperties
    <2>3. \A k \in 1 .. Len(snap_net') : Ends(snap_net'[k], last)
      <3> SUFFICES ASSUME NEW k \in 1 .. Len(snap_net') PROVE Ends(snap_net'[k], last)
        OBVIOUS
      <3>1. Len(snap_net) \in Nat
        BY <2>1
      <3>2. k + 1 \in 1 .. Len(snap_net)
        BY <2>2, <3>1
      <3> QED BY <2>1, <2>2, <3>2
    <2> QED BY <2>2, <2>3 DEF SnapshotOf
  <1>5. Reach(consumer, Append(inc_net, outbound), snap_net', synth.last_inc_seq_num, t, last)
    BY <1>2, <1>3, <1>4 DEF Reach
  <1> QED BY <1>1, <1>3, <1>5 DEF FInv

(* While datagrams are lost but not reordered, the client never goes back   *)
(* to an older book, whichever datagrams are lost, those of snapshots       *)
(* included: the update that showed the gap stays queued, and a snapshot    *)
(* that was taken too long before it leaves a gap.                          *)
(* MarketDataConsumer::checkSnapshotSync                                    *)
THEOREM NeverBackwardsHolds == ~Reorders /\ Spec => NeverBackwards
  <1> SUFFICES ASSUME ~Reorders PROVE Spec => NeverBackwards
    OBVIOUS
  <1>1. Init => FInv
    BY InitForward
  <1>2. FInv /\ [Next]_vars => FInv' /\ [consumer'.applied >= consumer.applied]_vars
    <2> SUFFICES ASSUME FInv, [Next]_vars
                 PROVE  FInv' /\ [consumer'.applied >= consumer.applied]_vars
      OBVIOUS
    <2>0. ASSUME UNCHANGED consumer PROVE consumer'.applied >= consumer.applied
      <3>1. consumer.applied \in Int
        BY DEF FInv, Tracks, Follows
      <3>2. consumer'.applied = consumer.applied
        BY <2>0
      <3> QED BY <3>1, <3>2
    <2>1. CASE PublishIncremental
      BY <2>0, <2>1, PublishIncrementalForward DEF PublishIncremental
    <2>2. CASE SendIncremental
      BY <2>0, <2>2, SendIncrementalForward DEF SendIncremental
    <2>3. CASE AddToSnapshot
      BY <2>0, <2>3, AddToSnapshotForward DEF AddToSnapshot
    <2>4. CASE PublishSnapshot
      BY <2>0, <2>4, PublishSnapshotForward DEF PublishSnapshot
    <2>5. CASE ReceiveSomeIncremental
      BY <2>5, ReceiveIncrementalForward DEF ReceiveSomeIncremental
    <2>6. CASE ReceiveSnapshot
      BY <2>6, ReceiveSnapshotForward
    <2>7. CASE LoseIncremental
      BY <2>0, <2>7, LoseIncrementalForward DEF LoseIncremental
    <2>8. CASE LoseSnapshot
      BY <2>0, <2>8, LoseSnapshotForward DEF LoseSnapshot
    <2>9. CASE UNCHANGED vars
      BY <2>9 DEF vars, exchangeVars, FInv
    <2> QED BY <2>1, <2>2, <2>3, <2>4, <2>5, <2>6, <2>7, <2>8, <2>9 DEF Next
  <1> QED BY <1>1, <1>2, PTL DEF Spec, NeverBackwards
=============================================================================
