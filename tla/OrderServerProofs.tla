--------------------------- MODULE OrderServerProofs ---------------------------
(***************************************************************************)
(* The two descriptions of the exchange's connections.                     *)
(*                                                                         *)
(* OrderServer, for any clients, however often they are started again, and *)
(* any numbers of requests: the matching engine gets each client's requests*)
(* in order as long as no round has more of them than std::sort keeps in   *)
(* place; and no response to a client that stays connected is lost while   *)
(* the kernel has room.                                                    *)
(*                                                                         *)
(* TCPServer, for any clients, message length and numbers of requests and  *)
(* responses: the requests recvCallback takes out of the byte streams are  *)
(* whole, in order and none twice.                                         *)
(***************************************************************************)
EXTENDS OrderServer, TCPServer, SequenceTheorems, FiniteSetTheorems, WellFoundedInduction,
        TLAPS

(* Induction over 0 .. n, for a set in the place of a predicate. *)
LEMMA UpTo ==
    ASSUME NEW n \in Nat, NEW T, 0 \in T, \A k \in 1 .. n : k - 1 \in T => k \in T
    PROVE  0 .. n \subseteq T
  <1> DEFINE U == {k \in 0 .. n : k \notin T}
  <1> SUFFICES ASSUME U # {} PROVE FALSE
    OBVIOUS
  <1>1. U \subseteq Nat /\ U # {}
    OBVIOUS
  <1> HIDE DEF U
  <1>2. PICK t \in U : \A u \in U : ~(<<u, t>> \in OpToRel(<, Nat))
    BY <1>1, WFMin, NatLessThanWellFounded, Zenon
  <1>3. \A u \in U : ~(u < t)
    BY <1>1, <1>2, Zenon DEF OpToRel
  <1>4. t \in 0 .. n /\ t \notin T /\ t # 0
    BY DEF U
  <1>5. t \in 1 .. n /\ t - 1 \in 0 .. n /\ t - 1 < t
    BY <1>4
  <1>6. t - 1 \in U
    BY <1>4, <1>5 DEF U
  <1> QED BY <1>3, <1>5, <1>6

-----------------------------------------------------------------------------
Gateway == [session : Nat \ {0}, next_outgoing_seq_num : Nat, next_exp_seq_num : Nat,
            rejected : BOOLEAN]
Request == [session : Nat, seq_num : Nat, time : Nat]
Received == [recv_time : Nat, client : ClientIds, session : Nat, seq_num : Nat, time : Nat]
State == [next_exp : Nat, known : Nat, pending : Seq(Received), fatal : BOOLEAN]

TypeInv ==
    /\ clock \in Nat
    /\ gateway \in [ClientIds -> Gateway]
    /\ wire \in [ClientIds -> Seq(Request)]
    /\ back \in [ClientIds -> Seq(Nat)] /\ send_buffer \in [ClientIds -> Seq(Nat)]
    /\ polling \in 1 .. NumSockets + 2 /\ received \in BOOLEAN /\ fatal \in BOOLEAN
    /\ pending \in Seq(Received) /\ incoming \in Seq(Received)
    /\ responses \in Seq(ClientIds) /\ processed \in Nat
    /\ cid_next_exp_seq_num \in [ClientIds -> Nat] /\ cid_tcp_socket \in [ClientIds -> Nat]
    /\ cid_next_outgoing_seq_num \in [ClientIds -> Nat]

(* What is on the wire is of a session the client has had. *)
Wired == \A c \in ClientIds : \A k \in 1 .. Len(wire[c]) :
           wire[c][k].session \in 1 .. gateway[c].session

(* A client is known by a session it has had. *)
Sessions == \A c \in ClientIds : cid_tcp_socket[c] <= gateway[c].session

(* What has been accepted came over the connections the clients are known by. *)
Known(s) == \A k \in 1 .. Len(s) : /\ s[k].session = cid_tcp_socket[s[k].client]
                                   /\ s[k].session # 0

Base == /\ TypeInv /\ Wired /\ Sessions /\ Known(incoming) /\ Known(pending)
        /\ \A k \in 1 .. Len(responses) : cid_tcp_socket[responses[k]] # 0

LEMMA SocketTypes ==
    /\ NumSockets \in Nat /\ receive_sockets \in Seq(ClientIds)
    /\ \A k \in 1 .. NumSockets : receive_sockets[k] \in ClientIds
  BY SocketAssumption DEF NumSockets

-----------------------------------------------------------------------------
(* The loop of recvCallback. *)
Before(c) == [next_exp |-> cid_next_exp_seq_num[c], known |-> cid_tcp_socket[c],
              pending |-> pending, fatal |-> fatal]
RxTime(c, session) == rxTime(wire[c], session)

Loops(after, c) ==
    /\ after[0] = Before(c)
    /\ \A k \in 1 .. Len(wire[c]) :
         after[k] = accept(after[k - 1], RxTime(c, wire[c][k].session), c, wire[c][k])
    /\ recvCallback(c) = after[Len(wire[c])]

LEMMA RecvCallbackSteps ==
    ASSUME NEW c, Len(wire[c]) \in Nat PROVE \E after : Loops(after, c)
  <1> DEFINE n == Len(wire[c])
             F(f) == [k \in 0 .. Len(wire[c]) |->
                        IF k = 0 THEN Before(c)
                        ELSE accept(f[k - 1], rxTime(wire[c], wire[c][k].session), c, wire[c][k])]
             LoopsTo(f, m) == /\ f[0] = Before(c)
                              /\ \A k \in 1 .. m : f[k] =
                                   accept(f[k - 1], RxTime(c, wire[c][k].session), c, wire[c][k])
             T == {m \in 0 .. n : \E f : LoopsTo(f, m)}
  <1>1. 0 \in T
    <2>1. PICK f : f = [k \in {0} |-> Before(c)]
      OBVIOUS
    <2>2. f[0] = Before(c) /\ 1 .. 0 = {}
      BY <2>1
    <2>3. LoopsTo(f, 0)
      BY <2>2
    <2>4. 0 \in 0 .. n
      OBVIOUS
    <2> QED BY <2>3, <2>4
  <1>2. ASSUME NEW k \in 1 .. n, k - 1 \in T PROVE k \in T
    <2>1. PICK f : LoopsTo(f, k - 1)
      BY <1>2
    <2> DEFINE g == [i \in 0 .. k |-> IF i < k THEN f[i]
                                      ELSE accept(f[k - 1], RxTime(c, wire[c][k].session), c,
                                                  wire[c][k])]
    <2>2. g[0] = Before(c)
      BY <2>1
    <2>3. ASSUME NEW i \in 1 .. k
          PROVE  g[i] = accept(g[i - 1], RxTime(c, wire[c][i].session), c, wire[c][i])
      <3>1. i \in 0 .. k /\ i - 1 \in 0 .. k /\ i - 1 < k
        OBVIOUS
      <3>2. g[i - 1] = f[i - 1]
        BY <3>1
      <3>3. CASE i = k
        BY <3>1, <3>2, <3>3
      <3>4. CASE i < k
        <4>1. i \in 1 .. k - 1
          BY <3>4
        <4>2. f[i] = accept(f[i - 1], RxTime(c, wire[c][i].session), c, wire[c][i])
          BY <2>1, <4>1
        <4> QED BY <3>1, <3>2, <3>4, <4>2
      <3> QED BY <3>3, <3>4
    <2>4. LoopsTo(g, k)
      BY <2>2, <2>3
    <2>5. k \in 0 .. n
      OBVIOUS
    <2> QED BY <2>4, <2>5
  <1>3. n \in T
    <2> HIDE DEF T
    <2>1. 0 .. n \subseteq T
      BY <1>1, <1>2, UpTo
    <2> QED BY <2>1
  <1>4. PICK f : LoopsTo(f, n)
    BY <1>3
  <1>5. F(f) = F(F(f))
    <2>1. ASSUME NEW k \in 0 .. n, k # 0 PROVE f[k - 1] = F(f)[k - 1]
      <3>1. k - 1 \in 0 .. n
        BY <2>1
      <3>2. CASE k - 1 = 0
        BY <1>4, <3>1, <3>2
      <3>3. CASE k - 1 # 0
        BY <1>4, <3>1, <3>3 DEF RxTime
      <3> QED BY <3>2, <3>3
    <2> QED BY <2>1
  <1> DEFINE after == CHOOSE g : g = F(g)
  <1>6. after = F(after)
    BY <1>5
  <1>7. recvCallback(c) = after[Len(wire[c])]
    BY DEF recvCallback, Before
  <1> HIDE DEF after
  <1>8. after[0] = Before(c)
    BY <1>6
  <1>9. \A k \in 1 .. n : after[k] =
          accept(after[k - 1], RxTime(c, wire[c][k].session), c, wire[c][k])
    BY <1>6, SMTT(20) DEF RxTime
  <1> QED BY <1>7, <1>8, <1>9 DEF Loops

(* What m requests of sessions up to g make of a state of the loop: some of *)
(* the session the client is known by are appended, and numbered on.        *)
Accepts(s, t, c, q, g, m) ==
    /\ t \in State /\ q \in Seq(Received) /\ t.pending = s.pending \o q
    /\ s.fatal => t.fatal
    /\ t.known = s.known \/ (s.known = 0 /\ t.known \in 1 .. g)
    /\ \A k \in 1 .. Len(q) : /\ q[k].client = c /\ q[k].session = t.known
                              /\ q[k].recv_time = RxTime(c, t.known)
    /\ q # <<>> => t.known # 0
    /\ ~t.fatal => /\ t.next_exp = s.next_exp + Len(q)
                   /\ \A k \in 1 .. Len(q) : q[k].seq_num = s.next_exp + k - 1
    /\ m = 0 => q = <<>>

(* The kernel's time of a session that has a request on the wire. *)
LEMMA LastOf ==
    ASSUME NEW n \in Nat, NEW S \in SUBSET (1 .. n), S # {}
    PROVE  Max(S) \in S
  <1> DEFINE U == {j \in Nat : \A k \in S : k <= j}
  <1>1. n \in U
    OBVIOUS
  <1>2. U \subseteq Nat /\ U # {}
    BY <1>1
  <1> HIDE DEF U
  <1>3. PICK t \in U : \A u \in U : ~(<<u, t>> \in OpToRel(<, Nat))
    BY <1>2, WFMin, NatLessThanWellFounded, Zenon
  <1>4. \A u \in U : ~(u < t)
    BY <1>2, <1>3, Zenon DEF OpToRel
  <1>5. t \in Nat /\ \A k \in S : k <= t
    BY DEF U
  <1>6. t \in S
    <2> SUFFICES ASSUME t \notin S PROVE FALSE
      OBVIOUS
    <2>1. PICK k \in S : TRUE
      OBVIOUS
    <2>2. t - 1 \in Nat
      BY <1>5, <2>1
    <2>3. \A j \in S : j <= t - 1
      BY <1>5
    <2>4. t - 1 \in U /\ t - 1 < t
      BY <1>5, <2>2, <2>3 DEF U
    <2> QED BY <1>4, <2>4
  <1>7. \A y \in S : t >= y
    BY <1>5
  <1> QED BY <1>6, <1>7 DEF Max

LEMMA RxTimeIs ==
    ASSUME NEW c, wire[c] \in Seq(Request), NEW k \in 1 .. Len(wire[c])
    PROVE  RxTime(c, wire[c][k].session) \in Nat
  <1> DEFINE S == {i \in 1 .. Len(wire[c]) : wire[c][i].session = wire[c][k].session}
  <1>1. S # {} /\ S \in SUBSET (1 .. Len(wire[c])) /\ Len(wire[c]) \in Nat
    OBVIOUS
  <1>2. RxTime(c, wire[c][k].session) = wire[c][Max(S)].time
    BY <1>1 DEF RxTime, rxTime, SelectLastInSeq
  <1> HIDE DEF S
  <1>3. Max(S) \in 1 .. Len(wire[c])
    BY <1>1, LastOf
  <1>4. wire[c][Max(S)] \in Request
    BY <1>3
  <1> QED BY <1>2, <1>4 DEF Request

LEMMA AcceptKeeps ==
    ASSUME NEW s \in State, NEW t \in State, NEW c \in ClientIds, NEW q, NEW g \in Nat \ {0},
           NEW m \in Nat, Accepts(s, t, c, q, g, m), NEW r \in Request,
           r.session \in 1 .. g, RxTime(c, r.session) \in Nat
    PROVE  \E p : Accepts(s, accept(t, RxTime(c, r.session), c, r), c, p, g, m + 1)
  <1> DEFINE h == r.session
             known == IF t.known = 0 THEN h ELSE t.known
             e == RecvTimeClientRequest(RxTime(c, h), c, r)
  <1>1. /\ known \in Nat /\ known # 0 /\ h \in Nat \ {0}
        /\ known = s.known \/ (s.known = 0 /\ known \in 1 .. g)
        /\ q # <<>> => known = t.known
    BY DEF Accepts, State
  <1>0. /\ t \in State /\ t.next_exp \in Nat /\ t.known \in Nat /\ t.fatal \in BOOLEAN
        /\ t.pending \in Seq(Received)
    BY DEF Accepts, State
  <1>2. CASE known # r.session \/ r.seq_num # t.next_exp
    <2>1. accept(t, RxTime(c, h), c, r) = [t EXCEPT !.known = known]
      BY <1>2 DEF accept
    <2>2. PICK u : u = [t EXCEPT !.known = known]
      OBVIOUS
    <2>3. u \in State /\ u.known = known /\ u.pending = t.pending /\ u.fatal = t.fatal
          /\ u.next_exp = t.next_exp
      BY <1>1, <2>2 DEF State
    <2>4. Accepts(s, u, c, q, g, m + 1)
      <3>1. \A k \in 1 .. Len(q) : q # <<>>
        BY DEF Accepts
      <3> HIDE DEF known, h
      <3> QED BY <1>1, <2>3, <3>1 DEF Accepts
    <2> QED BY <2>1, <2>2, <2>4
  <1>3. CASE ~(known # r.session \/ r.seq_num # t.next_exp)
    <2>1. PICK v : v = [t EXCEPT !.known = known, !.next_exp = @ + 1]
      OBVIOUS
    <2>2. accept(t, RxTime(c, h), c, r) = addClientRequest(v, RxTime(c, h), c, r)
      BY <1>3, <2>1 DEF accept
    <2>3. v \in State /\ v.known = known /\ v.pending = t.pending /\ v.fatal = t.fatal
          /\ v.next_exp = t.next_exp + 1
      <3>1. PICK kn \in Nat, ne \in Nat : kn = known /\ ne = t.next_exp + 1
        BY <1>0, <1>1
      <3>2. v = [t EXCEPT !.known = kn, !.next_exp = ne]
        BY <2>1, <3>1
      <3> HIDE DEF known
      <3> QED BY <1>0, <3>1, <3>2 DEF State
    <2>4. known = h /\ r.seq_num = t.next_exp
      BY <1>3
    <2>5. CASE Len(v.pending) >= ME_MAX_PENDING_REQUESTS
      <3>1. PICK u : u = [v EXCEPT !.fatal = TRUE]
        OBVIOUS
      <3>2. accept(t, RxTime(c, h), c, r) = u
        BY <2>2, <2>5, <3>1 DEF addClientRequest
      <3>3. u \in State /\ u.known = h /\ u.pending = t.pending /\ u.fatal = TRUE
        BY <2>3, <2>4, <3>1 DEF State
      <3>4. Accepts(s, u, c, q, g, m + 1)
        <4>1. \A k \in 1 .. Len(q) : q # <<>>
          BY DEF Accepts
        <4> HIDE DEF known, h
        <4> QED BY <1>1, <2>4, <3>3, <4>1 DEF Accepts
      <3> QED BY <3>2, <3>4
    <2>6. CASE ~(Len(v.pending) >= ME_MAX_PENDING_REQUESTS)
      <3>1. PICK u : u = [v EXCEPT !.pending = Append(@, e)]
        OBVIOUS
      <3>2. accept(t, RxTime(c, h), c, r) = u
        BY <2>2, <2>6, <3>1 DEF addClientRequest
      <3>3. e \in Received /\ e.client = c /\ e.session = h /\ e.recv_time = RxTime(c, h)
            /\ e.seq_num = t.next_exp
        BY <2>4 DEF RecvTimeClientRequest, Received, Request
      <3>4. u \in State /\ u.known = h /\ u.pending = Append(t.pending, e) /\ u.fatal = t.fatal
            /\ u.next_exp = t.next_exp + 1
        <4> HIDE DEF e, known
        <4>0. Append(t.pending, e) \in Seq(Received)
          BY <1>0, <3>3, AppendProperties
        <4>1. PICK pe \in Seq(Received) : pe = Append(t.pending, e)
          BY <4>0, Zenon
        <4>2. u = [v EXCEPT !.pending = pe]
          BY <2>3, <3>1, <4>1
        <4> QED BY <2>3, <2>4, <4>1, <4>2 DEF State
      <3>5. PICK p : p = Append(q, e)
        OBVIOUS
      <3> HIDE DEF e
      <3>6. q \in Seq(Received) /\ s.pending \in Seq(Received) /\ t.pending = s.pending \o q
        BY DEF Accepts, State
      <3>7. p \in Seq(Received) /\ Append(t.pending, e) = s.pending \o p
        <4>1. p \in Seq(Received)
          BY <3>3, <3>5, <3>6
        <4>2. Append(s.pending \o q, e) = s.pending \o Append(q, e)
          <5>1. e \in Received /\ q \in Seq(Received) /\ s.pending \in Seq(Received)
            BY <3>3, <3>6
          <5>2. PICK x : x = s.pending
            OBVIOUS
          <5>3. Append(x \o q, e) = x \o Append(q, e)
            <6>1. PICK y : y = e
              OBVIOUS
            <6>2. x \in Seq(Received) /\ y \in Received /\ q \in Seq(Received)
              BY <5>1, <5>2, <6>1
            <6>3. Append(x \o q, y) = x \o Append(q, y)
              BY ONLY <6>2
            <6> QED BY <6>1, <6>3
          <5> QED BY <5>2, <5>3
        <4> QED BY <3>5, <3>6, <4>1, <4>2
      <3>8. Len(p) = Len(q) + 1 /\ (\A k \in 1 .. Len(q) : p[k] = q[k]) /\ p[Len(q) + 1] = e
            /\ Len(q) \in Nat
        BY <3>3, <3>5, <3>6
      <3>9. ASSUME NEW k \in 1 .. Len(p)
            PROVE  /\ p[k].client = c /\ p[k].session = h /\ p[k].recv_time = RxTime(c, h)
                   /\ ~t.fatal => p[k].seq_num = s.next_exp + k - 1
        <4>1. CASE k = Len(q) + 1
          <5>1. ~t.fatal => t.next_exp = s.next_exp + Len(q)
            BY DEF Accepts
          <5>2. s.next_exp \in Nat
            BY DEF State
          <5> QED BY <3>3, <3>8, <4>1, <5>1, <5>2
        <4>2. CASE k # Len(q) + 1
          <5>1. k \in 1 .. Len(q) /\ p[k] = q[k]
            BY <3>8, <4>2
          <5>2. t.known = h
            BY <1>1, <2>4, <5>1
          <5> QED BY <5>1, <5>2 DEF Accepts
        <4> QED BY <4>1, <4>2
      <3>10. ~t.fatal => u.next_exp = s.next_exp + Len(p)
        <4>1. ~t.fatal => t.next_exp = s.next_exp + Len(q)
          BY DEF Accepts
        <4>2. s.next_exp \in Nat
          BY DEF State
        <4>3. u.next_exp = t.next_exp + 1
          BY <3>4
        <4>4. Len(p) = Len(q) + 1 /\ Len(q) \in Nat
          BY <3>8
        <4> QED BY <4>1, <4>2, <4>3, <4>4
      <3>11. u.known = s.known \/ (s.known = 0 /\ u.known \in 1 .. g)
        BY <1>1, <2>4, <3>4
      <3>12. s.fatal => u.fatal
        BY <3>4 DEF Accepts
      <3>13. Accepts(s, u, c, p, g, m + 1)
        BY <1>1, <2>4, <3>4, <3>7, <3>9, <3>10, <3>11, <3>12 DEF Accepts
      <3> QED BY <3>2, <3>13
    <2> QED BY <2>5, <2>6
  <1> QED BY <1>2, <1>3

(* The whole loop. *)
LEMMA RecvCallbackAccepts ==
    ASSUME Base, NEW c \in ClientIds
    PROVE  \E q : Accepts(Before(c), recvCallback(c), c, q, gateway[c].session, Len(wire[c]))
  <1> DEFINE n == Len(wire[c])
             g == gateway[c].session
             s == Before(c)
  <1>1. /\ wire[c] \in Seq(Request) /\ n \in Nat /\ g \in Nat \ {0} /\ s \in State
        /\ \A k \in 1 .. n : wire[c][k] \in Request /\ wire[c][k].session \in 1 .. g
    <2>1. gateway[c] \in Gateway /\ wire[c] \in Seq(Request)
      BY DEF Base, TypeInv
    <2>2. s \in State
      BY DEF Base, TypeInv, State, Before
    <2>3. \A k \in 1 .. n : wire[c][k] \in Request /\ wire[c][k].session \in 1 .. g
      BY <2>1 DEF Base, Wired
    <2> QED BY <2>1, <2>2, <2>3 DEF Gateway
  <1>2. PICK after : Loops(after, c)
    BY <1>1, RecvCallbackSteps
  <1>3. Accepts(s, s, c, <<>>, g, 0)
    <2>1. s.pending \in Seq(Received) /\ s.next_exp \in Nat
      BY <1>1 DEF State
    <2>2. s.pending = s.pending \o <<>>
      BY <2>1
    <2> HIDE DEF s, g
    <2> QED BY <1>1, <2>1, <2>2 DEF Accepts
  <1> DEFINE T == {k \in 0 .. n : \E q : Accepts(s, after[k], c, q, g, k)}
  <1>4. 0 \in T
    <2>1. after[0] = s /\ 0 \in 0 .. n
      BY <1>1, <1>2 DEF Loops
    <2> HIDE DEF s, g
    <2> QED BY <1>3, <2>1
  <1>5. ASSUME NEW k \in 1 .. n, k - 1 \in T PROVE k \in T
    <2>0. RxTime(c, wire[c][k].session) \in Nat
      BY <1>1, RxTimeIs
    <2>1. PICK q : Accepts(s, after[k - 1], c, q, g, k - 1)
      BY <1>5
    <2>2. after[k - 1] \in State
      BY <2>1 DEF Accepts
    <2>3. after[k] = accept(after[k - 1], RxTime(c, wire[c][k].session), c, wire[c][k])
      BY <1>2 DEF Loops
    <2>4. wire[c][k] \in Request /\ wire[c][k].session \in 1 .. g
      BY <1>1
    <2>5. k - 1 \in Nat /\ k - 1 + 1 = k /\ k \in 0 .. n
      BY <1>1
    <2> HIDE DEF s, g
    <2>6. \E p : Accepts(s, after[k], c, p, g, k - 1 + 1)
      BY <1>1, <2>0, <2>1, <2>2, <2>3, <2>4, <2>5, AcceptKeeps
    <2> QED BY <2>5, <2>6
  <1>6. n \in T
    <2> HIDE DEF T
    <2>1. 0 .. n \subseteq T
      BY <1>1, <1>4, <1>5, UpTo
    <2> QED BY <1>1, <2>1
  <1> QED BY <1>2, <1>6 DEF Loops

-----------------------------------------------------------------------------
(* The requests of c in s are numbered from m + 1 to n, in this order.      *)
Numbered(s, c, m, n) ==
    /\ m \in Nat /\ n \in Nat /\ m <= n
    /\ Numbers(s, c, Len(s)) = m + 1 .. n
    /\ \A k \in 1 .. Len(s) : s[k].client = c =>
         s[k].seq_num > m /\ Numbers(s, c, k - 1) = m + 1 .. s[k].seq_num - 1

LEMMA NumberedEmpty ==
    ASSUME NEW c, NEW m \in Nat PROVE Numbered(<<>>, c, m, m)
  <1>1. Len(<<>>) = 0 /\ 1 .. 0 = {} /\ m + 1 .. m = {}
    OBVIOUS
  <1>2. Numbers(<<>>, c, 0) = {}
    BY <1>1 DEF Numbers
  <1>3. Numbers(<<>>, c, Len(<<>>)) = m + 1 .. m
    BY <1>1, <1>2, Zenon
  <1>4. \A k \in 1 .. Len(<<>>) : FALSE
    BY <1>1, Zenon
  <1>5. m <= m
    OBVIOUS
  <1> QED BY <1>3, <1>4, <1>5, Zenon DEF Numbered

LEMMA NumbersLeft ==
    ASSUME NEW s \in Seq(Received), NEW t \in Seq(Received), NEW c
    PROVE  \A k \in 0 .. Len(s) : Numbers(s \o t, c, k) = Numbers(s, c, k)
  <1>1. \A k \in 1 .. Len(s) : (s \o t)[k] = s[k]
    OBVIOUS
  <1>2. ASSUME NEW k \in 0 .. Len(s) PROVE \A i \in 1 .. k : i \in 1 .. Len(s)
    OBVIOUS
  <1> QED BY <1>1, <1>2 DEF Numbers

LEMMA NumbersRight ==
    ASSUME NEW s \in Seq(Received), NEW t \in Seq(Received), NEW c
    PROVE  \A k \in 0 .. Len(t) :
             Numbers(s \o t, c, Len(s) + k) = Numbers(s, c, Len(s)) \cup Numbers(t, c, k)
  <1>1. PICK u : u = s \o t
    OBVIOUS
  <1>2. /\ Len(s) \in Nat /\ Len(t) \in Nat /\ u \in Seq(Received)
        /\ \A k \in 1 .. Len(s) : u[k] = s[k]
        /\ \A k \in 1 .. Len(t) : u[Len(s) + k] = t[k]
    BY <1>1
  <1>4. ASSUME NEW k \in 0 .. Len(t)
        PROVE  Numbers(u, c, Len(s) + k) = Numbers(s, c, Len(s)) \cup Numbers(t, c, k)
    <2>1. ASSUME NEW x \in Numbers(u, c, Len(s) + k)
          PROVE  x \in Numbers(s, c, Len(s)) \cup Numbers(t, c, k)
      <3>1. PICK i \in 1 .. Len(s) + k : u[i].client = c /\ x = u[i].seq_num
        BY DEF Numbers
      <3>2. CASE i <= Len(s)
        <4>1. i \in 1 .. Len(s) /\ u[i] = s[i]
          BY <1>2, <3>2
        <4> QED BY <3>1, <4>1 DEF Numbers
      <3>3. CASE ~(i <= Len(s))
        <4>1. i - Len(s) \in 1 .. k /\ i - Len(s) \in 1 .. Len(t) /\ Len(s) + (i - Len(s)) = i
          BY <1>2, <3>3
        <4>2. u[i] = t[i - Len(s)]
          BY <1>2, <4>1
        <4> QED BY <3>1, <4>1, <4>2 DEF Numbers
      <3> QED BY <3>2, <3>3
    <2>2. ASSUME NEW x \in Numbers(s, c, Len(s)) PROVE x \in Numbers(u, c, Len(s) + k)
      <3>1. PICK i \in 1 .. Len(s) : s[i].client = c /\ x = s[i].seq_num
        BY DEF Numbers
      <3>2. i \in 1 .. Len(s) + k /\ u[i] = s[i]
        BY <1>2
      <3> QED BY <3>1, <3>2 DEF Numbers
    <2>3. ASSUME NEW x \in Numbers(t, c, k) PROVE x \in Numbers(u, c, Len(s) + k)
      <3>1. PICK i \in 1 .. k : t[i].client = c /\ x = t[i].seq_num
        BY DEF Numbers
      <3>2. Len(s) + i \in 1 .. Len(s) + k /\ i \in 1 .. Len(t) /\ u[Len(s) + i] = t[i]
        BY <1>2
      <3> QED BY <3>1, <3>2 DEF Numbers
    <2> QED BY <2>1, <2>2, <2>3
  <1> QED BY <1>1, <1>4

LEMMA JoinedIntervals ==
    ASSUME NEW l \in Nat, NEW m \in Nat, NEW n \in Nat, l <= m, m <= n
    PROVE  (l + 1 .. m) \cup (m + 1 .. n) = l + 1 .. n
  OBVIOUS

LEMMA NumberedConcat ==
    ASSUME NEW s \in Seq(Received), NEW t \in Seq(Received), NEW c,
           NEW l, NEW m, NEW n, Numbered(s, c, l, m), Numbered(t, c, m, n)
    PROVE  Numbered(s \o t, c, l, n)
  <1>1. PICK u : u = s \o t
    OBVIOUS
  <1>2. /\ Len(s) \in Nat /\ Len(t) \in Nat /\ Len(u) = Len(s) + Len(t) /\ u \in Seq(Received)
        /\ \A k \in 1 .. Len(s) : u[k] = s[k]
        /\ \A k \in 1 .. Len(t) : u[Len(s) + k] = t[k]
    BY <1>1
  <1>3. /\ \A k \in 0 .. Len(s) : Numbers(u, c, k) = Numbers(s, c, k)
        /\ \A k \in 0 .. Len(t) :
             Numbers(u, c, Len(s) + k) = Numbers(s, c, Len(s)) \cup Numbers(t, c, k)
    <2>1. \A k \in 0 .. Len(s) : Numbers(s \o t, c, k) = Numbers(s, c, k)
      BY NumbersLeft
    <2>2. \A k \in 0 .. Len(t) :
            Numbers(s \o t, c, Len(s) + k) = Numbers(s, c, Len(s)) \cup Numbers(t, c, k)
      BY NumbersRight
    <2> QED BY <1>1, <2>1, <2>2
  <1>4. l \in Nat /\ m \in Nat /\ n \in Nat /\ l <= m /\ m <= n
        /\ Numbers(s, c, Len(s)) = l + 1 .. m /\ Numbers(t, c, Len(t)) = m + 1 .. n
    BY DEF Numbered
  <1>5. Numbers(u, c, Len(u)) = l + 1 .. n
    <2>1. Numbers(u, c, Len(s) + Len(t)) = (l + 1 .. m) \cup (m + 1 .. n)
      BY <1>2, <1>3, <1>4, SMTT(20)
    <2>2. (l + 1 .. m) \cup (m + 1 .. n) = l + 1 .. n
      BY <1>4, JoinedIntervals, Zenon
    <2> QED BY <1>2, <2>1, <2>2
  <1>6. ASSUME NEW k \in 1 .. Len(u), u[k].client = c
        PROVE  u[k].seq_num > l /\ Numbers(u, c, k - 1) = l + 1 .. u[k].seq_num - 1
    <2>1. CASE k <= Len(s)
      <3>1. k \in 1 .. Len(s) /\ k - 1 \in 0 .. Len(s)
        BY <1>2, <2>1
      <3>2. u[k] = s[k]
        BY <1>2, <3>1
      <3>3. s[k].seq_num > l /\ Numbers(s, c, k - 1) = l + 1 .. s[k].seq_num - 1
        BY <1>6, <3>1, <3>2 DEF Numbered
      <3> QED BY <1>3, <3>1, <3>2, <3>3
    <2>2. CASE ~(k <= Len(s))
      <3> DEFINE j == k - Len(s)
      <3>1. j \in 1 .. Len(t) /\ j - 1 \in 0 .. Len(t) /\ Len(s) + j = k
            /\ Len(s) + (j - 1) = k - 1
        BY <1>2, <2>2
      <3>2. u[k] = t[j]
        BY <1>2, <3>1
      <3>3. t[j].seq_num > m /\ Numbers(t, c, j - 1) = m + 1 .. t[j].seq_num - 1
        BY <1>6, <3>1, <3>2 DEF Numbered
      <3>4. t[j].seq_num \in Nat
        <4>1. t[j] \in Received
          BY <3>1
        <4> QED BY <4>1 DEF Received
      <3> HIDE DEF j
      <3>5. Numbers(u, c, k - 1) = (l + 1 .. m) \cup (m + 1 .. t[j].seq_num - 1)
        BY <1>3, <1>4, <3>1, <3>3
      <3>6. PICK x \in Nat : x = t[j].seq_num
        BY <3>4
      <3>7. (l + 1 .. m) \cup (m + 1 .. x - 1) = l + 1 .. x - 1
        <4>1. x - 1 \in Nat /\ m <= x - 1
          BY <1>4, <3>3, <3>6, SMTT(20)
        <4>2. PICK y \in Nat : y = x - 1
          BY <4>1
        <4>3. m <= y
          BY <4>1, <4>2
        <4>4. (l + 1 .. m) \cup (m + 1 .. y) = l + 1 .. y
          BY <1>4, <4>3, JoinedIntervals
        <4> QED BY <4>2, <4>4
      <3>8. x > l
        BY <1>4, <3>3, <3>6, SMTT(20)
      <3> QED BY <3>2, <3>5, <3>6, <3>7, <3>8
    <2> QED BY <2>1, <2>2
  <1>7. l \in Nat /\ n \in Nat /\ l <= n
    BY <1>4
  <1>8. Numbered(u, c, l, n)
    BY <1>5, <1>6, <1>7, Zenon DEF Numbered
  <1> QED BY <1>1, <1>8

LEMMA NumberedNone ==
    ASSUME NEW q \in Seq(Received), NEW d, NEW m \in Nat,
           \A k \in 1 .. Len(q) : q[k].client # d
    PROVE  Numbered(q, d, m, m)
  <1>1. Numbers(q, d, Len(q)) = {}
    BY DEF Numbers
  <1>2. m + 1 .. m = {} /\ m <= m
    OBVIOUS
  <1> QED BY <1>1, <1>2 DEF Numbered

(* Requests of one client that are numbered on.                             *)
LEMMA NumberedOn ==
    ASSUME NEW q \in Seq(Received), NEW c, NEW n \in Nat,
           \A k \in 1 .. Len(q) : q[k].client = c /\ q[k].seq_num = n + k
    PROVE  Numbered(q, c, n, n + Len(q))
  <1>0. Len(q) \in Nat
    OBVIOUS
  <1>1. ASSUME NEW k \in 0 .. Len(q) PROVE Numbers(q, c, k) = n + 1 .. n + k
    <2>1. \A i \in 1 .. k : q[i].client = c /\ q[i].seq_num = n + i
      BY <1>0
    <2>2. ASSUME NEW x \in n + 1 .. n + k PROVE x \in Numbers(q, c, k)
      <3>1. x - n \in 1 .. k /\ n + (x - n) = x
        OBVIOUS
      <3> QED BY <2>1, <3>1 DEF Numbers
    <2>3. ASSUME NEW x \in Numbers(q, c, k) PROVE x \in n + 1 .. n + k
      <3>1. PICK i \in 1 .. k : x = q[i].seq_num
        BY DEF Numbers
      <3> QED BY <2>1, <3>1
    <2> QED BY <2>2, <2>3
  <1>2. Numbered(q, c, n, n + Len(q))
    <2>1. ASSUME NEW k \in 1 .. Len(q)
          PROVE  q[k].seq_num > n /\ Numbers(q, c, k - 1) = n + 1 .. q[k].seq_num - 1
      <3>1. q[k].seq_num = n + k /\ k - 1 \in 0 .. Len(q) /\ n + (k - 1) = n + k - 1
        BY <1>0
      <3> QED BY <1>1, <3>1
    <2>2. Numbers(q, c, Len(q)) = n + 1 .. n + Len(q) /\ n + Len(q) \in Nat /\ n <= n + Len(q)
      BY <1>0, <1>1
    <2> QED BY <2>1, <2>2 DEF Numbered
  <1> QED BY <1>2

(* A stable sort by a time that the requests of c share leaves them in      *)
(* order.                                                                   *)
LEMMA SortedEntries ==
    ASSUME NEW s \in Seq(Received), NEW t \in sorted(s)
    PROVE  /\ t \in Seq(Received) /\ Len(t) = Len(s)
           /\ \A k \in 1 .. Len(t) : \E j \in 1 .. Len(s) : t[k] = s[j]
  <1>1. PICK p \in [1 .. Len(s) -> 1 .. Len(s)] : t = [k \in 1 .. Len(s) |-> s[p[k]]]
    BY DEF sorted
  <1>2. \A k \in 1 .. Len(s) : p[k] \in 1 .. Len(s) /\ s[p[k]] \in Received
    OBVIOUS
  <1>3. Len(s) \in Nat
    OBVIOUS
  <1>4. t \in Seq(Received) /\ Len(t) = Len(s)
    BY <1>1, <1>2, <1>3
  <1> QED BY <1>1, <1>2, <1>4

LEMMA SortedNumbered ==
    ASSUME NEW s \in Seq(Received), NEW t \in sorted(s), Len(s) <= SortThreshold,
           NEW c, NEW m, NEW n, Numbered(s, c, m, n),
           \A i, j \in 1 .. Len(s) : s[i].client = c /\ s[j].client = c =>
             s[i].recv_time = s[j].recv_time
    PROVE  Numbered(t, c, m, n)
  <1> DEFINE l == Len(s)
  <1>1. PICK p \in [1 .. l -> 1 .. l] :
          /\ \A i, j \in 1 .. l : p[i] = p[j] => i = j
          /\ \A i, j \in 1 .. l : i < j =>
               /\ s[p[i]].recv_time <= s[p[j]].recv_time
               /\ l <= SortThreshold /\ s[p[i]].recv_time = s[p[j]].recv_time => p[i] < p[j]
          /\ t = [k \in 1 .. l |-> s[p[k]]]
    BY DEF sorted
  <1>2. l \in Nat /\ t \in Seq(Received) /\ Len(t) = l
    BY SortedEntries
  <1> HIDE DEF l
  <1>3. \A j \in 1 .. l : \E i \in 1 .. l : p[i] = j
    <2>1. p \in Injection(1 .. l, 1 .. l)
      BY <1>1 DEF Injection, IsInjective
    <2>2. IsFiniteSet(1 .. l)
      BY <1>2, FS_Interval
    <2>3. p \in Surjection(1 .. l, 1 .. l)
      BY <2>1, <2>2, FS_Injection
    <2> QED BY <2>3 DEF Surjection
  <1>4. ASSUME NEW i \in 1 .. l, NEW j \in 1 .. l, s[p[i]].client = c, s[p[j]].client = c
        PROVE  i < j <=> p[i] < p[j]
    <2>1. p[i] \in 1 .. l /\ p[j] \in 1 .. l
      OBVIOUS
    <2>2. s[p[i]].recv_time = s[p[j]].recv_time
      BY <1>4, <2>1 DEF l
    <2>3. i < j => p[i] < p[j]
      BY <1>1, <2>2 DEF l
    <2>4. j < i => p[j] < p[i]
      BY <1>1, <2>2 DEF l
    <2>5. i = j => p[i] = p[j]
      OBVIOUS
    <2>6. i \in Nat /\ j \in Nat /\ p[i] \in Nat /\ p[j] \in Nat
      BY <1>2, <2>1
    <2> QED BY ONLY <2>3, <2>4, <2>5, <2>6
  <1>5. ASSUME NEW k \in 1 .. l, t[k].client = c
        PROVE  Numbers(t, c, k - 1) = Numbers(s, c, p[k] - 1)
    <2>0. p[k] \in 1 .. l /\ t[k] = s[p[k]]
      BY <1>1
    <2>1. ASSUME NEW x \in Numbers(t, c, k - 1) PROVE x \in Numbers(s, c, p[k] - 1)
      <3>1. PICK i \in 1 .. k - 1 : t[i].client = c /\ x = t[i].seq_num
        BY DEF Numbers
      <3>2. i \in 1 .. l /\ t[i] = s[p[i]] /\ p[i] \in 1 .. l /\ i < k
        BY <1>1, <1>2
      <3>3. p[i] < p[k]
        BY <1>4, <1>5, <2>0, <3>1, <3>2
      <3>4. p[i] \in 1 .. p[k] - 1
        BY <1>2, <2>0, <3>2, <3>3
      <3> QED BY <3>1, <3>2, <3>4 DEF Numbers
    <2>2. ASSUME NEW x \in Numbers(s, c, p[k] - 1) PROVE x \in Numbers(t, c, k - 1)
      <3>1. PICK j \in 1 .. p[k] - 1 : s[j].client = c /\ x = s[j].seq_num
        BY DEF Numbers
      <3>2. j \in 1 .. l /\ j < p[k]
        BY <1>2, <2>0
      <3>3. PICK i \in 1 .. l : p[i] = j
        BY <1>3, <3>2
      <3>4. i < k
        BY <1>4, <1>5, <2>0, <3>1, <3>2, <3>3
      <3>5. i \in 1 .. k - 1 /\ t[i] = s[j]
        BY <1>1, <1>2, <3>3, <3>4
      <3> QED BY <3>1, <3>5 DEF Numbers
    <2> QED BY <2>1, <2>2
  <1>6. Numbers(t, c, l) = Numbers(s, c, l)
    <2>1. ASSUME NEW x \in Numbers(t, c, l) PROVE x \in Numbers(s, c, l)
      <3>1. PICK i \in 1 .. l : t[i].client = c /\ x = t[i].seq_num
        BY DEF Numbers
      <3>2. t[i] = s[p[i]] /\ p[i] \in 1 .. l
        BY <1>1
      <3> QED BY <3>1, <3>2 DEF Numbers
    <2>2. ASSUME NEW x \in Numbers(s, c, l) PROVE x \in Numbers(t, c, l)
      <3>1. PICK j \in 1 .. l : s[j].client = c /\ x = s[j].seq_num
        BY DEF Numbers
      <3>2. PICK i \in 1 .. l : p[i] = j
        BY <1>3
      <3>3. t[i] = s[j]
        BY <1>1, <3>2
      <3> QED BY <3>1, <3>3 DEF Numbers
    <2> QED BY <2>1, <2>2
  <1>7. m \in Nat /\ n \in Nat /\ m <= n /\ Numbers(t, c, Len(t)) = m + 1 .. n
    BY <1>2, <1>6 DEF Numbered, l
  <1>8. ASSUME NEW k \in 1 .. l, t[k].client = c
        PROVE  t[k].seq_num > m /\ Numbers(t, c, k - 1) = m + 1 .. t[k].seq_num - 1
    <2>1. t[k] = s[p[k]] /\ p[k] \in 1 .. l
      BY <1>1
    <2>2. s[p[k]].seq_num > m /\ Numbers(s, c, p[k] - 1) = m + 1 .. s[p[k]].seq_num - 1
      BY <1>8, <2>1 DEF Numbered, l
    <2> QED BY <1>5, <1>8, <2>1, <2>2
  <1> QED BY <1>2, <1>7, <1>8 DEF Numbered

-----------------------------------------------------------------------------
(* What a poll does to a socket's client. *)
LEMMA PollDoes ==
    ASSUME Base, PollSocket
    PROVE  \E c \in ClientIds, t \in State : \E q :
             /\ c = receive_sockets[polling] /\ t = recvCallback(c)
             /\ Accepts(Before(c), t, c, q, gateway[c].session, Len(wire[c]))
             /\ polling \in 1 .. NumSockets
  <1>1. polling \in 1 .. NumSockets
    BY SocketTypes DEF PollSocket, Base, TypeInv
  <1>2. PICK c \in ClientIds : c = receive_sockets[polling]
    BY <1>1, SocketTypes
  <1>3. PICK q : Accepts(Before(c), recvCallback(c), c, q, gateway[c].session, Len(wire[c]))
    BY RecvCallbackAccepts
  <1>4. recvCallback(c) \in State
    BY <1>3 DEF Accepts
  <1> QED BY <1>1, <1>2, <1>3, <1>4

LEMMA InitTyped == Init => TypeInv
  <1> SUFFICES ASSUME Init PROVE TypeInv
    OBVIOUS
  <1>1. NewGateway(1) \in Gateway
    BY DEF NewGateway, Gateway
  <1>2. 1 \in 1 .. NumSockets + 2
    BY SocketTypes
  <1>3. \A S : <<>> \in Seq(S)
    OBVIOUS
  <1> QED BY <1>1, <1>2, <1>3 DEF Init, TypeInv

LEMMA ClientTyped ==
    ASSUME TypeInv, NEW c \in ClientIds, SendRequest(c) \/ ReceiveResponse(c) \/ Restart(c)
    PROVE  TypeInv'
  <1> USE DEF TypeInv
  <1>1. gateway[c] \in Gateway /\ wire[c] \in Seq(Request) /\ back[c] \in Seq(Nat)
    OBVIOUS
  <1>2. CASE SendRequest(c)
    <2>1. PICK now \in {clock, clock + 1} :
            /\ clock' = now
            /\ wire' = [wire EXCEPT ![c] = Append(@, OMClientRequest(gateway[c], now))]
      BY <1>2 DEF SendRequest
    <2>2. now \in Nat
      OBVIOUS
    <2>3. OMClientRequest(gateway[c], now) \in Request
      BY <1>1, <2>2 DEF OMClientRequest, Request, Gateway
    <2>0. Append(wire[c], OMClientRequest(gateway[c], now)) \in Seq(Request)
      BY <1>1, <2>3, AppendProperties
    <2>4. PICK x \in Seq(Request) : x = Append(wire[c], OMClientRequest(gateway[c], now))
      BY <2>0, Zenon
    <2>5. wire' = [wire EXCEPT ![c] = x]
      BY <2>1, <2>4
    <2>6. wire' \in [ClientIds -> Seq(Request)]
      BY <2>4, <2>5
    <2>7. [gateway[c] EXCEPT !.next_outgoing_seq_num = @ + 1] \in Gateway
      <3>1. PICK n \in Nat : n = gateway[c].next_outgoing_seq_num + 1
        BY <1>1 DEF Gateway
      <3>2. [gateway[c] EXCEPT !.next_outgoing_seq_num = n] \in Gateway
        BY <1>1, <3>1 DEF Gateway
      <3> QED BY <3>1, <3>2, Zenon
    <2>8. gateway' = [gateway EXCEPT ![c] = [gateway[c] EXCEPT !.next_outgoing_seq_num = @ + 1]]
      BY <1>2 DEF SendRequest
    <2>9. gateway' \in [ClientIds -> Gateway]
      BY <2>7, <2>8
    <2> QED BY <1>2, <2>1, <2>2, <2>6, <2>9 DEF SendRequest, serverVars, engineVars
  <1>3. CASE ReceiveResponse(c)
    <2>1. PICK g : g = IF Head(back[c]) = gateway[c].next_exp_seq_num
                       THEN [gateway[c] EXCEPT !.next_exp_seq_num = @ + 1]
                       ELSE [gateway[c] EXCEPT !.rejected = TRUE]
      OBVIOUS
    <2>2. g \in Gateway
      <3>1. PICK n \in Nat : n = gateway[c].next_exp_seq_num + 1
        BY <1>1 DEF Gateway
      <3>2. [gateway[c] EXCEPT !.next_exp_seq_num = n] \in Gateway
        BY <1>1, <3>1 DEF Gateway
      <3>3. [gateway[c] EXCEPT !.rejected = TRUE] \in Gateway
        BY <1>1, <3>1 DEF Gateway
      <3> QED BY <2>1, <3>1, <3>2, <3>3, Zenon
    <2>3. gateway' = [gateway EXCEPT ![c] = g] /\ back' = [back EXCEPT ![c] = Tail(back[c])]
      <3>1. gateway' = [gateway EXCEPT ![c] = g]
        BY <1>3, <2>1 DEF ReceiveResponse
      <3>2. back' = [back EXCEPT ![c] = Tail(back[c])]
        BY <1>3 DEF ReceiveResponse
      <3> QED BY <3>1, <3>2
    <2>4. Tail(back[c]) \in Seq(Nat)
      BY <1>1, <1>3 DEF ReceiveResponse
    <2>5. gateway' \in [ClientIds -> Gateway] /\ back' \in [ClientIds -> Seq(Nat)]
      BY <2>2, <2>3, <2>4
    <2> QED BY <1>3, <2>5 DEF ReceiveResponse, serverVars, engineVars
  <1>4. CASE Restart(c)
    <2>1. NewGateway(gateway[c].session + 1) \in Gateway
      BY <1>1, SMTT(20) DEF NewGateway, Gateway
    <2>2. gateway' = [gateway EXCEPT ![c] = NewGateway(gateway[c].session + 1)]
      BY <1>4 DEF Restart
    <2>3. gateway' \in [ClientIds -> Gateway]
      BY <2>1, <2>2
    <2>4. back' \in [ClientIds -> Seq(Nat)]
      BY <1>4 DEF Restart
    <2>5. wire' \in [ClientIds -> Seq(Request)]
      <3>1. PICK n \in 0 .. Len(wire[c]) : wire' = [wire EXCEPT ![c] = SubSeq(@, 1, n)]
        BY <1>4 DEF Restart
      <3>2. SubSeq(wire[c], 1, n) \in Seq(Request)
        BY <1>1
      <3> QED BY <3>1, <3>2
    <2> QED BY <1>4, <2>3, <2>4, <2>5 DEF Restart, serverVars, engineVars
  <1> QED BY <1>2, <1>3, <1>4

LEMMA PollTyped ==
    ASSUME Base, PollSocket PROVE TypeInv'
  <1>1. PICK c \in ClientIds, t \in State : \E q :
             /\ c = receive_sockets[polling] /\ t = recvCallback(c)
             /\ polling \in 1 .. NumSockets
    BY PollDoes
  <1>2. c = receive_sockets[polling] /\ t = recvCallback(c)
    BY <1>1
  <1>3. t.next_exp \in Nat /\ t.known \in Nat /\ t.pending \in Seq(Received) /\ t.fatal \in BOOLEAN
    BY DEF State
  <1>4. /\ cid_next_exp_seq_num' = [cid_next_exp_seq_num EXCEPT ![c] = t.next_exp]
        /\ cid_tcp_socket' = [cid_tcp_socket EXCEPT ![c] = t.known]
        /\ pending' = t.pending
        /\ fatal' = t.fatal
        /\ received' = anyReceived(c)
        /\ wire' = [wire EXCEPT ![c] = <<>>]
        /\ polling' = polling + 1
    BY <1>2, Zenon DEF PollSocket
  <1>5. back' \in [ClientIds -> Seq(Nat)] /\ send_buffer' \in [ClientIds -> Seq(Nat)]
    <2>1. back \in [ClientIds -> Seq(Nat)] /\ send_buffer \in [ClientIds -> Seq(Nat)]
      BY DEF Base, TypeInv
    <2>2. \E room \in BOOLEAN :
            \/ /\ back' = [back EXCEPT ![c] = @ \o flush(c, room).sent]
               /\ send_buffer' = [send_buffer EXCEPT ![c] = flush(c, room).kept]
            \/ UNCHANGED <<back, send_buffer>>
      BY <1>2, Zenon DEF PollSocket
    <2>3. PICK room \in BOOLEAN :
            \/ /\ back' = [back EXCEPT ![c] = @ \o flush(c, room).sent]
               /\ send_buffer' = [send_buffer EXCEPT ![c] = flush(c, room).kept]
            \/ UNCHANGED <<back, send_buffer>>
      BY <2>2
    <2>4. flush(c, room).sent \in Seq(Nat) /\ flush(c, room).kept \in Seq(Nat)
      BY <2>1 DEF flush
    <2>5. back[c] \o flush(c, room).sent \in Seq(Nat)
      BY <2>1, <2>4, ConcatProperties
    <2>6. PICK x \in Seq(Nat), y \in Seq(Nat) :
            x = back[c] \o flush(c, room).sent /\ y = flush(c, room).kept
      BY <2>4, <2>5, Zenon
    <2>7. \/ back' = [back EXCEPT ![c] = x] /\ send_buffer' = [send_buffer EXCEPT ![c] = y]
          \/ back' = back /\ send_buffer' = send_buffer
      BY <2>3, <2>6, Zenon
    <2> QED BY <2>1, <2>6, <2>7
  <1>6. polling' \in 1 .. NumSockets + 2
    BY <1>1, <1>4, SocketTypes
  <1>7. received' \in BOOLEAN
    BY <1>4 DEF anyReceived, Base, TypeInv
  <1>8. /\ wire' \in [ClientIds -> Seq(Request)]
        /\ cid_next_exp_seq_num' \in [ClientIds -> Nat] /\ cid_tcp_socket' \in [ClientIds -> Nat]
        /\ pending' \in Seq(Received) /\ fatal' \in BOOLEAN
    BY <1>3, <1>4, SMTT(20) DEF Base, TypeInv
  <1>9. UNCHANGED <<clock, gateway, incoming, processed, responses, cid_next_outgoing_seq_num>>
    BY DEF PollSocket, engineVars
  <1> QED BY <1>5, <1>6, <1>7, <1>8, <1>9 DEF Base, TypeInv

LEMMA OtherTyped ==
    ASSUME TypeInv, SequenceAndPublish \/ SendResponse \/ EndRound \/ Process
    PROVE  TypeInv'
  <1> USE DEF TypeInv
  <1>1. CASE SequenceAndPublish
    <2>1. incoming' \in Seq(Received) /\ pending' \in Seq(Received)
      <3>1. CASE received
        <4>1. PICK t \in sorted(pending) : incoming' = incoming \o t
          BY <1>1, <3>1 DEF SequenceAndPublish
        <4>2. t \in Seq(Received)
          BY SortedEntries
        <4> QED BY <1>1, <3>1, <4>1, <4>2 DEF SequenceAndPublish
      <3> QED BY <1>1, <3>1 DEF SequenceAndPublish
    <2>2. polling' \in 1 .. NumSockets + 2 /\ received' \in BOOLEAN
      <3>1. polling' = NumSockets + 2 /\ received' = FALSE
        BY <1>1, Zenon DEF SequenceAndPublish
      <3>2. PICK n \in Nat : n = NumSockets
        BY SocketTypes
      <3>3. n + 2 \in 1 .. n + 2
        BY ONLY <3>2
      <3> QED BY <3>1, <3>2, <3>3, Zenon
    <2> QED BY <1>1, <2>1, <2>2 DEF SequenceAndPublish, engineVars
  <1>2. CASE SendResponse
    <2>1. PICK c \in ClientIds : c = Head(responses)
      BY <1>2, SMTT(20) DEF SendResponse
    <2>2. /\ send_buffer' = [send_buffer EXCEPT ![c] = Append(@, cid_next_outgoing_seq_num[c])]
          /\ cid_next_outgoing_seq_num' = [cid_next_outgoing_seq_num EXCEPT ![c] = @ + 1]
          /\ responses' = Tail(responses)
      BY <1>2, <2>1 DEF SendResponse
    <2>3. cid_next_outgoing_seq_num[c] \in Nat /\ send_buffer[c] \in Seq(Nat)
      OBVIOUS
    <2>0. Append(send_buffer[c], cid_next_outgoing_seq_num[c]) \in Seq(Nat)
      BY <2>3, AppendProperties
    <2>4. PICK y \in Seq(Nat) : y = Append(send_buffer[c], cid_next_outgoing_seq_num[c])
      BY <2>0, Zenon
    <2>5. send_buffer' = [send_buffer EXCEPT ![c] = y]
      BY <2>2, <2>4
    <2>6. send_buffer' \in [ClientIds -> Seq(Nat)]
      BY <2>4, <2>5
    <2>7. cid_next_outgoing_seq_num' \in [ClientIds -> Nat]
      BY <2>2, <2>3, SMTT(20)
    <2>8. responses' \in Seq(ClientIds)
      BY <1>2, <2>2 DEF SendResponse
    <2> QED BY <1>2, <2>6, <2>7, <2>8 DEF SendResponse, serverVars
  <1>3. CASE EndRound
    <2>1. polling' \in 1 .. NumSockets + 2
      BY <1>3, SocketTypes DEF EndRound
    <2> QED BY <1>3, <2>1 DEF EndRound, engineVars
  <1>4. CASE Process
    <2>1. processed + 1 \in 1 .. Len(incoming)
      BY <1>4 DEF Process
    <2>2. incoming[processed + 1] \in Received
      BY <2>1
    <2>3. incoming[processed + 1].client \in ClientIds
      BY <2>2 DEF Received
    <2>4. responses' \in Seq(ClientIds) /\ processed' \in Nat
      BY <1>4, <2>3 DEF Process
    <2> QED BY <1>4, <2>4 DEF Process, serverVars
  <1> QED BY <1>1, <1>2, <1>3, <1>4

(* The client's own steps change nothing of what the exchange has.          *)
LEMMA ClientBase ==
    ASSUME Base, NEW c \in ClientIds, SendRequest(c) \/ ReceiveResponse(c) \/ Restart(c)
    PROVE  Base'
  <1>1. TypeInv'
    BY ClientTyped DEF Base
  <1>2. UNCHANGED <<serverVars, incoming, engineVars>>
    BY DEF SendRequest, ReceiveResponse, Restart
  <1>3. /\ gateway \in [ClientIds -> Gateway] /\ wire \in [ClientIds -> Seq(Request)]
        /\ cid_tcp_socket \in [ClientIds -> Nat]
    BY DEF Base, TypeInv
  <1>4. ASSUME NEW d \in ClientIds
        PROVE  /\ \A k \in 1 .. Len(wire'[d]) : wire'[d][k].session \in 1 .. gateway'[d].session
               /\ gateway'[d].session >= gateway[d].session
    <2>1. gateway[d].session \in Nat \ {0} /\ gateway[d] \in Gateway /\ wire[d] \in Seq(Request)
      BY <1>3 DEF Gateway
    <2>2. \A k \in 1 .. Len(wire[d]) : wire[d][k].session \in 1 .. gateway[d].session
      BY DEF Base, Wired
    <2>3. CASE SendRequest(c)
      <3>1. PICK r : /\ r.session = gateway[c].session
                     /\ wire' = [wire EXCEPT ![c] = Append(wire[c], r)]
        BY <2>3 DEF SendRequest, OMClientRequest
      <3>2. gateway'[d].session = gateway[d].session
        BY <1>3, <2>3 DEF SendRequest, Gateway
      <3>3. wire'[d] = IF d = c THEN Append(wire[d], r) ELSE wire[d]
        BY <1>3, <3>1
      <3>4. ASSUME NEW k \in 1 .. Len(wire'[d])
            PROVE  wire'[d][k].session \in 1 .. gateway[d].session
        <4>1. CASE d = c
          <5>1. PICK s \in Seq(Request) : s = wire[d]
            BY <2>1
          <5>2. wire'[d] = Append(s, r) /\ Len(s) \in Nat
            BY <3>3, <4>1, <5>1
          <5>3. \A i \in 1 .. Len(Append(s, r)) : Append(s, r)[i] = r \/ i \in 1 .. Len(s)
            BY <5>1
          <5>4. \A i \in 1 .. Len(s) : Append(s, r)[i] = s[i]
            BY <5>1
          <5>5. gateway[d].session \in 1 .. gateway[d].session
            BY <2>1
          <5>6. CASE wire'[d][k] = r
            BY <3>1, <4>1, <5>5, <5>6
          <5>7. CASE wire'[d][k] = wire[d][k] /\ k \in 1 .. Len(wire[d])
            BY <2>2, <5>7
          <5> QED BY <3>4, <5>1, <5>2, <5>3, <5>4, <5>6, <5>7
        <4> QED BY <2>2, <3>3, <3>4, <4>1
      <3> QED BY <2>1, <3>2, <3>4
    <2>4. CASE ReceiveResponse(c)
      <3>1. gateway'[d].session = gateway[d].session
        <4>1. CASE Head(back[c]) = gateway[c].next_exp_seq_num
          <5>1. gateway' = [gateway EXCEPT ![c].next_exp_seq_num = @ + 1]
            BY <2>4, <4>1 DEF ReceiveResponse
          <5> QED BY <1>3, <5>1 DEF Gateway
        <4>2. CASE Head(back[c]) # gateway[c].next_exp_seq_num
          <5>1. gateway' = [gateway EXCEPT ![c].rejected = TRUE]
            BY <2>4, <4>2 DEF ReceiveResponse
          <5> QED BY <1>3, <5>1 DEF Gateway
        <4> QED BY <4>1, <4>2
      <3> QED BY <2>1, <2>2, <2>4, <3>1 DEF ReceiveResponse
    <2>5. CASE Restart(c)
      <3>1. CASE d = c
        <4>1. gateway'[d].session = gateway[d].session + 1
          BY <1>3, <2>5, <3>1 DEF Restart, NewGateway
        <4>2. PICK n \in 0 .. Len(wire[d]) : wire'[d] = SubSeq(wire[d], 1, n)
          BY <1>3, <2>5, <3>1 DEF Restart
        <4>3. \A k \in 1 .. Len(wire'[d]) : k \in 1 .. Len(wire[d]) /\ wire'[d][k] = wire[d][k]
          BY <2>1, <4>2
        <4>4. \A k \in 1 .. Len(wire'[d]) : wire'[d][k].session \in 1 .. gateway[d].session
          BY <2>2, <4>3
        <4> QED BY <2>1, <4>1, <4>4
      <3>2. CASE d # c
        <4>1. wire'[d] = wire[d] /\ gateway'[d] = gateway[d]
          BY <1>3, <2>5, <3>2 DEF Restart
        <4> QED BY <2>1, <2>2, <4>1
      <3> QED BY <3>1, <3>2
    <2> QED BY <2>3, <2>4, <2>5
  <1>5. Wired'
    BY <1>4 DEF Wired
  <1>6. Sessions'
    <2>1. ASSUME NEW d \in ClientIds PROVE cid_tcp_socket'[d] <= gateway'[d].session
      <3>1. cid_tcp_socket[d] <= gateway[d].session /\ cid_tcp_socket'[d] = cid_tcp_socket[d]
        BY <1>2 DEF Base, Sessions, serverVars
      <3>2. gateway[d].session \in Nat /\ cid_tcp_socket[d] \in Nat
        BY <1>3 DEF Gateway
      <3>3. gateway'[d].session \in Nat
        BY <1>1 DEF TypeInv, Gateway
      <3> QED BY <1>4, <3>1, <3>2, <3>3
    <2> QED BY <2>1 DEF Sessions
  <1>7. /\ Known(incoming)' /\ Known(pending)'
        /\ \A k \in 1 .. Len(responses') : cid_tcp_socket'[responses'[k]] # 0
    BY <1>2 DEF Base, Known, serverVars, engineVars
  <1> QED BY <1>1, <1>5, <1>6, <1>7 DEF Base

(* A client once known stays known by the same session.                     *)
LEMMA PollBase ==
    ASSUME Base, PollSocket PROVE Base'
  <1>1. PICK c \in ClientIds, t \in State : \E q :
             /\ c = receive_sockets[polling] /\ t = recvCallback(c)
             /\ Accepts(Before(c), t, c, q, gateway[c].session, Len(wire[c]))
    BY PollDoes
  <1>2. PICK q : /\ c = receive_sockets[polling] /\ t = recvCallback(c)
                 /\ Accepts(Before(c), t, c, q, gateway[c].session, Len(wire[c]))
    BY <1>1
  <1>3. /\ cid_tcp_socket' = [cid_tcp_socket EXCEPT ![c] = t.known]
        /\ pending' = t.pending
        /\ wire' = [wire EXCEPT ![c] = <<>>]
        /\ UNCHANGED <<gateway, incoming, responses>>
    BY <1>2, Zenon DEF PollSocket, engineVars
  <1>4. /\ gateway \in [ClientIds -> Gateway] /\ wire \in [ClientIds -> Seq(Request)]
        /\ cid_tcp_socket \in [ClientIds -> Nat] /\ pending \in Seq(Received)
        /\ incoming \in Seq(Received) /\ responses \in Seq(ClientIds)
    BY DEF Base, TypeInv
  <1>5. TypeInv'
    BY PollTyped
  <1>6. Wired'
    BY <1>3, <1>4 DEF Base, Wired
  <1>7. /\ t.known = cid_tcp_socket[c] \/ (cid_tcp_socket[c] = 0 /\ t.known \in 1 .. gateway[c].session)
        /\ q \in Seq(Received) /\ t.pending = pending \o q
        /\ \A k \in 1 .. Len(q) : q[k].client = c /\ q[k].session = t.known /\ t.known # 0
    <2>1. PICK s : s = Before(c)
      OBVIOUS
    <2>2. s.known = cid_tcp_socket[c] /\ s.pending = pending
      BY <2>1 DEF Before
    <2>3. Accepts(s, t, c, q, gateway[c].session, Len(wire[c]))
      BY <1>2, <2>1
    <2>4. t.known = cid_tcp_socket[c] \/ (cid_tcp_socket[c] = 0 /\ t.known \in 1 .. gateway[c].session)
      BY <2>2, <2>3 DEF Accepts
    <2>5. q \in Seq(Received) /\ t.pending = pending \o q
      BY <2>2, <2>3 DEF Accepts
    <2>6. \A k \in 1 .. Len(q) : q[k].client = c /\ q[k].session = t.known /\ t.known # 0
      <3>1. \A k \in 1 .. Len(q) : q # <<>>
        BY <2>5
      <3> QED BY <2>3, <3>1 DEF Accepts
    <2> QED BY <2>4, <2>5, <2>6
  <1>8. gateway[c].session \in Nat \ {0}
    BY <1>4 DEF Gateway
  <1>9. Sessions'
    <2>1. ASSUME NEW d \in ClientIds PROVE cid_tcp_socket'[d] <= gateway'[d].session
      <3>1. cid_tcp_socket[d] <= gateway[d].session
        BY DEF Base, Sessions
      <3>2. cid_tcp_socket'[d] = IF d = c THEN t.known ELSE cid_tcp_socket[d]
        BY <1>3, <1>4
      <3> QED BY <1>3, <1>7, <1>8, <3>1, <3>2
    <2> QED BY <2>1 DEF Sessions
  <1>10. \A d \in ClientIds : cid_tcp_socket[d] # 0 => cid_tcp_socket'[d] = cid_tcp_socket[d]
    BY <1>3, <1>4, <1>7
  <1>11. ASSUME NEW s \in Seq(Received), Known(s)
         PROVE  \A k \in 1 .. Len(s) : s[k].session = cid_tcp_socket'[s[k].client] /\ s[k].session # 0
    <2>0. \A k \in 1 .. Len(s) : s[k] \in Received
      OBVIOUS
    <2>1. \A k \in 1 .. Len(s) : s[k].client \in ClientIds
      BY <2>0 DEF Received
    <2> QED BY <1>10, <1>11, <2>1 DEF Known
  <1>12. Known(incoming)'
    <2>1. Known(incoming)
      BY DEF Base
    <2>2. \A k \in 1 .. Len(incoming) : /\ incoming[k].session = cid_tcp_socket'[incoming[k].client]
                                         /\ incoming[k].session # 0
      BY <1>4, <1>11, <2>1
    <2> QED BY <1>3, <2>2 DEF Known
  <1>13. Known(pending)'
    <2>1. ASSUME NEW k \in 1 .. Len(pending \o q)
          PROVE  /\ (pending \o q)[k].session = cid_tcp_socket'[(pending \o q)[k].client]
                 /\ (pending \o q)[k].session # 0
      <3>1. CASE k <= Len(pending)
        <4>1. k \in 1 .. Len(pending) /\ (pending \o q)[k] = pending[k]
          BY <1>4, <1>7, <3>1
        <4> QED BY <1>4, <1>11, <4>1 DEF Base
      <3>2. CASE ~(k <= Len(pending))
        <4>1. k - Len(pending) \in 1 .. Len(q) /\ (pending \o q)[k] = q[k - Len(pending)]
          BY <1>4, <1>7, <3>2
        <4>2. cid_tcp_socket'[c] = t.known
          BY <1>3, <1>4
        <4> QED BY <1>7, <1>8, <4>1, <4>2
      <3> QED BY <3>1, <3>2
    <2> QED BY <1>3, <1>7, <2>1 DEF Known
  <1>14. \A k \in 1 .. Len(responses') : cid_tcp_socket'[responses'[k]] # 0
    <2>1. \A k \in 1 .. Len(responses) : responses[k] \in ClientIds
      BY <1>4
    <2> QED BY <1>3, <1>10, <2>1 DEF Base
  <1> QED BY <1>5, <1>6, <1>9, <1>12, <1>13, <1>14 DEF Base

LEMMA OtherBase ==
    ASSUME Base, SequenceAndPublish \/ SendResponse \/ EndRound \/ Process
    PROVE  Base'
  <1>1. TypeInv'
    BY OtherTyped DEF Base
  <1>2. UNCHANGED <<gateway, wire, cid_tcp_socket>>
    BY DEF SequenceAndPublish, SendResponse, EndRound, Process, serverVars
  <1>3. Wired' /\ Sessions'
    BY <1>2 DEF Base, Wired, Sessions
  <1>4. /\ incoming \in Seq(Received) /\ pending \in Seq(Received) /\ responses \in Seq(ClientIds)
        /\ processed \in Nat
    BY DEF Base, TypeInv
  <1>5. Known(incoming)' /\ Known(pending)'
    <2>1. CASE SequenceAndPublish /\ received
      <3>1. PICK t \in sorted(pending) : incoming' = incoming \o t
        BY <2>1 DEF SequenceAndPublish
      <3>2. pending' = <<>>
        BY <2>1 DEF SequenceAndPublish
      <3>3. t \in Seq(Received) /\ \A k \in 1 .. Len(t) : \E j \in 1 .. Len(pending) : t[k] = pending[j]
        BY <1>4, SortedEntries
      <3>4. \A k \in 1 .. Len(t) : /\ t[k].session = cid_tcp_socket[t[k].client]
                                   /\ t[k].session # 0
        BY <3>3 DEF Base, Known
      <3>5. ASSUME NEW k \in 1 .. Len(incoming \o t)
            PROVE  /\ (incoming \o t)[k].session = cid_tcp_socket[(incoming \o t)[k].client]
                   /\ (incoming \o t)[k].session # 0
        <4>1. CASE k <= Len(incoming)
          <5>1. k \in 1 .. Len(incoming) /\ (incoming \o t)[k] = incoming[k]
            BY <1>4, <3>3, <4>1
          <5> QED BY <5>1 DEF Base, Known
        <4>2. CASE ~(k <= Len(incoming))
          <5>1. k - Len(incoming) \in 1 .. Len(t) /\ (incoming \o t)[k] = t[k - Len(incoming)]
            BY <1>4, <3>3, <4>2
          <5> QED BY <3>4, <5>1
        <4> QED BY <4>1, <4>2
      <3> QED BY <1>2, <3>1, <3>2, <3>5 DEF Known
    <2>2. CASE ~(SequenceAndPublish /\ received)
      <3>1. UNCHANGED <<incoming, pending>>
        BY <2>2 DEF SequenceAndPublish, SendResponse, EndRound, Process, serverVars
      <3> QED BY <1>2, <3>1 DEF Base, Known
    <2> QED BY <2>1, <2>2
  <1>6. \A k \in 1 .. Len(responses') : cid_tcp_socket'[responses'[k]] # 0
    <2>0. \A k \in 1 .. Len(responses) : cid_tcp_socket[responses[k]] # 0
      BY DEF Base
    <2>1. CASE Process
      <3>1. processed + 1 \in 1 .. Len(incoming)
        BY <1>4, <2>1 DEF Process
      <3>2. incoming[processed + 1] \in Received
        BY <1>4, <3>1
      <3>3. PICK e \in ClientIds : e = incoming[processed + 1].client
        BY <3>2 DEF Received
      <3>4. cid_tcp_socket[e] # 0
        BY <3>1, <3>3 DEF Base, Known
      <3>5. responses' = Append(responses, e)
        BY <2>1, <3>3 DEF Process
      <3>6. \A k \in 1 .. Len(responses') : responses'[k] = e \/ \E j \in 1 .. Len(responses) :
               responses'[k] = responses[j]
        BY <1>4, <3>5
      <3> QED BY <1>2, <2>0, <3>4, <3>6
    <2>2. CASE SendResponse
      <3>1. responses' = Tail(responses) /\ responses # <<>>
        BY <2>2 DEF SendResponse
      <3>2. \A k \in 1 .. Len(responses') : \E j \in 1 .. Len(responses) :
               responses'[k] = responses[j]
        BY <1>4, <3>1
      <3> QED BY <1>2, <2>0, <3>2
    <2>3. CASE SequenceAndPublish \/ EndRound
      <3>1. responses' = responses
        BY <2>3 DEF SequenceAndPublish, EndRound, engineVars
      <3> QED BY <1>2, <2>0, <3>1
    <2> QED BY <2>1, <2>2, <2>3
  <1> QED BY <1>1, <1>3, <1>5, <1>6 DEF Base

LEMMA InitBase == Init => Base
  <1> SUFFICES ASSUME Init PROVE Base
    OBVIOUS
  <1>1. TypeInv
    BY InitTyped
  <1>2. \A k \in 1 .. Len(<<>>) : FALSE
    OBVIOUS
  <1>3. Wired /\ Known(incoming) /\ Known(pending)
        /\ \A k \in 1 .. Len(responses) : cid_tcp_socket[responses[k]] # 0
    BY <1>2 DEF Init, Wired, Known
  <1>4. Sessions
    BY DEF Init, Sessions, NewGateway
  <1> QED BY <1>1, <1>3, <1>4 DEF Base

LEMMA StutterBase ==
    ASSUME Base, UNCHANGED vars PROVE Base'
  BY DEF vars, serverVars, engineVars, Base, TypeInv, Wired, Sessions, Known

LEMMA BaseKept ==
    ASSUME Base, [Next]_vars PROVE Base'
  BY ClientBase, PollBase, OtherBase, StutterBase DEF Next, Server

-----------------------------------------------------------------------------
(* The order in which a client's requests are accepted and published.       *)
Order ==
    \A c \in ClientIds : \E m, n :
      /\ Numbered(incoming, c, 0, m)
      /\ ~fatal => Numbered(pending, c, m, n) /\ cid_next_exp_seq_num[c] = n + 1

(* What is pending came this round, from sockets the loop has passed, and    *)
(* all of one client's at one time.                                         *)
Round ==
    ~fatal =>
      /\ \A k \in 1 .. Len(pending) : \E i \in 1 .. NumSockets :
           i < polling /\ pending[k].client = receive_sockets[i]
      /\ \A i, j \in 1 .. Len(pending) : pending[i].client = pending[j].client =>
           pending[i].recv_time = pending[j].recv_time
      /\ ~received \/ polling = NumSockets + 2 => pending = <<>>

OInv == Base /\ Order /\ Round

LEMMA OInvOrders == OInv => ClientOrder
  <1> SUFFICES ASSUME OInv, NEW k \in DOMAIN incoming
               PROVE  /\ incoming[k].session = cid_tcp_socket[incoming[k].client]
                      /\ Numbers(incoming, incoming[k].client, k - 1)
                           = 1 .. incoming[k].seq_num - 1
    BY DEF ClientOrder
  <1>1. incoming \in Seq(Received)
    BY DEF OInv, Base, TypeInv
  <1>2. k \in 1 .. Len(incoming) /\ incoming[k] \in Received
    BY <1>1
  <1>3. PICK c \in ClientIds : c = incoming[k].client
    BY <1>2 DEF Received
  <1>4. PICK m : Numbered(incoming, c, 0, m)
    BY DEF OInv, Order
  <1>5. Numbers(incoming, c, k - 1) = 0 + 1 .. incoming[k].seq_num - 1
    BY <1>2, <1>3, <1>4 DEF Numbered
  <1>6. incoming[k].session = cid_tcp_socket[incoming[k].client]
    BY <1>2 DEF OInv, Base, Known
  <1>7. 0 + 1 = 1
    OBVIOUS
  <1> QED BY <1>3, <1>5, <1>6, <1>7

LEMMA InitOrders == Init => OInv
  <1> SUFFICES ASSUME Init PROVE OInv
    OBVIOUS
  <1>1. Base
    BY InitBase
  <1>2. Order
    <2>1. ASSUME NEW c \in ClientIds
          PROVE  \E m, n : /\ Numbered(incoming, c, 0, m)
                           /\ ~fatal => /\ Numbered(pending, c, m, n)
                                        /\ cid_next_exp_seq_num[c] = n + 1
      <3>1. Numbered(<<>>, c, 0, 0)
        BY NumberedEmpty
      <3>2. cid_next_exp_seq_num[c] = 0 + 1 /\ incoming = <<>> /\ pending = <<>>
        BY DEF Init
      <3> QED BY <3>1, <3>2
    <2> QED BY <2>1 DEF Order
  <1>3. Round
    <2>1. \A k \in 1 .. Len(<<>>) : FALSE
      OBVIOUS
    <2> QED BY <2>1 DEF Init, Round
  <1> QED BY <1>1, <1>2, <1>3 DEF OInv

LEMMA PollOrders ==
    ASSUME OInv, PollSocket PROVE Order' /\ Round'
  <1>0. Base /\ Order /\ Round
    BY DEF OInv
  <1>1. PICK c \in ClientIds, t \in State : \E q :
             /\ c = receive_sockets[polling] /\ t = recvCallback(c)
             /\ Accepts(Before(c), t, c, q, gateway[c].session, Len(wire[c]))
             /\ polling \in 1 .. NumSockets
    BY <1>0, PollDoes
  <1>2. PICK q : /\ c = receive_sockets[polling] /\ t = recvCallback(c)
                 /\ Accepts(Before(c), t, c, q, gateway[c].session, Len(wire[c]))
    BY <1>1
  <1>3. /\ cid_next_exp_seq_num' = [cid_next_exp_seq_num EXCEPT ![c] = t.next_exp]
        /\ pending' = t.pending /\ fatal' = t.fatal /\ polling' = polling + 1
        /\ received' = anyReceived(c) /\ ~fatal
        /\ UNCHANGED incoming
    BY <1>2, Zenon DEF PollSocket
  <1>4. /\ cid_next_exp_seq_num \in [ClientIds -> Nat] /\ pending \in Seq(Received)
        /\ wire[c] \in Seq(Request) /\ polling \in 1 .. NumSockets /\ NumSockets \in Nat
    BY <1>0, <1>1, SocketTypes DEF Base, TypeInv
  <1>5. /\ q \in Seq(Received) /\ pending' = pending \o q
        /\ \A k \in 1 .. Len(q) : q[k].client = c /\ q[k].recv_time = RxTime(c, t.known)
        /\ Len(wire[c]) = 0 => q = <<>>
        /\ ~fatal' => /\ t.next_exp = cid_next_exp_seq_num[c] + Len(q)
                      /\ \A k \in 1 .. Len(q) : q[k].seq_num = cid_next_exp_seq_num[c] + k - 1
    <2>1. PICK s : s = Before(c)
      OBVIOUS
    <2>2. s.next_exp = cid_next_exp_seq_num[c] /\ s.pending = pending
      BY <2>1 DEF Before
    <2>3. Accepts(s, t, c, q, gateway[c].session, Len(wire[c]))
      BY <1>2, <2>1
    <2>4. q \in Seq(Received) /\ t.pending = pending \o q
      BY <2>2, <2>3 DEF Accepts
    <2>5. \A k \in 1 .. Len(q) : q[k].client = c /\ q[k].recv_time = RxTime(c, t.known)
      BY <2>3 DEF Accepts
    <2>6. Len(wire[c]) = 0 => q = <<>>
      BY <2>3, Zenon DEF Accepts
    <2>7. ~t.fatal => /\ t.next_exp = cid_next_exp_seq_num[c] + Len(q)
                      /\ \A k \in 1 .. Len(q) : q[k].seq_num = cid_next_exp_seq_num[c] + k - 1
      BY <2>2, <2>3, Zenon DEF Accepts
    <2> QED BY <1>3, <2>4, <2>5, <2>6, <2>7
  <1>6. Order'
    <2>1. ASSUME NEW d \in ClientIds
          PROVE  \E m, n : /\ Numbered(incoming', d, 0, m)
                           /\ ~fatal' => /\ Numbered(pending', d, m, n)
                                         /\ cid_next_exp_seq_num'[d] = n + 1
      <3>1. PICK m, n : /\ Numbered(incoming, d, 0, m) /\ Numbered(pending, d, m, n)
                        /\ cid_next_exp_seq_num[d] = n + 1
        BY <1>0, <1>3 DEF Order
      <3>2. n \in Nat
        BY <3>1 DEF Numbered
      <3>3. CASE fatal'
        BY <1>3, <3>1, <3>3
      <3>4. CASE ~fatal' /\ d = c
        <4>1. \A k \in 1 .. Len(q) : q[k].client = c /\ q[k].seq_num = n + k
          <5>1. \A k \in 1 .. Len(q) : q[k].client = c
            BY <1>5
          <5>2. PICK e \in Nat : e = cid_next_exp_seq_num[c] /\ e = n + 1
            BY <3>1, <3>2, <3>4
          <5>3. \A k \in 1 .. Len(q) : q[k].seq_num = e + k - 1
            BY <1>5, <3>4, <5>2
          <5>4. \A k \in 1 .. Len(q) : e + k - 1 = n + k
            BY <3>2, <5>2
          <5> QED BY <5>1, <5>3, <5>4
        <4>2. Numbered(q, c, n, n + Len(q))
          BY <1>5, <3>2, <4>1, NumberedOn
        <4>3. Numbered(pending \o q, c, m, n + Len(q))
          BY <1>4, <1>5, <3>1, <3>4, <4>2, NumberedConcat
        <4>4. cid_next_exp_seq_num'[c] = n + Len(q) + 1
          BY <1>3, <1>4, <1>5, <3>1, <3>2, <3>4
        <4> QED BY <1>3, <1>5, <3>1, <3>4, <4>3, <4>4
      <3>5. CASE ~fatal' /\ d # c
        <4>0. cid_next_exp_seq_num[c] \in Nat
          BY <1>4
        <4>1. \A k \in 1 .. Len(q) : q[k].client # d
          BY <1>5, <3>5
        <4>2. Numbered(q, d, n, n)
          BY <1>5, <3>2, <4>1, NumberedNone
        <4>3. Numbered(pending \o q, d, m, n)
          BY <1>4, <1>5, <3>1, <4>2, NumberedConcat
        <4>4. cid_next_exp_seq_num'[d] = n + 1
          BY <1>3, <1>4, <3>1, <3>5
        <4> QED BY <1>3, <1>5, <3>1, <4>3, <4>4
      <3> QED BY <3>3, <3>4, <3>5
    <2> QED BY <2>1 DEF Order
  <1>7. Round'
    <2>1. SUFFICES
            /\ \A k \in 1 .. Len(pending') : \E i \in 1 .. NumSockets :
                 i < polling' /\ pending'[k].client = receive_sockets[i]
            /\ \A i, j \in 1 .. Len(pending') : pending'[i].client = pending'[j].client =>
                 pending'[i].recv_time = pending'[j].recv_time
            /\ ~received' \/ polling' = NumSockets + 2 => pending' = <<>>
      BY DEF Round
    <2>2. /\ \A k \in 1 .. Len(pending) : \E i \in 1 .. NumSockets :
                 i < polling /\ pending[k].client = receive_sockets[i]
          /\ \A i, j \in 1 .. Len(pending) : pending[i].client = pending[j].client =>
                 pending[i].recv_time = pending[j].recv_time
          /\ ~received => pending = <<>>
      BY <1>0, <1>3 DEF Round
    <2>3. ASSUME NEW k \in 1 .. Len(pending')
          PROVE  \/ k \in 1 .. Len(pending) /\ pending'[k] = pending[k]
                 \/ /\ pending'[k].client = c /\ pending'[k].recv_time = RxTime(c, t.known)
                    /\ ~(k \in 1 .. Len(pending))
      <3>1. CASE k <= Len(pending)
        BY <1>4, <1>5, <3>1
      <3>2. CASE ~(k <= Len(pending))
        <4>1. k - Len(pending) \in 1 .. Len(q) /\ pending'[k] = q[k - Len(pending)]
          BY <1>4, <1>5, <3>2
        <4> QED BY <1>5, <3>2, <4>1
      <3> QED BY <3>1, <3>2
    <2>4. \A k \in 1 .. Len(pending) : pending[k].client # c
      BY <1>2, <1>4, <2>2, SocketAssumption, SMTT(20)
    <2>5. ASSUME NEW k \in 1 .. Len(pending')
          PROVE  \E i \in 1 .. NumSockets :
                   i < polling' /\ pending'[k].client = receive_sockets[i]
      <3>1. polling < polling'
        BY <1>3, <1>4
      <3>2. CASE k \in 1 .. Len(pending) /\ pending'[k] = pending[k]
        <4>1. PICK i \in 1 .. NumSockets :
                i < polling /\ pending[k].client = receive_sockets[i]
          BY <2>2, <3>2
        <4>2. i < polling'
          <5>1. i \in Nat /\ polling \in Nat /\ polling' = polling + 1 /\ i < polling
            BY <1>3, <1>4, <4>1
          <5> QED BY <5>1
        <4> QED BY <3>2, <4>1, <4>2
      <3>3. CASE pending'[k].client = c
        <4>1. polling \in 1 .. NumSockets /\ c = receive_sockets[polling]
          BY <1>2, <1>3, <1>4
        <4> QED BY <3>1, <3>3, <4>1
      <3> QED BY <2>3, <3>2, <3>3
    <2>6. ASSUME NEW i \in 1 .. Len(pending'), NEW j \in 1 .. Len(pending'),
                 pending'[i].client = pending'[j].client
          PROVE  pending'[i].recv_time = pending'[j].recv_time
      BY <2>2, <2>3, <2>4, <2>6, SMTT(20)
    <2>7. ~received' => pending' = <<>>
      <3>1. ~received' => ~received /\ Len(wire[c]) = 0
        BY <1>3, <1>4 DEF anyReceived
      <3>2. <<>> \o <<>> = <<>>
        OBVIOUS
      <3> QED BY <1>5, <2>2, <3>1, <3>2
    <2>8. polling' # NumSockets + 2
      BY <1>3, <1>4
    <2> QED BY <2>5, <2>6, <2>7, <2>8
  <1> QED BY <1>6, <1>7

LEMMA PublishOrders ==
    ASSUME OInv, SequenceAndPublish, Len(pending) <= SortThreshold PROVE Order' /\ Round'
  <1>0. Base /\ Order /\ Round
    BY DEF OInv
  <1>1. /\ incoming \in Seq(Received) /\ pending \in Seq(Received) /\ NumSockets \in Nat
    BY <1>0, SocketTypes DEF Base, TypeInv
  <1>2. /\ ~fatal /\ ~fatal' /\ received' = FALSE /\ polling' = NumSockets + 2
        /\ cid_next_exp_seq_num' = cid_next_exp_seq_num
    BY DEF SequenceAndPublish
  <1>3. pending' = <<>>
    BY <1>0 DEF SequenceAndPublish, Round
  <1>4. Round'
    <2>1. \A k \in 1 .. Len(<<>>) : FALSE
      OBVIOUS
    <2> QED BY <1>3, <2>1 DEF Round
  <1>5. Order'
    <2>1. ASSUME NEW c \in ClientIds
          PROVE  \E m, n : /\ Numbered(incoming', c, 0, m)
                           /\ ~fatal' => /\ Numbered(pending', c, m, n)
                                         /\ cid_next_exp_seq_num'[c] = n + 1
      <3>1. PICK m, n : /\ Numbered(incoming, c, 0, m) /\ Numbered(pending, c, m, n)
                        /\ cid_next_exp_seq_num[c] = n + 1
        BY <1>0, <1>2 DEF Order
      <3>2. n \in Nat
        BY <3>1 DEF Numbered
      <3>3. Numbered(incoming', c, 0, n)
        <4>1. CASE received
          <5>1. PICK t \in sorted(pending) : incoming' = incoming \o t
            BY <4>1 DEF SequenceAndPublish
          <5>2. \A i, j \in 1 .. Len(pending) :
                  pending[i].client = c /\ pending[j].client = c =>
                    pending[i].recv_time = pending[j].recv_time
            BY <1>0, <1>2 DEF Round
          <5>3. Numbered(t, c, m, n)
            BY <1>1, <3>1, <5>2, SortedNumbered
          <5>4. t \in Seq(Received)
            BY <1>1, SortedEntries
          <5> QED BY <1>1, <3>1, <5>1, <5>3, <5>4, NumberedConcat
        <4>2. CASE ~received
          <5>1. incoming' = incoming /\ pending = <<>>
            BY <1>0, <1>2, <4>2 DEF SequenceAndPublish, Round
          <5>2. Numbers(<<>>, c, Len(<<>>)) = m + 1 .. n /\ m \in Nat /\ m <= n
            BY <3>1, <5>1 DEF Numbered
          <5>3. Numbers(<<>>, c, Len(<<>>)) = {}
            BY DEF Numbers
          <5>4. m = n
            <6>1. m < n => m + 1 \in m + 1 .. n
              BY <3>2, <5>2
            <6> QED BY <3>2, <5>2, <5>3, <6>1
          <5> QED BY <3>1, <5>1, <5>4
        <4> QED BY <4>1, <4>2
      <3>4. Numbered(pending', c, n, n)
        BY <1>3, <3>2, NumberedEmpty
      <3> QED BY <1>2, <3>1, <3>3, <3>4
    <2> QED BY <2>1 DEF Order
  <1> QED BY <1>4, <1>5

LEMMA OtherOrders ==
    ASSUME OInv,
           \/ \E c \in ClientIds : SendRequest(c) \/ ReceiveResponse(c) \/ Restart(c)
           \/ SendResponse \/ EndRound \/ Process \/ UNCHANGED vars
    PROVE  Order' /\ Round'
  <1>1. UNCHANGED <<received, pending, cid_next_exp_seq_num, incoming, fatal>>
    BY DEF SendRequest, ReceiveResponse, Restart, SendResponse, EndRound, Process, serverVars, vars
  <1>2. \/ polling' = polling
        \/ polling = NumSockets + 2 /\ polling' = 1 /\ ~fatal
    BY DEF SendRequest, ReceiveResponse, Restart, SendResponse, EndRound, Process, serverVars, vars
  <1>3. Order'
    BY <1>1 DEF OInv, Order
  <1>4. Round'
    <2>1. CASE polling' = polling
      BY <1>1, <2>1 DEF OInv, Round
    <2>2. CASE polling = NumSockets + 2 /\ polling' = 1 /\ ~fatal
      <3>1. pending' = <<>>
        BY <1>1, <2>2 DEF OInv, Round
      <3>2. \A k \in 1 .. Len(<<>>) : FALSE
        OBVIOUS
      <3> QED BY <3>1, <3>2 DEF Round
    <2> QED BY <1>2, <2>1, <2>2
  <1> QED BY <1>3, <1>4

LEMMA OInvKept ==
    ASSUME OInv, [Next]_vars, Len(pending) <= SortThreshold PROVE OInv'
  <1>1. Base'
    BY BaseKept DEF OInv
  <1>2. Order' /\ Round'
    BY PollOrders, PublishOrders, OtherOrders DEF Next, Server
  <1> QED BY <1>1, <1>2 DEF OInv

(* Each client's requests reach the matching engine each once and in the    *)
(* order they were sent, whatever the clients do, as long as no round has   *)
(* more requests than std::sort keeps in place.                             *)
THEOREM RequestsInOrder ==
    Spec /\ [](Len(pending) <= SortThreshold) => []ClientOrder
  <1> DEFINE Stable == Len(pending) <= SortThreshold
  <1>1. Init => OInv
    BY InitOrders
  <1>2. OInv /\ Stable /\ [Next]_vars => OInv'
    BY OInvKept
  <1>3. OInv => ClientOrder
    BY OInvOrders
  <1> QED BY <1>1, <1>2, <1>3, PTL DEF Spec

-----------------------------------------------------------------------------
(* The numbers from a to b - 1. *)
Consecutive(x, a, b) ==
    /\ x \in Seq(Nat) /\ a \in Nat /\ b \in Nat /\ a <= b /\ Len(x) = b - a
    /\ \A k \in 1 .. Len(x) : x[k] = a + k - 1

(* The responses of one client: none before it is known, none to a session  *)
(* the exchange does not know, and else those it has not had are on the way. *)
Flight(c) ==
    /\ cid_tcp_socket[c] = 0 => cid_next_outgoing_seq_num[c] = 1 /\ send_buffer[c] = <<>>
    /\ gateway[c].session # cid_tcp_socket[c] => back[c] = <<>> /\ gateway[c].next_exp_seq_num = 1
    /\ gateway[c].session = cid_tcp_socket[c] =>
         Consecutive(back[c] \o send_buffer[c], gateway[c].next_exp_seq_num,
                     cid_next_outgoing_seq_num[c])

RInv == Base /\ \A c \in ClientIds : Flight(c)

LEMMA ConsecutiveIs ==
    ASSUME NEW x, NEW a, NEW b, Consecutive(x, a, b)
    PROVE  x = [k \in 1 .. b - a |-> a + k - 1]
  <1>1. x \in Seq(Nat) /\ a \in Nat /\ b \in Nat /\ a <= b /\ Len(x) = b - a
    BY DEF Consecutive
  <1>2. \A k \in 1 .. b - a : x[k] = a + k - 1
    BY <1>1 DEF Consecutive
  <1>3. x = [k \in 1 .. Len(x) |-> x[k]]
    BY <1>1
  <1> QED BY <1>1, <1>2, <1>3

LEMMA JoinedTail ==
    ASSUME NEW S, NEW x \in Seq(S), NEW y \in Seq(S), x # <<>>
    PROVE  Tail(x) \o y = Tail(x \o y) /\ Head(x) = Head(x \o y)
           /\ x \o y # <<>> /\ x \o y \in Seq(S)
  OBVIOUS

LEMMA JoinedAppend ==
    ASSUME NEW S, NEW x \in Seq(S), NEW y \in Seq(S), NEW e \in S
    PROVE  x \o Append(y, e) = Append(x \o y, e)
  OBVIOUS

LEMMA ConsecutiveFirst ==
    ASSUME NEW z, NEW a, NEW b, z # <<>>, Consecutive(z, a, b)
    PROVE  Head(z) = a /\ Consecutive(Tail(z), a + 1, b)
  <1>1. /\ z \in Seq(Nat) /\ a \in Nat /\ b \in Nat /\ a <= b /\ Len(z) = b - a
        /\ \A k \in 1 .. Len(z) : z[k] = a + k - 1
    BY DEF Consecutive
  <1>2. Len(z) \in Nat \ {0} /\ Head(z) = z[1] /\ 1 \in 1 .. Len(z)
    BY <1>1
  <1>3. Tail(z) \in Seq(Nat) /\ Len(Tail(z)) = Len(z) - 1
        /\ \A k \in 1 .. Len(Tail(z)) : Tail(z)[k] = z[k + 1]
    BY <1>1, HeadTailProperties
  <1>4. ASSUME NEW k \in 1 .. Len(Tail(z)) PROVE Tail(z)[k] = a + 1 + k - 1
    <2>1. k + 1 \in 1 .. Len(z)
      BY <1>2, <1>3
    <2>2. z[k + 1] = a + (k + 1) - 1
      BY <1>1, <2>1
    <2> QED BY <1>1, <1>3, <2>2
  <1>5. a + 1 \in Nat /\ a + 1 <= b /\ Len(Tail(z)) = b - (a + 1)
    BY <1>1, <1>2, <1>3
  <1>6. Head(z) = a
    BY <1>1, <1>2
  <1> QED BY <1>1, <1>3, <1>4, <1>5, <1>6 DEF Consecutive

LEMMA ConsecutiveTail ==
    ASSUME NEW x \in Seq(Nat), NEW y \in Seq(Nat), NEW a, NEW b, x # <<>>, Consecutive(x \o y, a, b)
    PROVE  Head(x) = a /\ Consecutive(Tail(x) \o y, a + 1, b)
  <1>1. Tail(x) \o y = Tail(x \o y) /\ Head(x) = Head(x \o y) /\ x \o y # <<>>
    BY JoinedTail
  <1>2. Head(x \o y) = a /\ Consecutive(Tail(x \o y), a + 1, b)
    BY <1>1, ConsecutiveFirst
  <1> QED BY <1>1, <1>2

LEMMA ConsecutiveLast ==
    ASSUME NEW z, NEW a, NEW b, Consecutive(z, a, b)
    PROVE  Consecutive(Append(z, b), a, b + 1)
  <1>3. /\ z \in Seq(Nat) /\ a \in Nat /\ b \in Nat /\ a <= b /\ Len(z) = b - a
        /\ \A k \in 1 .. Len(z) : z[k] = a + k - 1
    BY DEF Consecutive
  <1>4. Append(z, b) \in Seq(Nat)
    BY <1>3, AppendProperties
  <1>5. PICK v \in Seq(Nat) : v = Append(z, b)
    BY <1>4, Zenon
  <1>6. Len(v) = Len(z) + 1 /\ v[Len(z) + 1] = b /\ \A k \in 1 .. Len(z) : v[k] = z[k]
    BY <1>3, <1>5
  <1>7. ASSUME NEW k \in 1 .. Len(v) PROVE v[k] = a + k - 1
    <2>1. CASE k = Len(z) + 1
      BY <1>3, <1>6, <2>1
    <2>2. CASE k # Len(z) + 1
      <3>1. k \in 1 .. Len(z)
        BY <1>6, <2>2
      <3> QED BY <1>3, <1>6, <3>1
    <2> QED BY <2>1, <2>2
  <1>8. b + 1 \in Nat /\ a <= b + 1 /\ Len(v) = b + 1 - a
    BY <1>3, <1>6
  <1>9. Consecutive(v, a, b + 1)
    BY <1>3, <1>7, <1>8 DEF Consecutive
  <1> QED BY <1>5, <1>9

LEMMA ConsecutiveAppend ==
    ASSUME NEW x \in Seq(Nat), NEW y \in Seq(Nat), NEW a, NEW b, Consecutive(x \o y, a, b)
    PROVE  Consecutive(x \o Append(y, b), a, b + 1)
  <1>1. b \in Nat
    BY DEF Consecutive
  <1>2. x \o Append(y, b) = Append(x \o y, b)
    BY <1>1, JoinedAppend, SMTT(20)
  <1>3. Consecutive(Append(x \o y, b), a, b + 1)
    BY ConsecutiveLast
  <1> QED BY <1>2, <1>3

LEMMA RInvAccounts == RInv => ResponsesAccountedFor
  BY ConsecutiveIs DEF RInv, Flight, ResponsesAccountedFor

LEMMA FlightUnchanged ==
    ASSUME NEW c \in ClientIds, Flight(c), cid_tcp_socket'[c] = cid_tcp_socket[c],
           cid_next_outgoing_seq_num'[c] = cid_next_outgoing_seq_num[c],
           send_buffer'[c] = send_buffer[c], back'[c] = back[c],
           gateway'[c].session = gateway[c].session,
           gateway'[c].next_exp_seq_num = gateway[c].next_exp_seq_num
    PROVE  Flight(c)'
  BY DEF Flight

LEMMA InitFlies == Init => RInv
  <1> SUFFICES ASSUME Init PROVE RInv
    OBVIOUS
  <1>1. Base
    BY InitBase
  <1>2. ASSUME NEW c \in ClientIds PROVE Flight(c)
    BY DEF Init, Flight, NewGateway
  <1> QED BY <1>1, <1>2 DEF RInv

LEMMA ClientFlies ==
    ASSUME RInv, NEW c \in ClientIds, NEW d \in ClientIds,
           SendRequest(c) \/ ReceiveResponse(c) \/ Restart(c)
    PROVE  Flight(d)'
  <1>1. /\ gateway \in [ClientIds -> Gateway] /\ back \in [ClientIds -> Seq(Nat)]
        /\ send_buffer \in [ClientIds -> Seq(Nat)] /\ cid_tcp_socket \in [ClientIds -> Nat]
        /\ cid_tcp_socket[d] <= gateway[d].session /\ Flight(d)
        /\ gateway[d].session \in Nat \ {0}
    BY DEF RInv, Base, TypeInv, Sessions, Gateway
  <1>2. UNCHANGED <<cid_tcp_socket, cid_next_outgoing_seq_num, send_buffer>>
    BY DEF SendRequest, ReceiveResponse, Restart, serverVars
  <1>3. CASE SendRequest(c)
    <2>1. /\ gateway'[d].session = gateway[d].session
          /\ gateway'[d].next_exp_seq_num = gateway[d].next_exp_seq_num
      BY <1>1, <1>3 DEF SendRequest, Gateway
    <2>2. back' = back
      BY <1>3 DEF SendRequest
    <2> QED BY <1>1, <1>2, <2>1, <2>2, FlightUnchanged
  <1>4. CASE d # c
    <2>1. gateway'[d] = gateway[d] /\ back'[d] = back[d]
      <3>1. CASE SendRequest(c)
        BY <1>1, <1>4, <3>1 DEF SendRequest
      <3>2. CASE ReceiveResponse(c)
        BY <1>1, <1>4, <3>2 DEF ReceiveResponse
      <3>3. CASE Restart(c)
        BY <1>1, <1>4, <3>3 DEF Restart
      <3> QED BY <3>1, <3>2, <3>3
    <2> QED BY <1>1, <1>2, <2>1, FlightUnchanged
  <1>5. CASE d = c /\ ReceiveResponse(c)
    <2>1. back[c] # <<>> /\ back' = [back EXCEPT ![c] = Tail(back[c])]
      BY <1>5 DEF ReceiveResponse
    <2>2. gateway[c].session = cid_tcp_socket[c]
      BY <1>1, <1>5, <2>1 DEF Flight
    <2>3. Consecutive(back[c] \o send_buffer[c], gateway[c].next_exp_seq_num,
                      cid_next_outgoing_seq_num[c])
      BY <1>1, <1>5, <2>2 DEF Flight
    <2>4. back[c] \in Seq(Nat) /\ send_buffer[c] \in Seq(Nat)
      BY <1>1
    <2>5. /\ Head(back[c]) = gateway[c].next_exp_seq_num
          /\ Consecutive(Tail(back[c]) \o send_buffer[c], gateway[c].next_exp_seq_num + 1,
                         cid_next_outgoing_seq_num[c])
      BY <2>1, <2>3, <2>4, ConsecutiveTail
    <2>6. gateway' = [gateway EXCEPT ![c].next_exp_seq_num = @ + 1]
      BY <1>5, <2>5 DEF ReceiveResponse
    <2>7. /\ gateway'[c].next_exp_seq_num = gateway[c].next_exp_seq_num + 1
          /\ gateway'[c].session = gateway[c].session
      BY <1>1, <2>6 DEF Gateway
    <2>8. back'[c] = Tail(back[c])
      BY <1>1, <2>1
    <2> QED BY <1>1, <1>2, <1>5, <2>2, <2>5, <2>7, <2>8 DEF Flight
  <1>6. CASE d = c /\ Restart(c)
    <2>1. /\ gateway'[c].session = gateway[c].session + 1 /\ gateway'[c].next_exp_seq_num = 1
          /\ back'[c] = <<>>
      BY <1>1, <1>6 DEF Restart, NewGateway
    <2>2. gateway'[c].session # cid_tcp_socket'[c]
      BY <1>1, <1>2, <1>6, <2>1
    <2> QED BY <1>1, <1>2, <1>6, <2>1, <2>2 DEF Flight
  <1> QED BY <1>3, <1>4, <1>5, <1>6

LEMMA PollFlies ==
    ASSUME RInv, ~WouldBlock, PollSocket, NEW d \in ClientIds
    PROVE  Flight(d)'
  <1>0. Base /\ Flight(d)
    BY DEF RInv
  <1>1. PICK c \in ClientIds, t \in State : \E q :
             /\ c = receive_sockets[polling] /\ t = recvCallback(c)
             /\ Accepts(Before(c), t, c, q, gateway[c].session, Len(wire[c]))
    BY <1>0, PollDoes
  <1>2. PICK q : /\ c = receive_sockets[polling] /\ t = recvCallback(c)
                 /\ Accepts(Before(c), t, c, q, gateway[c].session, Len(wire[c]))
    BY <1>1
  <1>3. /\ gateway \in [ClientIds -> Gateway] /\ back \in [ClientIds -> Seq(Nat)]
        /\ send_buffer \in [ClientIds -> Seq(Nat)] /\ cid_tcp_socket \in [ClientIds -> Nat]
        /\ gateway[c].session \in Nat \ {0} /\ Len(wire[c]) \in Nat
    <2>1. /\ gateway \in [ClientIds -> Gateway] /\ back \in [ClientIds -> Seq(Nat)]
          /\ send_buffer \in [ClientIds -> Seq(Nat)] /\ cid_tcp_socket \in [ClientIds -> Nat]
          /\ wire \in [ClientIds -> Seq(Request)]
      BY <1>0 DEF Base, TypeInv
    <2>2. gateway[c] \in Gateway /\ wire[c] \in Seq(Request)
      BY <2>1
    <2> QED BY <2>1, <2>2, SMTT(20) DEF Gateway
  <1>4. t.known = cid_tcp_socket[c] \/ (cid_tcp_socket[c] = 0 /\ t.known \in 1 .. gateway[c].session)
    <2>1. PICK s : s = Before(c)
      OBVIOUS
    <2>2. s.known = cid_tcp_socket[c]
      BY <2>1 DEF Before
    <2> QED BY <1>2, <2>1, <2>2 DEF Accepts
  <1>5. /\ cid_tcp_socket' = [cid_tcp_socket EXCEPT ![c] = t.known]
        /\ UNCHANGED <<gateway, cid_next_outgoing_seq_num>>
    BY <1>2, Zenon DEF PollSocket
  <1>6. IF gateway[c].session = t.known
        THEN /\ back' = [back EXCEPT ![c] = back[c] \o send_buffer[c]]
             /\ send_buffer' = [send_buffer EXCEPT ![c] = <<>>]
        ELSE UNCHANGED <<back, send_buffer>>
    <2>1. PICK room \in {TRUE} \cup (IF WouldBlock THEN {FALSE} ELSE {}) :
                IF gateway[c].session = t.known
                THEN /\ back' = [back EXCEPT ![c] = @ \o flush(c, room).sent]
                     /\ send_buffer' = [send_buffer EXCEPT ![c] = flush(c, room).kept]
                ELSE UNCHANGED <<back, send_buffer>>
      BY <1>2, Zenon DEF PollSocket
    <2>2. room = TRUE
      BY SortAssumption
    <2>3. flush(c, room).sent = send_buffer[c] /\ flush(c, room).kept = <<>>
      BY <2>2 DEF flush
    <2> QED BY <2>1, <2>3, Zenon
  <1>7. CASE d # c
    <2>1. cid_tcp_socket'[d] = cid_tcp_socket[d]
      BY <1>3, <1>5, <1>7
    <2>2. back'[d] = back[d] /\ send_buffer'[d] = send_buffer[d]
      BY <1>3, <1>6, <1>7
    <2> QED BY <1>0, <1>5, <2>1, <2>2, FlightUnchanged
  <1>8. CASE d = c /\ gateway[c].session # t.known
    <2>1. cid_tcp_socket'[d] = t.known /\ back'[d] = back[d] /\ send_buffer'[d] = send_buffer[d]
      BY <1>3, <1>5, <1>6, <1>8
    <2>2. CASE t.known = cid_tcp_socket[c]
      BY <1>0, <1>5, <1>8, <2>1, <2>2, FlightUnchanged
    <2>3. CASE cid_tcp_socket[c] = 0 /\ t.known # 0
      BY <1>0, <1>3, <1>5, <1>8, <2>1, <2>3 DEF Flight
    <2> QED BY <1>3, <1>4, <2>2, <2>3
  <1>9. CASE d = c /\ gateway[c].session = t.known
    <2>1. back'[c] = back[c] \o send_buffer[c] /\ send_buffer'[c] = <<>>
          /\ cid_tcp_socket'[c] = gateway[c].session
      BY <1>3, <1>5, <1>6, <1>9
    <2>2. back[c] \in Seq(Nat) /\ send_buffer[c] \in Seq(Nat)
      BY <1>3
    <2>3. back'[c] \o send_buffer'[c] = back[c] \o send_buffer[c]
      BY <2>1, <2>2
    <2>4. Consecutive(back[c] \o send_buffer[c], gateway[c].next_exp_seq_num,
                      cid_next_outgoing_seq_num[c])
      <3>1. CASE t.known = cid_tcp_socket[c]
        BY <1>0, <1>9, <3>1 DEF Flight
      <3>2. CASE cid_tcp_socket[c] = 0
        <4>1. /\ back[c] = <<>> /\ send_buffer[c] = <<>>
              /\ gateway[c].next_exp_seq_num = 1 /\ cid_next_outgoing_seq_num[c] = 1
          BY <1>0, <1>3, <1>9, <3>2 DEF Flight
        <4>2. Consecutive(<<>> \o <<>>, 1, 1)
          <5>1. <<>> \o <<>> = <<>> /\ <<>> \in Seq(Nat) /\ Len(<<>>) = 1 - 1
            OBVIOUS
          <5>2. \A k \in 1 .. Len(<<>>) : FALSE
            OBVIOUS
          <5> QED BY <5>1, <5>2 DEF Consecutive
        <4> QED BY <4>1, <4>2
      <3> QED BY <1>4, <3>1, <3>2
    <2> QED BY <1>3, <1>5, <1>9, <2>1, <2>3, <2>4 DEF Flight
  <1> QED BY <1>7, <1>8, <1>9

LEMMA OtherFlies ==
    ASSUME RInv, NEW d \in ClientIds,
           SequenceAndPublish \/ SendResponse \/ EndRound \/ Process \/ UNCHANGED vars
    PROVE  Flight(d)'
  <1>1. UNCHANGED <<gateway, cid_tcp_socket, back>>
    BY DEF SequenceAndPublish, SendResponse, EndRound, Process, serverVars, vars
  <1>2. /\ back \in [ClientIds -> Seq(Nat)] /\ send_buffer \in [ClientIds -> Seq(Nat)]
        /\ cid_next_outgoing_seq_num \in [ClientIds -> Nat]
        /\ responses \in Seq(ClientIds) /\ Flight(d)
    BY DEF RInv, Base, TypeInv
  <1>3. CASE SendResponse
    <2>1. PICK c \in ClientIds : c = Head(responses) /\ cid_tcp_socket[c] # 0
      <3>1. Head(responses) = responses[1] /\ 1 \in 1 .. Len(responses)
            /\ Head(responses) \in ClientIds
        BY <1>2, <1>3 DEF SendResponse
      <3> QED BY <3>1 DEF RInv, Base
    <2>2. /\ send_buffer' = [send_buffer EXCEPT ![c] = Append(@, cid_next_outgoing_seq_num[c])]
          /\ cid_next_outgoing_seq_num' = [cid_next_outgoing_seq_num EXCEPT ![c] = @ + 1]
      BY <1>3, <2>1 DEF SendResponse
    <2>3. CASE d # c
      <3>1. send_buffer'[d] = send_buffer[d]
            /\ cid_next_outgoing_seq_num'[d] = cid_next_outgoing_seq_num[d]
        BY <1>2, <2>2, <2>3
      <3> QED BY <1>1, <1>2, <3>1, FlightUnchanged
    <2>4. CASE d = c
      <3>1. /\ send_buffer'[d] = Append(send_buffer[d], cid_next_outgoing_seq_num[d])
            /\ cid_next_outgoing_seq_num'[d] = cid_next_outgoing_seq_num[d] + 1
        BY <1>2, <2>2, <2>4
      <3>2. gateway[d].session = cid_tcp_socket[d] =>
              Consecutive(back[d] \o Append(send_buffer[d], cid_next_outgoing_seq_num[d]),
                          gateway[d].next_exp_seq_num, cid_next_outgoing_seq_num[d] + 1)
        <4>1. back[d] \in Seq(Nat) /\ send_buffer[d] \in Seq(Nat)
          BY <1>2
        <4> QED BY <1>2, <4>1, ConsecutiveAppend DEF Flight
      <3> QED BY <1>1, <1>2, <2>1, <2>4, <3>1, <3>2 DEF Flight
    <2> QED BY <2>3, <2>4
  <1>4. CASE SequenceAndPublish \/ EndRound \/ Process \/ UNCHANGED vars
    <2>1. UNCHANGED <<send_buffer, cid_next_outgoing_seq_num>>
      BY <1>4 DEF SequenceAndPublish, EndRound, Process, vars
    <2> QED BY <1>1, <1>2, <2>1, FlightUnchanged
  <1> QED BY <1>3, <1>4

LEMMA RInvKept ==
    ASSUME RInv, ~WouldBlock, [Next]_vars PROVE RInv'
  <1>1. Base'
    BY BaseKept DEF RInv
  <1>2. ASSUME NEW d \in ClientIds PROVE Flight(d)'
    BY ClientFlies, PollFlies, OtherFlies DEF Next, Server
  <1> QED BY <1>1, <1>2 DEF RInv

(* While the kernel always has room to send, no response to a client that   *)
(* stays connected is lost, doubled or overtaken.                           *)
THEOREM NoResponseLost == ~WouldBlock => (Spec => []ResponsesAccountedFor)
  <1> SUFFICES ASSUME ~WouldBlock PROVE Spec => []ResponsesAccountedFor
    OBVIOUS
  <1>1. Init => RInv
    BY InitFlies
  <1>2. RInv /\ [Next]_vars => RInv'
    BY RInvKept
  <1>3. RInv => ResponsesAccountedFor
    BY RInvAccounts
  <1> QED BY <1>1, <1>2, <1>3, PTL DEF Spec

-----------------------------------------------------------------------------
(* The byte streams. *)

(* The bytes of a client's stream are numbered from 1 across its requests.  *)
Byte(i) == <<(i - 1) \div MsgLen + 1, ((i - 1) % MsgLen) + 1>>

ByteSet == Nat \X Nat
Message == Seq(ByteSet)

(* The bytes of s are those that follow the first o of the stream.          *)
Holds(s, o) == /\ s \in Seq(ByteSet) /\ o \in Nat
               /\ \A i \in 1 .. Len(s) : s[i] = Byte(o + i)

(* A client's stream: what has been made requests of, what is in the        *)
(* buffer, what the kernel has and what is on its way follow each other.    *)
Follows(taken, buffer, in_kernel, on_way, count) ==
    /\ taken \in Seq(Message) /\ \A k \in 1 .. Len(taken) : taken[k] = Bytes(k)
    /\ Holds(buffer, Len(taken) * MsgLen)
    /\ Holds(in_kernel, Len(taken) * MsgLen + Len(buffer))
    /\ count = Len(taken) * MsgLen + Len(buffer) + Len(in_kernel)
    /\ Holds(on_way, count)

(* All that has been sent is whole requests, of a client that is there.     *)
Complete(count, on_way) == \E n \in Nat : count + Len(on_way) = n * MsgLen

Stays == {"none", "refused", "backlog", "open"}

StreamTypes ==
    /\ link \in [Clients -> Stays \cup {"fin", "reset"}]
    /\ om_socket \in [Clients -> {"stopped", "started", "failed"}]
    /\ net \in [Clients -> Seq(ByteSet)] /\ kernel \in [Clients -> Seq(ByteSet)]
    /\ rcv_buffer_ \in [Clients -> Seq(ByteSet)]
    /\ delivered \in [Clients -> Seq(Message)]
    /\ arrived \in [Clients -> Nat]

StreamInv ==
    /\ StreamTypes
    /\ \A c \in Clients :
         /\ Follows(delivered[c], rcv_buffer_[c], kernel[c], net[c], arrived[c])
         /\ link[c] \in Stays => Complete(arrived[c], net[c])
         /\ om_socket[c] = "stopped" => link[c] = "none"

-----------------------------------------------------------------------------
(* Arithmetic. *)
LEMMA DivideRest ==
    \A n \in Nat \ {0}, m \in Nat, r \in Nat :
       r < n => (m * n + r) \div n = m /\ (m * n + r) % n = r
  OBVIOUS

LEMMA NextTimes == \A m, n \in Int : (m + 1) * n = m * n + n
  OBVIOUS

LEMMA SumTimes == \A a, b, c \in Int : (a + b) * c = a * c + b * c
  OBVIOUS

LEMMA TimesNatural == \A m, n \in Nat : m * n \in Nat
  OBVIOUS

LEMMA DivideBound ==
    \A n \in Nat, d \in Nat \ {0} : n \div d \in Nat /\ (n \div d) * d <= n
  OBVIOUS

-----------------------------------------------------------------------------
(* The byte after n whole requests.                                         *)
LEMMA ByteAt ==
    ASSUME NEW n \in Nat, NEW b \in 1 .. MsgLen
    PROVE  Byte(n * MsgLen + b) = <<n + 1, b>>
  <1>1. MsgLen \in Nat \ {0} /\ b \in Int /\ n * MsgLen \in Nat
    BY TCPAssumption, TimesNatural
  <1>2. b - 1 \in Nat /\ b - 1 < MsgLen
    BY <1>1
  <1>3. (n * MsgLen + (b - 1)) \div MsgLen = n /\ (n * MsgLen + (b - 1)) % MsgLen = b - 1
    BY <1>1, <1>2, DivideRest
  <1>4. (n * MsgLen + b) - 1 = n * MsgLen + (b - 1)
    BY <1>1
  <1>5. (b - 1) + 1 = b
    BY <1>1
  <1> QED BY <1>3, <1>4, <1>5 DEF Byte

(* The bytes of the request after n whole ones.                             *)
LEMMA HoldsBytes ==
    ASSUME NEW n \in Nat
    PROVE  Bytes(n + 1) \in Message /\ Len(Bytes(n + 1)) = MsgLen
           /\ Holds(Bytes(n + 1), n * MsgLen)
  <1>1. MsgLen \in Nat /\ n * MsgLen \in Nat
    BY TCPAssumption, TimesNatural
  <1>s. PICK s : s = [b \in 1 .. MsgLen |-> <<n + 1, b>>]
    OBVIOUS
  <1>2. \A b \in 1 .. MsgLen : <<n + 1, b>> \in ByteSet
    BY <1>1 DEF ByteSet
  <1>3. s \in Seq(ByteSet) /\ Len(s) = MsgLen /\ \A b \in 1 .. MsgLen : s[b] = <<n + 1, b>>
    BY <1>1, <1>2, <1>s
  <1>4. \A b \in 1 .. MsgLen : s[b] = Byte(n * MsgLen + b)
    BY <1>3, ByteAt
  <1> QED BY <1>1, <1>3, <1>4, <1>s DEF Bytes, Holds, Message

LEMMA HoldsConcat ==
    ASSUME NEW s, NEW t, NEW o, Holds(s, o), Holds(t, o + Len(s))
    PROVE  Holds(s \o t, o) /\ Len(s \o t) = Len(s) + Len(t)
  <1>1. s \in Seq(ByteSet) /\ t \in Seq(ByteSet) /\ o \in Nat /\ Len(s) \in Nat /\ Len(t) \in Nat
    BY DEF Holds
  <1>u. PICK u : u = s \o t
    OBVIOUS
  <1>2. u \in Seq(ByteSet) /\ Len(u) = Len(s) + Len(t)
    BY <1>1, <1>u
  <1>3. ASSUME NEW i \in 1 .. Len(u) PROVE u[i] = Byte(o + i)
    <2>1. CASE i <= Len(s)
      <3>1. i \in 1 .. Len(s) /\ u[i] = s[i]
        BY <1>1, <1>2, <1>u, <2>1
      <3> QED BY <3>1 DEF Holds
    <2>2. CASE i > Len(s)
      <3>1. i - Len(s) \in 1 .. Len(t) /\ u[i] = t[i - Len(s)]
        BY <1>1, <1>2, <1>u, <2>2
      <3>2. t[i - Len(s)] = Byte((o + Len(s)) + (i - Len(s)))
        BY <3>1 DEF Holds
      <3>3. (o + Len(s)) + (i - Len(s)) = o + i
        BY <1>1, <1>2
      <3> QED BY <3>1, <3>2, <3>3
    <2>3. i <= Len(s) \/ i > Len(s)
      BY <1>1, <1>2
    <2> QED BY <2>1, <2>2, <2>3
  <1> QED BY <1>1, <1>2, <1>3, <1>u DEF Holds

(* The first m bytes and the others.                                        *)
LEMMA HoldsParts ==
    ASSUME NEW s, NEW o, Holds(s, o), NEW m \in Nat, m <= Len(s)
    PROVE  /\ Holds(SubSeq(s, 1, m), o) /\ Len(SubSeq(s, 1, m)) = m
           /\ Holds(SubSeq(s, m + 1, Len(s)), o + m)
           /\ Len(SubSeq(s, m + 1, Len(s))) = Len(s) - m
  <1>1. s \in Seq(ByteSet) /\ o \in Nat /\ Len(s) \in Nat
    BY DEF Holds
  <1>u. PICK u : u = SubSeq(s, 1, m)
    OBVIOUS
  <1>w. PICK w : w = SubSeq(s, m + 1, Len(s))
    OBVIOUS
  <1>2. u \in Seq(ByteSet) /\ Len(u) = m /\ \A i \in 1 .. m : u[i] = s[i]
    BY <1>1, <1>u, SubSeqProperties
  <1>3. w \in Seq(ByteSet) /\ Len(w) = Len(s) - m
        /\ \A i \in 1 .. Len(s) - m : w[i] = s[m + i]
    <2>1. w \in Seq(ByteSet)
      BY <1>1, <1>w, SubSeqProperties
    <2>2. Len(w) = Len(s) - m
      BY <1>1, <1>w
    <2>3. ASSUME NEW i \in 1 .. Len(s) - m PROVE w[i] = s[m + i]
      BY <1>1, <1>w
    <2> QED BY <2>1, <2>2, <2>3
  <1>4. Holds(u, o)
    BY <1>1, <1>2 DEF Holds
  <1>5. Holds(w, o + m)
    <2>1. ASSUME NEW i \in 1 .. Len(w) PROVE w[i] = Byte((o + m) + i)
      <3>1. m + i \in 1 .. Len(s) /\ w[i] = s[m + i]
        <4>1. i \in 1 .. Len(s) - m
          BY <1>3
        <4>2. w[i] = s[m + i]
          BY <1>3, <4>1
        <4>3. m + i \in 1 .. Len(s)
          BY <1>1, <4>1
        <4> QED BY <4>2, <4>3
      <3>2. s[m + i] = Byte(o + (m + i))
        BY <3>1 DEF Holds
      <3>3. o + (m + i) = (o + m) + i
        BY <1>1, <1>3
      <3> QED BY <3>1, <3>2, <3>3
    <2> QED BY <1>1, <1>3, <2>1 DEF Holds
  <1> QED BY <1>2, <1>3, <1>4, <1>5, <1>u, <1>w

LEMMA HoldsNothing == \A o \in Nat : Holds(<<>>, o)
  BY DEF Holds
LEMMA TimesMonotone == \A a, b, n \in Nat : a <= b => a * n <= b * n
  OBVIOUS

-----------------------------------------------------------------------------
(* What recvCallback finds in a buffer that begins with a request: the k-th *)
(* request of the buffer is the k-th after those taken before.              *)
LEMMA WholeIsBytes ==
    ASSUME NEW s, NEW d \in Nat, Holds(s, d * MsgLen), NEW k \in 1 .. Len(s) \div MsgLen
    PROVE  SubSeq(s, (k - 1) * MsgLen + 1, k * MsgLen) = Bytes(d + k)
  <1>1. /\ s \in Seq(ByteSet) /\ Len(s) \in Nat /\ MsgLen \in Nat \ {0} /\ MsgLen \in Int
        /\ Len(s) \div MsgLen \in Nat
    BY TCPAssumption, DivideBound DEF Holds
  <1>2. k \in Nat /\ k - 1 \in Nat /\ k \in Int
    BY <1>1
  <1>p. PICK p \in Nat : p = (k - 1) * MsgLen
    BY <1>1, <1>2, TimesNatural
  <1>3. k * MsgLen = p + MsgLen
    <2>1. ((k - 1) + 1) * MsgLen = (k - 1) * MsgLen + MsgLen
      BY <1>1, <1>2, NextTimes
    <2>2. (k - 1) + 1 = k
      BY <1>2
    <2> QED BY <1>p, <2>1, <2>2
  <1>4. p + MsgLen <= Len(s)
    <2>n. PICK n \in Nat : n = Len(s) \div MsgLen
      BY <1>1
    <2>q. PICK q \in Nat : q = n * MsgLen
      BY <1>1, TimesNatural
    <2>1. k * MsgLen <= q
      BY <1>1, <1>2, <2>n, <2>q, TimesMonotone
    <2>2. q <= Len(s)
      BY <1>1, <2>n, <2>q, DivideBound
    <2> QED BY <1>1, <1>3, <2>1, <2>2
  <1>u. PICK u : u = SubSeq(s, p + 1, p + MsgLen)
    OBVIOUS
  <1>5. u \in Seq(ByteSet) /\ Len(u) = MsgLen
    <2>1. \A i \in p + 1 .. p + MsgLen : s[i] \in ByteSet
      BY <1>1, <1>4
    <2>2. u \in Seq(ByteSet) /\ Len(u) = IF p + 1 <= p + MsgLen
                                         THEN (p + MsgLen) - (p + 1) + 1 ELSE 0
      BY <1>1, <1>u, <2>1, SubSeqProperties
    <2> QED BY <1>1, <2>2
  <1>6. \A b \in 1 .. MsgLen : u[b] = s[p + b]
    BY <1>1, <1>4, <1>u
  <1>7. d * MsgLen + p = (d + (k - 1)) * MsgLen
    <2>1. d \in Int /\ k - 1 \in Int
      BY <1>2
    <2>2. (d + (k - 1)) * MsgLen = d * MsgLen + (k - 1) * MsgLen
      BY <1>1, <2>1, SumTimes, Zenon
    <2> QED BY <1>p, <2>2
  <1>8. ASSUME NEW b \in 1 .. MsgLen PROVE u[b] = <<d + k, b>>
    <2>1. s[p + b] = Byte(d * MsgLen + (p + b))
      <3>1. p + b \in 1 .. Len(s)
        BY <1>1, <1>4
      <3> QED BY <3>1 DEF Holds
    <2>2. d * MsgLen + (p + b) = (d + (k - 1)) * MsgLen + b
      <3>d. PICK x \in Nat : x = d * MsgLen
        BY <1>1, TimesNatural
      <3>1. x + (p + b) = (x + p) + b
        BY <1>1
      <3> QED BY <1>7, <3>d, <3>1
    <2>3. Byte((d + (k - 1)) * MsgLen + b) = <<(d + (k - 1)) + 1, b>>
      <3>1. d + (k - 1) \in Nat
        BY <1>2
      <3> QED BY <3>1, ByteAt
    <2>4. (d + (k - 1)) + 1 = d + k
      BY <1>2
    <2> QED BY <1>6, <2>1, <2>2, <2>3, <2>4
  <1>9. u = [b \in 1 .. MsgLen |-> <<d + k, b>>]
    <2>1. u = [b \in 1 .. MsgLen |-> u[b]]
      BY <1>1, <1>5
    <2> QED BY <1>8, <2>1, Zenon
  <1>10. SubSeq(s, (k - 1) * MsgLen + 1, k * MsgLen) = u
    BY <1>3, <1>p, <1>u
  <1> QED BY <1>9, <1>10 DEF Bytes

(* The whole requests of a buffer, and what is kept.                        *)
LEMMA WholeAndRest ==
    ASSUME NEW s, NEW d \in Nat, Holds(s, d * MsgLen)
    PROVE  /\ Whole(s) \in Seq(Message) /\ Len(Whole(s)) = Len(s) \div MsgLen
           /\ \A k \in 1 .. Len(Whole(s)) : Whole(s)[k] = Bytes(d + k)
           /\ Holds(Rest(s), (d + Len(Whole(s))) * MsgLen)
           /\ (d + Len(Whole(s))) * MsgLen + Len(Rest(s)) = d * MsgLen + Len(s)
  <1>1. /\ s \in Seq(ByteSet) /\ Len(s) \in Nat /\ MsgLen \in Nat \ {0} /\ MsgLen \in Int
        /\ Len(s) \div MsgLen \in Nat
    <2>1. s \in Seq(ByteSet) /\ Len(s) \in Nat /\ MsgLen \in Nat \ {0} /\ MsgLen \in Int
      BY TCPAssumption DEF Holds
    <2> QED BY <2>1, DivideBound
  <1>n. PICK n \in Nat : n = Len(s) \div MsgLen
    BY <1>1
  <1>w. PICK w : w = Whole(s)
    OBVIOUS
  <1>2. \A k \in 1 .. n : Bytes(d + k) \in Message
    <2>1. ASSUME NEW k \in 1 .. n PROVE Bytes(d + k) \in Message
      <3>1. d + (k - 1) \in Nat /\ (d + (k - 1)) + 1 = d + k
        BY <1>n
      <3>2. Bytes((d + (k - 1)) + 1) \in Message
        BY <3>1, HoldsBytes
      <3> QED BY <3>1, <3>2
    <2> QED BY <2>1
  <1>3. w = [k \in 1 .. n |-> Bytes(d + k)]
    BY <1>n, <1>w, WholeIsBytes DEF Whole
  <1>4. w \in Seq(Message) /\ Len(w) = n /\ \A k \in 1 .. n : w[k] = Bytes(d + k)
    BY <1>2, <1>3
  <1>m. PICK m \in Nat : m = n * MsgLen
    BY <1>1, TimesNatural
  <1>5. m <= Len(s)
    BY <1>1, <1>n, <1>m, DivideBound
  <1>6. Rest(s) = SubSeq(s, m + 1, Len(s))
    BY <1>n, <1>m DEF Rest
  <1>x. PICK x \in Nat : x = d * MsgLen
    BY <1>1, TimesNatural
  <1>7. Holds(Rest(s), x + m) /\ Len(Rest(s)) = Len(s) - m
    BY <1>5, <1>6, <1>x, HoldsParts
  <1>8. (d + n) * MsgLen = x + m
    BY <1>1, <1>m, <1>x, SumTimes
  <1>9. (d + n) * MsgLen + Len(Rest(s)) = x + Len(s)
    BY <1>1, <1>7, <1>8
  <1> QED BY <1>4, <1>7, <1>8, <1>9, <1>n, <1>w, <1>x
-----------------------------------------------------------------------------
(* Steps of one client's stream.                                            *)
LEMMA FollowsNothing == Follows(<<>>, <<>>, <<>>, <<>>, 0)
  <1>1. MsgLen \in Nat /\ 0 * MsgLen = 0
    BY TCPAssumption
  <1> QED BY <1>1, HoldsNothing DEF Follows

LEMMA FollowsTyped ==
    \A t, b, k, w, n : Follows(t, b, k, w, n) =>
      /\ t \in Seq(Message) /\ b \in Seq(ByteSet) /\ k \in Seq(ByteSet) /\ w \in Seq(ByteSet)
      /\ n \in Nat /\ Len(t) \in Nat /\ Len(b) \in Nat /\ Len(k) \in Nat /\ Len(w) \in Nat
  BY DEF Follows, Holds

LEMMA FollowsSent ==
    ASSUME NEW t, NEW b, NEW k, NEW w, NEW n, Follows(t, b, k, w, n), Complete(n, w)
    PROVE  LET more == w \o Bytes((n + Len(w)) \div MsgLen + 1)
           IN  Follows(t, b, k, more, n) /\ Complete(n, more)
  <1>1. n \in Nat /\ Len(w) \in Nat /\ MsgLen \in Nat \ {0} /\ MsgLen \in Int
    BY FollowsTyped, TCPAssumption
  <1>m. PICK m \in Nat : n + Len(w) = m * MsgLen
    BY DEF Complete
  <1>2. (m * MsgLen + 0) \div MsgLen = m
    BY <1>1, DivideRest
  <1>3. (n + Len(w)) \div MsgLen = m
    <2>1. m * MsgLen \in Int
      BY <1>1
    <2> QED BY <1>m, <1>2, <2>1
  <1>more. PICK more : more = w \o Bytes(m + 1)
    OBVIOUS
  <1>4. Len(Bytes(m + 1)) = MsgLen /\ Holds(Bytes(m + 1), n + Len(w))
    BY <1>m, HoldsBytes
  <1>5. Holds(more, n) /\ Len(more) = Len(w) + MsgLen
    BY <1>4, <1>more, HoldsConcat DEF Follows
  <1>6. n + Len(more) = (m + 1) * MsgLen
    <2>1. (m + 1) * MsgLen = m * MsgLen + MsgLen
      BY <1>1, NextTimes
    <2> QED BY <1>1, <1>m, <1>5, <2>1
  <1>7. Follows(t, b, k, more, n)
    BY <1>5 DEF Follows
  <1>8. Complete(n, more)
    <2>1. m + 1 \in Nat
      OBVIOUS
    <2> QED BY <1>6, <2>1 DEF Complete
  <1> QED BY <1>3, <1>7, <1>8, <1>more

LEMMA FollowsArrived ==
    ASSUME NEW t, NEW b, NEW k, NEW w, NEW n, Follows(t, b, k, w, n), NEW m \in 1 .. Len(w)
    PROVE  /\ Follows(t, b, k \o SubSeq(w, 1, m), SubSeq(w, m + 1, Len(w)), n + m)
           /\ Complete(n, w) => Complete(n + m, SubSeq(w, m + 1, Len(w)))
  <1>1. n \in Nat /\ Len(t) \in Nat /\ Len(b) \in Nat /\ Len(k) \in Nat /\ Len(w) \in Nat
        /\ MsgLen \in Nat /\ m \in Nat /\ m <= Len(w)
    BY FollowsTyped, TCPAssumption
  <1>x. PICK x \in Nat : x = Len(t) * MsgLen
    BY <1>1, TimesNatural
  <1>u. PICK u : u = SubSeq(w, 1, m)
    OBVIOUS
  <1>v. PICK v : v = SubSeq(w, m + 1, Len(w))
    OBVIOUS
  <1>2. Holds(u, n) /\ Len(u) = m /\ Holds(v, n + m) /\ Len(v) = Len(w) - m
    BY <1>1, <1>u, <1>v, HoldsParts DEF Follows
  <1>3. n = (x + Len(b)) + Len(k) /\ Holds(k, x + Len(b))
    BY <1>x DEF Follows
  <1>4. Holds(k \o u, x + Len(b)) /\ Len(k \o u) = Len(k) + m
    BY <1>2, <1>3, HoldsConcat
  <1>5. n + m = x + Len(b) + Len(k \o u)
    BY <1>1, <1>3, <1>4
  <1>6. Follows(t, b, k \o u, v, n + m)
    BY <1>2, <1>4, <1>5, <1>x DEF Follows
  <1>7. (n + m) + Len(v) = n + Len(w)
    BY <1>1, <1>2
  <1>8. Complete(n, w) => Complete(n + m, v)
    BY <1>7 DEF Complete
  <1> QED BY <1>6, <1>8, <1>u, <1>v

LEMMA FollowsLeft ==
    ASSUME NEW t, NEW b, NEW k, NEW w, NEW n, Follows(t, b, k, w, n)
    PROVE  Follows(t, b, k, <<>>, n)
  BY HoldsNothing, FollowsTyped DEF Follows

LEMMA FollowsRead ==
    ASSUME NEW t, NEW b, NEW k, NEW w, NEW n, Follows(t, b, k, w, n)
    PROVE  Follows(t \o Whole(b \o k), Rest(b \o k), <<>>, w, n)
  <1>1. t \in Seq(Message) /\ Len(t) \in Nat /\ Len(b) \in Nat /\ Len(k) \in Nat
        /\ MsgLen \in Nat /\ n \in Nat
    BY FollowsTyped, TCPAssumption
  <1>x. PICK x \in Nat : x = Len(t) * MsgLen
    BY <1>1, TimesNatural
  <1>s. PICK s : s = b \o k
    OBVIOUS
  <1>2. Holds(s, Len(t) * MsgLen) /\ Len(s) = Len(b) + Len(k)
    BY <1>s, HoldsConcat DEF Follows
  <1>w. PICK h : h = Whole(s)
    OBVIOUS
  <1>3. /\ h \in Seq(Message) /\ \A i \in 1 .. Len(h) : h[i] = Bytes(Len(t) + i)
        /\ Holds(Rest(s), (Len(t) + Len(h)) * MsgLen)
        /\ (Len(t) + Len(h)) * MsgLen + Len(Rest(s)) = Len(t) * MsgLen + Len(s)
    BY <1>1, <1>2, <1>w, WholeAndRest
  <1>d. PICK d : d = t \o h
    OBVIOUS
  <1>4. d \in Seq(Message) /\ Len(d) = Len(t) + Len(h)
    BY <1>1, <1>3, <1>d
  <1>5. ASSUME NEW i \in 1 .. Len(d) PROVE d[i] = Bytes(i)
    <2>1. CASE i <= Len(t)
      <3>1. i \in 1 .. Len(t) /\ d[i] = t[i]
        BY <1>1, <1>3, <1>4, <1>d, <2>1
      <3> QED BY <3>1 DEF Follows
    <2>2. CASE i > Len(t)
      <3>1. i - Len(t) \in 1 .. Len(h) /\ d[i] = h[i - Len(t)] /\ Len(t) + (i - Len(t)) = i
        BY <1>1, <1>3, <1>4, <1>d, <2>2
      <3>2. h[i - Len(t)] = Bytes(Len(t) + (i - Len(t)))
        BY <1>3, <3>1
      <3> QED BY <3>1, <3>2
    <2>3. i <= Len(t) \/ i > Len(t)
      BY <1>1, <1>4
    <2> QED BY <2>1, <2>2, <2>3
  <1>6. Holds(Rest(s), Len(d) * MsgLen)
    BY <1>3, <1>4
  <1>r. PICK r \in Nat : r = Len(Rest(s))
    BY <1>6 DEF Holds
  <1>y. PICK y \in Nat : y = Len(d) * MsgLen
    BY <1>6 DEF Holds
  <1>7. y + r = x + Len(s)
    BY <1>3, <1>4, <1>r, <1>x, <1>y
  <1>8. n = y + r
    <2>1. n = x + Len(b) + Len(k)
      BY <1>x DEF Follows
    <2> QED BY <1>1, <1>2, <1>7, <2>1
  <1>9. Holds(<<>>, y + r) /\ Len(<<>>) = 0
    BY HoldsNothing
  <1>10. n = y + r + 0
    BY <1>8
  <1>11. Holds(w, n)
    BY DEF Follows
  <1> QED BY <1>4, <1>5, <1>6, <1>9, <1>10, <1>11, <1>d, <1>r, <1>s, <1>w, <1>y DEF Follows
-----------------------------------------------------------------------------
(* The parts of the state that say how far each stream is.                  *)
streamVars == <<link, om_socket, net, kernel, rcv_buffer_, delivered, arrived>>

LEMMA Undisturbed == StreamInv /\ UNCHANGED streamVars => StreamInv'
  BY DEF StreamInv, StreamTypes, streamVars

LEMMA InitStreams == TCPInit => StreamInv
  <1> SUFFICES ASSUME TCPInit PROVE StreamInv
    OBVIOUS
  <1>1. StreamTypes
    BY DEF TCPInit, StreamTypes, Stays
  <1>2. ASSUME NEW c \in Clients
        PROVE  /\ Follows(delivered[c], rcv_buffer_[c], kernel[c], net[c], arrived[c])
               /\ Complete(arrived[c], net[c]) /\ link[c] = "none"
    <2>1. delivered[c] = <<>> /\ rcv_buffer_[c] = <<>> /\ kernel[c] = <<>> /\ net[c] = <<>>
          /\ arrived[c] = 0 /\ link[c] = "none"
      BY DEF TCPInit
    <2>2. 0 + 0 = 0 * MsgLen
      BY TCPAssumption
    <2>3. Len(<<>>) = 0
      OBVIOUS
    <2>4. Complete(0, <<>>)
      BY <2>2, <2>3 DEF Complete
    <2> QED BY <2>1, <2>4, FollowsNothing
  <1> QED BY <1>1, <1>2 DEF StreamInv

LEMMA ConnectStep ==
    ASSUME StreamInv, NEW c \in Clients, Connect(c)
    PROVE  StreamInv'
  <1>1. UNCHANGED <<net, kernel, rcv_buffer_, delivered, arrived>>
    BY DEF Connect, bufferVars
  <1>2. om_socket[c] = "stopped" /\ link[c] = "none"
    BY DEF Connect, StreamInv
  <1>3. PICK g \in {"started", "failed"}, l \in {"backlog", "refused"} :
          om_socket' = [om_socket EXCEPT ![c] = g] /\ link' = [link EXCEPT ![c] = l]
    BY DEF Connect
  <1>4. StreamTypes'
    BY <1>1, <1>3 DEF StreamInv, StreamTypes, Stays
  <1>5. ASSUME NEW d \in Clients
        PROVE  /\ link'[d] \in Stays => link[d] \in Stays
               /\ om_socket'[d] = "stopped" => om_socket[d] = "stopped" /\ link'[d] = link[d]
    BY <1>2, <1>3 DEF StreamInv, StreamTypes, Stays
  <1> QED BY <1>1, <1>4, <1>5 DEF StreamInv

LEMMA SendStep ==
    ASSUME StreamInv, NEW c \in Clients, Send(c)
    PROVE  StreamInv'
  <1>1. UNCHANGED <<link, om_socket, kernel, rcv_buffer_, delivered, arrived>>
    BY DEF Send, bufferVars
  <1>m. PICK more : more = net[c] \o Bytes((arrived[c] + Len(net[c])) \div MsgLen + 1)
    OBVIOUS
  <1>2. net' = [net EXCEPT ![c] = more]
    BY <1>m DEF Send, Messages
  <1>3. link[c] \in Stays
    BY DEF Send, Stays
  <1>4. Follows(delivered[c], rcv_buffer_[c], kernel[c], net[c], arrived[c])
        /\ Complete(arrived[c], net[c])
    BY <1>3 DEF StreamInv
  <1>5. Follows(delivered[c], rcv_buffer_[c], kernel[c], more, arrived[c])
        /\ Complete(arrived[c], more)
    BY <1>4, <1>m, FollowsSent
  <1>6. more \in Seq(ByteSet)
    BY <1>5, FollowsTyped
  <1>7. StreamTypes'
    BY <1>1, <1>2, <1>6 DEF StreamInv, StreamTypes
  <1>8. net'[c] = more /\ \A d \in Clients : d # c => net'[d] = net[d]
    BY <1>2 DEF StreamInv, StreamTypes
  <1> QED BY <1>1, <1>5, <1>7, <1>8 DEF StreamInv

LEMMA ArriveStep ==
    ASSUME StreamInv, NEW c \in Clients, Arrive(c)
    PROVE  StreamInv'
  <1>1. UNCHANGED <<link, om_socket, rcv_buffer_, delivered>>
    BY DEF Arrive, bufferVars
  <1>n. PICK n \in 1 .. Len(net[c]) :
          /\ kernel' = [kernel EXCEPT ![c] = @ \o SubSeq(net[c], 1, n)]
          /\ net' = [net EXCEPT ![c] = SubSeq(@, n + 1, Len(@))]
          /\ arrived' = [arrived EXCEPT ![c] = @ + n]
    BY DEF Arrive
  <1>k. PICK k : k = kernel[c] \o SubSeq(net[c], 1, n)
    OBVIOUS
  <1>w. PICK w : w = SubSeq(net[c], n + 1, Len(net[c]))
    OBVIOUS
  <1>a. PICK a : a = arrived[c] + n
    OBVIOUS
  <1>2. kernel' = [kernel EXCEPT ![c] = k] /\ net' = [net EXCEPT ![c] = w]
        /\ arrived' = [arrived EXCEPT ![c] = a]
    BY <1>n, <1>k, <1>w, <1>a DEF StreamInv, StreamTypes
  <1>3. Follows(delivered[c], rcv_buffer_[c], kernel[c], net[c], arrived[c])
    BY DEF StreamInv
  <1>4. Follows(delivered[c], rcv_buffer_[c], k, w, a)
        /\ (Complete(arrived[c], net[c]) => Complete(a, w))
    BY <1>3, <1>n, <1>k, <1>w, <1>a, FollowsArrived
  <1>5. k \in Seq(ByteSet) /\ w \in Seq(ByteSet) /\ a \in Nat
    BY <1>4, FollowsTyped
  <1>6. StreamTypes'
    BY <1>1, <1>2, <1>5 DEF StreamInv, StreamTypes
  <1>7. /\ kernel'[c] = k /\ net'[c] = w /\ arrived'[c] = a
        /\ \A d \in Clients : d # c => kernel'[d] = kernel[d] /\ net'[d] = net[d]
                                       /\ arrived'[d] = arrived[d]
    BY <1>2 DEF StreamInv, StreamTypes
  <1> QED BY <1>1, <1>4, <1>6, <1>7 DEF StreamInv

LEMMA LeaveStep ==
    ASSUME StreamInv, NEW c \in Clients, Leave(c)
    PROVE  StreamInv'
  <1>1. UNCHANGED <<om_socket, kernel, rcv_buffer_, delivered, arrived>>
    BY DEF Leave, bufferVars
  <1>2. PICK how \in {"fin", "reset"} : link' = [link EXCEPT ![c] = how]
    BY DEF Leave
  <1>3. net' = [net EXCEPT ![c] = <<>>] /\ link[c] \in {"backlog", "open"}
    BY DEF Leave
  <1>4. Follows(delivered[c], rcv_buffer_[c], kernel[c], <<>>, arrived[c])
    BY FollowsLeft DEF StreamInv
  <1>5. StreamTypes'
    BY <1>1, <1>2, <1>3 DEF StreamInv, StreamTypes
  <1>6. /\ net'[c] = <<>> /\ link'[c] \notin Stays /\ om_socket[c] # "stopped"
        /\ \A d \in Clients : d # c => net'[d] = net[d] /\ link'[d] = link[d]
    BY <1>2, <1>3 DEF StreamInv, StreamTypes, Stays
  <1> QED BY <1>1, <1>4, <1>5, <1>6 DEF StreamInv

LEMMA AcceptStep ==
    ASSUME StreamInv, Accept \/ NoConnection
    PROVE  StreamInv'
  <1>1. UNCHANGED <<om_socket, net, kernel, rcv_buffer_, delivered, arrived>>
    BY DEF Accept, NoConnection, bufferVars
  <1>2. \/ link' = link
        \/ \E c : \E then \in {"open", "reset"} :
              link' = [link EXCEPT ![c] = IF @ = "backlog" THEN then ELSE @]
    BY DEF Accept, AcceptFails, NoConnection
  <1>3. link' \in [Clients -> Stays \cup {"fin", "reset"}]
    BY <1>2 DEF StreamInv, StreamTypes, Stays
  <1>4. ASSUME NEW d \in Clients
        PROVE  /\ link'[d] \in Stays => link[d] \in Stays
               /\ link[d] = "none" => link'[d] = "none"
    BY <1>2 DEF StreamInv, StreamTypes, Stays
  <1>5. StreamTypes'
    BY <1>1, <1>3 DEF StreamInv, StreamTypes
  <1> QED BY <1>1, <1>4, <1>5 DEF StreamInv

(* One socket of receive_sockets_: its buffer is read and the requests in   *)
(* it are taken, or nothing has arrived.                                    *)
LEMMA SendAndRecvStep ==
    ASSUME StreamInv, SendAndRecv
    PROVE  StreamInv'
  <1>1. UNCHANGED <<om_socket, net, arrived>>
    BY DEF SendAndRecv
  <1>c. PICK c : c = receive_sockets_[at]
    OBVIOUS
  <1>b. PICK buffer : buffer = rcv_buffer_[c] \o kernel[c]
    OBVIOUS
  <1>2. \/ link' = [link EXCEPT ![c] = "reset"] /\ link[c] = "fin"
        \/ link' = link
    BY <1>c DEF SendAndRecv
  <1>3. kernel' = [kernel EXCEPT ![c] = <<>>]
    BY <1>c DEF SendAndRecv
  <1>4. \/ kernel[c] = <<>> /\ UNCHANGED <<rcv_buffer_, delivered>>
        \/ /\ rcv_buffer_' = [rcv_buffer_ EXCEPT ![c] = Rest(buffer)]
           /\ delivered' = [delivered EXCEPT ![c] = @ \o Whole(buffer)]
    BY <1>c, <1>b DEF SendAndRecv
  <1>5. link' \in [Clients -> Stays \cup {"fin", "reset"}]
    BY <1>2 DEF StreamInv, StreamTypes, Stays
  <1>6. ASSUME NEW d \in Clients
        PROVE  /\ link'[d] \in Stays => link[d] \in Stays
               /\ link[d] = "none" => link'[d] = "none"
    BY <1>2 DEF StreamInv, StreamTypes, Stays
  <1>7. ASSUME NEW d \in Clients
        PROVE  Follows(delivered'[d], rcv_buffer_'[d], kernel'[d], net[d], arrived[d])
    <2>1. Follows(delivered[d], rcv_buffer_[d], kernel[d], net[d], arrived[d])
      BY DEF StreamInv
    <2>2. CASE d # c
      <3>1. kernel'[d] = kernel[d] /\ rcv_buffer_'[d] = rcv_buffer_[d]
            /\ delivered'[d] = delivered[d]
        BY <1>3, <1>4, <2>2 DEF StreamInv, StreamTypes
      <3> QED BY <2>1, <3>1
    <2>3. CASE d = c
      <3>1. kernel'[d] = <<>>
        BY <1>3, <2>3 DEF StreamInv, StreamTypes
      <3>2. CASE kernel[c] = <<>> /\ UNCHANGED <<rcv_buffer_, delivered>>
        BY <2>1, <2>3, <3>1, <3>2
      <3>3. CASE /\ rcv_buffer_' = [rcv_buffer_ EXCEPT ![c] = Rest(buffer)]
                 /\ delivered' = [delivered EXCEPT ![c] = @ \o Whole(buffer)]
        <4>1. rcv_buffer_'[d] = Rest(buffer) /\ delivered'[d] = delivered[d] \o Whole(buffer)
          BY <2>3, <3>3 DEF StreamInv, StreamTypes
        <4>2. Follows(delivered[d] \o Whole(buffer), Rest(buffer), <<>>, net[d], arrived[d])
          BY <1>b, <2>1, <2>3, FollowsRead
        <4> QED BY <3>1, <4>1, <4>2
      <3> QED BY <1>4, <3>2, <3>3
    <2> QED BY <2>2, <2>3
  <1>8. StreamTypes'
    <2>1. \A d \in Clients : /\ kernel'[d] \in Seq(ByteSet) /\ rcv_buffer_'[d] \in Seq(ByteSet)
                             /\ delivered'[d] \in Seq(Message)
      BY <1>7, FollowsTyped
    <2>2. /\ kernel' = [d \in Clients |-> kernel'[d]]
          /\ rcv_buffer_' = [d \in Clients |-> rcv_buffer_'[d]]
          /\ delivered' = [d \in Clients |-> delivered'[d]]
      BY <1>3, <1>4 DEF StreamInv, StreamTypes
    <2>3. /\ kernel' \in [Clients -> Seq(ByteSet)] /\ rcv_buffer_' \in [Clients -> Seq(ByteSet)]
          /\ delivered' \in [Clients -> Seq(Message)]
      BY <2>1, <2>2
    <2> QED BY <1>1, <1>5, <2>3 DEF StreamInv, StreamTypes
  <1> QED BY <1>1, <1>6, <1>7, <1>8 DEF StreamInv

LEMMA StreamStep == StreamInv /\ [TCPNext]_tcpVars => StreamInv'
  <1> SUFFICES ASSUME StreamInv, [TCPNext]_tcpVars PROVE StreamInv'
    OBVIOUS
  <1>1. ASSUME NEW c \in Clients, Connect(c) \/ Send(c) \/ Arrive(c) \/ Leave(c) PROVE StreamInv'
    BY <1>1, ConnectStep, SendStep, ArriveStep, LeaveStep
  <1>2. ASSUME NEW c \in Clients, Respond(c) PROVE StreamInv'
    BY <1>2, Undisturbed DEF Respond, kernelVars, streamVars
  <1>3. CASE Listen
    BY <1>3, Undisturbed DEF Listen, kernelVars, bufferVars, streamVars
  <1>4. CASE Poll
    BY <1>4, Undisturbed DEF Poll, kernelVars, bufferVars, streamVars
  <1>5. CASE NoConnection
    BY <1>5, AcceptStep
  <1>6. CASE Finish
    BY <1>6, Undisturbed DEF Finish, kernelVars, streamVars
  <1>7. CASE RoundEnds
    BY <1>7, Undisturbed DEF RoundEnds, kernelVars, bufferVars, streamVars
  <1>8. CASE UNCHANGED tcpVars
    BY <1>8, Undisturbed DEF tcpVars, kernelVars, bufferVars, streamVars
  <1> QED BY <1>1, <1>2, <1>3, <1>4, <1>5, <1>6, <1>7, <1>8, AcceptStep, SendAndRecvStep
          DEF TCPNext, TCPLoop, Ended

(* Type correctness, and where each stream is.                              *)
THEOREM StreamInvariance == TCPSpec => []StreamInv
  BY InitStreams, StreamStep, PTL DEF TCPSpec

(* Requests are whole, in order and none twice, however the kernel cuts the *)
(* streams and whoever comes, goes and is answered in between.              *)
THEOREM RequestsAreWholeHolds == TCPSpec => []RequestsAreWhole
  <1>1. StreamInv => RequestsAreWhole
    <2> SUFFICES ASSUME StreamInv, NEW c \in Clients, NEW k \in DOMAIN delivered[c]
                 PROVE  delivered[c][k] = Bytes(k)
      BY DEF RequestsAreWhole
    <2>1. delivered[c] \in Seq(Message)
          /\ \A i \in 1 .. Len(delivered[c]) : delivered[c][i] = Bytes(i)
      BY DEF StreamInv, Follows
    <2>2. k \in 1 .. Len(delivered[c])
      BY <2>1
    <2> QED BY <2>1, <2>2
  <1> QED BY <1>1, StreamInvariance, PTL
=============================================================================
