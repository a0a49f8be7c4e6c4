----------------------------- MODULE MarketData -----------------------------
(***************************************************************************)
(* The market data of one instrument on its way from the exchange to a     *)
(* trading client: the incremental stream of MarketDataPublisher, the      *)
(* snapshots of SnapshotSynthesizer, a multicast network that may lose and *)
(* reorder datagrams, and the gap recovery of MarketDataConsumer.          *)
(*                                                                         *)
(* A book is the set of its order ids: ADD puts one in, CANCEL takes it    *)
(* out.  What the consumer queues for the trade engine is applied to the   *)
(* client's book at once; module LFQueue is about that queue.              *)
(*                                                                         *)
(* One datagram is what one sendAndRecv of the sending socket finds in its *)
(* buffer, and what one recvCallback of the receiving one is called with.  *)
(***************************************************************************)
EXTENDS Integers, FiniteSets, SequencesExt

CONSTANTS MaxUpdates,      \* bound on the incremental updates
          MaxFaults,       \* bound on lost and reordered datagrams
          LosesSnapshots,  \* the network loses datagrams of snapshots, too
          Reorders         \* the network reorders incremental datagrams

ASSUME BoundAssumption == MaxUpdates \in Nat /\ MaxFaults \in Nat
ASSUME NetworkAssumption == LosesSnapshots \in BOOLEAN /\ Reorders \in BOOLEAN

OrderIds == 1 .. MaxUpdates
SeqNums == 1 .. MaxUpdates

VARIABLES
  history,     \* every update published so far, with the exchange's book after it;
               \* the n-th has seq_num_ n
  outbound,    \* incremental messages not yet sent as a datagram
  synth,       \* the snapshot thread: orders, last_inc_seq_num_
  inc_net,     \* incremental datagrams under way
  snap_net,    \* snapshot datagrams under way
  faults,      \* datagrams lost or reordered so far
  consumer     \* the MarketDataConsumer, the book of its client, and (which no code
               \* keeps) the number of the last update that book is to reflect

exchangeVars == <<history, outbound, synth>>
vars == <<exchangeVars, inc_net, snap_net, faults, consumer>>

Update(type, id) == [type |-> type, order_id |-> id]
Msg(seq, u) == [seq_num |-> seq, type |-> u.type, order_id |-> u.order_id]

NoMsgs == [n \in {} |-> Msg(0, Update("INVALID", 0))]

Init == /\ history = <<>> /\ outbound = <<>>
        /\ synth = [orders |-> {}, last_inc_seq_num |-> 0]
        /\ inc_net = <<>> /\ snap_net = <<>> /\ faults = 0
        /\ consumer = [next_exp_inc_seq_num |-> 1, in_recovery |-> FALSE,
                       snapshot_queued |-> NoMsgs, incremental_queued |-> NoMsgs,
                       book |-> {}, applied |-> 0]

-----------------------------------------------------------------------------
(* The exchange. *)

Apply(book, u) == CASE u.type = "CLEAR"  -> {}
                    [] u.type = "ADD"    -> book \cup {u.order_id}
                    [] u.type = "CANCEL" -> book \ {u.order_id}
                    [] OTHER             -> book

(* The exchange's book after the first n updates. *)
BookAfter(n) == IF n = 0 THEN {} ELSE history[n].book

(* What the matching engine may say next: a new order, or a resting one gone*)
NextUpdates ==
    LET book == BookAfter(Len(history))
        used == {history[n].order_id : n \in DOMAIN history}
    IN  {Update("ADD", Cardinality(used) + 1)} \cup {Update("CANCEL", i) : i \in book}

(* MarketDataPublisher::run, one round of the inner loop. *)
PublishIncremental ==
    /\ Len(history) < MaxUpdates
    /\ \E u \in NextUpdates :
         /\ history' = Append(history, [type |-> u.type, order_id |-> u.order_id,
                                        book |-> Apply(BookAfter(Len(history)), u)])
         /\ outbound' = Append(outbound, Msg(Len(history) + 1, u))
    /\ UNCHANGED <<synth, inc_net, snap_net, faults, consumer>>

(* incremental_socket_.sendAndRecv after the inner loop. *)
SendIncremental ==
    /\ outbound # <<>>
    /\ inc_net' = Append(inc_net, outbound)
    /\ outbound' = <<>>
    /\ UNCHANGED <<history, synth, snap_net, faults, consumer>>

(* SnapshotSynthesizer::addToSnapshot with the next update of its queue. *)
AddToSnapshot ==
    /\ synth.last_inc_seq_num < Len(history)
    /\ LET n == synth.last_inc_seq_num + 1
       IN  synth' = [orders |-> Apply(synth.orders, history[n]), last_inc_seq_num |-> n]
    /\ UNCHANGED <<history, outbound, inc_net, snap_net, faults, consumer>>

(* The k-th smallest of a set of order ids. *)
Nth(orders, k) == CHOOSE i \in orders : Cardinality({j \in orders : j < i}) = k - 1

(* The messages of a snapshot, in order. *)
snapshotMsgs(orders, last) ==
    LET body == <<Update("SNAPSHOT_START", last), Update("CLEAR", 0)>>
                \o [k \in 1 .. Cardinality(orders) |-> Update("ADD", Nth(orders, k))]
                \o <<Update("SNAPSHOT_END", last)>>
    IN  [k \in 1 .. Len(body) |-> Msg(k - 1, body[k])]

(* They are sent after each order and at the end: the first datagram holds  *)
(* what precedes the first order, too.                                      *)
snapshotDatagrams(msgs) ==
    LET n == Len(msgs)
    IN  IF n = 3 THEN <<msgs>>
        ELSE <<SubSeq(msgs, 1, 3)>> \o [k \in 1 .. n - 3 |-> <<msgs[k + 3]>>]

(* SnapshotSynthesizer::publishSnapshot.  The 60 seconds between two        *)
(* snapshots are long enough for the network to be rid of the first.        *)
PublishSnapshot ==
    /\ snap_net = <<>>
    /\ snap_net' = snapshotDatagrams(snapshotMsgs(synth.orders, synth.last_inc_seq_num))
    /\ UNCHANGED <<exchangeVars, inc_net, faults, consumer>>

-----------------------------------------------------------------------------
(* The consumer. *)

(* A message put into a map of queued messages. *)
Put(queued, m) == [n \in DOMAIN queued \cup {m.seq_num} |->
                     IF n = m.seq_num THEN m ELSE queued[n]]

(* The messages from seq_num a to b. *)
Between(queued, a, b) == [k \in 1 .. b - a + 1 |-> queued[a + k - 1]]

startSnapshotSync(c) == [c EXCEPT !.snapshot_queued = NoMsgs, !.incremental_queued = NoMsgs]

(* Faulty: seq_num 1 is taken for the first of a snapshot. *)
GaplessFromOne(queued) == /\ DOMAIN queued = 1 .. Cardinality(DOMAIN queued)
                          /\ queued[1].type = "SNAPSHOT_START"

(* Starting with SNAPSHOT_START and without a gap. *)
Gapless(queued) == /\ DOMAIN queued = 0 .. Cardinality(DOMAIN queued) - 1
                   /\ queued[0].type = "SNAPSHOT_START"

(* The first seq_num from n on that is not queued. *)
FirstMissing(queued, n) ==
    CHOOSE m \in n .. n + Cardinality(DOMAIN queued) :
      m \notin DOMAIN queued /\ n .. m - 1 \subseteq DOMAIN queued

(* No queued message is beyond the first one that is missing. *)
NoneBeyond(queued, n) == \A m \in DOMAIN queued : m < n

(* The book after a sequence of updates. *)
ApplyAll(book, updates) ==
    LET after[k \in 0 .. Len(updates)] ==
          IF k = 0 THEN book ELSE Apply(after[k - 1], updates[k])
    IN  after[Len(updates)]

(* Recovery from a complete snapshot and what has been queued after it. *)
recover(c, end) ==
    LET base == c.snapshot_queued[end].order_id + 1
        next == FirstMissing(c.incremental_queued, base)
        events == Between(c.snapshot_queued, 0, end) \o Between(c.incremental_queued, base, next - 1)
    IN  IF NoneBeyond(c.incremental_queued, next)
        THEN [next_exp_inc_seq_num |-> next, in_recovery |-> FALSE,
              snapshot_queued |-> NoMsgs, incremental_queued |-> NoMsgs,
              book |-> ApplyAll(c.book, events), applied |-> next - 1]
        ELSE [c EXCEPT !.next_exp_inc_seq_num = next, !.snapshot_queued = NoMsgs]

checkSnapshotSync(c) ==
    LET queued == c.snapshot_queued
        end == Cardinality(DOMAIN queued) - 1
    IN  IF end = -1 THEN c
        ELSE IF ~Gapless(queued) THEN [c EXCEPT !.snapshot_queued = NoMsgs]
        ELSE IF queued[end].type # "SNAPSHOT_END" THEN c
        ELSE recover(c, end)

queueMessage(c, is_snapshot, m) ==
    IF is_snapshot
    THEN checkSnapshotSync([c EXCEPT !.snapshot_queued =
           Put(IF m.seq_num \in DOMAIN @ THEN NoMsgs ELSE @, m)])
    ELSE checkSnapshotSync([c EXCEPT !.incremental_queued = Put(@, m)])

(* Faulty: the message that shows the gap is dropped. *)
handleDropping(c, is_snapshot, m) ==
    IF ~c.in_recovery /\ m.seq_num # c.next_exp_inc_seq_num
    THEN startSnapshotSync([c EXCEPT !.in_recovery = TRUE])
    ELSE IF c.in_recovery THEN queueMessage(c, is_snapshot, m)
    ELSE IF is_snapshot THEN c
    ELSE [c EXCEPT !.next_exp_inc_seq_num = @ + 1, !.book = Apply(@, m), !.applied = m.seq_num]

(* Faulty: gaps go unnoticed. *)
handleAnything(c, is_snapshot, m) ==
    IF c.in_recovery THEN queueMessage(c, is_snapshot, m)
    ELSE IF is_snapshot THEN c
    ELSE [c EXCEPT !.next_exp_inc_seq_num = m.seq_num + 1, !.book = Apply(@, m), !.applied = m.seq_num]

(* recvCallback, one round of its loop. *)
handle(c, is_snapshot, m) ==
    IF ~c.in_recovery /\ m.seq_num # c.next_exp_inc_seq_num
    THEN queueMessage(startSnapshotSync([c EXCEPT !.in_recovery = TRUE]), is_snapshot, m)
    ELSE IF c.in_recovery THEN queueMessage(c, is_snapshot, m)
    ELSE IF is_snapshot THEN c
    ELSE [c EXCEPT !.next_exp_inc_seq_num = @ + 1, !.book = Apply(@, m), !.applied = m.seq_num]

(* The consumer has joined the snapshot stream only while in recovery. *)
recvCallback(is_snapshot, datagram) ==
    LET after[k \in 0 .. Len(datagram)] ==
          IF k = 0 THEN consumer ELSE handle(after[k - 1], is_snapshot, datagram[k])
    IN  IF is_snapshot /\ ~consumer.in_recovery THEN consumer
        ELSE after[Len(datagram)]

ReceiveIncremental(k) ==
    /\ k \in DOMAIN inc_net
    /\ k > 1 => Reorders /\ faults < MaxFaults
    /\ consumer' = recvCallback(FALSE, inc_net[k])
    /\ inc_net' = RemoveAt(inc_net, k)
    /\ faults' = IF k > 1 THEN faults + 1 ELSE faults
    /\ UNCHANGED <<exchangeVars, snap_net>>

ReceiveSnapshot ==
    /\ snap_net # <<>>
    /\ consumer' = recvCallback(TRUE, Head(snap_net))
    /\ snap_net' = Tail(snap_net)
    /\ UNCHANGED <<exchangeVars, inc_net, faults>>

-----------------------------------------------------------------------------
(* The network. *)

LoseIncremental ==
    /\ inc_net # <<>> /\ faults < MaxFaults
    /\ inc_net' = Tail(inc_net)
    /\ faults' = faults + 1
    /\ UNCHANGED <<exchangeVars, snap_net, consumer>>

LoseSnapshot ==
    /\ LosesSnapshots
    /\ snap_net # <<>> /\ faults < MaxFaults
    /\ snap_net' = Tail(snap_net)
    /\ faults' = faults + 1
    /\ UNCHANGED <<exchangeVars, inc_net, consumer>>

ReceiveSomeIncremental == \E k \in 1 .. MaxUpdates : ReceiveIncremental(k)

Next == \/ PublishIncremental \/ SendIncremental
        \/ AddToSnapshot \/ PublishSnapshot
        \/ ReceiveSomeIncremental \/ ReceiveSnapshot
        \/ LoseIncremental \/ LoseSnapshot

Spec == Init /\ [][Next]_vars

(* The loops of the three threads go round for ever and the network delivers*)
(* what it does not lose.                                                   *)
FairSpec == /\ Spec
            /\ WF_vars(SendIncremental)
            /\ WF_vars(AddToSnapshot) /\ WF_vars(PublishSnapshot)
            /\ WF_vars(ReceiveSomeIncremental) /\ WF_vars(ReceiveSnapshot)

-----------------------------------------------------------------------------
MsgType == [seq_num : 0 .. MaxUpdates + 3,
            type : {"ADD", "CANCEL", "CLEAR", "SNAPSHOT_START", "SNAPSHOT_END"},
            order_id : 0 .. MaxUpdates]

(* The client's book is always one the exchange's book has been, and out of *)
(* recovery the one before the update expected next: no update is missing,  *)
(* none is applied twice, and no order that was canceled comes back,        *)
(* whatever datagrams were lost or late.                                    *)
BookInSync ==
    /\ consumer.book = BookAfter(consumer.applied)
    /\ ~consumer.in_recovery => consumer.applied = consumer.next_exp_inc_seq_num - 1

(* While datagrams are lost but not reordered, recovery never takes the     *)
(* client back to an older book than it had: the message that showed the    *)
(* gap is queued, and no snapshot from before it is accepted.               *)
NeverBackwards == [][consumer'.applied >= consumer.applied]_vars

(* Recovery ends: some snapshot is complete and leaves no gap. *)
RecoveryEnds == consumer.in_recovery ~> ~consumer.in_recovery
=============================================================================
