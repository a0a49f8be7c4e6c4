------------------------------- MODULE LFQueue -------------------------------
(***************************************************************************)
(* Common::LFQueue (utils/lock_free_queue.h), the ring every pair of       *)
(* threads of the system talks through, with one producer thread and one   *)
(* consumer thread.  The three std::atomic fields are read and written one *)
(* access at a time, because updateWriteIndex and updateReadIndex touch    *)
(* two of them and the other thread runs in between.                       *)
(*                                                                         *)
(* The consumer is one of the loops that drain a queue:                    *)
(*   - Guarded: "x = getNextToRead(); size() && x" (OrderServer::run,      *)
(*     MarketDataPublisher::run, SnapshotSynthesizer::run, Logger), or     *)
(*     "x = getNextToRead(); x" alone (MatchingEngine::run,                *)
(*     TradeEngine::run, OrderGateway::run);                               *)
(*   - LateUse: the loop dereferences x once more after updateReadIndex    *)
(*     (MarketDataPublisher::run copies *market_update into the snapshot   *)
(*     queue after releasing its slot).                                    *)
(* The queue itself never refuses a write.  MaxBacklog is how far the      *)
(* producer is ever ahead of the consumer when it begins a write.          *)
(***************************************************************************)
EXTENDS Integers, Sequences

CONSTANTS Values,        \* the elements
          NoValue,       \* T(), what the store holds before the first write
          Size,          \* store_.size()
          Guarded,       \* the consumer's loop also tests size()
          LateUse,       \* the consumer's loop reads the slot after releasing it
          MaxBacklog,    \* bound on what is outstanding when a write begins
          MaxWrites      \* bound on the number of elements ever written

ASSUME SizeAssumption == Size \in Nat \ {0, 1}
ASSUME ValueAssumption == NoValue \notin Values
ASSUME BoundAssumption == MaxBacklog \in Nat /\ MaxWrites \in Nat
ASSUME LoopAssumption == Guarded \in BOOLEAN /\ LateUse \in BOOLEAN

VARIABLES store_, next_write_index_, next_read_index_, num_elements_,
          ppc,           \* producer: "write", "index", "count"
          cpc,           \* consumer: "peek", "test", "use", "index", "count", "late"
          ptr,           \* index the consumer's pointer addresses, -1 for nullptr
          failed,        \* the ASSERT of updateReadIndex ended the process
          sent,          \* history: elements made visible, in order
          taken,         \* history: what the consumer saw on its first use of a slot
          relayed        \* history: what it saw on the use after the release

vars == <<store_, next_write_index_, next_read_index_, num_elements_,
          ppc, cpc, ptr, failed, sent, taken, relayed>>

Slots == 0 .. Size - 1
nullptr == -1

(* The next slot of the ring. *)
Succ(i) == (i + 1) % Size

(* Elements between the two indices, as getNextToRead can tell. *)
Pending == IF next_write_index_ >= next_read_index_
           THEN next_write_index_ - next_read_index_
           ELSE next_write_index_ - next_read_index_ + Size

(* The slot k places after the read index. *)
Slot(k) == IF next_read_index_ + k >= Size
           THEN next_read_index_ + k - Size
           ELSE next_read_index_ + k

(* Elements whose slot the consumer has released. *)
Popped == IF cpc = "index" THEN Len(taken) - 1 ELSE Len(taken)

Init == /\ store_ = [i \in Slots |-> NoValue]
        /\ next_write_index_ = 0 /\ next_read_index_ = 0 /\ num_elements_ = 0
        /\ ppc = "write" /\ cpc = "peek" /\ ptr = nullptr /\ failed = FALSE
        /\ sent = <<>> /\ taken = <<>> /\ relayed = <<>>

-----------------------------------------------------------------------------
(* The producer: *getNextToWriteTo() = v; updateWriteIndex(). *)

WriteNext(v) ==
    /\ ppc = "write" /\ ~failed
    /\ Len(sent) < MaxWrites
    /\ Len(sent) - Popped < MaxBacklog
    /\ store_' = [store_ EXCEPT ![next_write_index_] = v]
    /\ ppc' = "index"
    /\ UNCHANGED <<next_write_index_, next_read_index_, num_elements_,
                   cpc, ptr, failed, sent, taken, relayed>>

UpdateWriteIndex ==
    /\ ppc = "index" /\ ~failed
    /\ next_write_index_' = Succ(next_write_index_)
    /\ sent' = Append(sent, store_[next_write_index_])
    /\ ppc' = "count"
    /\ UNCHANGED <<store_, next_read_index_, num_elements_, cpc, ptr, failed,
                   taken, relayed>>

IncrementNumElements ==
    /\ ppc = "count" /\ ~failed
    /\ num_elements_' = num_elements_ + 1
    /\ ppc' = "write"
    /\ UNCHANGED <<store_, next_write_index_, next_read_index_, cpc, ptr,
                   failed, sent, taken, relayed>>

-----------------------------------------------------------------------------
(* The consumer's loop. *)

(* Faulty: the last element is taken for an empty queue. *)
GetNextToReadKeepsOne ==
    /\ cpc = "peek" /\ ~failed
    /\ ptr' = IF next_write_index_ \in {next_read_index_, Succ(next_read_index_)}
              THEN nullptr ELSE next_read_index_
    /\ cpc' = "test"
    /\ UNCHANGED <<store_, next_write_index_, next_read_index_, num_elements_,
                   ppc, failed, sent, taken, relayed>>

GetNextToRead ==
    /\ cpc = "peek" /\ ~failed
    /\ ptr' = IF next_read_index_ = next_write_index_ THEN nullptr
                                                      ELSE next_read_index_
    /\ cpc' = "test"
    /\ UNCHANGED <<store_, next_write_index_, next_read_index_, num_elements_,
                   ppc, failed, sent, taken, relayed>>

(* Faulty: the loop tests only the pointer, as the unguarded loops do. *)
TestLoopUnguarded ==
    /\ cpc = "test" /\ ~failed
    /\ cpc' = IF ptr # nullptr THEN "use" ELSE "peek"
    /\ UNCHANGED <<store_, next_write_index_, next_read_index_, num_elements_,
                   ppc, ptr, failed, sent, taken, relayed>>

(* The loop condition, evaluated on the pointer fetched before. *)
TestLoop ==
    /\ cpc = "test" /\ ~failed
    /\ cpc' = IF ptr # nullptr /\ (Guarded => num_elements_ # 0)
              THEN "use" ELSE "peek"
    /\ UNCHANGED <<store_, next_write_index_, next_read_index_, num_elements_,
                   ppc, ptr, failed, sent, taken, relayed>>

Use ==
    /\ cpc = "use" /\ ~failed
    /\ taken' = Append(taken, store_[ptr])
    /\ cpc' = "index"
    /\ UNCHANGED <<store_, next_write_index_, next_read_index_, num_elements_,
                   ppc, ptr, failed, sent, relayed>>

(* Faulty: the slot is released twice. *)
UpdateReadIndexTwice ==
    /\ cpc = "index" /\ ~failed
    /\ next_read_index_' = Succ(Succ(next_read_index_))
    /\ cpc' = "count"
    /\ UNCHANGED <<store_, next_write_index_, num_elements_, ppc, ptr, failed,
                   sent, taken, relayed>>

UpdateReadIndex ==
    /\ cpc = "index" /\ ~failed
    /\ next_read_index_' = Succ(next_read_index_)
    /\ cpc' = "count"
    /\ UNCHANGED <<store_, next_write_index_, num_elements_, ppc, ptr, failed,
                   sent, taken, relayed>>

(* ASSERT(num_elements_ != 0), which exits the process, then the decrement. *)
DecrementNumElements ==
    /\ cpc = "count" /\ ~failed
    /\ failed' = (num_elements_ = 0)
    /\ num_elements_' = IF num_elements_ = 0 THEN 0 ELSE num_elements_ - 1
    /\ cpc' = IF LateUse THEN "late" ELSE "peek"
    /\ UNCHANGED <<store_, next_write_index_, next_read_index_, ppc, ptr, sent,
                   taken, relayed>>

UseAfterRelease ==
    /\ cpc = "late" /\ ~failed
    /\ relayed' = Append(relayed, store_[ptr])
    /\ cpc' = "peek"
    /\ UNCHANGED <<store_, next_write_index_, next_read_index_, num_elements_,
                   ppc, ptr, failed, sent, taken>>

-----------------------------------------------------------------------------
Producer == UpdateWriteIndex \/ IncrementNumElements
            \/ \E v \in Values : WriteNext(v)

Consumer == GetNextToRead \/ TestLoop \/ Use \/ UpdateReadIndex
            \/ DecrementNumElements \/ UseAfterRelease

Next == Producer \/ Consumer

(* Both threads are busy loops that nothing blocks.  The producer need not  *)
(* have anything to write, so only the rest of a begun write is fair.       *)
Fairness == /\ WF_vars(Consumer)
            /\ WF_vars(UpdateWriteIndex \/ IncrementNumElements)

Spec == Init /\ [][Next]_vars
FairSpec == Spec /\ Fairness

-----------------------------------------------------------------------------
TypeOK ==
    /\ store_ \in [Slots -> Values \cup {NoValue}]
    /\ next_write_index_ \in Slots /\ next_read_index_ \in Slots
    /\ num_elements_ \in Nat
    /\ ppc \in {"write", "index", "count"}
    /\ cpc \in {"peek", "test", "use", "index", "count", "late"}
    /\ ptr \in Slots \cup {nullptr}
    /\ failed \in BOOLEAN
    /\ sent \in Seq(Values \cup {NoValue})
    /\ taken \in Seq(Values \cup {NoValue})
    /\ relayed \in Seq(Values \cup {NoValue})

(* s is an initial part of t. *)
InitialPart(s, t) == Len(s) <= Len(t) /\ \A i \in 1 .. Len(s) : s[i] = t[i]

(* The consumer sees every element once and in the order of the writes, and *)
(* the copy it makes after releasing the slot (market_data_publisher.cpp:35)*)
(* is still the same element, although the producer may reuse the slot from *)
(* updateReadIndex on.                                                      *)
FifoOrder == InitialPart(taken, sent) /\ InitialPart(relayed, taken)

(* The slot being filled through getNextToWriteTo is never the one a        *)
(* consumer is reading: elements are plain structs, so that would be a      *)
(* data race.                                                               *)
NoDataRace == ppc = "index" /\ cpc \in {"use", "late"} => ptr # next_write_index_

(* "Read an invalid element" (lock_free_queue.h:40) never ends the process. *)
ReadIsValid == ~failed

(* An element that was written and not taken is visible: getNextToRead does *)
(* not answer nullptr.                                                      *)
BacklogVisible == Len(sent) > Popped => next_read_index_ # next_write_index_

(* The ring implements the queue its users have in mind: an element is put  *)
(* when the write index moves and taken when the read index moves.          *)
Queue == INSTANCE FIFO WITH
    Values <- Values \cup {NoValue},
    q   <- [k \in 1 .. Pending |-> store_[Slot(k - 1)]],
    got <- SubSeq(taken, 1, Popped)

ImplementsFIFO == Queue!Spec

(* Every element written is eventually taken, although the guarded loop     *)
(* tests two atomics that change one after the other.                       *)
EveryElementTaken == \A n \in 1 .. MaxWrites : Len(sent) >= n ~> Len(taken) >= n
=============================================================================
