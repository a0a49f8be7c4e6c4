# A verification of the HFT exchange and trading client

These modules model the concurrent and algorithmic core of the repository: an
exchange (order server, matching engine, market data publisher) and a trading
client (order gateway, market data consumer, trade engine) that talk over TCP
and UDP multicast, and inside each process over lock-free queues. TLC checks
small instances of the modules; TLAPS proves, for every value of the constants,
the invariants of the queue, the memory pool, the order book with the receivers of its
messages, the client's copy of the book with the features and quotes made from it, the
market data and its recovery, the order manager, the position keeper, the order server and
the byte streams under it, and the order in which both programs start and end.

Paths below are relative to `src/`. A definition carries the name of the
function or field it stands for where TLA+ allows it; a definition whose comment
begins with "Faulty:" is a mutated form kept for the mutation runs and used by
no specification.

## 1. The system

```
 trading client (one per client id)            exchange
 ----------------------------------            --------------------------------
 TradeEngine thread                            MatchingEngine thread
   strategies, OrderManager, RiskManager,        MEOrderBook per instrument
   PositionKeeper, MarketOrderBook                 |  ^            |
     |  requests (LFQueue)   ^ responses           |  | requests   | updates
     v                       | (LFQueue)           |  | (LFQueue)  | (LFQueue)
 OrderGateway thread --------TCP---------- OrderServer thread      v
                                             FIFOSequencer    MarketDataPublisher thread
 MarketDataConsumer thread  <---- incremental multicast -----------|  |
   recovery, then LFQueue   <---- snapshot multicast ------ SnapshotSynthesizer thread
   to the TradeEngine                                        (LFQueue)
```

| component | state it keeps | operations | what is hard | what makes it right |
|---|---|---|---|---|
| lock-free queue, `utils/lock_free_queue.h` | ring, two indices, element counter (three atomics) | get/update for read and write | two threads between the two atomics of one update; no refusal when full; a slot used after its release | FIFO, no slot read while written, no ASSERT trips, nothing left behind |
| memory pool, `utils/mem_pool.h` | blocks with a free flag, next free index | allocate, deallocate | the search wraps around; it reads before it knows where the store ends | no block has two holders; ends only when full |
| order book, `exchange/matcher/me_order_book.*`, `matching_engine.*` | order pool, level table, two circular lists of levels, a circular list of orders per level, client id map | add (match, rest), cancel | levels vanish under the matching loop; indices modulo 256; pointers into pools | price-time priority, never crossed, tables agree, quantities add up |
| market data publisher and snapshot synthesizer, `exchange/market_data/*` | sequence numbers, a second book built from updates | run, addToSnapshot, publishSnapshot | two threads, the copy handed over after the slot is released | the snapshot is the book; ASSERTs on updates hold |
| market data consumer, `trading/market_data/market_data_consumer.*` | expected number, two maps of queued messages, in_recovery | recvCallback, queueMessage, checkSnapshotSync, startSnapshotSync | lost, late, reordered datagrams; a snapshot older than what is queued | no update missing, none twice; recovery ends |
| order server, `exchange/order_server/*`, `utils/tcp_*` | per client sequence numbers and socket, pending requests, send buffers | poll sockets, sequence, publish, answer | merging of sockets, restart of a client, room to send | each client's requests once and in order; responses accounted for |
| order gateway, `trading/order_gw/*` | two sequence numbers | send, receive | the same from the other end | the same |
| order manager, risk, position, `trading/strategy/*` | one OMOrder per side and instrument, position | moveOrders, onOrderUpdate | responses and requests cross; a cancel crosses the last fill; stale position | one order per side, agreement with the exchange, the position limit |
| position keeper, `trading/strategy/position_keeper.h` | position, average open prices, profit | addFill, updateBBO | a fill that reduces, closes or turns round the position; signed and unsigned values of a side; memory nobody initialises | the profit is what the fills since the position was last flat have made |
| client's book, `trading/strategy/market_order_book.*` | as the exchange's book, and the BBO | onMarketUpdate, updateBBO | CLEAR in the middle; BBO updated by a test made before the update | equals the exchange's book; BBO right |
| trade engine, features, strategies, `trading/strategy/{trade_engine,feature_engine,market_maker,liquidity_taker}.*` | two features, the functions of the chosen strategy | run, onOrderBookUpdate, onTradeUpdate | quotes after every single update, in the middle of a step of the exchange or of a recovery | quotes do not cross; ratios of what stood in the book |
| TCP server and socket, `utils/tcp_*`, `utils/socket_utils.h` | lists of sockets, two buffers per socket, an epoll instance | listen, poll, sendAndRecv, connect | edge-triggered events, reads that end anywhere, peers that go away | requests seen whole and all of them |
| logger, `utils/logging.h` | a queue of characters and values, a thread, a file | log, pushValue, flushQueue, destructor | one call is many elements; the destructor judges by size() | the file is what was logged; closing it ends |
| programs, `exchange_main.cpp`, `trading_main.cpp`, `utils/thread_utils.h` | the objects, one thread each, a flag each | start, stop, destructors, signal handler | order by sleeping; no thread is joined | nothing used after it was deleted; the programs end |
| macros, clocks, UDP sockets, examples | | | | not modelled, see section 8 |

`PROJECT.json` lists every component with its sources, and under `hazards` every
place where one of these things can go wrong, with the property that would show it.

## 2. The modules

| module | what it is | code |
|---|---|---|
| `LFQueue` | the ring between one producer and one consumer thread, one atomic access per action | `lock_free_queue.h`, and the seven loops that drain such a queue |
| `FIFO` | what the users of the queue rely on; `LFQueue` implements it | |
| `MemPool` | the free-block search and the two operations; a machine of its own for the findings | `mem_pool.h` |
| `UtilsProofs` | theorems about `LFQueue`, `MemPool` and `BookSide` | |
| `MEOrderBook` | the book and the matching loop; one action per stretch between messages | `me_order_book.*`, `me_order.h` |
| `PriceLevels` | the two circular lists of one side, pointer by pointer | `addOrdersAtPrice`, `removeOrdersAtPrice`, `addOrder`, `removeOrder` |
| `BookSide` | composes `PriceLevels` and `MemPool`: an order is the block the pool hands out | the end of `add`, `removeOrder` |
| `SideOfBook` | sorted sequences; `BookSide` implements it | |
| `SnapshotSynthesizer` | `addToSnapshot` as operators, with its ASSERTs | `snapshot_synthesizer.cpp` |
| `MatchingEngine` | extends `MEOrderBook` with the receivers of both streams: the snapshot book, what each client has been told, the printed volume | `matching_engine.*`, as above |
| `MatchingEngineProofs` | theorems about `MEOrderBook`, and about `MatchingEngine` from those | |
| `MarketData` | incremental stream, snapshots, lossy network, gap recovery | `market_data_publisher.*`, `snapshot_synthesizer.*`, `market_data_consumer.*` |
| `MarketDataProofs` | theorems about `MarketData` | |
| `MarketOrderBook` | extends `MEOrderBook` with the client's copy of the book, a feed that may be lost and the recovery | `trading/strategy/market_order_book.*`, `publishSnapshot` |
| `OrderServer` (`MCOrderServer`) | server loop, sequencer, sockets, gateways, clients that restart | `order_server.h`, `fifo_sequencer.h`, `tcp_server.cpp`, `tcp_socket.cpp`, `order_gateway.*` |
| `OrderManager` | one client's orders, risk check and position against the exchange | `order_manager.*`, `risk_manager.h`, the two strategies |
| `OrderManagerProofs` | theorems about `OrderManager` | |
| `TradeEngine` | extends `MarketOrderBook` with the features and the prices both strategies ask for, update by update | `trade_engine.*`, `feature_engine.h`, `market_maker.*`, `liquidity_taker.*` |
| `TradeEngineProofs` | theorems about `TradeEngine` and `MarketOrderBook`, from those about `MEOrderBook` | |
| `TCPServer` | connections, backlog, edge-triggered epoll, byte streams and buffers; `createSocket` with its failures | `tcp_server.*`, `tcp_socket.*`, `socket_utils.h`, `order_gateway.h` |
| `OrderServerProofs` | theorems about `OrderServer` and about `TCPServer` | |
| `Logger` | calls of `log` by one or several threads, the thread that writes the file, the destructor | `logging.h`, `lock_free_queue.h` |
| `Programs` | both mains, the signal handler, start, stop and destructors of all components, thread by thread | `exchange_main.cpp`, `trading_main.cpp`, `thread_utils.h`, the `start`/`stop`/destructors |
| `ProgramsProofs` | theorems about `Programs` and about `Logger` | |
| `PositionKeeper` | position, open prices and profit over fills and BBOs | `position_keeper.h` |
| `PositionKeeperProofs` | a theorem about `PositionKeeper` | |

`MCOrderServer` exists because the order of the accepted sockets is a sequence,
which a `.cfg` cannot write. The other modules are instantiated by their `.cfg`.
`PriceLevels`, `MemPool`, `SnapshotSynthesizer` and `MarketOrderBook` are checked as
parts of the modules that extend them.

### How state and actions correspond to the code

* **LFQueue.** `ppc` and `cpc` say between which two atomic accesses each thread
  is. Producer: fill the slot (`WriteNext`), move the index (line 30), count
  (line 31). Consumer: fetch the pointer, test the loop condition, use the
  element, move the index (line 39), ASSERT and discount (lines 40-41), and, for
  the publisher only, use the slot once more. `Guarded` and `LateUse` select the
  loop; `sent`, `taken`, `relayed` are histories.
* **MEOrderBook.** An add is `Accept`, then `Match` once per fill, then `Rest` or
  `Done`; the record `adding` is the stack frame in between. `Cancel` and
  `CancelReject` are whole calls. A level's list is a sequence, a side's list a
  set of level indices, and the pointer to the best is `IsBest`; `BookSide`
  shows that the pointer code keeps exactly that. `responses` and `updates` are
  what the last step sent, in order.
* **MarketData.** A book is the set of its order ids; `history` is the exchange's
  past. A datagram is what one `sendAndRecv` finds in its buffer. `consumer` is
  the consumer's fields with the client's book, and `applied`, which no code
  keeps: the number of the last update the book reflects.
* **OrderServer.** One action per socket of a round (`PollSocket`: read, check,
  sequence, send what is buffered), one for `sequenceAndPublish`, one per answered
  response. A connection is a client and a session number. When a client is started again
  (`Restart`), what its old connection has brought to the exchange may still be read, next to
  what the new one brings, or a part of it or all may be lost with a reset; the sockets of one
  client are polled one right after the other, in the order of their sessions.
* **OrderManager.** `MakeMarket` and `TakeLiquidity` are the two strategies'
  callbacks with the whole of `moveOrders`; `OnOrderUpdate` is a response with
  position keeper and order manager together; the exchange is reduced to this
  client's resting orders, which others fill at any time.
* **BookSide.** `restOrder` is the end of `add` (allocate, then `addOrder`, or the ASSERT
  of the pool), `freeOrder` is `removeOrder` with its `deallocate`. A block given out
  twice would be linked twice, which is why the two are checked together.
* **PositionKeeper.** The code as it stands: `sideToValue` makes a `size_t` of the side,
  `position_` is cut to its width again (`int32_t`, with `Half` for 2^31), and the open prices
  start with whatever `FirstVwaps` has. Money is counted in halves of a price step, for the
  middle of a BBO. `held`, `cash`, `sides`, `clean` and `mark` are histories: what was bought
  less what was sold, the money of that and the sides of the fills since the position was last
  flat, whether the open prices are known to have been cleared, and the price of the last
  valuation.
* **TradeEngine.** `process` is one update taken from the queue with every call the book
  makes of it: the book, the feature engine, the strategy. One step of the exchange, or one
  snapshot, is a list of updates; `ProcessAll` takes the record of book, features and quotes
  through them, since the engine handles one to the end before the next. `features` are fractions; 0/0 is the
  NaN of `Feature_INVALID`, which is not at least anything. `position_keeper_.updateBBO`,
  which `onOrderBookUpdate` calls as well, is an action of `PositionKeeper`; it shares no
  state with features and quotes. The run uses a VIEW that leaves out `updates` and
  `responses`, the messages of the last step: no action and none of its properties reads
  them in a state, only in the step that sends them.
* **TCPServer.** The server's thread is `Listen`, then rounds of `Poll` (removal of
  disconnected sockets, epoll_wait, the loop over the events), `Accept` per connection,
  `SendAndRecv` per socket, `Finish` and the answers. Between any two of these the kernel
  may let bytes arrive or connections end. `ready` is what epoll would report. `accept` may
  return -1 with connections queued (`NoConnection`: no descriptor left, or a connection that
  had an error and is dropped), and what follows an accepted connection may fail as well
  (`AcceptFails`); `missed` is a history of the connections such an `accept` has left
  without an event. A byte is the number of its request and its place in it. Where `OrderServer` has whole messages and
  the numbering, this module has the bytes; the two share `recvCallback`'s loop.
* **Logger.** The program counter of a logging thread says where in `pushValue` it is; the
  write index is loaded and stored in two steps, as two threads may do so. `Interrupts`
  is the SIGINT handler, which deletes `exchange_main`'s logger on top of whatever main is
  doing and does not return to it. `said` (what the calls are meant to print, `Printed`) and
  `pushed` are histories.
* **Programs.** What main and the handler do is a sequence of steps `[op, c]`, with the bodies
  of `start` and of the destructors written out at the place of the call; there is one
  action per kind of step, and four per thread (`Announce`, `EnterRun`, `TestRun`, `Body`).
  A thread's body is what matters to the end of the programs: what it puts into and takes
  from the engine's queues.
* **MarketOrderBook.** The client's book is one record, which `ApplyAll` takes through
  a list of updates; `fault` names the undefined behaviour the code would run
  into, after which nothing is modelled.

### How the source was read

The repository as it stands does not compile everywhere, and it has no tests. Where
it is ambiguous, the readings are a CONSTANT or the following choices:

| place | reading |
|---|---|
| `me_order_book.cpp:106-109` | the tail of `cancel` stands behind `add`; line 106 names variables `add` does not have and is left out, lines 107 and 109 are executed if `TailSends` |
| `me_order_book.cpp:112-140, 143-169` | `cancel` is defined twice, alike but for layout; once here |
| `order_manager.h:54-56, 67-70` | braces of `moveOrder` restored around the switch cases and the risk check |
| `fifo_sequencer.h:19` | the pending size is `pending_size_` |
| `order_server.h:105, 113` | `outgoing_responses_`, and the next outgoing number of the client where `cid_next_exp_seq_num` is written |
| `me_order_book.h:75-77, 122`, `me_order.h:57`, `exchange_main.cpp:39`, `client_request.h:50`, `client_response.h`, `types.h:16-24`, `matching_engine.h:16-17`, `snapshot_synthesizer.cpp:3` | spelling of names and types |
| `om_order.h:58` | `Side` has no MAX; the table has one entry for BUY and one for SELL, and the entry a response with side INVALID would reach is used by nothing else |
| `types.h:92`, `risk_manager.h:47` | `sideToValue` returns `size_t`, and `PositionKeeper` takes it so; only in `OrderManager`'s risk check is it signed, because `std::abs` does not compile on a `size_t` |
| `position_keeper.h:16` | `open_vwap_` is not initialised: it may start with any of `FirstVwaps` |
| `mem_pool.h:21-24` | the loop reads behind the store; what lies there is `PastEnd` |
| `std::sort` in `fifo_sequencer.h:31` | stable up to `SortThreshold` elements (16 in the usual libraries), any order of equal times beyond |
| `tcp_socket.cpp:70-80` | whether the kernel may have no room is `WouldBlock` in `OrderServer` and `Congested`, with partial sends, in `TCPServer` |
| `tcp_server.cpp:16` | `EPOLLET | EPOLLIN`: level changes between two waits are one event, and an added descriptor that is ready is one at once |
| `trading_main.cpp:81-112` | the RANDOM loop sends up to `MaxRequests` requests and may end early, as it does after a minute of silence |
| sleeps in `start`, `stop`, destructors and handlers | a sleep is a step; that every thread has done by its end what it was asked for before is `Prompt` |
| `mcast_socket.h`, the maps of `RiskCfg`/`TradeEngineCfg` | not in the repository: a network that loses and reorders datagrams, constants |
| `trading/market_data/market_order_book.*` | an older copy of `trading/strategy/market_order_book.*`; the latter is modelled |

## 3. What is checked

Every run below ends without error. Sizes are distinct states.

| run | module, configuration | instance | states | shows |
|---|---|---|---|---|
| LFQueue | `LFQueue_guarded.cfg` | ring of 3, 5 writes of 2 values, backlog 2, guarded loop with late use | 3,180 | FIFO, no race, no ASSERT, refinement of `FIFO`, every element taken |
| MatchingEngine | `MatchingEngine.cfg` | 2 clients and a foreign id, 3 prices, quantities 0-2, 3 orders, any cancels | 448,074 | 7 properties of the book, 3 of its streams |
| BookSide | `BookSide.cfg` | 5 blocks, 4 prices, both sides | 52,274 | lists sound in both directions and printable, no order in a block that is free or held twice, refinement of `SideOfBook` |
| PositionKeeper | `PositionKeeper.cfg` | 4 fills of 1 to 4 at 3 prices, positions up to 2, any BBO, open prices that are 0 or 7 at first | 38,941 | what the profit is worth after fills of one side and of both |
| MarketData | `MarketData.cfg` | 4 updates, 2 losses or reorderings of incremental datagrams | 175,912 | the book is always a past book of the exchange, and the current one out of recovery |
| MarketData_lossy | `MarketData_lossy.cfg` | 3 updates, 3 losses in either stream, no reordering | 13,246 | never back in time; recovery ends |
| OrderServer | `OrderServer.cfg` | 2 clients, 2 requests a session, one client restarts and what it sent before is read or lost, room for 4 pending | 274,136 | order per client, responses accounted for, every request processed |
| OrderManager | `OrderManager.cfg` | 3 orders of 2, 2 prices, limit 3, both strategies | 115,002 | one order per side, agreement when quiet, limit kept, cancels end |
| TradeEngine | `TradeEngine.cfg` | 1 client, 2 prices, 5 orders, 1 loss of the feed, threshold 1/2 | 961,368 | client's book = exchange's book, no unknown order, BBO right or unknown, quotes do not cross, ratio at most 1 |
| Logger | `Logger.cfg` | 3 calls of 3 forms, ring of 4, destructor at any point | 13,670 | the file is what was logged, the destructor returns |
| TCPServer | `TCPServer.cfg` | 2 clients, together 2 requests of 2 bytes, 1 response each; every call of `createSocket`, `accept`, what follows it, and `send` may fail | 277,397 | requests are seen whole, every one that has arrived is published unless an `accept` failed over its connection |
| Programs | `Programs.cfg` | both programs, 1 signal, 2 arrivals, 2 RANDOM requests | 7,153 | nothing used after it was deleted, the programs end |

Every property of every run is broken by at least one mutated definition
(`PROJECT.json`, `mutants`): a dropped guard, a forgotten reset, a swapped order.

### Why the bounds are enough

* *Queue.* The ring of 3 wraps twice in 5 writes, so every slot is reused and every
  distance between the indices occurs. The proofs are for every size.
* *Book.* Three orders are a level of two and a third that crosses it, two levels
  and a third that sweeps both, or a level emptied and opened again; quantities 0-2
  give empty, partial, exact and over fills. Three prices and three indices leave no
  aliasing (see the findings for aliasing). The invariants are proved for all bounds.
* *Lists and pool.* Four levels are the least number that has an inner pair on each side
  of an insertion; four orders at one price likewise. Five blocks let the search wrap
  around with blocks given back in any order, and be full.
* *Position.* Four fills open, reduce or turn round, close and open again. A position of
  at most 2 with fills of up to 4 is turned round by more than it held. With `Half = 8` the sums
  and products with the value of SELL wrap around; one first value besides 0 is a side that is
  not clear, or two.
* *Market data.* A gap takes one loss, a second one while in recovery two; four
  updates leave one on each side of both. A snapshot of at most 4 orders is up to
  7 messages in 5 datagrams.
* *Order server.* Two sockets are a merge; a restart has a request of the first session
  under way when the second begins, which may then be read before, with or without those of
  the second, next to a client that stays. Room for four pending
  requests is enough for every round of this instance; `OrderServer_promises.cfg` has less.
* *Order manager.* Three orders are one on each side and a replacement; a position
  limit of 3 with clips of 2 lets one order through and stops a second one on the
  same side.
* *Client's book, features and quotes.* Five orders at two prices are a level of two that is
  cleared, filled again and depleted, and a trade that sweeps a level; one loss is one
  recovery. With a threshold of half a tick the fair price is on both sides of it.
* *TCP.* Two bytes are a request cut in the middle, two requests one whole and one cut of
  one client, or one of each; the second client connects while the first is accepted, or
  after an `accept` that failed over the first, whose connection it brings back. One response is a send that
  finds no room, or that a client which has gone answers with a reset.
* *Logger.* A ring of 4 wraps within one call; three calls let the thread that writes be
  behind by a call, between two, and asleep.
* *Programs.* Each thread has one flag and no counter; a second signal is a finding. Two
  arrivals are one in each of the engine's queues, or one seen before and one after `stop`.

Unbounded counters (sequence numbers, order ids, the clock) are bounded in the guards
of the actions that increase them, by the constants whose comment says "bound".

### Deadlock

It is checked except where the code may really stop: `BookSide` and `TradeEngine`
(an ASSERT or a fault ends the process). In `TCPServer`, `Logger` and `Programs` a process
that has ended is an action of its own (`Ended`, `Done`), so that a thread that waits for
ever shows as a deadlock or as a liveness counterexample.

## 4. Fairness

* `LFQueue`: the consumer's loop, and the rest of a write that has begun. Both
  threads spin and nothing blocks them; nobody has to write.
* `MarketData`: the loops of publisher, synthesizer and consumer, and the delivery of
  datagrams that are not lost. Losses are bounded by `MaxFaults`, which is what "the
  network works again at some time" comes to; a snapshot is published every 60 seconds
  for ever.
* `OrderServer`: the server's loop, the engine's, and a client's receiving. Nobody has
  to send a request.
* `TCPServer`: the order server's loop, which never blocks (epoll_wait has timeout 0).
  Clients and kernel need not do anything: a request's bytes count once they have arrived.
* `Logger`: the rest of a call that has begun, the writing thread, and the destructor's
  second look. Nobody has to log, or to delete the logger.
* `Programs`: main, the handler and each thread get to run. No signal has to come, nothing
  has to arrive, and the RANDOM loop may end at any time. `Prompt` is a guard on the steps
  after a sleep, and no fairness: it says what the seconds of the sleeps are there for.
* `OrderManager`: requests are processed and responses handled. Nobody has to quote or
  to fill an order.

## 5. What is proved

`UtilsProofs`, for every ring size of at least 2, every set of values, both loops,
with and without the late use:

| theorem | states | assumption |
|---|---|---|
| `TypeCorrect` | `TypeOK` | `MaxBacklog < Size` |
| `TakesInOrder` | `FifoOrder` | the same |
| `RaceFree` | `NoDataRace` | the same |
| `GuardedReadIsValid` | `ReadIsValid` | the same, and `Guarded` |
| `RingIsQueue` | `ImplementsFIFO` | `MaxBacklog < Size` |

None of the first four is inductive alone. `IInv` adds that the number of elements between
the indices is what was sent less what was released (`RingCount`), that the slots
between the indices hold exactly these elements (`RingContents`), what the consumer's
pointer means at each point of its loop (`PointerOK`), how many late copies are due
(`RelayCount`) and by how much the counter may differ (`CounterOK`, `GuardOK`). The
assumption of room is where the safety of the queue rests in this system: nothing in
the code refuses a write, the rings are only made large (256 K elements).
The late use of the publisher is safe under the same assumption: while the producer
fills a slot, that slot is at most `Size - 2` after the read index, and the one just
released is `Size - 1` after it.
`RingIsQueue` is the refinement `LFQueue => FIFO`: under `IInv` the step that moves the
write index is `Put` (`UpdateWriteIndexPuts`), the step that moves the read index is
`Get` (`UpdateReadIndexGets`), and every other step leaves the mapped queue alone
(`OtherStepsStutter`), because the slot being filled is none of the visible ones.

`UtilsProofs` also proves `NoSharedBlock`, that `HeldOnce` holds for every size of the pool and
whatever lies behind its store (`PastEnd`). `HeldOnce` is inductive with the types of
the pool; the work is in the search (`SearchEnds`), which ends at a block of the store or behind it.

Its last part is about `BookSide`, for every set of prices and every size of the pool:

| theorem | states | assumption |
|---|---|---|
| `NoSharedOrder` | `HeldOnce` of the orders of a side | none |
| `ListsBothWaysAlways` | `BothWays` | `"used" \notin PastEnd` |
| `ListsImplementSide` | `ImplementsSideOfBook` | the same |

Where memory behind the store looks used, the pool hands out what does not belong to it
(findings) and there are no lists to speak of. `SideInv` is inductive: the levels are a
sorted sequence without repetitions whose neighbours the pointers are, entered at its first
(`LevelsAre`), the orders of each price are such a sequence entered at `first` (`OrdersAre`),
and no order in use is in a block that is free, so that the block handed out is in no list.
A sequence of which f holds the pointers, around in both directions, is `Circle(f, s)`. Two
lemmas about it carry all four operations: `IntoCircle`, that relinking two neighbours puts
an entry between them wherever they are, which includes the one place where a circle opens,
and `WithoutCircle`, that it takes one out. For a new level `BetterOnes` finds the place at
which the list stays sorted, and `TargetIs` shows that the walk of `addOrdersAtPrice` ends
there, or back at the best. `FromIs` shows that reading the pointers from the entry gives
the sequence: this is what `BothWays` and the refinement mapping are read with. `TargetIs`
and `FromIs` are about recursive functions and go along the sequence from its end by `UpTo`.
In the refinement an order that rests is `Join`, one that is removed is `Leave`, and a call
that an ASSERT of the pool ends is a stutter.

`MatchingEngineProofs` begins with the book, for any number of clients, orders, prices, quantities and
levels, whether the tail of `add` is executed or not:

| theorem | states | assumption |
|---|---|---|
| `TypeCorrect`, `PriceMapIsRight`, `LevelsAreConsistent`, `LevelsAreInTimePriority`, `NeverCrossed`, `CancelFindsItsOrder` | the invariants of the same content | `NoAliasing` |
| `FillsInPriceTimePriority` | `PriceTimePriority`, an action property | `NoAliasing` |
| `BookInvariant` | the inductive invariant they follow from | `NoAliasing` |

`NoAliasing` says that no two prices in use share an index of the level table; without
it the level table is wrong (findings). The inductive invariant `IInv` joins the
invariants of the book with `IdsInOrder` (resting orders are older than the one being
added and than the next one), and with `MapLive` and `MapComplete`, the two halves of
`OwnerMap`; the second needs clients that number their orders (`FreshIds`), as the
order manager does. `NeverCrossed` needs `IInv` in the step that rests an order: the
matching loop only looks at the first order of the best level, and that this is enough
follows from `LevelLists` (each order of a level has its price) and from the existence
of a best level, by well-founded induction on prices (`BestExists`).

It goes on with the receivers, for any number of clients, orders, prices and quantities:

| theorem | states | assumption |
|---|---|---|
| `SnapshotIsBookHolds` | `SnapshotIsBook` | `NoAliasing`, `~TailSends` |
| `LedgerAddsUpHolds` | `LedgerAddsUp` | the same |
| `TradesAddUpHolds` | `TradesAddUp` | the same |
| `EngineInvariant` | the inductive invariant they follow from | the same |

`~TailSends` leaves the pasted tail of `add` out: with it a message is sent twice, and the
snapshot's ASSERT fails (findings). `EngineInv` adds to the `IInv` of the book how each
receiver stands to it. The snapshot *mirrors* the order pool (`Mirrors`). An entry of the
ledger is right about the order that rests or is under way (`EntryRight`): its open part
is the order's, and - this is the strengthening - nothing of it was canceled, since a
fill of a canceled order would go unnoticed in the sum. The printed volume and the sum
over the ledger are compared through partial sums (`SumsTo`): a sequence of sums that
starts at 0 and grows by each entry is a witness for the total, and `SumGrows` says what a
changed entry does to it, so that no induction over the ledger is needed. A step of
the book is one of four kinds (`Filling` is the fill), and each has one lemma per receiver.

`TradeEngineProofs`, for any number of orders, prices, quantities, levels and losses of the feed:

| theorem | states | assumption |
|---|---|---|
| `OrdersAreAlwaysKnown` | `OrdersAreKnown` | `NoAliasing`, `~TailSends` |
| `ClientHasExchangeBook` | `BookIsExchangeBook` | the same |
| `BBOIsNeverWrong` | `BBONeverWrong` | the same |
| `MakerNeverCrosses` | `QuotesNeverCross` | the same |
| `TradesFitTheirLevel` | `RatioAtMostOne` | the same |
| `TradeInvariant` | the inductive invariant they follow from | the same |

The module rests on the book's part of `MatchingEngineProofs`: the exchange's book satisfies its `IInv`, and
`StepIsExplained` says what the updates of one step of it tell (an order added behind those
of its price, one changed in quantity, one gone, nothing). `AppliedKeepsSame` is then one
lemma per update: the client's book, if it was the exchange's before the step (`Same`), is
the exchange's after it.

* `BookIsExchangeBook` says nothing of the table of levels outside the two lists, and `clear`
  leaves entries of deallocated levels there (findings). `Full` is the strengthening: until
  the first loss the *whole* table is the exchange's, so no ADD meets a level that only
  the table has, and `book` has no fault. After a loss that fault is possible and ends what is
  modelled (`Sound`); a null pointer is not, which is `OrdersAreKnown`.
* A recovery is CLEAR and one ADD per live order, in the order of their ids. After the
  orders below an id, each level of the client is the beginning of the exchange's level
  (`Partly`), because within a level ids ascend (`TimePriority`); `AddGoesOn` goes from one id
  to the next, and behind the last id the beginnings are the levels (`RecoveryIsComplete`).
* `updateBBO` runs on the test made *before* the update. `BBOKept` shows that when it does not
  run, a BBO that was the top of the book or unknown still is: an update away from the top
  moves the top only where the BBO was unknown anyway.
* `QuotesApart` is why a quote does not cross: both sides of the BBO are prices of the book,
  `NotCrossed` keeps them apart in the middle of an add as well, between two of its fills, and
  the market maker's offset only takes a quote away from the other side.
* A TRADE comes before the update of the order it fills, so the order is still at the top of
  the client's book with what it had; `FirstIsPart` says that one order's quantity is at most
  the sum of its level's, again by partial sums.

The loops `ApplyAll`, `ProcessAll` and `Snapshot` are recursive functions over the number of
rounds, handled as those of `MarketData` below (`StepByStep`, `UpTo`).

`MarketDataProofs`, for any number of updates, losses and reorderings:

| theorem | states | assumption |
|---|---|---|
| `BookInSyncHolds` | `BookInSync` | `~LosesSnapshots` |
| `NeverBackwardsHolds` | `NeverBackwards`, an action property | `~Reorders` |

Each assumption is one the property needs. When datagrams of snapshots are lost, the
beginning of one and the end of another pass for one snapshot, and `BookInSync` is false
(findings). When an incremental datagram comes late, the update that showed a gap may be
older than the client's book, and the recovery that follows takes the book back.

`BookInSync` follows from `IInv`: every published update is stored with the book it makes
(`IsHistory`), the client's book is the one after update `applied` and what is queued is what
was published (`Synced`), and the snapshot that is under way is that of some past update,
of which the consumer has queued all that has arrived, or nothing (`SnapshotUnderWay`).
When the last message is there, applying the snapshot to *any* book gives the exchange's
at that update (`Rebuilt`), because a snapshot says CLEAR before its first order and names each
order of the book (`NthEnumerates`), and the queued updates lead on from there.

`NeverBackwards` allows losses of snapshots, so `FInv` says nothing about what the book
is, only how old. With t the number of the last update heard of, either everything still to
come is newer than the client's book and so is, in recovery, one of the queued updates
(`Ahead`), or the snapshot under way and the one published next are at least as new as
the book (`Reach`). In the first case a snapshot from before leaves a gap and is refused
(`RecoversForward`). That a SNAPSHOT_END in the queue ends the check uses that the queue
is always the beginning of a snapshot, without its end (`Prefix`, `NoEnd`).

Both loops, over the messages of a datagram and over the updates of a recovery, are
recursive functions in the module, in the form `after[k]`, what is there after k rounds. The
proofs first show that such a function exists (`CallbackSteps`, `ApplyAllSteps`) and then go
from round to round by `UpTo`, induction over `0..n` for a set in the place of a predicate,
which follows from the well-foundedness of the order on the naturals.

`OrderManagerProofs`, for any prices, limits, clips, number of orders and either strategy,
with no assumption but those of the module:

| theorem | states |
|---|---|
| `OneOrderPerSideHolds` | `OneOrderPerSide` |
| `AgreesWhenQuietHolds` | `AgreesWhenQuiet` |
| `PositionWithinLimitHolds` | `PositionWithinLimit` |
| `Invariance` | the inductive invariant they follow from |

The difficulty is that the client's view and the exchange differ by what is under way.
`Leads` says what an `OMOrder` becomes when the responses under way are handled one after
the other (a sequence of its values, `View`), and the invariant is about that value f:
the requests under way (`Requested`), the exchange's resting orders (`AtExchange`), the
position (`Accounted`). A response may only find a state that expects it (`Expected`), and
the states go in one direction (`Later`), which is why a fill that crosses with a cancel
is counted once. `Limits` carries the risk check from the moment of the request to
the fill: a check once passed stays passed while the order is alive, because a fill of the
other side moves the position away from the limit this side could reach.

`PositionKeeperProofs`, for any prices, quantities, number of fills and first memory, and any
width of `position_` that has room for `MaxPosition`, with no assumption but those of the module:

| theorem | states |
|---|---|
| `ProfitSinceFlatHolds` | `ProfitSinceFlat` |

It is about the code as it stands. The product `old_position * sideToValue(side)` is unsigned
and never below 0, so every fill counts as one that opens (`EveryFillOpens`), while `position_`
is still right, because cutting undoes the wrapping (`PositionMoves`). So nothing is ever
realised (`Follows`); a side with no fill since the position was last flat has no open price
(`Sided`, `Open`), and the two sides differ by the money (`Books`). With fills of one side that
is the profit; with fills of both, one side's money is missing from it, and the property says
in which direction: a long position looks no better than it is, a short one no worse. What the
class means to compute, `ProfitOfBothSides` and `ProfitFromTheFirst`, is false (findings).

`OrderServerProofs`, for any clients, however often they are started again, any order of
the sockets in a round, and any numbers of requests and responses:

| theorem | states | assumption |
|---|---|---|
| `RequestsInOrder` | `ClientOrder` | no round finds more than `SortThreshold` requests |
| `NoResponseLost` | `ResponsesAccountedFor` | `~WouldBlock` |
| `StreamInvariance` | the inductive invariant of `TCPServer`'s byte streams | none |
| `RequestsAreWholeHolds` | `RequestsAreWhole` | none |

Both assumptions are needed: beyond the threshold `std::sort` may exchange requests with
equal times, and a send that would block throws its buffer away (findings). The first is a
hypothesis about the behaviour, `Spec /\ [](Len(pending) <= SortThreshold)`, since no constant
bounds a round.

* `ClientOrder` is about the matching engine's end of the chain, the numbering about the
  client's. `Order` says what lies between: of each client the numbers 1 to m are published,
  m + 1 to n are pending, and n + 1 is the one `recvCallback` accepts next, all of them from
  the connection the client is known by (`Known`). `Round` is the strengthening the sort needs:
  what is pending came in this round from sockets the loop has passed, and what is pending of
  one client has one `recv_time_`, because a socket is polled once a round. A sort by time that
  is stable up to the threshold then keeps each client's requests in their order
  (`SortedNumbered`), whatever it does to the others.
* `ResponsesAccountedFor` is about the connection the exchange knows. `Flight` adds what holds
  of the others: a client that was never heard of has no number given out, and one that was
  started again, whose requests the exchange refuses, is sent nothing.
* Both are over what several sessions of a client have sent: `Wired` says that what is to be
  read is of sessions the client has had, `Accepts` what the loop of `recvCallback` does
  with it, whichever session it finds first.
* In `TCPServer` bytes are numbered along the stream of a client (`Byte`). `StreamInv` says
  that the requests taken, the buffer, what the kernel holds and what is on its way are
  consecutive parts of that stream (`Follows`), and that a client which is there has sent
  whole requests (`Complete`). What `recvCallback` takes out of a buffer that begins at a
  request are the next requests (`WholeAndRest`).

`ProgramsProofs`, for both programs and any numbers of arrivals and of RANDOM requests:

| theorem | states | assumption |
|---|---|---|
| `ProgramsSafe` | `NoUseAfterFree` | `Prompt`, `MaxSignals <= 1` |
| `IInvAlways` | the inductive invariant it follows from | the same |

The invariant turns shared state into positions. Nothing is joined, so whether an object is
there, whether a flag is set and how far a thread can be are functions of where main and the
handler are in their scripts (`ObjectOf`, `FlagOf`, `ThreadsFollow`), through tables of the
places at which each object is made, started, told to end, slept for and deleted (`NewAt` to
`FreeAt`, which `Order` and `UsesInOrder` compare). The scripts themselves are evaluated by the
prover (`ExchangeMain`, `SignalHandler`, `TradingMain`). The two assumptions are those of the
findings: a thread slower than a sleep, or a second handler, deletes what is in use.

The same module proves, for a logger of any size, any number of calls of any of the forms, and
a destructor that may begin inside a call:

| theorem | states | assumption |
|---|---|---|
| `LoggerSafe` | `FileIsLog` | one thread calls `log`, and waits while the ring is full (`fillSlot`; `pushValue` does not, logging.h:69-72) |
| `LogInvAlways` | the inductive invariant it follows from | the same |

With a second thread the ring loses elements (findings). Three numbers order what happens to an
element: how many the write index counts (`Stored`), how many the read index (`Taken`) and
`num_elements_`, which each side moves after its index. `LogRing` says that indices and counter
are as far apart as those numbers and that the slots between hold what is said; `Writing` that
the value being pushed and what is left of the format (`Left`) are what is said behind the
elements pushed; `Flushing` that the file is the beginning of what is said. That the
destructor looks only at the counter is enough: it is 0 only if the file has every element
whose `pushValue` has returned. `Printed` and `Logged` are recursive functions, and the proofs
(`PrintedIs`, `LoggedIs`) go along them by `UpTo`, as in `MarketDataProofs`.

## 6. What is only model-checked

* Liveness and fairness (`EveryElementTaken`, `RecoveryEnds`, `EveryRequestProcessed`,
  `CancelEnds`, `DestructorReturns`, `EveryRequestPublished`, `ProgramEnds`): the prover has
  no rule for `ENABLED`.

Every other property of the runs is stated by a theorem.

## 7. Findings

Disagreements between the code and what it says of itself, each with the instance
that shows it: a configuration kept beside the runs, for which `tlc -config <cfg> <module>`
prints the counterexample. Where a configuration names several invariants, one for each
finding, `tlc -continue` goes on after the first.

| where | what | configuration (module) |
|---|---|---|
| `utils/lock_free_queue.h:40` | the loops that test only the pointer can trip the ASSERT: the index moves before the counter | `LFQueue_unguarded.cfg` (LFQueue) |
| `trading/strategy/market_order_book.cpp:57` | `clear` leaves the table of levels pointing to deallocated levels | `MarketOrderBook_promises.cfg` (MarketOrderBook) |
| `utils/lock_free_queue.h:25` | as many elements as slots: the queue looks empty | `LFQueue_full.cfg` (LFQueue) |
| `exchange/matcher/me_order_book.h:53` | prices with the same remainder modulo 256 share a level | `MEOrderBook_alias.cfg` (MEOrderBook) |
| `exchange/matcher/me_order_book.cpp:107` | the pasted tail sends the last update twice; the snapshot thread's ASSERT ends the exchange | `MatchingEngine_tail.cfg` (MatchingEngine) |
| `trading/market_data/market_data_consumer.cpp:138` | the beginning of one snapshot and the end of another are taken for one | `MarketData_snapshot_loss.cfg` (MarketData) |
| `trading/strategy/market_order_book.cpp:21` | the BBO is not updated by the first order of a side nor when a level is gone | `MarketOrderBook_promises.cfg` (MarketOrderBook) |
| `exchange/order_server/fifo_sequencer.h:31` | requests of different rounds may be processed out of the order of their receive times | `OrderServer_promises.cfg` (MCOrderServer) |
| `exchange/order_server/fifo_sequencer.h:31` | the sort is not stable: one client's requests may change places | `OrderServer_sort.cfg` (MCOrderServer) |
| `utils/tcp_socket.cpp:70` | with no room to send, responses are dropped and all later ones rejected | `OrderServer_promises.cfg` (MCOrderServer) |
| `exchange/order_server/fifo_sequencer.h:19` | a round with more requests than the limit ends the exchange | `OrderServer_promises.cfg` (MCOrderServer) |
| `utils/mem_pool.h:24` | a pool with free blocks ends the program | `MemPool_promises.cfg` (MemPool) |
| `utils/mem_pool.h:21` | the search reads behind the store and hands out what is there | `MemPool_promises.cfg` (MemPool) |
| `utils/types.h:93` | the value of SELL is unsigned: no fill ever counts as a reduction | `PositionKeeper_promises.cfg` (PositionKeeper) |
| `trading/strategy/position_keeper.h:16` | the open prices start with whatever the memory held | `PositionKeeper_promises.cfg` (PositionKeeper) |
| `utils/tcp_server.cpp:109` | an `accept` that fails leaves queued connections waiting until the next one comes | `TCPServer_promises.cfg` (TCPServer) |
| `trading/strategy/trade_engine.cpp:65` | main and the trade engine's thread write to one logger: an element is lost and the destructor waits for ever | `Logger_two_threads.cfg` (Logger) |
| `utils/tcp_server.h:18` | the default callbacks log with one argument too many, which ends the process | `Logger_default.cfg` (Logger) |
| `utils/socket_utils.h:142` | a refused connect goes unnoticed and the gateway starts without a peer | `TCPServer_promises.cfg` (TCPServer) |
| `utils/tcp_socket.cpp:20` | the responses to a client that has gone pile up in a buffer nothing empties | `TCPServer_promises.cfg` (TCPServer) |
| `exchange/matcher/matching_engine.cpp:18` | a thread slower than the sleep of its destructor uses a deleted object | `Programs_slow.cfg` (Programs) |
| `exchange/exchange_main.cpp:12` | a second SIGINT runs the handler on another thread, and both delete | `Programs_twice.cfg` (Programs) |
| `utils/thread_utils.h:35` | a new thread may call a function object that is gone | `Programs_promises.cfg` (Programs) |
| `trading/strategy/trade_engine.h:44` | updates still come in after stop has seen both queues empty | `Programs_promises.cfg` (Programs) |
| `trading/strategy/market_order_book.cpp:21` | during a recovery the market maker quotes a bid at or above its own ask | `TradeEngine_recovery.cfg` (TradeEngine) |

## 8. What is not modelled

* *Time.* Sleeps and silences are assumptions (`Prompt`) or conditions, never durations.
  Time stamps, measurement and thread affinity change no state.
* *Strings two threads share.* `time_str_` of the trade engine is formatted into by main and
  by the engine's thread; what a torn time stamp would print is left out.
* *Bad cases the runs leave out.* Some hazards of `PROJECT.json` are real, and the run of
  their component leaves them out, so that it would not show what they lead to; a
  configuration of section 7 does. These are: a full ring (`MaxBacklog < Size`; the logger
  waits), prices that alias, a send without room and a round with more requests than the
  limit or the sort's threshold (`OrderServer`), snapshots that lose datagrams, BBO and
  quotes after a loss, a deallocated level met after a loss, threads slower than a sleep, a
  second signal, and an engine's queues that are filled for ever.
* *Rounding.* `PositionKeeper` computes with exact halves of a price step; the doubles of
  the code are rounded once values exceed 2^53 of them. `OrderManager` does not carry
  the profit; its loss check comes out either way at each call, which covers every outcome.
  `volume_` is only printed.
* *Strategies and order manager together.* `TradeEngine` ends with the prices asked for,
  `OrderManager` begins with any prices: the product of the two would be too large for TLC
  and constrain neither.
* *Several instruments.* Books of different instruments share only the queues.
* *Numbers wrapping around.* Order ids are 64 bits; the one place where they are cut to
  32 bits (`me_order_book.cpp:47`) is a hazard.
* *Foreign client ids.* A request whose client id is `ME_MAX_NUM_CLIENTS` or more indexes the
  order server's own arrays first (`order_server.h:64-77`), which ends the defined behaviour; that
  it would not get past `cid_oid_to_order_.at()` in `add` is left out. A cancel with an id out
  of range is modelled, as `cancel` tests it.
* *Requests late in the network.* In `OrderServer` what a client sent before it is started again
  has reached the exchange's kernel or is lost; a request of the old connection that comes
  in after the first of the new one is left out.
* *The kernel.* `TCPServer` takes epoll, accept with its failures, and the buffers of a
  connection as their manual pages have them. Errors of `epoll_wait`, `epoll_ctl` on removal and
  `recvmsg` are left out. The 64 MB receive buffer does not fill up: each read is followed
  by `recvCallback`, which leaves less than one request. What comes of sockets that are
  disconnected is a leak (`tcp_server.cpp:34-47` frees nothing), without effect on others.
* *Numbers in the log.* How `flushQueue` prints a value of each type.
* *UDP sockets, examples, notebook, scripts, measurement.*

## 9. Plan

In this order; what is done is marked.

1. (done) queue, order book, lists and memory pool in one, engine with its receivers.
2. (done) market data with recovery, order server, order manager, position keeper,
   client's book.
3. (done) theorems of the queue, of the book and of the memory pool.
4. (done) the logger with one and with several producers.
5. (done) start and shutdown; the bytes under the order server; features and strategies.
6. The profit of `PositionKeeper` in the loss check of `OrderManager`, in place of the
   free choice.
7. `MarketData` with `LFQueue`'s abstraction `FIFO` between consumer and trade engine,
   and the trade engine's draining order.
8. Theorems: (done) the receivers of the engine, order manager, position keeper, byte
   streams, market data, the client's book with features and quotes, the order server, start
   and shutdown, the logger, the pointer lists of a side.
9. `MEOrderBook`'s sides linked to `SideOfBook`, so that the pointer lists and the
   matching loop meet in one refinement.
