# A verification of trading-market

TLA+ models of the trading market in `src/`, the model-checking runs that check
them on small instances, and proofs of their safety properties for every
instance. The code is the reference: each definition that stands for code is
listed in `PROJECT.json` under `map` with the lines it translates.

## The system

Three programs, joined by 0mq sockets, and one lock-free library.

```
 OrderRingServer                        MatchEngineBroker            MatchEngineService (one per asset)
 PutOrder -> ring -> JournalOrder       ROUTER        ROUTER         waitRequest_t -> ring -> matchOrderBook_t
                  -> RouteOrder --DEALER-->  poll, route  --DEALER-->  FillOrderBook         OrderBook -> ring of trades
```

| component | state it keeps | operations | correct when |
| --- | --- | --- | --- |
| L3 ring (`include/L3/static`, `util/ring.h`) | slots, the ring's cursor, one claim cursor per `Put` type, one cursor per `Get` type | `Put()` = claim, wait, write, wait, commit; `Get()` = wait, read a batch, release | no unread slot is overwritten; every consumer reads the committed sequence once and in order; a consumer reads after those it follows; nobody waits forever |
| OrderRingServer | its ring; the next sequence number and the last price | three threads: put, journal, route | journal before route; orders leave in the order of their numbers, without gaps; it never runs further ahead of the broker than ring and pipe hold |
| MatchEngineBroker | `workersPerAsset` | poll; route an order to the first service of its asset; register a greeting | an asset's orders go to one book, in order; a greeting registers its sender |
| MatchEngineService | its ring; one static order; the order book | greet; receive, parse and put; add a batch and match | no order is lost, changed or overtaken on the way to the book; the two threads do not wait for each other for good |
| OrderBook | `_asks`, `_bids`, two totals, `marketPrice` | `addOrder` (a binary search), `match` | both deques in order of priority; trades respect limits, priority and quantities; no lot is lost or traded twice |
| ring of trades | as any ring | a `Put` per trade; its `Get` is run by no thread | (it fills up) |
| wire format (`OrderRing.cpp`) | none | `cmdStr`, `fromCmdStr` | a round trip keeps the fields |
| Fifo (`util/fifo.h`) | slots, `_head`, `_tail`, `_cursor` | `put`, `get`; not used by the three programs | it is a ring with one reader: nothing overwritten, lost or repeated |
| FlexiFifo (`util/flexififo.h`) | claim and commit counters at both ends; each `SharedConsumer`'s Queue | claim, commit, tryCommit; not used by the three programs | slots are neither lost nor held twice; nobody writes a slot in use |
| consume, Selector, Logger (`include/L3/static`) | their Get's cursor; a count of ends of stream; `m_running` | loops that read one ring or several; not used by the three programs | every message handled once; they stop where they say and only there; no ring starves |
| non_static disruptor, allocator, counter, timers | their own | not used by the three programs, or no behaviour of the protocols | (not modelled) |

Threads share memory only through rings. Processes share nothing but pipes.

What is hard here, and at which line, is the list `hazards` of `PROJECT.json`.
In short: interleavings of producers between claim and commit; the minimum of a
barrier loaded one cursor at a time and used later; the exact slot at which a
producer must stop; a `match()` that erases from the deques it iterates over
and carries a price from call to call; greetings of two services that mix;
a service that stops and the full pipe in front of it; rings that fill because
their reader is slow, or was never written; one static order every command is
parsed into; slots given back out of turn; a flag and a message that stop a
thread in two steps.

## Modules

| module | models | one action is |
| --- | --- | --- |
| `Stream` | what a ring promises: one sequence, each reader at its own place, at most a ring behind | (abstract) |
| `Disruptor` | `put.h`, `get.h`, `barrier.h`, `disruptor.h`, `ring.h` | an atomic access or a copy |
| `Fifo` | `fifo.h` | an atomic access or a copy |
| `FlexiFifo` | `flexififo.h` | an atomic access to a shared counter |
| `Readers` | `consume.h`, `selector.h`, `logger.h`, the non-blocking Gets of `get.h` | a put; a Get, a message handled, a release |
| `Exchange` | what an order book promises: open orders, trades between orders that accept each other | (abstract) |
| `OrderBook` | `OrderBook.cpp`, `OrderBook.h`, `MatchOrderBook.hxx` | a call of `addOrder_R`, a trade, an end of the inner loop |
| `Wire` | `OrderRing.cpp`: `cmdStr` and `fromCmdStr` | (operators) |
| `OrderServer` | `OrderRingServer.cpp`, `PutOrder`, `JournalOrder`, `RouteOrder` | an order made, a put, an order saved or sent, a batch claimed or released |
| `MatchService` | `MatchEngineService.cpp`, `FillOrderBook.hxx`, over `OrderBook` and `Wire` | a message received, an order put, and the actions of `OrderBook` |
| `Broker` | `MatchEngineBroker.cpp`, the sockets of `MatchEngineService.cpp` and `RouteOrder.hxx` | a message sent or received |
| `Market` | `OrderServer`, `Broker` and the services together | theirs; `s_send` of the route thread is one step of both |
| `MC...` | values of the constants for TLC, and three statements of the documentation | |
| `...Proofs` (eight) | theorems | |

Definitions marked "Mutant" are wrong variants of the definition after them.
No specification uses them; each shows that some property would notice the
mistake (`mutants` in `PROJECT.json`).

How the modules compose: `MatchService` EXTENDS `OrderBook`, whose batches are
free, and says which batches there are; `Market` EXTENDS `OrderServer` and
INSTANCEs `Broker`, the two sharing the pipe `frontend`. That a service is an
`OrderBook` is checked and proved (`BookPromise`); that the market is a `Broker`
behind an `OrderServer` follows from the way `MarketNext` is put together, and
is proved (`ServerInMarket`, the lemma `BrokerInMarket`) only so that what is
known of each can be used of the whole. The rings of `OrderServer`,
`MatchService` and `Readers` are the ring of `Disruptor` seen through `Stream`:
a Put that has room is one step, a Get a claim of a batch and its release.
`Disruptor` implements `Stream` and `OrderServer` uses its ring as `Stream`
allows (`RingPromise`), both proved.

### Disruptor

`cursor` holds the ring's cursor and the cursor of every `Get` type; `claim` is
`Put::cursor`. A producer goes idle → claiming (the `fetch_add`, then the loop
on `Barrier::least()`) → writing → committing (the loop of the commit policy) →
advancing → idle. A consumer alternates between claiming and reading.
`least()` over several cursors is several loads, in any order, with other
threads' steps in between: `todo` is what it has still to load and `seen` its
running minimum. `Behind(t)` is what a thread follows directly or through
others; the model asks only that every chain of barriers starts at the ring and
that the producers' barrier ends every chain (`BarrierAssumption`), which every
`Put` of the programs satisfies.

Two abstractions. The index is a natural number: `ring.h` and `util/README`
argue that 64 bits never wrap. Memory is sequentially consistent: each plain
copy into or out of the ring is separated from the copies it could race with by
a release on a cursor and an acquire of that cursor (`put.h:159` with
`barrier.h:38`, `get.h:71` with `barrier.h:38`), and `NoOverwrite` is exactly
the absence of such a race; a relaxed load is only ever of a thread's own cursor.

A `Get(noBlock)` is the same two actions: a claim that finds nothing
(`SpinOnGet`) and one that does (`ClaimBatch`).

### Fifo

`fifo.h` says it uses "the same techniques as the Disruptor", and the module
says what that comes to: with `head - 1` for `claim`, `tail - 1` for the
reader's cursor and each slot one place further on, every step of `Fifo` is a
step of `Disruptor` with the `Shared` policy and one consumer that takes one
message at a time, or none (`RingPromise`). `_head` and `_tail` name the next
slot and start at `size + 1`; `_cursor` names the last committed one and starts
at `size`; the three tests have to agree on that one. A comment there asks for
`_tail <= _head - size` and says the code spins "while this is not the case";
the loop spins while it is, which is what keeps `_head` from lapping `_tail`.
`claimTail` claims nothing, so that two threads in `get` would read the same
slot: the module has one consumer. A turn of a
spin loop changes nothing and is not an action here.

### OrderBook

A batch from the ring is one order or more: `AddOrder` or `AddCancel` for each,
with `Halve` and `Insert` for the recursion of `addOrder_R`; `BeginMatch` when
the batch is over. `askIt` and `bidIt` are the iterators of `match()`, `before`
remembers how many trades there were when the call began. The two comparison
functors have the same body and are one operator, `HigherPriority`. Prices
count steps of the spread of `PutOrder` and quantities ten-thousandths, both
far above the epsilon the code compares with, so that `equal` is equality. A
price is a natural number here and in `MatchService`; one just below zero, which
`PutOrder` can make, would be one more value the comparisons order.
Orders arrive with ascending numbers, not with all of them: the broker's ROUTER
drops what finds a full pipe. That they rise is `InOrder` of `Broker` and
`NothingLost` of `MatchService`, and all that `OrderBook` asks of the
next number.

The commit of a trade is one step that waits for a slot never used before: the
ring of trades has a `Get` type (`OrderBook.cpp:7`) that no thread ever runs.

What the code does and the properties therefore do not deny: an ask that a
trade has just made match again waits for the next batch; the first bid holds
up those behind it; a market ask may be passed over for a younger one when the
first bid changed in between; a cancel does nothing.

### Broker

`frontend`, `backend` and `inbox` are the pipes from the OrderRingServer, from
each service and to each service. The broker's loop is `Poll`, then one order
(`RouteOrder`, `DropOrder` or `Crash`) if the poll reported the frontend, then
one message of a service (`ReceiveMotto` or `IgnoreMessage`) if it reported the
backend; after a motto the broker blocks in `s_recv` until `Register`.
`Register` takes the code from whichever service's message comes next, as the
code does. When the lookup of an asset fails, the code dereferences `end()`:
with the standard libraries in use this reads at an address near null and
faults, so its outcome is `Crash`. 0mq itself is external: a DEALER blocks on a
full pipe, a ROUTER drops, and receives from any pipe that has a message.
A restarted service is another member of `Services` with the same asset,
because 0mq gives it another identity.


### OrderServer

`log` is the ring in commit order. `MakeOrder` is the loop of `PutOrder` up to
its `Put`: it takes the number and sets `prevPrice` whether the ring has room or
not, and leaves the thread with the order in hand (`order`); `PutOrder` is the
`Put`, which waits for room. Journal and route each have a batch
(`ClaimBatch`, then `Save` or `Send` for each order, then `ReleaseBatch`).
`saved` and `sent` are what each has written; `Least` is the barrier of each,
and `HasRoom` is `PutOrder`'s, whose `Put` follows route. `Send` waits while
`frontend` is full, as a DEALER does, and the batch stays claimed meanwhile.
The price walks by a spread up, down or not at all. The spread is the double
0.0001 and the first price a decimal, so the walk need not meet zero: the guard
`prevPrice > 0` lets it fall below zero by less than a spread (`Prices`), after
which a walk down gives the zero an order is constructed with, and the prices
move again.

### Wire and MatchService

`Wire` reads a command token by token, `Accepts(k, t)` being what stops
`fromCmdStr` at the k-th. It assigns each field before it reads the next, so
that `FromCmdStr` takes the order it writes into, and a command refused halfway
leaves that order half changed: what makes the static order of
`FillOrderBook.hxx` worth a look. The sequence is written as an `int64` and
read by `std::stoi`; `IntMax` is that limit.

`MatchService` has the pipe (`inbox`), the message the request thread holds
(`request`), the static order (`orderTemplate`), the ring, and the matching
thread, whose steps other than `ClaimBatch` are those of `OrderBook`. It holds
its batch while it adds and releases it when `match()` begins. `Deliver` is the
broker's send, with the drop on a full pipe. A command that throws would end
the process, since nothing catches it; `NothingLost` says that none does.

### Market

The pipe `frontend` is shared; `sequence` of `Broker` is here the number after
the last one sent, so that `SendToBroker` is `Send` of `OrderServer` and
`SendOrder` of `Broker` in one step.

### FlexiFifo

It hands out slot numbers only (its ring is a private base), so there are no
messages: `headClaim` and `head`, `tailClaim` and `tail`, who uses which slot,
and `pendingCommits`, the Queue of each `SharedConsumer`. `CallClaim` goes
through `commit`, the forced `commitTail` on a full Queue, and the claim at the
tail, one step per access.

Both counters of the tail start at `size`, and the turn of a slot is taken to be
when the tail is one less than it. So the slots are given back one too early:
`tryCommit` succeeds for the second oldest and fails for the oldest. The run
`patterns` shows what follows, an overwrite of a slot in use. `Window` and
`SlotsConserved` hold in spite of it: the counts are right, and it is which slot
is given back that is not. `PutReturns` needs a ring with as many slots as the Queues
together. No producer is obliged to go on; an idle consumer is to claim again
(`SF` on `CallClaim`: a consumer may call `commit` in between for ever).

### Readers

Three loops, chosen by `loop` in the initial state, on rings of which this
reader is the only one. `consume` returns from the middle of a batch, and the
destructor of the `Get` releases all of it: `lost` is what nobody will see.
`CheckEOS` counts in a `size_t` and decrements before it tests (`Width` is how
many values it has). `select` with handlers and `Selector::select` do the same
and differ in the batch size. `Writer` looks at `m_running`, then waits in
`Get`; `stop()` is `StopSays`, then `StopLowers`.

## Runs

| run | shows | bounds |
| --- | --- | --- |
| `ring` | no overwrite; route after journal; every `Put` ends, every message reaches every consumer; `Stream` is implemented; the inductive invariant | 2 producers under `Shared`, 3 consumers (two side by side, one behind), the producers behind two cursors; 2 slots, 3 puts |
| `book` | the book implements `Exchange`; priority of the deques, time priority of matching, a quiet `match()`; the inductive invariant | 4 orders of 1 or 2 lots at 2 prices, market and limit, with cancels; room for 4 trades |
| `noreader` | **violation**: a result is returned for every order (`README.md:40` of the repository) | as `book`, room for 1 trade |
| `broker` | order of delivery, one book per asset, no double registration, the broker goes on | 3 services, 2 assets, one service that may stop, pipes of 1 message, 3 orders |
| `greetings` | **violation**: a greeting registers the service for its asset (`README.md:37` of the repository) | 2 services |
| `fifo` | the queue is a `Disruptor`; a put ends; what is committed is got | 3 producers, 2 slots, 4 puts: more producers than slots, two laps |
| `flexififo` | slots are conserved, head and tail keep their distance, a put ends | 2 producers, 2 consumers, 4 slots, Queues of 2, 6 puts: a lap and a half |
| `patterns` | **violation**: "n => n patterns" (`flexififo.h:30`): a producer writes a slot a consumer is using | as `flexififo` |
| `readers` | what `consume`, `select` and the Writer handle, skip and wait for | 2 rings of 2 slots, 5 puts each, counts 0 to 2 in a type of 3 values, batch size 1 or none |
| `loggerstop` | **violation**: `stop()` stops the Writer (`logger.h:72`) | as `readers` |
| `matchservice` | no order lost or changed between pipe and book; a bounded backlog; lots conserved; trades on the terms ordered; no wait for good; `OrderBook` is implemented | 5 orders of 3 kinds, a ring of 2, a pipe of 1, room for 2 trades |
| `market` | journal first, bounded lead, what a book gets is saved and in one book only, every order is sent | 2 services of 2 assets, one may stop; 5 orders, a ring of 2, a pipe of 1 |

The bounds: a ring of two slots wraps on the third message, which is where its
arithmetic can go wrong, and the proofs are for every size. The binary search
sees deques of up to four orders, with every outcome of every comparison; a
single `match()` sees partial fills on both sides, a filled ask before a bid
with a rest, and several trades. Three greetings are what it takes to register
a service under another one's code. Five orders are what it takes to fill a
ring of two, the thread's hand and a pipe of one, and to have one dropped; in
`market` five are one more than the server may number before the broker has
received any, which is what `BoundedLead` denies. There the price only walks
down, from less than a spread above zero, through the one odd case; the proof is
for every walk. `MaxPuts` and `MaxOrders` bound
the only counters, in the guards of the actions that start something new, so
that liveness is not cut off in the middle of an operation. The run `ring`
checks deadlock (its threads can always spin); the others do not, because a
spinning thread takes no step in them, and because the system stops when nothing
more arrives, when the ring of trades is full, or when the broker has crashed.

Four runs report a disagreement; see `findings`. Two concern what the programs
do: `match()` never returns once the ring of trades is full, and two services
that start together may end up unregistered, after which the first order for
their asset ends the broker. Two concern the library: the turn of a slot in
`SharedTail`, and a `stop()` that a quick Writer outlives. A fifth is only an
observation, without consequences: a comment of `put.h:53` on the commit
(the same as in `fifo.h`) says the turn comes "when cursor is 1 less than
_slot"; the counters of `Put` both start at the ring's size, and the code waits,
rightly, until the cursor is the slot.

### Fairness

- Ring: weak fairness of every thread inside a `Put` or a `Get` loop. A spin is
  a step of its own, so weak fairness says only that the scheduler runs the
  thread. No producer is obliged to start a `Put`.
- Fifo: weak fairness of each put and of the `get` loop, step by step.
- FlexiFifo: weak fairness of what is inside a call; strong fairness of a
  consumer's next claim, which its caller may put off with `commit` but not for
  ever. No producer is obliged to claim.
- Readers: weak fairness of the loop that runs, of calling `select` again, and
  of the second half of `stop()`. No thread is obliged to call `consume` again,
  to put, or to stop the Writer.
- Book: weak fairness of the matching thread. The end of a batch is fixed when
  it begins (`Get::_end`), hence also of `BeginMatch`.
- MatchService: weak fairness of its two threads. Nobody has to send.
- OrderServer: weak fairness of its three threads. Nothing obliges the broker to
  receive, in its own specification; in `Market` the broker runs.
- Broker: weak fairness of its loop, and of the second message of a greeting,
  which `main` sends right after the first. Nothing obliges a service to
  start, to read, or to go on living.

`RoutesOn` and `GetsSent` say that the broker goes on, and the server with it,
unless an order finds no service registered for its asset or a service stops
between the two messages of its greeting. The first ends the broker
(`MatchEngineBroker.cpp:40`), the second keeps it waiting until another service
speaks (`:57`); the properties show that nothing else stops it.

## Proofs

`tlapm` checks all of these, for every value of the constants that meets the
named assumptions. Each specification has an inductive invariant (`IInv`, in
`MatchService` `ServiceIInv`), whose parts are named definitions; `Invariance`
proves `Init => IInv` and `IInv /\ [Next]_vars => IInv'`, part by part and
action by action, and the other theorems follow from it. Every safety property
the runs check is proved. The runs check the inductive invariants themselves,
but for those of `Fifo` (its type), `FlexiFifo` and `Readers`, whose run checks
what is wanted of them, and the second and third one of `MatchService`
(`LotsIInv`, `AllCame`). TLC agrees with these too, and with the properties
that are only proved (`NoStandoff` of five modules, `RingPromise` of
`MatchService`, `HeadCovered`) on the instances of the runs; to see it, add them
to the `INVARIANTS` or `PROPERTIES` of the `.cfg`.

**Waits** (`NoStandoff`, in `Disruptor`, `Fifo`, `FlexiFifo`, `OrderServer` and
`MatchService`). The prover does not reason about fairness, but what fairness
needs to be of use is a state property: whoever waits, waits for somebody who
does not. A thread is held up (`PutHeldUp`, `GetHeldUp`, `CallHeldUp`, `Busy`)
when the shared counters, as they stand, keep it in its loop; `NoStandoff` says
that while there is something to do not all of those who could do it are held
up. It is the safety core of the runs' liveness properties: without it
`PutReturns`, `StreamDelivers`, `TakesAll` or `GetsSent` could not hold. What it leaves to
TLC is that the thread that can go on is scheduled and that the wait it ends is
the one asked about.

**Ring** (any producers, consumers, barrier graph, size and commit policy).
`NeverOverwrites`, `CommitsInTurn`, `ReadsInOrder`, `UpstreamReadsFirst`,
`GoForward` (cursors never decrease), and `ImplementsStream`: every step of the
ring is a step of `Stream` or leaves `log` and `got` alone.
None of the properties is inductive alone. That a producer may write rests on
`CursorsOrdered` (a consumer's cursor is never ahead of those it follows) and
`LoadsAreBounds` (a running minimum is a lower bound, because cursors only
grow), which give `ClaimsClear` for all consumers and not just those in the
barrier. `SlotsHeld` says that the claimed slots not yet committed are held one
each; with `ClaimsClear` two of them are less than a lap apart, so that
`Index` is injective on them (`IndexInjective`), and `RingHolds` follows.
`NeverLocksUp`: if anything is unread, take the consumers furthest back, and of
those one that follows the fewest cursors (`FollowsMore`, `LeastNumber`); all it
follows is ahead of it, and it can go on (`ReaderGoesOn`). If everything is
read, the producer with the oldest slot has room and the turn (`WriterGoesOn`).
This is where the graph of barriers must have no circle and the consumers be
finitely many, both in the assumptions of `Disruptor`: a barrier names `Get`
types, and a C++ type's arguments are declared before it.

**Fifo** (any producers, size and messages). `ImplementsRing` proves the
refinement, from no invariant but its type; `NeverOverwrites` and `GetsInOrder`
are then the theorems of `DisruptorProofs`, read through the mapping, and need
no invariant of their own. So is `NeverLocksUp`: who is held up here is held up
there.

**Book** (any requests, any number of orders, any size of the ring of trades).
`StaysSorted`, `OlderAskFirst`, `PriceFollowsTrades`, `QuietMatch`,
`FillsBoundTrades`, and `ImplementsExchange`. `SearchBounds` is the invariant of
the binary search; `LoopShape` says that the inner loop never stands behind the
first bid unless the ask is filled, from which every trade is with the best
bid; `Remaining` that nothing of quantity zero rests but an ask just filled.

**Broker** (any services, assets, pipe lengths and orders).
`StaysInOrder`, `NeverSplit`, `RegistersOnce`. `FrontendYounger` says that what
is under way is younger than what any service has; `RoutedToFirst` that whoever
has an order of an asset is that asset's first service, which never changes;
`GreetingsShape` that a motto is sent once, first, and that who has not been
heard is not in the table.

**Server** (any first prices, spread, codes, sizes and number of orders).
`JournalIsFirst`, `InSequence`, `LeadIsBounded`, and `ImplementsStream`: the
three threads use the ring as `Stream` promises it. `JournalFirst` compares
what two threads have done, and neither knows the other's place: it follows from
`Cursors` (route's batch ends at or before what journal has released, and a
release comes after the saves) and `PrefixesRead`. `BoundedLead` follows from
`Cursors`, `PipeHolds` and `Numbered`, which counts the order in the put
thread's hand: it has its number before it has a slot. The type of the price follows from `Numbered` too, which
bounds the walk by the number of orders. `OnlyBrokerStops`: with room in the pipe,
either put does not wait or journal or route has something to read or release, so
that only the broker can hold the server up. These theorems are in
`MarketProofs`, before those of the composition.

**Service** (any requests, any greatest int, any sizes of pipe and ring).
`RoundTrip`: `fromCmdStr` reads back what `cmdStr` wrote, whatever the order it
is read into held, as long as the number is an int; `WideNumber`: a wider one
makes it throw before it has changed anything. `ServiceInvariance` then carries
`NothingLost` through pipe, hand and ring; it needs `Cursors` for the releases
and, for the numbers the book may still expect, that the broker's next number is
above all that were accepted. `ServiceIsBook` shows that every step is one of
`OrderBook` or leaves the book alone (an order taken from the ring is one of
`Requests` with a number the book has not seen, which is `NothingLost` again),
and `ServiceIsExchange` reads the theorems on the book for it.

`ConservesLots` (`LotsConserved`) has an inductive invariant of its own,
`LotsIInv`, on top of those of the service and of the book: `NumbersUsed` says
that what rests in the book has a number the ring has delivered, once. Its sums
over the deques and the trades are a recursive function of the prefix,
`Partial`; that this function exists and what inserting, removing or changing
one element does to a total (`PartialIs`, `TotalInsert`, `TotalUpdate`) is
proved by taking the least place where it fails (`WFMin`). `AllCame` says that
whatever the book holds came through the ring with the terms it has; with
`NothingLost` and `LotsConserved` it gives `TradesWhatWasOrdered`, which spans
the service from the pipe to the ring of trades: a trade is of an ask and a bid
that entered the pipe, with their numbers and terms, and no order is traded
beyond its quantity. `ImplementsStream`: the two threads use their ring as
`Stream` promises it. `NeverLocksUp`: while the ring of trades has room and an
order is on its way, not both threads wait.

**Market** (any services, codes and orders). `ServerInMarket` and
the lemma `BrokerInMarket`: the composition implements both its parts, which it
does by construction, so their invariants hold in it. `SavedBeforeFilled` joins them: that what is in a pipe or
a ring is a command of a saved order is an invariant of its own
(`AllSavedKeeps`), which needs `JournalFirst` and `PipeHolds` where an order
enters the pipe; that the numbers rise and that no two services have the same
order comes from `InOrder` and `OneBook` of the broker.

**FlexiFifo** (any producers, consumers and sizes). `Conserves` and
`KeepsWindow`. Each step leaves the set of outstanding slots alone, adds the
next one or removes a committed one, and the tail counts along
(`ConservedSame`, `ConservedClaim`, `ConservedGive`). That the tail stays behind
the head is a count: the slots from the head up to the tail's claim are all
outstanding (`NoneBackEarly`), so that at most those below the head are given
back (`TailBehindHead`). `QueuesAscend` is why what leaves a Queue is one slot
and no other; `HeadHeld` and `WritersNear` are the producers' side. What fails,
`NoOverwrite`, fails although all of this holds. `NeverLocksUp` asks for as many
slots as the consumers' Queues hold together, and for a consumer: the wait at
the head for the tail and that at the tail for the head close a circle
otherwise, and TLC finds it with a Queue of three on a ring of two. It is a
count. If everyone is held up, the ring is full, because the slot at the head is
with a producer (`HeadCovered`) who can only wait for the tail. Then `Size`
slots below the head are outstanding; each is at a place of a Queue
(`HasPlace`), and a consumer that waits for a message has a place left
(`FullRingReturns`). If none waits for a message, all wait to give a slot back,
and the tail counts more slots than they can have (`GiversGoOn`).

**Readers** (any number and size of rings, counts and width of `size_t`).
`AllAccountedFor`, `StopsAtItsNth`, `ServesEach`. `Control` says which steps
each loop has and which rings it leaves alone, `Cursors` where the batch at hand
lies. `Given` is `AccountedFor` in the middle of a batch: what was handled is
everything up to the iterator but for what was lost. `Counted` relates
`_remaining` to the ends of stream since the call began, with the zero that a
`size_t` decrements to its largest value (`Due`), and to the position last
tested, which is not the last one handled: `f` runs before the test. `Selected`
says that the rings before the one at hand have been served in this call and the
others are as it found them.

Only model-checked: liveness (`PutReturns`, `StreamDelivers`, `GetDrains`,
`RoutesOn`, `LoopEnds`, `KeepsUp`, `TakesAll`, `GetsSent`) and the four
violations. The prover reasons neither about fairness nor about `ENABLED`. The
library's induction theorems take an operator as a parameter, which no backend
can instantiate; where a sum over a sequence needs induction (`LotsConserved`),
and where the furthest-back thread must be picked, the least counterexample
takes its place. `CommitPolicy::Unique` is covered by the proofs alone.

## Not modelled

- `non_static/disruptor.h`: an unfinished draft that does not compile (it names
  types and members that do not exist) and that nothing includes.
- `util/allocator.h`: does not compile either; it, cache lines, timers, counters
  and spin policies (the programs use `NoOp`) have no behaviour a protocol
  depends on.
- `Put::claim(batchSize)`: private, without a caller or a return statement.
- `UniqueTail`: has no `commit(slot)`, which `FlexiFifo` calls, so that no queue
  with it compiles.
- `sortOrders`, `OrderBook::commit`, `MatchEngine.h`: no caller, no body.
- Formatting for people (`str()`), logging to the console, quoting and digits
  of numbers. `std::stoi` cannot throw on a number of the programs, which stop
  at 1000000; `WideNumber` says what would happen above 2^31 - 1.
- The 0mq wrappers (`cppzmq` is vendored) beyond send and receive; reconnection
  inside 0mq.
- Restart of the broker or of the server: nothing is persisted that they would
  read back. The journal is written to standard output.

## Plan

1. *Done*: `Disruptor` and `Stream`; `Fifo`, which implements `Disruptor`;
   `OrderBook` and `Exchange`; `Broker`; safety proved.
2. *Done*: `OrderServer`, its safety and its use of `Stream` proved.
3. *Done*: `Wire` and `MatchService`, shown and proved to be an `OrderBook`.
4. *Done*: `Market`, end to end, proved.
5. *Done*: `FlexiFifo`; conservation of slots and the window proved.
6. *Done*: `Readers`: `consume`, `Selector`, `Logger`.
7. *Done*: proofs about `Readers`; conservation of lots and the terms of trades
   in `MatchService`; the waits of the ring, the queues, the server and the
   service.
8. Next: `MatchService` in place of the services of `Market`, so that
   `TradesWhatWasOrdered` reaches back to the journal; the prover has both
   halves already.
