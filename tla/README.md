# Verification of copile-backend

This directory holds TLA+ models of lite-rpc, the server at the heart of the
repository, the TLC configurations that check them on small instances, and
TLAPS proofs of what holds for every instance. Paths below are relative to
`src/compute-engine/lite-rpc/` unless they begin with `src/`.

1. [The system](#1-the-system)
2. [The modules](#2-the-modules)
3. [The runs](#3-the-runs)
4. [Fairness](#4-fairness)
5. [The proofs](#5-the-proofs)
6. [Where the code disagrees with itself](#6-where-the-code-disagrees-with-itself)
7. [What is not modelled](#7-what-is-not-modelled)
8. [The plan](#8-the-plan)

## 1. The system

The repository is a monorepo around Solana. **lite-rpc** is a Rust server that
keeps just enough of the chain in memory to accept transactions, send them to
the leaders over QUIC and report what became of them. Around it stand small
services in Go, Python and JavaScript that call external APIs.

### How lite-rpc's parts interact

```
 geyser sources --+--> gRPC multiplex (GrpcMultiplex, SlotFeed) --+
                  |                                               |
                  +--> account streams (AccountStreams)           |
 RPC node ----------> block and slot polling ---------------------+
                      (BlockPolling, LeaderSchedule)              |
          broadcast: blocks, block infos, slots, accounts         v
   +-------------------------------------------------------------------------+
   | DataCachingService: block, blockinfo, slot and cleaning tasks           |
   +-------------------------------------------------------------------------+
            |                     |                        |
            v                     v                        v
   BlockInformationStore       TxStore             SubscriptionStore
   (refines RecentBlock-    (Transaction-          (PubSub) --> clients
    hashes)    ^             Pipeline)
               |              ^   ^
               | lookup       |   | status
 client -> TransactionService -> TxSender -> TransactionReplayer
           (TransactionPipeline)     |              |
                                     v              v
               leaders --> TPU service (TpuConnections, LeaderSchedule)
          (LeaderSchedule)   |                       |
                             v                       v
             heap and QUIC connections       proxy client (ProxyClient)
             (PrioFeeHeap, QuicConnections)          |
                                                     v
                                     forward proxy (ForwardProxy, AutoReconnect)

 beside them, fed by the same streams:
   account store (AccountStore), accounts on demand (AccountsOnDemand),
   stakes, votes and schedules (StakeVote, StakeFiles, StakeSchedule),
   prioritization fees (PrioFees), address lookup tables (AddressTables),
   block store in Postgres (BlockStore), log of transactions (TransactionLog),
   inspection of the block stream (GrpcInspect)
```

Everything runs as tasks of one multi-threaded tokio runtime in one process (the
forward proxy is a process of its own). The tasks share stores (concurrent maps,
locks and atomics) and talk over bounded, unbounded and broadcast channels. Only
the schedule files and the Postgres tables outlive the process.

### Inventory

| Part | State | Operations | Hard behaviour | What makes it correct |
|---|---|---|---|---|
| block information store | map blockhash -> block and commitment, last height, two cells with the latest block | `add_block`, `clean`, lookups | two writers, three commitments in any order, locks released between read and write | a valid blockhash is not lost, overstated or downgraded; what is handed out can be looked up |
| transaction service | the channel to the sender, the queue to the replayer | `send_wire_transaction` | back-pressure; two sends one after the other | every call returns; one replay entry per request |
| TxSender | the transaction store | `forward_txs` | inserts while the block task updates and the cleaner removes | what was forwarded is tracked until it expires |
| TransactionReplayer | the replay queue | `start_service` | one task sleeps for all entries; counts; stale status | bounded replays; no entry given up without a reason, none stuck |
| data caching service | slot cache | block, blockinfo, slot and cleaning tasks | concurrent updates of both stores; two cells for one slot; a task that ends when it lags | see the stores; the slot cache follows the feed |
| gRPC multiplex | memory of slots, blocks waiting for metadata and the reverse, idle counters; last slot | merging tasks, emitter, slot subscription | several sources, any order, duplicates, silence, a restart that waits for its tasks | each block once per commitment, in order, none withheld |
| gRPC inspection | what was seen at each commitment | one listener | forgets by a cleanup point | warns of what is out of order and of nothing else |
| block and slot polling | schedule and retry queues; estimated slot | workers, retry task, poller; slot poller | items change hands between three kinds of tasks; retries; empty slots; errors | no slot lost or repeated; existing blocks announced; slots rise |
| TPU service and connection manager | map leader -> connection; per connection a heap, a wake-up permit, exit notifiers | `update_connections`, `listen`, filler | wake-ups, exit notifications before subscription, a leader that returns, permits | no lost wake-up; a mapped leader is served; an ended connection leaves nothing |
| prioritization fee heap | map fee -> queue, set of signatures | `insert`, `pop`, `remove_expired_transactions`, `clear` | two collections that must agree under a bound | the two agree; best fee first, first come first served |
| QUIC connection and pool | connection cell, last stable id, permits | `get_connection`, `send_transaction`, `get_pooled_connection` | the write lock is held while connecting; a broken connection is marked by id | one reconnection per failure; permits come back; sends end |
| QUIC proxy client | TPUs of the time, reconnecting connection | `update_connection`, reader, sends | broadcast lag, give-up after attempts | batches go to the current TPUs; the proxy is given up only after all attempts |
| forward proxy | agents per TPU, their tasks and connections | requests, `tx_forwarder`, clean-up | agents that are told to exit while packets wait | a packet is tried once, by the task of its shard |
| subscription store, web-socket subscriptions | map (signature, commitment) -> sink; a task per subscription | subscribe, unsubscribe, `notify`, `clean`; `*_subscribe` | notification against cleaning and a second subscriber; clients that leave | at most one notification; the task of a client that is gone ends |
| account store and service | accounts per commitment, owners index, confirmed slots | update, initialize, promote a slot, queries | updates before or after their slot is confirmed; owner changes; locks in two orders | no read goes back; the index covers the accounts; confirmed data are shown |
| accounts on demand | filters, subscriptions, accounts in loading | load, subscribe, replace streams | a load that races the update stream; refreshes that overtake one another | nobody waits for ever; what is subscribed to was asked for |
| stake and votes | stakes, votes, leader schedule per epoch, two files | bootstrap, epoch change, `get_vote_accounts` | updates that arrive while the stores are lent; a crash between two file operations | no update is lost; every request is answered; two epochs in a row |
| block store | schemas per epoch, blocks, transactions in chunks | prepare, save and query blocks | the process ends in between; sessions close, also between a row and its answer; two stores | a block that is there has all its transactions |
| address lookup tables | map table -> addresses | load in batches, reload, resolve | load on miss with a timeout that does not cancel; loads of one table at once; answers that are empty or old | lookups resolve unless a load was of no use |
| prioritization fees | fees per slot and account | update, percentiles | two maps, cleaning by slot | a percentile is a fee that was paid; the last slots are there |
| postgres logger | a batch of notifications | drain, write | a write that fails after it has written | every forward is logged |
| Go, Python and JavaScript services, cloud functions, monitors | see section 7 | request handlers | none that runs | outside the scope |

`PROJECT.json` lists every part with its sources and status, and under
`hazards` each of the hard behaviours at the line where it bites.

## 2. The modules

Common conventions: one action is what a task does between two points at which
another can interfere (an await, a lock that is released, a channel). A variable
whose comment begins with `history:` is not in the code; it records what has
happened for the properties, and no guard reads it, except that
`TransactionPipeline.noticed` keeps a stream from announcing a block at a
lower commitment than before, an assumption about the stream. Constants that
begin with `Max` bound what would go on for ever. A definition headed `Mutant:`
is a plausible mistake in the code, and belongs to no specification: it shows
that a property can tell it from the real thing. **Commitments** has the names of
the three commitments, which the store and the multiplexer share.

### From the chain to the stores

**BlockInformationStore** (`core/src/stores/block_information_store.rs`, driven
by `services/src/data_caching_service.rs`). `add_block` is split at each load,
store and guard: `Receive`, `LoadHeight`, `StoreHeight`, `ReadLatest`,
`WriteLatest`, `UpdateEntry`; `clean` at the lock of the latest finalized block:
`CleanRead`, `CleanRetain`. A block is its hash and the commitment it was
announced at. Any announcement of the cluster may come next at either writer,
any number of times: broadcast receivers skip when they lag, pollers are
unordered, a multiplexer announces again after a restart.
**RecentBlockhashes** is the abstract specification: per blockhash an atomic
register that holds the highest commitment and is emptied only on expiry.

**GrpcMultiplex** (`cluster-endpoints/src/grpc_multiplex.rs`). Merging a message
and handling it are one action per kind of message, since a FIFO channel is all
that connects the two tasks. `ProcessedBlock`, `ProcessedInfo`,
`ConfirmedInfo`, `FinalizedInfo`, `CleanupTick` are the branches of the
emitter's `select!`. A restart is the steps it takes: `Stop` leaves the receive
loop and drops what it has kept, `Exits` is a merging task that sees the exit
notification, `Fills` one that gets stuck in a send before it does, because
nobody reads its channel any more, and `Restart` the new set-up, which waits for
all of them as `join_all` does. The number of sources needs
no parameter: a message may come any number of times, in any order.

**SlotFeed** is the slot subscription of the same file with the slot task of
the data caching service and `SlotCache::update` (`core/src/stores/data_cache.rs`)
in its two stores. The channel is bounded, a lag ends the slot task. A
notification carries, as history, the run of the receive loop that sent it.

**GrpcInspect** (`cluster-endpoints/src/grpc_inspect.rs`) is the task that
watches the order of commitments. Beside what it remembers the model keeps what
it would remember if it never cleaned up, and compares the warnings.

**BlockPolling** (`cluster-endpoints/src/rpc_polling/poll_blocks.rs`). `Fetch`,
`Fetched`, `NotFetched` are a worker, `TakeRetry`, `GiveUp`, `RestEnds` the
retry task, `StartPolling` and `NotifySlot` the poller. How long the retry task
sleeps is left open. The workers' exit when nobody listens to the block stream
any more is not modelled.

**LeaderSchedule**: the slot poller and its estimation
(`rpc_polling/poll_slots.rs`), the TPU service that asks for the leaders of the
fanout on every notification (`tpu_service.rs`), the window of leaders fetched
from RPC (`json_rpc_leaders_getter.rs`) and the answer from the schedules of two
epochs (`core/src/structures/leaderschedule.rs`), as the getter of
`cluster-endpoints/src/grpc_leaders_getter.rs` asks for it. The leader of a slot is the
slot.

### From the client to the leaders

**TransactionPipeline** (`services/src/transaction_service.rs`, `tx_sender.rs`,
`transaction_replayer.rs`, `core/src/stores/tx_store.rs`, `data_cache.rs`). A
request is a call of `send_wire_transaction` (`Lookup`, `SendToChannel`,
`SendToReplay`); several may carry the same transaction. `ForwardInsert` and
`ForwardSend` are the sender; a batch of the code is a sequence of them.
`ReplayRequeue`, `ReplayTake`, `ReplayCheck`, `ReplaySend` are the replayer,
`UpdateStatus` the block task, `Clean` the cleaner. Time is discrete and
relative: an entry carries what is left until it is due. The sending itself is
the TPU service's.

**PrioFeeHeap** has the operations of
`core/src/structures/prioritization_fee_heap.rs` as operators on the value of
the heap, **PrioFeeHeapUse** runs them in any order, and **FeeRanking** is the
abstract specification: a bounded set of transactions that wait, and which of any
two is sent first. The refinement mapping takes that order from the fees and the
places in the queues (`AheadIn`). **TpuConnections** extends
PrioFeeHeap and composes it with the tasks of
`services/src/tpu_utils/tpu_connection_manager.rs`: `UpdateConnections` is the
manager, `Filler*` the heap filler, `Start` to `CleanUp` the main task,
`SendEnds` a spawned sender that gives its permit back. The permits of the
connections of one pool are pooled in one counter. Which leaders are to be kept
is any set.

**QuicConnections** (`services/src/quic_connection.rs`,
`quic_connection_utils.rs`) opens what `SendEnds` of TpuConnections leaves
closed: `Pick` and `PickAny` choose a connection of the pool, `Load`, `Read`,
`Lock`, `Connected` and `NotConnected` are `get_connection`, `Written`, `Fails`
and `Exits` the loop of `send_transaction`. A QUIC connection is its stable id;
the retries of `connect` are one step, as the lock is held over all of them.

**ProxyClient** (`quic_proxy_connection_manager.rs`) replaces the direct
connections by batches for a forward proxy; **ForwardProxy**
(`quic-forward-proxy/src`) is that proxy: `AcceptRequest` and `Enqueue` a client
connection, `Forward` the forwarder with the clean-up of agents, `Receive`,
`Send`, `SendTimesOut` and `TaskPanics` the task of a shard. Both extend
**AutoReconnect**, the reconnecting connection; of its two copies in the code the
one of the proxy can also be shut down. **Sublists** has what `retain` and
`filter` make of a queue, for the heap and the tasks of the proxy.

### Beside the path of a transaction

**AccountStore** (`accounts/src/inmemory_account_store.rs`,
`account_service.rs`): streamers and loaders update (`Receive`, `Fetch`,
`Load`, `Store`, `Index`, `LoadOwner`, `LoadInsert`), the block task confirms a
slot account by account (`Mark`, `Promote`, `IndexPromoted`), a query reads an
owner (`QueryStart`, `QueryRead`). The locks of the two concurrent maps are taken
where the code takes them. **AccountStreams** has the groups of tasks that
stream accounts and their replacement; **AccountsOnDemand** the calls that load
and subscribe to an account that is not there.

**StakeVote** (`stake_vote/src/lib.rs`, `utils.rs`, `rpcrequest.rs`,
`bootstrap.rs`): the event loop, the stores it lends to tasks, the updates they
collect meanwhile and those that wait. **StakeFiles**: the files of two epochs,
their writing step by step, a crash, and both places that read them.
**StakeSchedule**: the calculations, from stakes and votes to the order of
drawing and the answer to `get_vote_accounts`, against reference definitions.

**PubSub** (`lite-rpc/src/bridge_pubsub.rs`,
`core/src/stores/subscription_store.rs`): the kinds of subscription differ in
what ends them (`Kinds`); `Recv`, `Send` and `TimedOut` are the task of one,
`Notify`, `Notified` and `Clean` the block and cleaning tasks. A sink takes one
message until the client reads.

**PrioFees** (`prioritization_fees/src`): statistics per block and account, their
retention, and what a client is answered. **AddressTables**: the list of tables a
block needs, with an entry for each lookup that misses, also of a table that is
listed already; a batch of loads that run at once, each of which may be answered
with the table, with an older one or with nothing; a timeout that does not cancel
them; lookups. A task of the code loads up to a hundred tables and stores them in
turn, a task of the model one: it has all orders of the code's.
**BlockStore**: schemas per epoch made statement by statement, a block saved as
a row and chunks over several sessions, sessions that close, before or after what
they were sent is in, restarts, queries meanwhile, and the range each store answers for. **TransactionLog**: the
notifications of TxSender, the logger's batch, sessions and failed writes.

### Compositions

`TpuConnections` composes heap, filler, sender and manager; `LeaderSchedule` the
poller, the TPU service and the window of leaders; `ForwardProxy` and
`ProxyClient` their reconnecting connections; `SlotFeed` the multiplexer with the
slot cache; `TransactionPipeline` the service, the sender, the replayer and the
transaction store with its cleaner. The `MC*` modules give the constants their
values. **MCBlocks** (multiplexer and block information store),
**MCTransactionPipeline** (the pipeline, and TpuConnections by INSTANCE),
**MCTransport**, **MCServices** and **MCRecords** hold several parts
each: a variable `part` chooses one in the initial state, and only that part
moves. The parts share no state, so a behaviour of such a module is one behaviour
of one of them; nothing is gained or lost over separate runs.

Properties of components that belong together are joined under one name, in a
module that says which component promises what: **Transport** (LeaderSchedule,
SlotFeed, ProxyClient, ForwardProxy), **Accounts** (AccountStore,
AccountsOnDemand, AddressTables) and **Notices** (PubSub, TransactionLog,
GrpcInspect). The MC modules and the modules of proofs both EXTEND these and the
other components that have proofs, so that a run checks the very definition a
theorem is about:

| Run's module | Proofs | Both extend |
|---|---|---|
| MCTransport, MCTpuConnections | TransportProofs | TpuConnections, PrioFeeHeapUse, Transport |
| MCServices | ServicesProofs | BlockPolling, QuicConnections |
| MCRecords | AccountsProofs | Accounts |
| MCRecords | RecordsProofs | StakeVote, StakeFiles, BlockStore, Notices |

MCBlocks extends BlockInformationStore and GrpcMultiplex, of which
**BlockInformationStoreProofs** and **GrpcMultiplexProofs** prove the properties,
MCTransactionPipeline the module TransactionPipeline of
**TransactionPipelineProofs**. MCTpuConnections has the instance of
TpuConnections for the run `tpu_removed`. StakeSchedule, PrioFees and
AccountStreams the MC modules have by INSTANCE, as MCServices has the parts of the
others whose liveness it checks; RecordsProofs has PrioFees by INSTANCE as well.

## 3. The runs

| Run | Instance | Shows |
|---|---|---|
| `blocks` | *store*: 4 blocks and a fork, 2 writers, 5 announcements, `MaxRecent` 1; *multiplex*: 3 of the blocks and the fork, memory of 2 slots, no idle tick allowed | the store's invariants, that commitments only rise, that it implements RecentBlockhashes; of the multiplexer order, uniqueness, completeness, silence noticed |
| `store_latest_race` | the store of `blocks` | violation: the latest block moves back |
| `multiplex_confirmed_late` | the multiplexer of `blocks` | violation: confirmed after finalized |
| `transactions` | *transactions*: 2 requests for 1 transaction, 2 replays, channel of 1, heights to 2; *connections*: 1 connection, 2 transactions, 3 sends, heap and channel of 2 | the pipeline's invariants; calls return, the loop is left; heaps are emptied, told connections end |
| `replayed_once_more` | the transactions of `transactions` | violation: a transaction is replayed more often than it was asked to be |
| `tpu_removed` | the connections of `transactions`, with a leader to remove | violation: a removed connection that does not end |
| `leaders_short` | slots to 5, epochs of 3 | violation: not all leaders that were asked for |
| `transport` | heap, connections, proxy, client, leaders, feed | what carries transactions: safety of each part, refinement of FeeRanking |
| `services` | votes, demand, streams, clients, polling, connections of a pool | the loops that must go on: liveness of each part, and the safety it rests on |
| `records` | accounts, demand, votes, files, draws, fees, tables, blocks, log, clients, inspection | what is kept or written down: safety of each part |
| `files_unused` | 4 epochs | violation: complete files that a start does not use |
| `account_fees_missing` | 1 account, a block of up to 5 transactions | violation: the fee of an account is not taken into account |

`blocks` explores 760 thousand states and `transactions` 115 thousand with their
temporal properties, `transport` about a million, `services` 26 thousand with its
temporal properties, `records` 2.7 million; each takes between one minute and two
and a half.

Why these bounds are enough to be worth something:

* `blocks`. *Store*: two writers are all there are (the block task and the blockinfo
  task). With `MaxRecent = 1` a finalized block expires those two heights below,
  so that the cleaner has blocks to remove and blocks to keep, and the fork
  shares the height of a chain block and the cell of the confirmed ones.
  *Multiplex*: with four slots and a memory of two, slots are forgotten and must
  still be rejected; `Behind = 1` lets the tick drop cached blocks; with no idle
  tick allowed the second silent one stops the loop, and any of the four tasks may
  then be stuck.
* `transactions`. *Transactions*: two requests for the same signature make the sender, the
  cleaner and the replayer meet on one entry; two replays make the second due
  later than one offset, so that requeueing happens; a channel of one makes the
  second caller wait; the last height but one expires the transaction, the
  finalized height may pass its last valid height as well. *Connections*: one
  incarnation, which is all liveness needs, and two transactions, so that one may be
  sent while the other waits.
* `leaders_short`: two epochs of three slots; the answer is short already within
  one of them.
* `transport`. *Heap*: seven transactions for four places give full heaps with up
  to three equals, evictions from each fee and expiry at two heights.
  *Connections*: two incarnations, for a leader that returns while its old
  connection is ending; a channel of one makes the receiver lag; one transaction
  is sent over them, so that their heaps never fill, which those of *Heap* do.
  *Proxy*: two shards, a backlog of two and three agents for two addresses, whose
  tasks have room for one packet: packets go to one shard and not the other,
  agents are removed with packets that still wait, and another agent of the same
  address follows. *Client*: three transactions in batches of two, chunks of one,
  one failed attempt in a row allowed: two chunks of a batch can meet a broken
  connection, and a third batch the error that is for good. *Leaders*: slots to five, epochs of three slots and a fanout
  of one, so that the window is outrun and an epoch ends within the fanout.
  *Feed*: three slots, a channel of two, two runs: a lag, and slots that go back
  at a new run.
* `services`. *Votes*: two requests and two epochs, so that one waits for stores
  that the calculation of a schedule holds. *Demand*: two callers for one
  account, one of which waits for the other. *Streams*: one source and three
  filters, so that a group is replaced while its successor has not started.
  *Clients*: one subscription that looks whether its client is there and one
  that waits for the next message. *Polling*: an empty slot between two filled
  ones is retried until it is too old while the others go on; two workers
  suffice to overtake one another. *Pool*: two sends with two permits, which share
  the connection and its lock, or with one between them, so that one waits for
  it; one connection that breaks is replaced.
* `records`. *Accounts*: one account that changes its owner, a streamer, an
  initial loader and a caller of RPC, three levels, two slots. *Demand* adds to
  the instance of `services` a program and an account that does not exist.
  *Votes*: one request beside the bootstrap and the schedules of four epochs, with
  an epoch at every slot, so that two schedules can be on their way at once; the
  vote accounts change at every slot. *Files*: four epochs, so that files may be
  two epochs old. *Draws*: three stakes on two vote accounts of
  two nodes, with amounts that are equal, different and zero. *Fees*: up to two
  of three kinds of transactions a block, a vote among them; three slots, two
  retained. *Tables*: one table, as the tables do not touch one another, sizes
  modulo 2, up to two lookups of it in a block, three loads in batches of two: loads
  of one batch cross, one is given up and another batch follows. *Blocks*: two slots
  of two epochs, two sessions. *Log*: two transactions, two forwards each, room
  for two. *Clients*: two clients of one signature. *Inspection*: slots one,
  three and four, cleanup at every second block two slots below, so that the
  first slot is older than the cleanup point of the last and makes it wrap.

Deadlock is checked in `transactions`, `replayed_once_more`, `store_latest_race`,
`multiplex_confirmed_late` and `tpu_removed`; there
tasks that wait (a tick, a new message) are enabled, so that this check
says little, and what could block is covered by `SendsReturn`, `ToldEnds` and
`HeapIsEmptied`. In `blocks` it is off, as a restart of the multiplexer may wait for
ever (section 6). It is off in the other compositions: their parts stop when the slots,
blocks or requests of the bound are used up, a connection ends when it is told
to, and a query of the accounts can wait for an update that waits for it
(section 6). What must not stop there is stated as a liveness property:
`RequestsAreAnswered`, `StreamsGoOn`, `AccountTasksEnd`, `AvailableIsAnnounced`,
`SendsEnd`.

## 4. Fairness

Tokio polls every task that is ready, which justifies weak fairness of a step
that stays possible until it is taken. Nothing is assumed of clients, sources,
leaders and blocks.

* `TransactionPipeline`: weak fairness of each caller, the sender, the replayer
  and time. Each is ready until it has acted: nothing takes a place in the
  channel away for ever in the bounded model, where each request is sent once.
* `GrpcMultiplex`: weak fairness of the tick, of leaving the loop, of the new
  set-up, and of each merging task taking the exit notification while it is not
  stuck in a send. Nothing frees one that is; `SilenceIsNoticed` exempts it.
* `TpuConnections`: weak fairness of the tasks' own steps, strong fairness of
  the two branches that receive the exit notification. `select!` without
  `biased` polls its branches in random order, so a branch that is ready at
  infinitely many of its turns is taken with probability one; the model counts
  that as certain. `SendEnds` is weakly fair because every wait in
  `send_transaction` and `connect` has a timeout; that these suffice is what
  `SendsEnd` of QuicConnections shows.
* `QuicConnections`: strong fairness of each send. Tokio's semaphores and locks
  are fair, so a send that waits for a permit or the lock gets it when it comes
  free again and again; every other wait has a timeout.
* `BlockPolling`: weak fairness of the tasks; strong fairness of an answer to an
  item the cluster has: an RPC node that is asked again and again for a block it
  has answers in the end. Without it no retry loop can promise anything.
* `AccountsOnDemand`: weak fairness of each caller: its waits, for the lock, RPC
  or another caller, are bounded by a timeout.
* `AccountStreams`: weak fairness of the manager's steps and of the timeout of
  silence while every task of the group is lost. No source is assumed to deliver.
* `PubSub`: weak fairness of the steps of a subscription's task, its timeout
  included.
* `StakeVote`: weak fairness of the tasks that hold a store or wait for one. That
  RPC answers or fails is in their steps.

## 5. The proofs

All theorems hold for every value of the constants that satisfies the named
ASSUME of the component, which says only that the parameters are of their types,
that sizes of queues, pools and memories are positive, that the validators and
the sends at a time are finitely many, and that names of different kinds of
things differ. TLC evaluates each ASSUME on a run.

Hardly any property is inductive as it stands. Each proof is about an inductive
invariant that implies the properties, and each such invariant was checked with
TLC on small instances before it was proved. The proof that a step keeps it has
one lemma or case per action; what several actions do alike (a send that gives
back a permit, an item that changes hands, an entry that is written) is a lemma
that each of them cites.

**BlockInformationStoreProofs.** `StoreTypeOK`, `StoreKeepsWhileValid`,
`StoreNeverOverstates`, `StoreLatestCanBeLookedUp`, `StoreCommitmentOnlyRises`
and `StoreImplementsRecentBlockhashes`: any chain with any forks, any number of
writers. The inductive invariant adds to the checked ones that what the cleaner
has read was announced as finalized (`SnapshotIsFinalized`; without it `retain`
could drop anything), that what the finalized cell holds was
announced (`FinalizedCellIsFinalized`, which gives the former), and that a writer between
two calls holds no block (`IdleWriterHoldsNothing`). The crux is that expiry is
monotone: the finalized block the cleaner compares with is old, and an old one
drops less. The refinement maps an addition to the step at the map entry, and a
finalized block to the moment a writer takes its announcement.

**TransactionPipelineProofs.** `PipelineTypeOK`, `PipelineOneEntry`,
`PipelineReplaysAreCounted`, `PipelineNeverGivenUpEarly` and
`PipelineTrackedUntilExpired`: any number of requests and transactions, retries,
queue sizes and heights. The inductive invariant adds three facts to the checked
ones: the replayer holds an entry exactly while it works on one
(`HeldWhileWorking`), a request that is not accepted has not been replayed
(`FreshUntilAccepted`; the entry that `SendToReplay` queues starts at count 0),
and a landed status was announced by a block (`LandedWasNoticed`; it makes
`ReplayCheck` drop an entry for a reason). The conjuncts lean on one another:
that an entry's count is the number of replays needs that no other entry is of
the same request, and that an entry is dropped only after `max_replay + 1`
replays needs the count. Lemmas say once what append, tail and rotation do to a
queue (`AppendFacts`, `TailFacts`, `RotateFacts`), and `StepLoop` says which
steps let an entry go.

**GrpcMultiplexProofs.** `MultiplexNothingTwice`, `MultiplexProcessedFirst`,
`MultiplexArrivedIsEmitted`, `MultiplexInfoBeforeBlock`: any blocks, forks, number
of sources and order of messages. `MultiInv` relates everything the emitter keeps
to what was sent: a block whose metadata came first waits for it (`WaitingInv`),
a block that was emitted is cached until it is finalized or far behind
(`CacheInv`), the tips are above all metadata passed on (`TipInv`; without it
"far behind" could be withdrawn), and the slot of an emitted block is in the
bounded memory or below all of a full one (`Remembered`). Whether the emitter
receives and where its merging tasks are is of no account: leaving the loop drops
all of it. `Remembered` is the
crux of "nothing twice": what the memory forgets is its least slot, and the guard
`IsNew` refuses whatever is not above the least of a full memory, so that the
slot just received is never the one forgotten (`RememberKeepsMemory`,
`RememberedIsNotNew`).

**TransportProofs.** What sends transactions.

*Connections.* `TpuLeadersAreServed`: any leaders, incarnations,
transactions and sizes of heap, channel and pool; `TpuToldStaysTold`: what the
exit channels have said is never taken back, and a task that has ended does not
run again. `TpuInv` says of each incarnation which places of its two tasks occur
together: a task is told only after it has subscribed and ends only when told
(`Subscribed`), nothing waits before the filler runs and after it has ended, and
while the main task looks at the heap or waits, transactions in it mean a wake-up
permit or a filler about to give one (`Waiting`). `HeapsAgree` adds that the queues and the signatures of every connection's heap
agree, whatever its two tasks do.

*Heap.* `HeapStaysRanked`: for any transactions, fees and size, the heap is a
ranking and implements FeeRanking. A heap is good (`GoodHeap`) when every queue
holds, once each, transactions of its fee, and the signatures are those of the queues;
everything else follows operation by operation: what appending, taking the front
and filtering do to the order in a queue (`EarlierAppended`, `EarlierTail`,
`EarlierOrders`) and to the order of the heap (`PutRanks`, `TakeFrontRanks`,
`RemoveExpiredRanks`), that `pop` takes the one ahead of all others
(`BestIsPopped`), and that the one evicted is the cheapest (`CheapestIsInFront`).
The eviction of the code appends and then removes; that this is one `Displace`
needs that the transaction it took in is not the one it gives up, which the
comparison with the lowest fee ensures.

*Feed.* `FeedInvariant`: what the cache shows, what waits in the channel and what
was sent last are one line (`FeedInOrder`) in which slots go back only from one run
of the receive loop to the next, and the end of the line is what was sent last unless
the task has ended (`LastArrives`).

*Leaders.* `LeadersStayKnown`, with the former: any slots, epochs, fanout and window
that the code's constants allow. What the TPU service asks of the window it gets
whole; what the two schedules answer is the leaders from the slot asked for on, in
their order, all of them within an epoch and over its end fewer, by as many as
are left of the first epoch (`SlotLeadersAreRight`; section 6). The crux is that the window begins before every
slot that is yet to be asked for (`BeginsBefore`): leaders are dropped by the slot of
a notice, and no later notice goes below it, because notices rise (`NoticesInOrder`).
The constants must satisfy `MaxAhead + Behind + Fanout < CacheCount`, as 32, 4, the
fanout of 18 and 1024 of the code do.

*Client.* `ClientInvariant`: the attempts that have failed are counted in the
connection (`MissesAreCounted`), and a batch was taken under the parameters of its
time or older ones (`TakenBefore`).

*Proxy.* `ProxyInvariant`, and `ProxiesAlwaysDeliver` together with the client: any
addresses, shards, queues and agents. A packet is at one place of a task, once, and
one that has yet to be forwarded is at no place of any (`TasksOK` over
`Forwarded`); whatever the present agent of an address was handed is in the queue or
the batch of the task of its shard, or was tried by it, or the task has lagged or
has failed (`AgentsHold`). That an agent that was told to exit is no longer the one of its
address keeps the invariant through the end of its tasks.

**ServicesProofs.** Polling, and the connections to a leader.

*Block polling.* `SlotsArePursued`: any workers, slots and answers of RPC.
`PollingInv` follows the items in hand: each is in one place, once (`OnePlace`), a
slot has one item at a time (`OnePerSlot`), whose commitment tells what has been
announced of the slot (`InOrder`), and a slot that was scheduled leaves the hands
only when it is finalized or given up (`NothingLost`). Lemmas say what taking from,
adding to and joining queues does to the items in them.

*QUIC connections.* `QuicConnectionsAreShared`: any sends, connections and
permits. The permits that are free and the sends that hold one add up by the
cardinality of the holders, one lemma each for taking, keeping and giving back.
That only a failed connection is replaced, and that the `expect` at
quic_connection.rs:93 cannot fail, rest on what a send has seen (`Seen`): one that
waits for the lock has an id that a send has failed on or has found the cell
empty, and one that connects has the id of the cell. The marks of the connections
are ids that have failed (`BrokenHasFailed`).

**AccountsProofs.** What is kept of accounts.

*Account store.* `StoreIsCurrent` and the action property
`StoreReadsAdvance`: any accounts, owners, slots and updaters. Most of `StoreInv`
is about single entries: each way in which an entry is written keeps it well
formed (`Good`: one data per slot, the processed ones cover the others) and lets
what is read of it advance (`Rises`). Beyond that it says what an updater carries
from one step to the next (`UpdaterInv`) and which accounts the promotion of a
slot has yet to visit (`ShownInv`). Reads may go back for one reason: a loader
that had found the account absent inserts its data over what came meanwhile
(inmemory_account_store.rs, `initilize_or_update_account`); the theorem exempts
exactly that step, for that account.

*On demand.* `DemandSubscribedIsWanted`, and `DemandLoadsOnce`: an
account whose load has ended is not loaded again. Any calls, accounts, programs
and tries. `DemandInv` adds that an account not subscribed to has not been loaded,
that what a load has stored is there (`Told`), and what a call has behind it where
it is (`Right`): a refresh about to be sent has the account of its call, and a
call that is notified has an outcome to look at.

*Lookup tables.* `TablesLookupsResolve`: any tables, lists with a table any number
of times, batches, loads and answers. A load that is neither done nor of the batch
waited for was given up (`RoundsAgree`), an answer that is waited for covers the
lookup or was of no use (`AnswerIsOfUse`), and every lookup is to be asked for, being
loaded or resolves, unless a load of its table was of no use or came late
(`LookupIsServed`). `TablesShrinkByCrossedLoads` is the action property: an answer
that was not behind when it came stays so unless another load of its table may store
in between (`AnswerIsNewest`). With that of the store it is `AccountsNeverGoBack`.

**RecordsProofs.** Stakes, files, fees, blocks and notices.

*Stakes and votes.* `VotesLatestIsKept`: any requests, epochs and updates.
`VotesInv` says that the two stores are lent together and to whoever holds them
(`LentTogether`), and of each task that waits, that another has been notified and
has yet to take the store (`WaitersAreNext`). The last one is why nobody waits for a
store that nobody has; it breaks down in one place, where each of two schedules is
notified of one of the two stores (section 6), and the theorem excludes that.

*Files.* `FilesReadInARow`: any number of epochs and crashes. That the files are in
a row, or of the past (`InARowOrPast`), holds with what the stake loop knows
(`KnowsTheEpoch`, `CalculatesKnown`) and with no file being ahead of it
(`NoFileAhead`); a calculation that a crash cut before its epoch began breaks all
three, and is exempt as in the property.

*Fees.* `FeesRetainTheLast`: any accounts, blocks and fees, also when blocks come
out of order. `FeesInv` says of each map what it keeps (`Keeps`); the slot of the
youngest block seen bounds what may be dropped.

*Blocks.* `BlocksStayWhole`: any slots, sessions, lost answers and ends of the
process. `SaveGoesOn` accounts for
the chunks of the block at work, `QueryGoesOn` for a query between the row and the
transactions, `FirstIsMade` for the schema whose tables are being made.

*Notices.* `NoticesHold` joins three invariants: `ClientsInv` (a client waits for
the one signature it asked for, and is in the map, about to be told, or told),
`InspectInv` (what the inspection has forgotten is older than its cleanup
point), and `LogInv`, in which each forward is counted at its place, from the
notification over the channel and the batch to the row. Counting is by the
cardinality of the set of places, so that moving a batch is a bijection
(`SameSize`) or a union of disjoint sets (`SizesAdd`).

*Induction.* The library's induction theorems take an operator, which none of the
provers instantiates. Where an argument needs induction, the statement is made a
set of naturals: `LeastNatural`, `GreatestNatural` and `AllNaturals` follow from the
well-foundedness of `<` on the naturals (`WFMin`). `SublistIs` says in this way what
the recursive function of Sublists has for elements and in which order, which is all
that the heap and the proxy need to know about filtering a queue.

Only model-checked, and why:

* liveness: fairness and ENABLED are beyond this prover;
* what StakeSchedule and the percentiles of PrioFees compute
  (`CalculationsAreRight` but for its retention of the last slots). They sort with
  `SetToSortSeq` and filter with `SelectSeq`, for which the prover has no
  definition; these are calculations of one step, for which small inputs say most;
* AccountStreams: what it is there for is liveness (`StreamsGoOn`).

## 6. Where the code disagrees with itself

Shown by a run that expects a violation:

* `store_latest_race`: `add_block` compares slots under a read guard that is
  dropped before the write guard is taken (block_information_store.rs:133), so
  the latest block may move back.
* `multiplex_confirmed_late`: a block that is finalized before it arrives is
  cached all the same and later emitted as confirmed (grpc_multiplex.rs:365);
  grpc_inspect.rs:105 forbids it.
* `replayed_once_more`: the count of replays is compared after the send
  (transaction_replayer.rs:79), so that a transaction that does not land is replayed
  `max_replay + 1` times; transaction_replayer.rs:30 says "They will be replayed
  max_replay times". `ReplaysAreCounted` bounds them by what the code does.
* `leaders_short`: `get_slot_leaders` subtracts what it has from a limit that
  already accounts for it (leaderschedule.rs:105), so that it answers with too few
  leaders over the end of an epoch, and the getter asks for one less than the slots
  of its range (grpc_leaders_getter.rs:69); leaders_fetcher_interface.rs:7 says
  "should return leader schedule for all the slots >= from and <= to".
* `tpu_removed`: a connection removed before its tasks have subscribed to the
  exit notification is never told (tpu_connection_manager.rs:294).
* `files_unused`: the arguments of `bootstrap_current_leader_schedule` are
  swapped (stake_vote/src/bootstrap.rs:57 against :441), so that a start looks
  for the files of the epoch with the number of slots in an epoch.
* `account_fees_missing`: `update` writes the statistics of all accounts into
  the map of writes (account_priofees.rs:174), so that the map that is asked for
  the fees of an account stays empty.

Met while modelling, and described here only. *Stores and pipeline*:

* Any status counts as confirmed (tx_store.rs:75), also that of a block of a
  fork; transaction_replayer.rs:29 promises replay for what is not confirmed
  (`NeverGivenUpUnconfirmed` does not hold).
* The unconditional insert in tx_sender.rs:52 forgets a confirmed status;
  tx_sender.rs:33 says it keeps track of it (`ConfirmedIsKept` does not hold).
* `last_blockheight` has the same race as the latest block
  (block_information_store.rs:118); the next block corrects it. The cell of the
  latest confirmed block takes whatever is not finalized, also processed blocks
  of forks (:93).
* `max_retries` is cut to 16 bits (bridge.rs:399).
* The heap drops a transaction at its last valid height
  (prioritization_fee_heap.rs:94), at which data_cache.rs:56 still takes it for
  valid.
* `get_latest_blockhash` answers at confirmed when it is given a configuration
  without a commitment, and at finalized when it is given none (bridge.rs:191).

*Streams*:

* A block finalized before its confirmed metadata is never emitted as confirmed
  (grpc_multiplex.rs:412): `ArrivedIsEmitted` allows for it. A multiplexer that
  restarts emits blocks again; the uniqueness properties hold between restarts.
* A restart of the multiplexer waits for its merging tasks (grpc_multiplex.rs:451).
  They do not look at the exit notification while they send (:91, :189), and nobody
  reads their channels meanwhile: one that has filled its channel is stuck, and the
  multiplexer with it (`Hangs`, which `SilenceIsNoticed` exempts).
* The slot feed goes back after a restart of its loop (:502), and shows the
  current slot ahead of the estimated one for a moment. One lag ends the slot
  task (data_caching_service.rs:154), and with it the process.
* The cleanup point of the inspection is `slot - 200` (grpc_inspect.rs:171): it
  wraps for low slots, after which nothing is looked at, and moves back when the
  slot does, after which forgotten blocks are warned of again.

*Sending*:

* `send_transaction` leaves its loop when it wants to retry
  (quic_connection.rs:193), so that it never retries.
* One failed fetch of leaders ends the TPU service (tpu_service.rs:183).
* Proxy client: a lag counts as the end of the channel and ends the reader
  (quic_proxy_connection_manager.rs:185; `ReaderGoesOn` does not hold), a chunk
  that fails drops the chunks behind it (:262), an error that is for good is
  never recovered from, and a handshake that fails other than by time panics the
  task (services' quinn_auto_reconnect.rs:178).
* Forward proxy: an agent that is told to exit ends with the last packet
  received and not sent (tx_forward.rs:104), the send to the agents panics when
  all of their tasks are gone (:212; `SendMustSucceed` does not hold), and a
  full channel panics the task of the request (proxy_listener.rs:149).

*Accounts and subscriptions*:

* `get_program_accounts` holds an entry of the owner index while it reads
  accounts (inmemory_account_store.rs:339), `update_account` an account while it
  writes the index: the two can wait for one another for ever.
* A change of owner that is finalized takes the account from the index of the
  owner before; when older data are loaded meanwhile, that may be the owner it
  has (inmemory_account_store.rs:231; `OwnerIsIndexed` does not hold).
* A call that comes after an account was loaded is answered that there is none
  when the store does not have it yet (accounts_on_demand.rs:148;
  `NullMeansAbsent` does not hold).
* An update that the store raises to confirmed, as its slot is confirmed already,
  is notified as processed (account_service.rs:171).
* A second subscriber to a signature replaces the first, who is never told
  (subscription_store.rs:23); a client that does not read stalls the block task
  (:53); the task of a client of account fees that is gone goes on while its
  account has none (bridge_pubsub.rs:249).

*Stakes, tables and blocks*:

* Updates of the next epoch, which are set aside, are applied when an answer to
  `get_vote_accounts` merges its store (stake_vote/src/utils.rs:219;
  `NextEpochWaits` does not hold). Of two schedules that wait for both stores one may be
  notified of the stakes and the other of the votes (utils.rs:125 wakes one waiter of
  each, :181 waits for both), after which neither asks again until the votes are lent
  and come back (`SchedulesCross`, which `LatestIsKept` and `RequestsAreAnswered`
  exempt). The calculation of the next schedule begins with the last slot of
  an epoch; when the process ends after it and starts again in the old epoch, the
  files are of other epochs than it takes them for (`early` in StakeFiles). Requests that wait are answered by the
  configuration of another (rpcrequest.rs:37). A stake history that cannot be
  read loses both stores (bootstrap.rs:293), and an epoch that ends between two
  calls of RPC mixes two epochs (:72).
* A load of address tables that timed out goes on, and its late answer replaces
  a newer table (address_lookup_table_store.rs:66). Two lookups put a table into the
  list twice (:95), so that two loads of it run at once, and the one stored last may
  be the older. A table the RPC node does not have is passed over (:51), and what
  a node has that is behind is stored over what is there; the lookups that need more do
  not resolve, and nothing tells. 256 addresses count as none (:99).
* When the insert of a block is done and its answer lost, the row is there without
  transactions, and a later save of the block passes it over
  (postgres_block_store_writer.rs:183; `cut` in BlockStore).
* `get_write_session` asks for the write lock while its own read guard lives
  (postgres_session.rs:286), so that a session once closed is never replaced and
  the save waits for itself. `is_block_in_range` is true for every slot of an
  epoch that has a block (postgres_block_store_query.rs:52).

## 7. What is not modelled

* The QUIC transport, gRPC, JSON-RPC and WebSocket formats, TLS, metrics, logging
  and wording: data that no property tells apart. So are the contents of vote
  states and stake histories, what an account filter matches, the rows of
  Postgres tables and the binary file of address tables.
* RPC endpoints that pass one call on, argument parsing and start-up
  (`main.rs`, `cli.rs`, most of `bridge.rs`): no state of their own.
* A panic of the task that holds the lent stores of stakes and votes
  (stake_vote/src/utils.rs:64 unwraps): the stores would be lost with it.
* The tasks for cluster info and votes, which replace one value each, and the
  slot-progression task of `grpc_inspect.rs`, which compares a slot with the one
  before and logs.
* The Faithful history of the block store: calls of an external service.
* `src/cloud-run/go-block-engine`, `golang-engine` and `infrastructure` do not
  compile as they are: `predictor.go:140` declares `jitoBlock` and does not use
  it, `submitter.go` uses `prometheus` without importing it, `loadbalancer.go` a
  `Config` its package does not define, the MEV engine a `ProfitCalculator` and
  functions nothing defines. There is no running behaviour to be faithful to.
* The JavaScript services are prototypes: `solana-submit` installs no JSON
  parser, so that `/submit` never reads a transaction, and its validators are
  placeholders. The others, the Python handlers, the cloud functions and the
  monitors are stateless calls of external APIs.
* The load generators under `bench` and `benchrunner-service`, and the
  percentiles only they use.

## 8. The plan

Written: the modules of section 2, the twelve runs of section 3 and the proofs
of section 5.

Every safety property and every refinement that a run checks is stated by a theorem,
except `CalculationsAreRight`, of which one part is. What could be added:

1. A definition of sorting that can be reasoned about, from which that a schedule
   can be had back by slots (`SchedulesAgree`) would follow.
2. The safety that liveness rests on in AccountStreams: that a group is replaced only
   by one that has all its filters.
3. What the findings of section 6 that have no run leave open: each is a property
   that does not hold today and would be checked once the code has changed.

The tasks for cluster info and votes and the slot-progression task would be worth
a module only if they came to share state with others.
