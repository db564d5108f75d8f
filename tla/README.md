# VulcanDB: TLA+ models, model checking and proofs

VulcanDB is a database server for building models (IFC files).  This directory
holds TLA+ modules for its core logic, TLC configurations that check them on
small instances, and TLAPS proofs of most of what the safety runs check.  Paths below
are relative to the repository's `src/` directory.

## 1. The system

| Component | Source | State | Operations | Correct means |
|---|---|---|---|---|
| Stage | `backend/seda/stage.{h,cpp}` | event queue, `connected_`, `event_ref_`, pool and next stages | `connect`, `disconnect`, `add_event`, `remove_event`, `release_event`, `set_pool`, `push_stage` | every accepted event is served once and in order; `disconnect()` waits for all users and returns |
| Threadpool, KillThreadStage | `backend/seda/thread_pool.*`, `kill_thread_stage.*` | run queue, idle and thread counts, `threads_to_kill_` | `schedule`, `run_thread`, `add_threads`, `kill_threads`, `thread_kill` | no wakeup is lost, counts are exact, a kill retires the threads asked for and returns |
| StageEvent, CompletionCallback | `backend/seda/stage_event.*`, `callback.*` | stack of callbacks, callback mark | `push_callback`, `done`, `done_immediate` | one owner at a time; each callback runs once, on its stage, and is freed once |
| TimeoutInfo | `backend/seda/timeout_info.*` | reference count, deadline, `is_timed_out_` | `attach`, `detach`, `has_timed_out` | freed by the last user and not before; a deadline that has passed stays passed |
| SedaConfig | `backend/seda/seda_config.*` | pools, stages, stage names | `init`, `start`, `cleanup` | all running, or nothing left; no stage is deleted under an event |
| Server (connections) | `backend/server.cpp` | connection contexts, listening socket | `accept`, `recv`, `send`, `close_connection` | a request is whole, is answered once, and its context outlives it as long as its client does |
| SessionStage, SessionEvent | `backend/seda/session_stage.*`, `session_event.*` | request, response | `handle_event`, `handle_request`, `callback_event` | each event is answered and disposed of |
| Server process | `backend/main.cpp`, `pidfile.cpp`, `os.cpp`, `server.cpp` | pid file, socket path, event base, `started_` | start-up, `serve`, `shutdown`, clean-up, signal threads | a restart succeeds after any crash, a signal ends a serving process |
| VulcanClient | `client/vulcan_client.*` | connection, command | connect, send, receive | the reply shown belongs to the command |
| IfcCompressorImpl | `storage/compression/` | new numbers, match table, instances | `compress` | the compressed file says what the original said |
| WiredTigerDataStore | `storage/datastore/` | engine connection, sessions | open, close, get, upsert, insert, delete | as an atomic key-value map whose content survives a close |
| EXPRESS parser, TopoGraph | `express_parser/` | schema, dependency graph | parse, `add_edge`, `topo_sort` | every table once and after its supertype's; columns as declared |
| Parameters | `common/ini_parser.*`, `backend/vulcan_param.*`, `backend/main.cpp` | sections, options | load, get, put | precedence of option, file and default |
| Utilities, experiments, `ifcparse` | `common/`, `experiments/`, `ifcparse/` | - | formatting, logging, measuring; vendored parser | - |

How they interact.  `main()` instantiates SedaConfig, which creates pools and
stages and connects them, and then serves connections from one libevent loop.
The loop reads a request into the connection's buffer, wraps it in a
SessionEvent and calls `add_event()` of SessionStage.  That queues the event
under the stage's `list_mutex_` and, after the unlock, queues *the stage* on the
pool's run queue under `run_mutex_`; a worker takes the stage and then the event,
calls the handler, which pushes a callback, answers, and calls
`done_immediate()`.  Quit signals run `Server::shutdown()` on threads of their
own.  Pools are resized by kill events that travel through an internal stage.

What is hard here: three mutexes and three condition variables with work between
an unlock and the next lock; reference counts that a `disconnect()` waits for;
raw pointers handed from thread to thread; byte streams that end anywhere; crashes
that leave files behind; signals at any moment of the start-up; a rewriting loop
that ends when a counter says so; types and deadlines shared by pointer.  `PROJECT.json` lists each of these hazards with
its line and the properties that watch it.

## 2. Modules

| Module | Models | Role |
|---|---|---|
| `SedaPool` | Stage, Threadpool, KillThreadStage | state machine and its properties |
| `SedaPoolInv` | | the inductive invariants |
| `StageQueue` | what Stage's interface promises | abstract specification |
| `SedaPoolRefinement` | | `SedaPool` implements `StageQueue` |
| `SedaPoolProofs` | | proofs |
| `MCSedaPool` | | a two-stage pipeline for TLC |
| `SedaConfig`, `MCSedaConfig` | SedaConfig | taking a pipeline up and down, and configurations for TLC |
| `SedaConfigProofs` | | proofs |
| `StageEvents` | StageEvent, CompletionCallback | events above a stage queue |
| `StageEventsProofs` | | proofs |
| `EventTimeouts` | TimeoutInfo, the events' `tm_info_` | deadlines shared between events |
| `EventTimeoutsProofs` | | proofs |
| `ServerSession` | VulcanClient, Server, SessionStage | connections from end to end |
| `ServerLifecycle` | main, signals, pid file, serve/shutdown | processes that follow each other |
| `ServerProofs` | | proofs about both |
| `IfcCompressor`, `MCIfcCompressor` | IfcCompressorImpl | the compression, and files for TLC |
| `IfcCompressorProofs` | | proofs |
| `DataStore` | WiredTigerDataStore and its sessions | state machine, and the engine as the code uses it |
| `KeyValueMap` | what the store promises | abstract specification |
| `DataStoreProofs` | | proofs, `DataStore` implements `KeyValueMap` among them |
| `TopoGraph` | TopoGraph | the dependency graph and `topo_sort()` |
| `ExpressSchema`, `MCExpressSchema` | EXPRESS parser, PgSQLGenerator | extends `TopoGraph`; EXPRESS files for TLC |
| `ExpressSchemaProofs` | | proofs about the graph and about the generator that uses it |

`StageEvents`, `ServerSession` and `SedaConfig` do not repeat the pool: a stage's
queue there is what `StageQueue` promises, which `SedaPool` is proved to implement.
`EventTimeouts` rests in the same way on `OneOwner` of `StageEvents`, and
`ExpressSchema` extends `TopoGraph` and takes its steps.  That is how the modules
compose.

Definitions whose comment begins with *Variant* are plausible mistakes in the code.
No specification uses them; `PROJECT.json` names, for each property, a variant
under which TLC finds it violated.

### SedaPool

A step is a critical section: the code between `MUTEX_LOCK` and `MUTEX_UNLOCK` of
`list_mutex_` or `run_mutex_` is atomic, and `COND_WAIT` ends one step and begins
another.  `thread_mutex_` is held over several such steps by `kill_threads()` and
is a variable.  Variables carry the fields' names.  `wpc` and `cpc` say where a
worker is in `run_thread()` and a controller in `connect()`, `disconnect()` or
`kill_threads()`; `adding` marks a thread between `add_event()`'s unlock and its
`schedule()`.  `schedule()`'s same-pool shortcut depends on a thread-specific key
that the code never creates; what reading it gives is left open (`pool_key`).
Stages have one owner at a time, since SedaConfig connects and disconnects them
from one thread.

### StageEvents

`frames` is a worker's call stack: `done_immediate()` within a handler within a
callback is a stack of frames, each with the event it holds, whether it has
disposed of it, and the callback it will free.  Handlers are unconstrained except
that they dispose of the event as the class comments require.  An event's stack is
the least set of callbacks that holds its top and follows `next_cb_` (`Chain`).

### EventTimeouts

Each section under a TimeoutInfo's `mutex_` is a step.  An event belongs to a thread
or to a queue; the TimeoutInfo behind it is reached from every thread that owns an
event sharing it.  `set_timeout_info()` is two steps, detach and then attach, and
the object it is about to attach is held by the thread in between.  The clock is
`gettimeofday()`, which can be set back: `is_timed_out_` is what makes an answer
final, and `told` remembers which answers were given.

### SedaConfig

One thread runs `init()`, `start()` and `cleanup()`, one step per pool or stage;
the pools' threads take, handle and pass events on between these steps.  `obj` holds
every Stage object ever made, so that an object which no map points to any more is
visible as a leak and a deleted one as deleted.  A pool may get fewer threads than
it asked for, none included.

### DataStore

The engine is external: a table as sessions see it, what is on disk, a limit on
sessions; cursors overwrite, and each cursor call is a transaction of its own.
`insert_kv()` is two calls and so two steps.  `conn_` has no value before the first
open and dangles after a close; using it then is a crash, which the model makes
explicit.  An open that fails nulls `conn_` and returns 0 all the same.  Nothing keeps
a caller from a second open: the engine refuses it, `conn_` is null from then on, and
the engine, still open to its sessions (`running`), cannot be closed any more; what
they write is lost.  `CheckOp()` exits the process.  `phase` and `asked` are history:
whether the calls so far are those of an orderly caller, who opens and closes in turn,
asks for at most `SessionMax` sessions per open, and drops them before the close, as
the fixture of `tests/storage/test_wiredtiger_datastore_impl.cpp` does.

### TopoGraph and ExpressSchema

`add_edge`, and `topo_sort()` with one step per turn of its loops, in the ascending
order of `std::map` and `std::set`.  `ExpressSchema` adds what comes before and
after: the scan of the raw text that declares names, the pass of the grammar that
fills them in (the two can disagree about what the text contains), the edges, the
sort and the tables.  The commands `type` and `entity` climb to the root and print
types; `serialize_type_tree` stands for the types whose printing ends, `Luck` for what
a read behind `TYPE_NAMES` may do.  `sql` may find a file name without "/"
(`bare_name`), whose `substr()` throws.  An ENUM or SELECT of an attribute's own has no
name and no schema: the latter stops the parser, the former the generator.
Descriptors are shared by pointer in the code and by index here.

### ServerSession

Bytes are "x" or the terminator, sockets are bounded streams, so that messages
arrive in every possible cut and writes block.  `recv()` is split where another
thread can see a difference: before the lock, in the read loop (which keeps the
mutex and the loop on EAGAIN), at the end.  `accept()` may fail early (socket
closed) or when the event is registered (the listening socket is closed instead
of the client's, `server.cpp:230`).

A client may be killed with a command on its way or unanswered (`ClientKilled`).  The
loop then reads 0 and deletes the ConnectionContext, whoever still points to it
(`close_connection`); a worker that does has `freed` memory in its hands
(`UseDeletedContext`), of which anything may come that `DeletedContextUsed` lists,
another connection's client getting the reply included.  A worker that writes to the
dead client before the loop has noticed meets SIGPIPE, which nothing ignores and which
ends the server, or an error that `writen()` returns as a positive number and `send()`
takes for success (`SendToClosed`).  `stale` is history: a worker has used a deleted
context.

### ServerLifecycle

One `pc` per process walks through start-up, event loop and clean-up; each
external call may fail, a process may be killed between any two steps, and each
signal is a thread that reads `g_server`, `event_base_` and `started_` on its own.
Any number of signals may reach a process.  When the base a thread is about to use has
been freed, the call may end the process or do nothing (`LoopExitFreed`).

### IfcCompressor

An instance is an identifier, a type and a sequence of tokens (reference, number
or text with brackets around it).  `Standard` and `Renumber` are the two
`StandardContent()` functions as they treat brackets and numbers; `MergeInstance`
and `EndPass` are the loops of a pass.  The reference definition is separate: a
file is a graph, and `Tree` unfolds an instance.

## 3. Runs

All bounds are the constants in the `.cfg` files.  Each module has a `TypeOK` (`LifeTypeOK`, `GraphTypeOK`); it holds
under the module's configuration, and is proved where a proof module needs it.  The
runs list it for `SedaPool` only and spend the rest on what the hazards call for.

| Run | Bounds | Shows |
|---|---|---|
| `seda_safety` | 2 stages, 3 workers, 2 events, 1 producer, 1 controller, all spurious wakeups | exact reference counts and thread counts, queues that cover what is scheduled, no use after disconnect, no lost wakeup, no event handled twice, exact kill counts |
| `seda_service` | the same with 2 workers, fair | `StageQueue` is implemented; events are served; `disconnect()` and `kill_threads()` return |
| `session` | 2 clients, 2 workers, buffer of 3, socket of 2, messages of 1, 2 and 4 bytes, 2 commands each, kills of clients | only a killed client's requests lose their context; until a worker has used one, requests of living clients are not overwritten and replies match commands; every command is answered or its client hears that the connection is gone |
| `lifecycle` | 2 processes, 7 faults, kills, 3 signals | restart after any crash, files name the serving process, a freed event base met only by a signal thread that another one overtook, a signal ends a serving process |
| `events` | 2 events, 2 callbacks, 2 stages, 2 workers, 1 hop | one owner, callbacks intact and none dropped, called on their stage, every event ends |
| `timeouts` | 3 events, 2 threads, 2 TimeoutInfos, clock 0..1 | a TimeoutInfo lives as long as it is used, and a deadline that has passed has passed for all who share it |
| `seda_config` | 11 configurations of 2 stages and 3 pools, 0 to 2 threads, 2 calls of `init()`, 3 events | no stage used after its deletion, only a name listed twice leaks an object, calls return |
| `datastore` | 2 sessions, 2 keys, 2 values, 3 engine sessions | the store implements the map; `insert_kv()` replaces a value only in a race; an orderly caller meets no dangling pointer |
| `express` | every inheritance graph of 3 entities, 2 types used by 2 entities in 3 orders, 3-item texts that scan and grammar read differently | order and completeness of the sort, tables after their supertype's, columns as declared, every command ends, on legal files without stopping the program but for a bare file name (`sql`) and a file without types (`type`) |
| `compress` | files of 3 (broad) and 4 (deep) instances in both numberings | the output is faithful and merged exactly where equal; the passes end |
| `lifecycle_lost` | 1 process, 1 signal | *violated*: a signal during start-up is dropped (`main.cpp:125`) |
| `compress_nested` | references in nested lists | *violated*: a reference behind two brackets keeps its old number (`ifccompressor_impl.cpp:1148`) |

Why the bounds suffice.  Three workers and two stages give every combination the
pool's code distinguishes: one worker serving, one signalled and not yet awake,
one asleep; a stage being disconnected while another feeds it; killing all or some
of the threads.  Two events show order and overtaking.  A buffer of three with
sockets of two and messages of up to four exercises whole, cut and oversized
messages; two clients let one die while the other waits for its reply.  Two
processes allow a crash and a restart over what it left; of three signals two can race in one process while the
third comes during start-up or reaches the other process.  Three
events on two threads let one thread share a deadline that another is letting go of
while a third event keeps it in a queue; two clock values are before and after a
deadline.  Two stages in both orders of the map, linked forward, backward and in a
cycle, are what `cleanup()`'s loop distinguishes; two calls of `init()` show what the
first leaves behind.  Two sessions are a race, and the third engine session is the
one that a dropped session still occupies; a process may be restarted, opened and
closed any number of times.  Three entities give diamonds, chains,
one-sided declarations and cycles with something behind them.  Two
callbacks on one event show the cut of the list; two events show that they do not
mix.  Four instances give reference chains of depth four, forward and backward,
and cyclic and dangling ones (for which termination and faithfulness are not
claimed); three with pairs give merging over several passes.

Deadlock is checked in `seda_safety`, `timeouts` and `datastore`.  The other passing runs switch it off
because the system may stop: clients have sent all they will, processes are gone,
the file is written, the command is done, a waiting `cleanup()` has a pool without
threads, or nobody calls the pool.

Fairness.  Threads that can run do run (weak fairness of each thread's own steps;
the operating system's scheduler), handlers return, and nobody is obliged to send,
connect, resize or signal.  In `ServerSession`, `Accept` and `RecvBegin` have
strong fairness: libevent serves every active descriptor before it polls again,
so a connection that is ready again and again gets its turn.  In `SedaConfig`, taking an event from a stage has
strong fairness: the pool's run queue is first in, first out (`StageQueue`), so a
scheduled stage gets its turn whatever else is scheduled again and again.  The
EXPRESS commands are one sequential program that runs on.  `EventuallyServed`
and `DisconnectReturns` assume that the pool has threads again and again.

Two disagreements between code and comments are runs of their own.  Further ones
are stated in the modules, and TLC shows them when a configuration names them:

| Definition | Setting | The code | The comment |
|---|---|---|---|
| `SedaPool!KillReturns` | one stage, 2 workers, `SpuriousConds = {"thread"}`, `FairSpec` | `kill_threads()` may hang (`thread_pool.cpp:138`) | "Blocks until the requested number of threads are killed" (`thread_pool.cpp:105`) |
| `SedaPool!KillAlwaysReturns` | `InitialThreads = {}`, `FairSpec` | waits with nothing to kill | the same |
| `SedaPool!OneKillTransaction` | 2 controllers | a second transaction begins too early (`thread_pool.cpp:119`) | "allow only one thread kill transaction at a time" (`thread_pool.cpp:118`) |
| `ServerSession!EventsAreDeleted` | `AcceptFaults = {"early"}`, `FairSpec` | SessionEvents are never deleted (`session_stage.cpp:99`): the callback does not call `done()` | - |
| `ServerSession!SuccessMeansMessage` | as `session` | a closed connection is reported as success | - |
| `StageEvents!EntireStackInPlace` | 1 event | `done_immediate()` queues the rest of the stack (`stage_event.cpp:67`) | "this will execute the *entire* callback stack on the current thread" (`callback.h:40`) |
| `ServerLifecycle!RemovesOwnPidFile` | `Overlap = TRUE` | an old process removes its successor's files | - |
| `IfcCompressor!Lossless` | as `compress` | coordinates are rounded although not asked for | - |
| `SedaConfig!InitFailLeavesNothing` | as `seda_config` | some paths return INITFAIL without clearing | "if returns INITFAIL or PARSEFAIL then mThreadPools and stage list are empty" (`seda_config.h:113`) |
| `SedaConfig!CleanupDeletesAll` | as `seda_config` | `stage_names_` survives, and a second `init()` makes stages that nobody deletes | "all stages_ disconnected and deleted" (`seda_config.h:120`) |
| `DataStore!InsertsOnlyNewKeys` | as `datastore` | two sessions may both find a key absent (`wiredtiger_datastore_impl.cpp:125`) | "false if the key already exists" (`wiredtiger_datastore_impl.cpp:115`) |
| `ExpressSchema!UsageWorks` | `Files <- OneSchema` | `sql` throws `out_of_range` for a file name without "/" (`express_parser_cli.cpp:258`) | "Usage: ... -f <file.exp>" (`express_parser_cli.cpp:188`) |
| `ExpressSchema!ListsKept` | `Files <- TypedFiles` | an attribute writes its list flag into a shared type (`express_defs.c:227`) | `is_list` marks whether the current type is a list (`express_defs.h:77`) |

## 4. Proofs

All proofs are for every value of the constants: any number of stages, threads,
events, callbacks, clients, processes, deadlines, sessions, keys or nodes, and any
size of buffers and messages, any configuration, file or schema.
`KillTransactionsAreSerial`, `ServerReachable`, `RestartNotBlocked` and the theorems about the
compressor have a hypothesis of their own, discussed below.

| Module | Theorem | States |
|---|---|---|
| `SedaPoolProofs` | `TypeCorrect` | `TypeOK` always holds |
| | `ReferencesAreExact` | `event_ref_` is exactly the outstanding work (`RefCount`) |
| | `QueuesCoverTickets` | `remove_event()`'s assertion holds and no event is stranded |
| | `StagesOutliveTheirUsers` | `NoUseAfterDisconnect` |
| | `ThreadsAreCounted` | `nthreads_` and `n_idles_` are exact |
| | `KillEventsAreCounted` | `threads_to_kill_` counts the kill events not acted upon (`KillCount`) |
| | `KillTransactionsAreSerial` | one controller: no kill transaction begins inside another (`OneKillTransaction`) |
| | `WakeupsAreNotLost` | `NoLostWakeup` |
| | `EventsHaveOneOwner` | an event is on one queue once, or in one worker's hands (`EventOwnedOnce`) |
| | `PoolImplementsStageQueue` | `SedaPool` implements `StageQueue` |
| | `InvariantHolds` | the inductive invariant |
| `StageEventsProofs` | `EventHasOneOwner` | one queue entry or one active handler per live event (`OneOwner`) |
| | `CallbacksSafe` | no callback is dropped, freed twice or freed before its call (`CallbacksIntact`) |
| | `CallbackRunsOnItsStage` | a rescheduled event waits at its top callback's stage (`CalledBackOnItsStage`) |
| `SedaConfigProofs` | `NoUseAfterDeleteHolds` | no stage is deleted that a thread, an event or a stage at work still leads to (`NoUseAfterDelete`) |
| | `OnlyRepeatsLeakHolds` | the map loses a stage only to a name listed twice (`OnlyRepeatsLeak`) |
| | `ClearConfigAsserts` | `clear_config()`'s assertion holds, and the stage is at rest |
| | `TypesKept` | `TypeOK` always holds |
| `ServerProofs` | `ContextSafe` | clients may die at any point: only a killed client's requests lose their context (`ContextOutlivesRequests`) |
| | `BufferSafe` | until a worker has used a deleted context, the request of a living client is not overwritten (`RequestNotOverwritten`) |
| | `RequestReply` | until then, at the prompt nothing is left under way (`OneRequestOneReply`) |
| | `ServerReachable` | no overlap: path and pid file name the process that serves (`Reachable`) |
| | `RestartNotBlocked` | no overlap: leftovers keep nobody from starting (`RestartSucceeds`) |
| | `ShutdownMeetsLiveBase` | any number of signals: a thread meets a freed event base only when another one overtook it (`NoUseAfterFree`) |
| `EventTimeoutsProofs` | `InfosLiveWhileUsed` | a TimeoutInfo is deleted by the last event that lets go of it and never before |
| | `PassedIsPassed` | `TimedOutForGood`, whatever the clock does |
| | `TimeoutTypes`, `TimeoutInvariant` | types, the inductive invariant |
| `DataStoreProofs` | `StoreIsAMap` | `DataStore` implements `KeyValueMap` |
| | `InsertsRace` | `insert_kv()` replaces a value only in a race (`InsertReplacesOnlyInRace`) |
| | `OrderlyCallersAreSafe` | an orderly caller meets no dangling pointer (`OrderlyCallsAreSafe`) |
| | `StoreTypes`, `StoreInvariant` | types, the inductive invariant |
| `IfcCompressorProofs` | `FlatFilesKept` | one bracket at most: the output says what the input said (`Faithful`) |
| | `FlatFilesMergedExactly` | the same files: merged exactly where equal (`MergesExactlyEqual`) |
| | `CompressorInvariant` | the inductive invariant |
| `ExpressSchemaProofs` | `SortIsOrdered` | every node once and after its predecessors (`Ordered`) |
| | `DegreesAreExact` | `in_degree_` is the number of predecessors still to be followed |
| | `LeftOutNodesWait` | what is left out has a predecessor that is left out |
| | `SortLeavesOutCycles` | the sort leaves out cycles and what is behind them, nothing else (`LeavesOutCycles`) |
| | `SchemaImplementsGraph` | `ExpressSchema` implements `TopoGraph`: the theorems above hold of the program |
| | `TablesInOrderHolds` | a table for each entity of a hierarchy, the supertype's first (`TablesInOrder`) |
| | `TypesInvariant` | after the two passes, types and attributes are as the text declares them, and a type's list flag is what its declaration and its users make of it |
| | `ColumnsAsDeclaredHolds` | every column has the type its attribute is declared with, where each type is used one way (`ColumnsAsDeclared`) |
| | `GraphInvariant`, `SchemaInvariant` | the inductive invariants |

### SedaPool

Assumptions: the sets of threads are finite and disjoint, the kill stage and its
event are not pipeline ones, sizes are natural numbers (`ThreadAssumption`,
`StageAssumption`, `SizeAssumption`); any condition may wake spuriously.

The argument.  None of the counting properties is inductive: that `event_ref_`
drops by one when a worker releases a stage is only harmless if that worker was
counted, and that depends on where it is.  `IInv` therefore adds `ControlInv`:
what a worker holds is determined by its program counter, kill events stay on
the kill stage's queue, a controller owns its target, `thread_mutex_` is held
exactly in the phases the code holds it, the kill stage is connected exactly
during a kill transaction, and a stage that is neither connected nor being
disconnected has no references.  The first part of `SedaPoolProofs` shows that every
action preserves types and control, one lemma per conjunct and one step per action.
The second treats each summand of the reference count as the
cardinality of a set (lemmas `OccurrencesAppend`, `AddersSet`, `ServersClear`,
`OwedSchedule`, ...), shows that each action moves one unit from one summand to
another or changes the count with it (`BalanceStep`), and does the same for the
thread counts (`CountStep`).  `NoUseAfterDisconnect` follows from `IInv` because
`th_pool_` is cleared only at reference count zero, and a sum of naturals that is
zero has no positive summand.

Kills.  `KillCount` says nothing while `kill_threads()` still generates events, which
is when it would break; `KillControl` adds that phase: asked for = still to generate +
queued + in a worker's hands.  That `OneKillTransaction` needs a single controller is
the code's own weakness (section 3).  In the program `kill_threads()` is called by the
pool's destructor only, which SedaConfig runs on one thread, so the hypothesis
`\A c, d \in Controllers : c = d` holds of it.

Wakeups.  `NoLostWakeup` is inductive relative to `IInv`.  Each step adds one entry to
the run queue and wakes a worker, or puts one worker to sleep on an empty queue, or
takes one entry and keeps the worker that took it awake (`WakeStep`).  Two cases need the rest
of `IInv`: `schedule()` without a signal, where its idle count, exact by
`ThreadCounts`, shows that nobody sleeps or that the caller itself is an awake worker
of the pool; and kill events, whose workers do not come back but took an entry with
them.

Owners.  `EventOwnedOnce` bounds a cardinality; `OwnerControl` says the same with
positions and pairs, which is what steps preserve.

Refinement.  The committed part of a stage's queue is a prefix whose length is
`Tickets(s)`, a sum over adders, run-queue entries and workers.  `TicketsAre` turns it
into `event_ref_[s]` less the handlers at work, so that each action changes it by at
most one, and the simulation is a statement about sequences: an arrival extends the
committed prefix or the rest, a removal takes its head, `connect()` commits everything.
`OwnerControl` is needed where a handler finishes: the event it held must not be held
by another.  One lemma per action of `SedaPool`, joined in `SimStep`.

### StageEvents

Assumption `EventsAssumption`: `None` is no callback.  The ownership half of the
invariant says that a frame below another has disposed of its event
(`CallersDisposed`), so that only innermost frames hold one; then a holder, a queue
position and life are mutually exclusive and exhaustive (`OneHolder`, `OnePlace`,
`HeldOrQueued`, `OwnedIsLive`).  The callback half describes the linked lists locally:
links stay among waiting callbacks of the same event (`Links`), nothing leads to a top
and no two callbacks to the same one (`LinksApart`), and whatever waits is found from
its event's top (`Found`).  Reachability is the part without local reasoning; as a
least closed set it is proved from above by exhibiting a closed set and from below by
minimality, without induction over the length of a list.  `RunOnce` keeps two frames
from freeing the same callback, `Marked` ties `cb_flag_` to the queue of the top
callback's stage.

### ServerSession

Assumption `SessionAssumption`: sizes are natural numbers, buffers have room for a
byte, thread names are distinct.  None of the three properties is inductive: the
server deletes a context without looking for requests, and what protects it is that
VulcanClient, while it lives, does not write or close between a command and its reply.
A client that is killed there is part of the model and of the theorems, which say how
far the damage goes: until a worker acts on a deleted context, no other connection is
touched; after that nothing is claimed but that a client was killed.  The invariant
is therefore in two parts, one that always holds and one that holds until then
(`SessionInv`).  It says where that protocol stands, per connection: in the client's hands, in transit,
in service, answered, or abandoned by a killed client (`Phases`), with the terminator at the end of the stream it
is in and nowhere else.  From it, `recv()` never runs for a connection with a request
of a living client (`Receiving`), a connection has one request at most (`OneRequest`), and one with such a
request is open while the server runs (`RequestsLive`).  The bytes are handled by lemmas about
prefixes and suffixes of messages that end with their terminator.

### ServerLifecycle

Assumption `LifecycleAssumption`: any set of processes, of signals and of calls that
fail.  `ServerReachable` and `RestartNotBlocked` assume `~Overlap`: a process is
started when the previous one is gone.  The code does nothing to enforce it (it neither
locks nor reads the pid file before it starts), and with overlap they fail, since an
old process removes its successor's files (section 3, `RemovesOwnPidFile`); they are
what an operator, or a supervisor that waits for the exit, can rely on.  `FilesInv`
says who owns path and pid file at each point of the start-up.
`ShutdownMeetsLiveBase` has no such hypothesis and is about any number of signals.
Two threads may both pass the test of `started_`; the slower one may then use a base
that `serve()` has freed.  The theorem says that nothing else leads there: `serve()`
frees the base only after the loop was told to end (`LoopEndsByExit`), only a thread
that is through with `shutdown()` tells it so (`ExitByThread`), and a thread past the
test has met the base that `serve()` made (`ShutdownFindsBase`).  So a single signal
never meets a freed base.

### EventTimeouts

Assumption `TimeoutAssumption`: finitely many events; `None` and `"queue"` are not
objects.  `LiveWhileUsed` alone is not inductive: a thread between the detach and the
attach of `set_timeout_info()` is about to use an object that its event does not
count yet.  The invariant counts (`RefCountExact`: `ref_cnt_` is the number of events
attached) and says where such a thread has the object from (`SourcesKept`): another
event of the same thread holds it, or it is new and nobody else knows it.  So the
last detach anywhere else finds a count above one.  `ReleaseInv` is the heart of the
proof: a release by one thread keeps the sources of all others, because no two
threads own the same event (`ActsOnOwn`).

### DataStore

Assumption `StoreAssumption`: `None` is no value, the limit is a natural number.
The invariant says that sessions are good only while the engine is open
(`OpenWithConnection`), and that a key which `insert_kv()` found absent stays absent until another session writes it
(`AbsentUntilTouched`).  `CallerKnows` ties the caller's history of calls to the state: outside,
the engine is closed and no session is held; inside, `conn_` is open or null, no
session dangles, and the connection has no more sessions than were asked for.
`OrderlyCallsAreSafe` follows from it, because an open that fails overwrites the pointer
that the last close left dangling.  The refinement maps the table to the map's content while the
engine is open, in reach or not, and the disk to what a reopening finds; `MapNext` shows, action by
action, that each step is a step of the map or a stutter.

### SedaConfig

Assumption `ConfigAssumption`: a configuration lists names of pools and stages and says
for each stage its pool and its successors; it may list too little, too much or
something twice.  `NoUseAfterDelete` is a matter of time: while one stage waits in
`disconnect()`, others still pass events on, also to stages that are already
disconnected.  The invariant says that a stage at work is in the map and still to be
disconnected (`OnTheMap`), that only the stage whose `disconnect()` waits has events
without being connected (`Draining`), and that a stage at work leads to live stages
only (`LinksAlive`); so when the loop of `clear_config()` begins nothing is at work
(`Quiet`).  `Linked`, `FromList` and `ToDelete` follow the loops of `init()` and
`clear_config()` over list and map, and carry `OnlyRepeatsLeak` across a second call.

### IfcCompressor

Assumption `CompressorAssumption`: a file is a sequence of instances with tokens as
contents.  The theorems are about files in which a reference has one bracket before and
behind it at most (`Flat`); `compress_nested` is the counterexample for the others.
The invariant follows a number from both ends.  Every number given out belongs to one
kept instance, found by its type and content (`Reps`); every old identifier with a
number got it by its rewritten content, and all its references had theirs by then
(`Based`): numbers are never changed, so that content is the same whenever it is
computed again.  What waits is as it was read or rewritten as a whole (`Waits`), nothing
read is lost (`Covered`), and the counter is what waits (`Counted`), so at zero all have
numbers.  `Faithful` follows at once.  For `MergesExactlyEqual` two instances with the
same number have the same rewritten content, and two with the same tree too, by
induction on the depth of the trees.  The library's induction theorems cannot be
instantiated by the provers installed; the induction, and the existence of the
recursive functions `Tree` and `Acyclic`, are proved from the least natural number of a set
(`LeastNatural`, from `WFMin`) instead.

### TopoGraph and ExpressSchema

Assumption `NodesAssumption`: a finite set of integers.  `in_degree_` is tied to the
cardinality of `Outstanding(n)`, the predecessors whose edge has not been followed.
Following an edge removes exactly one element, so zero means that all predecessors
are out, and a node enters the queue exactly once (`Apart`).  For
`LeftOutNodesWait` the invariant is joined by `Complete`: a node that waits for
nobody is queued, put out, or still to be scanned.  `LeavesOutCycles` speaks of paths of
any length.  `Reach` is a least closed set, so no induction over paths is needed: what is not put
out, or comes later in the order, is closed under edges and shows that nothing put out
is on or behind a cycle; and of the left-out nodes before a left-out node, one with a minimal set of
left-out nodes before it is on a cycle.

Assumption `FilesAssumption`: a text is a sequence of items, its descriptors have nodes,
`None` is no name and list flags are Boolean; texts may be broken in any way.  Each step of the program that
touches the graph is a step of it and the others leave it alone
(`SchemaImplementsGraph`).  `SchemaInvariant` adds what the two passes over the text have
done: the scan listed the entities (`Listed`), the grammar filled in their subtypes
(`Filled`), the generator linked exactly these (`EdgesLinked`) and wrote its tables in the
order found (`Emitted`).  `TablesInOrder` then follows from `SortIsOrdered` and
`SortLeavesOutCycles`, since a cycle of the graph would be one of supertypes.

For the columns, `TInv` says the same of types and attributes: each type of the text has
one descriptor (`TypesListed`) with the base and the reference declared (`TypesFilled`),
each attribute the type it names (`AttrsFilled`).  The shared list flag is the difficult
part: `ListsMarked` says that, where types are used one way, it is the flag declared or
that of some attribute read so far, whichever declaration came last.
`typecast_express_to_sql()` follows the references; `ChainEnds` finds where it arrives
(an attribute for which it does not arrive ends the program before its table is written)
and `ChainIsDerivation` shows that it passes exactly the declarations the type is derived
from, `Derivation` being the least set closed under "derived from".  `ListFlags` then
shows that the flags met on the way add up to what was declared.

### Only model-checked

All liveness properties: the prover handles neither fairness nor ENABLED.  They are
`EventuallyServed`, `DisconnectReturns`, `KillReturns`, `ReplyArrives`, `SignalStopsServer`, `EventsEnd`,
`CallsReturn`, `CommandEnds` and `Terminates`.  Every invariant that a run checks has a theorem.

## 5. Not modelled

- Parameters (`IniFile`, `VulcanParam`, the command line): read once by one thread;
  a property of them would restate a lookup.  Reading showed that `IniFile::put()`
  does not replace an existing value and that `main()` parses its options in two
  loops; neither is reached by an interleaving or a failure.
- `start_tcp_server()` cannot be reached (`init_server()` always asks for a unix
  socket); event history is off in the build, and `run_thread()` asks for deadlines
  only with `ENABLE_STAGE_LEVEL_TIMEOUT`, which `EventTimeouts` assumes.
- Sharing an event's deadline with that event itself; how long a pointer returned by
  `get()` of the store stays valid; `get_stage_queue_status()`, which nobody calls.
- The uncalled overloads of `IfcCompressor()`; commas inside strings; CSV reports.
- The lexer and the grammar's tables, SQL wording, logging and measuring: formatting
  without state.  Of the EXPRESS schema, bounds of lists, OPTIONAL and UNIQUE.
- `experiments/` are measuring programs.
- `ifcparse` is the vendored IfcOpenShell library with schemas generated from
  EXPRESS files: more than 99% of the repository's lines, and none of VulcanDB's own
  logic.

## 6. Plan

1. *Done:* `SedaPool` with its abstract specification and proofs; `StageEvents`,
   `ServerSession`, `ServerLifecycle`, `IfcCompressor`; `SedaConfig`, `EventTimeouts`,
   `DataStore` with its abstract map, `TopoGraph` and `ExpressSchema`; the proofs of
   section 4.
