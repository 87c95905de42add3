# A verification development of acul

acul is a C++ library of base components: containers, strings, smart pointers,
events, tasks and services with threads of their own, a reader/writer mutex, a
log, and an asynchronous cache of temporary files. This directory models its
concurrent core and its containers in TLA+, model-checks them with TLC on small
instances and proves, with TLAPS, the safety properties of the mutex, the
services, the cache, the shared pointers, the functions, the disposal queue, the
strings, the vectors, the streams and both hash tables for every number of
threads, clients and objects.

Paths below are relative to the repository. `PROJECT.json` holds the same
information in a form for tools: which definition models which lines, the
hazards of the code, the mutants every property is tested against.

## 1. Inventory

### Components that are modelled

| component | state it keeps | operations | how it interacts |
|---|---|---|---|
| `shared_mutex` (`include/acul/shared_mutex.hpp`, `src/__os_*_shared_mutex.cpp`, `src/shared_mutex_hint.cpp_`) | one atomic int per hardware thread; a thread-local entry index drawn from a global counter | `lock_shared`, `unlock_shared`, `lock`, `unlock` | sleeps in the kernel on an entry; used by the cache |
| `exclusive_lock`, `shared_lock` | a reference to a mutex | constructor, `lock`, `unlock`, destructor | calls the mutex; is handed to `condition_variable_any` by the cache |
| `service_dispatch` (`include/acul/task.hpp`, `src/task.cpp`) | services, `_running`, a mutex and a condition variable, one worker thread | `run`, `register_service`, `notify` (of its services), destructor | calls `dispatch()` of every service in turn and sleeps until the earliest time they asked for |
| `shedule_service` | a concurrent priority queue of timed tasks, `_busy` | `add_task`, `dispatch`, `await` | clients add tasks and wait; the worker runs them |
| `log_service` (`include/acul/log.hpp`, `src/log.cpp`) | loggers, a concurrent queue of messages, `_count` | `log`, `vlog`, `dispatch`, `await`, `add_logger`, `remove_logger` | clients log and wait; the worker, or a client, writes |
| JATC `cache` (`include/acul/io/fs/jatc.hpp`, `src/io/fs/jatc.cpp`) | per entrypoint a file stream, a `shared_mutex`, a condition variable, `op_count` | `register_entrypoint`, `deregister_entrypoint`, `add_request`, `read`, `filter_index_entries`, `await` | request tasks run on a TBB graph, deregistrations on a `thread_dispatch` |
| `hashmap`, `hashset` (`hash/detail/raw_hash_table.hpp`) | one array of buckets that hold elements and the chains between them | insert, assign, erase, extract, merge, rehash, reserve, copy, move, swap | holds the groups of the events; calls the comparison of its keys |
| `hl_hashmap`, `hl_hashset` (`hash/detail/raw_hl_hashtable.hpp`, `hl_hashmap_*.hpp`) | elements by bucket, a control byte per bucket, a mirror of the first group | the same | |
| `list`, `forward_list` | nodes with one or two links, the ends | push, pop, insert, erase, resize, assign, remove, unique, reverse, sort, merge, splice, copy, move, swap | splicing moves nodes between lists |
| `vector` | a block, a size, a capacity | push, pop, insert, erase, resize, reserve, assign, copy, move, swap, release | holds the bytes of a stream, the listeners of a group |
| `string` (`string/string.hpp`) | a literal, characters in the object, or a block | construction, append, assign, erase, replace, resize, `operator+`, copy, move, swap | |
| smart pointers (`memory/smart_ptr.hpp`) | a control block with two counts | `make_shared`, copy, move, reset, `lock`, `shared_from_this` | tasks and responses are held by them |
| `function`, `unique_function` | a target in the object or behind a pointer, a table | assign, copy, move, swap, reset | callbacks of every other component |
| events (`event.hpp`) | a hash table of groups of listeners | bind, unbind, `unbind_listeners`, `clear` | its table is a `hashmap` |
| `disposal_queue` | a concurrent queue of buffers with callbacks | `push`, `emplace`, `flush` | callbacks may push |
| `bin_stream` | bytes, a position | write, pad, align, read, seek | its bytes are a `vector` |

What makes each correct, and what is hard about it:

- **shared_mutex**: exclusion, exact reader counts, no lost wake-up, calls that
  return. A writer takes the entries one after the other while readers move
  elsewhere; wake-ups go to sleepers of several entries; compare-and-swap may
  fail spuriously.
- **guards**: balanced locking whatever is locked and unlocked by hand.
- **service_dispatch**: the worker sleeps no longer than the services allow, and
  stops. `notify()` does not take the mutex.
- **shedule_service**: no task lost, doubled or early; `await()` waits for the
  tasks it should. A task is out of the queue while it is looked at.
- **log_service**: order, no write to a freed logger, an exact counter,
  `await()` that flushes. Two threads may be in `dispatch()`; `remove_logger()`
  waits for nothing.
- **cache**: exclusive writes, entries that read back what was written, an
  entrypoint freed only at rest, waiters that are woken. Errors leave by `goto`;
  readers share a stream position; a filter works outside the lock; `unlock()`
  still uses the mutex after its release.
- **hash tables**: they hold the map a client expects. In the chained one an
  element that occupies the home of a new key moves, and every chain must stay
  reachable from its home; in the open one a removal shifts elements back, and
  no probe may end before a key that is there, round the end of the table and
  through the mirror.
- **lists**: every link and both ends change together, in two lists at once when
  nodes are spliced.
- **vector**: every object is built once and destroyed once, whatever slots the
  elements behind an insertion move to.
- **string**: size, text and terminator go along when the storage changes.
- **smart pointers, functions**: what is owned lives exactly as long as its
  owners, when two kinds of owners end in any order or an object watches itself.
- **events**: no listener of an owner is left in any group after
  `unbind_listeners`, which erases from the table it iterates over.
- **disposal_queue**: each buffer is freed once and after its wait, with several
  threads in `flush()` and callbacks that push and throw.
- **bin_stream**: what was written is read, also from a stream that was cut.

### Not modelled

- `task` and `thread_dispatch`: all they do concurrently is TBB's (a
  `task_group` with its context); what is theirs is one promise per task.
- `events::dispatcher::dispatch` and cached groups: a listener that binds or
  unbinds in its own group leaves the loop of `event.hpp:158` on a vector that
  may have been freed, so there is nothing to be kept; without such listeners it
  is a loop over an unchanging vector.
- `unique_ptr`, `proxy`, `destructible`, `paos`: a model would restate their
  assignments. The headers `deque.hpp`, `queue.hpp`, `map.hpp`, `set.hpp` are
  aliases.
- Text (views, conversions, formatting, paths, log patterns, locales), calls of
  the operating system (files, ipc), stack traces (ELF, DWARF, minidumps), CRC32
  and its SIMD variants, CPU detection, compile-time helpers.
- Of the modelled components: `register_service()` beside a running worker;
  compressed entries, failing rewrites, several entrypoints and
  `cache::await()`; `raw_hl_hashtable::erase(first, last)`, which counts wrongly;
  `list::sort`, and of `forward_list` the splice of a whole list, which lose
  nodes.

## 2. Modules

```
RWLock                 abstract reader/writer lock
  ^ implemented by
SharedMutex            the mutex, both builds
  ^ EXTENDS
LockGuard              scoped guards, as scripts of calls

ServiceDispatch        worker thread, condition variable, clock
  ^ EXTENDS                ^ EXTENDS
SheduleService         LogService
        ^ EXTENDS  ^
        Services       both services on one worker

JatcEntrypoint         one entrypoint of the cache

MapCalls               what calls make of a map
  ^ EXTENDS
KeyMap                 abstract maps and the steps that change them
  ^ implemented by
ChainedTable  HlTable  the two hash tables
  ^ EXTENDS
EventDispatcher        groups of listeners in a chained table

Seqs                   what calls on sequences return
  ^ compared with
List  ForwardList      nodes and links (both EXTEND NodeLists)
Vector  BasicString    blocks of slots, of characters

SharedPtr  Callable  DisposalQueue  BinStream

Objects                pointers, functions, the queue, strings, vectors,
  ^ EXTENDS            streams and tables, one at a time
MCContainers           these or a list
  ^ EXTENDS
MCLibrary              these or the events
```

`Alloc` is `get_growth_size()`, shared by the containers. The theorems about a
module `M` are in `MProofs`, which EXTENDS it: `ServicesProofs` (also on the
scheduler and on the log, which `Services` EXTENDS), `ChainedTableProofs` and
`HlTableProofs`. `LockProofs` is about `SharedMutex` and `JatcEntrypoint`,
`MemoryProofs` about `SharedPtr`, `Callable` and `DisposalQueue`, `StorageProofs`
about `Vector`, `BinStream` and `BasicString`, and `SeqsProofs` has the lemmas
about sequences, about maps, about `Alloc` and about recursive functions that
the strings, the vectors, the streams and the tables share.
`Objects` takes the proof modules of its components as instances, so that a
component and what is proved of it come under one name, and has its own theorems.

`MC*` modules give the constants their values; each has one `.cfg` per run.

**SharedMutex.** `val` is `_el[e].wr_lock`, `hint` is `g_idx_hint` modulo the
number of entries (only its residue is used), `idx` the thread-local index, `cur`
the local the code loads into, `i` the loop variable of `lock()` and `unlock()`.
`pc` names the place in the code: `ls_` in `lock_shared`, `us_` in
`unlock_shared`, `l_` in `lock`, `u_` in `unlock`. Every load, compare-and-swap
and system call is an action. `FutexWait` compares and sleeps atomically, as the
kernel does; `Interrupt` is `EINTR`, after which the Linux code repeats the call
with the same expected value; `WakeAll` resumes every sleeper of an entry. The
constant `Linux` selects the build: the Windows one yields in `lock()` instead of
sleeping and retries in `unlock()`. `SpuriousFailure` lets a weak exchange fail
although the value matches, which x86 never does and ARM may. Integers wrap at
`MAX_INT` (`Inc`, `Dec`), and `HasWriter` is the sign bit. `mode` is what the
caller holds: it becomes `"none"` when the first entry is released, which is when
others can get in. `RWLock` is the lock callers expect, with readers and writers
as sets; the refinement mapping is `mode`.

**LockGuard** runs a script of guard calls per thread; the destructor is the last
call and unlocks whatever happened before, as the code does. The script that is
checked is `test_manual_lock()` of `tests/shared_mutex.cpp`; guards that hold
the lock at their end add nothing to the calls of `SharedMutex`.

**ServiceDispatch** has the worker's loop: `dispatch()` of the services in turn
(`Turn`, `DispatchReturns` with the minimum of their times), then `WorkerWait`,
then sleep until `Timeout`, `Notify`, `SpuriousWake` or `Shutdown`. The test of
`_running` and falling asleep are one step because `_mutex` is held over both and
only the destructor takes it too; `Notify` takes no mutex and is a step of its
own, without effect on a worker that is not asleep. Services are registered
before the worker starts; registering one later is a data race on the vector.

**SheduleService** has one action per operation on the queue and per access of
`_busy`, so that clients can come in between: `Begin`, `TestEmpty`, `SetBusy`,
`TryPop`, `RunTask`, `ClearBusy`, `Repush`, `ReturnDue` are `dispatch()` in its
order; `AddTask` and `AddTaskNotify` are `add_task()`; `AwaitEmpty` and
`AwaitBusy` the two operands of the condition in `await()`. A handler may add a
task (`SpawnTask`). `ran`, `dropped`, `missed`, `mine` and `latest` record what
happened and feed nothing back.

**LogService** has `Vlog` (the counter), `VlogPush`, `VlogNotify`, and `Pop`,
`Write`, `Count` for `dispatch()`, indexed by who runs it. `LogAwaitForce` is
`await(true)`, which returns at once and leaves the counter alone. Every client
owns a logger and may remove it between any two of its calls, as
`remove_logger()` has no precondition. `dangling` records the messages that were
queued or popped, and not written, when their logger was freed: a `write()` of
one is undefined, and the message is written or is not. The places `"awaited"`,
`"forced"` and `"dispatched"` tell which call a client is back from.
`ClientDispatch`, a client that calls `dispatch()` itself, is part of
`ClientDispatchSpec` only. A client adds or removes one logger in one step: two
clients that do so at once race on the table of loggers, which is not modelled.

**Services** is the composition, a worker that alternates between the two; its
steps are those of its parts, with the other part unchanged. `DispatchedRemovalSpec`
is the order of calls at `tests/log.cpp:45-49`: a client removes its logger only
when it is back from its own `dispatch()` loop.

**JatcEntrypoint** follows `write_to_entrypoint()` from `add_request()` to the
final `unlock()` (`RequestLock`, `WriteSeek`, `WriteData`, `WriteFails`,
`Account`, `Answer`, `RequestNotify`, `RequestUnlock`), `read()` with its wait on
the condition variable, `filter_index_entries()` with `rewrite_file()`, and the
task of `deregister_entrypoint()`. The file is a sequence of cells and `cursor`
the one position the stream has for reading and writing; `app` says that it was
opened to append (`get_file_stream()`) and not to rewrite, which decides where a
write goes. The mutex is taken and released in one step on a single entry;
`UnlockExclusive` clears the entry without asking who holds it, as the exchange
of `unlock()` does. What `unlock()` does after that (`futex_wake()`, the test of
its loop) is a step of its own, `RequestLeave`: a request at `"leave"` has let
others in and still uses the mutex inside the entrypoint.

A filter has a step for each thing it does: the shared lock and its wait
(`FilterReadLock`, `FilterTest`), the end of the block (`FilterRelease`), then,
without the lock, `FilterStream`, `FilterSeek` and `FilterRead` for every entry,
`FilterClose` or `FilterFails`, and then `FilterCount`, `FilterLock`,
`FilterRewrite` and so on. `JatcSpec` lets everybody in between, and entries are
lost (finding 5). `FilterAlone` is what a client has to keep to: that no request
is added and nobody reads from the call until the stream is closed. In
`JatcFilterSpec` requests are added after the filter has waited for `op_count` 0
and not before. Always, the client gives up the entries it does not list, and
reads none of them.

`RequestFails`, the `goto on_error` before the lock, is part of `JatcFailingSpec`
only (finding 7). Not modelled: compressed entries, a failing `rewrite_file()`,
several entrypoints, `cache::await()`, and two threads inside one operation of
the stream, which is a data race: operations follow each other in any order.

**ChainedTable.** A table is a record: `slot` maps each bucket to `Free` or to an
element with the index of the next bucket of its chain (its own for the last),
as `_values` and `_next` do; `filled` and `last` are `_num_filled` and `_last`.
Calls are operators on tables (`Emplaced`, `Erased`, `Rehashed`, `Merged`), built
from the functions of the class with their names (`FindEmptyBucket`,
`KickoutBucket`, `FindPrevBucket`, `RehashFindEmpty`), and an action per call. A
second table `tab_other` lives while a call of two tables needs it. A walk along
a chain is `WalkTo(tb, b, goal)`: from bucket `b` on, to a bucket of `goal` or to
the tail, in as many steps as there are buckets; the loops over buckets
(`Moves` in `rehash()`, `RangeInserts`, `Emplacements`, `EraseRounds`,
`MergeRounds`) are recursive functions of the number of rounds, as in `HlTable`.
`Content` is the function a table holds; `HeldMaps` in `Objects` maps the tables
of a client, of either kind, to the maps of `KeyMap`.

**HlTable** has the elements by bucket and the control bytes behind them. A tag
only decides which keys are compared, so it stands for what else depends on it:
whether it is below `EMPTY`, as the scans that test `< 0x7F` take for granted.
`GroupSizes` has the real group of 32, with which a table fits in one group and
its mirror, and 2, for probes over several groups. `GroupBytes(tb, k, j)` are the
control bytes of the *j*th group that a probe for `k` reads, and a loop over
groups ends at `ProbeEnd`, the first one that `Decides`. The loops over buckets
(`HlMoves` in `rehash()`, `HlMerges`, `HlInserts`, `ShiftRounds` in `erase()`) are
recursive functions of the number of rounds; the one of `erase()`, which ends at
an `EMPTY`, is given as many rounds as it can need and does nothing in those
behind its end.

**List, ForwardList.** The heap is a function from nodes to records with a value
and links; two lists share it, so that a splice can go wrong in either. Each
operator follows its member function link by link. **Vector**: a slot is `Raw`,
holds a value, or is `Gone` (moved from); building, assigning and destroying are
separate steps and one on the wrong kind of slot sets `fault`. The same calls run
on plain values, for which the code takes other branches. **BasicString**: the
storage kind, the size, and the characters of the object or the block with
`End` and `Junk`, over `Sso` characters in the object.

**SharedPtr** keeps the control blocks with both counts, and `touched` says
whether one was used after it was freed. An object that watches itself has its
owner told to it by `_internal_accept_owner`, a private member
(`smart_ptr.hpp:336`) that a compiler may not let the library detect; the model
has the objects that do watch themselves, and so covers more than such a build.
**Callable** has per function the table,
the storage and the blocks on the heap; `holds` is what the client assigned.
**EventDispatcher** has the slots of a real `ChainedTable` with groups as values,
and lists of listeners in order. **DisposalQueue** steps through `flush()` per
thread: `Pop`, `OnWait`, `OnFree`, `ResetBuffer`, `Throw`, and `log` is what an
entry has seen. **BinStream** writes items and reads them back with the matching
calls; `Cut` builds a stream from the first bytes of another.

Where a call does not survive some arguments, the client's action has a guard
that leaves them out, named and commented: `Replaceable`, `Copyable`,
`Insertable` (vector), `Swappable`, `Assignable`, `StringReplaceable` (string),
`SpliceableRange` and `Insertable` (lists), `LastWatcher` (weak pointers),
the guard of `InsertRange` (room for a range in a chained table). Section 4 says what goes wrong.

## 3. Runs

| run | instance | result |
|---|---|---|
| `mutex` | 3 threads, 2 entries, 1 acquisition each; Linux, or Windows with spurious failures | holds: `TypeOK`, `MutualExclusion`, `EntryAccounting`, `NoLostWakeup`, `UnlockNeverBlocks`, `ImplementsRWLock`, and for Linux `LinuxCallsReturn` |
| `guards_manual_test` | the script of the test, Linux | **violates** `ThreadsJoin` |
| `shedule` | 2 clients, 2 tasks, times 0 and 1 | holds: `TaskConserved`, `NeverEarly`, `OversleepsOnlyMissed`, `AwaitRunsImmediate`, `NotifiedTaskRuns`, `ShutdownReturns` |
| `shedule_await` | 1 client, 2 tasks | **violates** `AwaitDrains` |
| `shedule_wakeup` | 1 client, 2 tasks | **violates** `TaskRuns` |
| `services` | 1 scheduler client, 1 task, 2 log clients, 2 messages each (1 while the scheduler has work) | holds: `AwaitFlushes`, `LogOrder`, `CountAccounting`, `AwaitedRemovalSafe`, `OversleepsOnlyMissed`, `ServicesTypeOK` |
| `log_remove` | 1 log client, 1 message, loggers removed after a `dispatch()` loop | **violates** `NoDanglingLogger` |
| `jatc` | 2 requests, 1 reader, 1 filter, a deregistration | holds: `WritersExclude`, `OpCountAccounting`, `FreedAfterUnlock`, `AloneReadsBack`, `JatcCallsReturn`, `JatcTypeOK` |
| `jatc_filter` | 2 requests, 1 reader, 1 filter, requests added once it has waited | **violates** `ReadsBack` |
| `jatc_free` | 2 requests, 1 reader, a deregistration | **violates** `NoUseAfterFree` |
| `jatc_failure` | 3 requests, one reader, requests may fail early | **violates** `WritersExclude` |
| `library` | one component at a time, see below | holds: `HashmapCallsAgree`, `HlmapProbesUnbroken`, `HlmapCallsAgree`, `TablesImplementMap`, `NodesIntact`, `NodeListCallsAgree`, `VectorElementsAlive`, `VectorCallsAgree`, `StringsTerminated`, `StringCallsAgree`, `OwnershipExact`, `ListenersSound`, `BuffersFreedOnce`, `StreamsReadBack` |

The properties are stated and explained at the end of each module. Some hold
under a limit, and a violated one shows why it is there. `WritersExclude` needs
requests that get as far as the lock (`jatc_failure`), and `AloneReadsBack` says
`ReadsBack` of behaviours in which every filter has the file for itself, since
otherwise it does not hold (`jatc_filter`). `FreedAfterUnlock` says how far a
deregistration waits and `jatc_free` that this is not far enough for
`NoUseAfterFree`; `AwaitedRemovalSafe` names the one call after which a logger can
be removed, and `log_remove` that `NoDanglingLogger` does not hold in general.

**Bounds.** `MaxOps` (acquisitions a thread begins), `MaxTime` (the clock stops),
`MaxMessages`, `MaxFilters`, and the sizes of the sets. Three threads and two
entries are the least in which a writer holds one entry and waits for the other
while a reader and a second writer use both; the theorems of section 5 remove
these bounds for the safety properties. Two times are enough to tell a task that
is due from one that is not, and `Never` is a third one. Two messages per client
are needed for an order, two clients for two loggers and for one client to throw
away what another one counted. In `services` the log and the scheduler are not
both as busy as that at once (`OneBusy`): a second message is logged only while
no task has been added, for order and counting are the log's own business, and
what the scheduler has to be kept from by the log needs no second message. Two
requests and a filter let a request reopen the file between the filter's close
and its rewrite, an entry move, and a dropped entry make room; the theorem has
any number of filters.

In `library` a variable `subject` chooses the component at the start and the
variables of the others stay `Unused`; one state graph per component, eleven in
all. Its bounds: a chained table of up to 16 buckets that already holds eight
elements around the homes of the three keys the client uses, so that insertions
kick out and chains meet, and one growth to 32 on the way; an open table whose
keys share the last two homes of eight, so that probes and shifts wrap round;
lists over five or six nodes and two values; vectors of three elements and one
in a second vector, objects and plain values; strings of up to five characters
over four in the object; three control blocks, two shared and two weak pointers;
two functions, of either class, with two targets of each size; three groups with
colliding ids, three listeners; three pushes, two threads in `flush()`; three
items in a stream, cut at every byte. `LibraryView` tells states apart by what a
caller can see: not by which free node or block an allocation took, nor by what
lies behind the elements or the text. What it leaves out decides nothing: the
names of nodes are exchangeable, and stale slots are never read. The
`...CallsAgree` properties compare, in every reachable state, the results of the
calls a client can make there, but for those the guards of section 2 leave out,
with what `Seqs` or `KeyMap` says of them.

**Deadlock** is checked in every run but `guards_manual_test`, where the threads
of the test do stop.

**Fairness.** `SharedMutex`: weak fairness of each thread's steps and of leaving
its critical section, i.e. the scheduler runs runnable threads; of the Windows
build, whose exchanges may fail for ever in the model, only safety is checked. `SheduleService`:
the same for the worker and for clients inside a call, handlers return, and time
passes; no fairness is assumed of clients beginning calls or of spurious
wake-ups. `JatcEntrypoint`: strong fairness of each request, of each reader, of
the filter and of the deregistration, and spurious wake-ups come to an end. It is
strong because the mutex makes no promise about the order of its waiters: with
wake-ups that end, each of them takes the lock a bounded number of times, and a
thread that finds it free again and again gets it in the end. `library` checks safety only
and assumes no fairness: its components have no threads of their own.

## 4. Findings

1. A guard unlocked by hand unlocks again in its destructor
   (`shared_mutex.hpp:60`); `tests/shared_mutex.cpp:96-118` can hang.
2. `shedule_service::await(false)` can return with a task still queued
   (`task.hpp:225`), which `tests/task.cpp:73-76` rules out.
3. A `notify()` can be lost (`task.hpp:208`), and a task that is due sleeps until
   the next one.
4. `remove_logger()` frees a logger that is still to be written to
   (`log.hpp:219`). `log_service::dispatch()` returns `max()` while another thread
   holds a message (`log.cpp:140`), and `tests/log.cpp:45-56` then removes its
   logger and expects the message in the file. `tests/log.cpp:31-32` removes one
   after `await(true)`, which waits for nothing.
5. `filter_index_entries()` reads and closes the stream after it has released the
   lock (`jatc.cpp:136`): a request that appends in between is answered, and its
   entry is truncated away by the rewrite (`jatc.cpp:34`), against "guaranteed
   integrity" (`README.md:68`).
6. A deregistration frees the entrypoint (`jatc.cpp:78`) while the `unlock()` of
   the last request, which let it in, has still to wake the sleepers of the mutex
   in it, against "manages synchronization for concurrent operations"
   (`README.md:72`); `tests/io/fs/jatc.cpp:80-81` waits for nothing before it
   deregisters.
7. A request that fails before it takes the lock unlocks it (`jatc.cpp:233`),
   against "manages synchronization for concurrent operations" (`README.md:72`).

Two readers of an entrypoint share one stream position (`jatc.cpp:104`), against
"safe, concurrent access" (`README.md:68`): one seeks between the other's seek and
its read. The runs of the cache have one reader; with two, TLC finds `ReadsBack`
violated, and `AloneReadsBack` too.

Seen while modelling and not shown by a run (some are in the hazards):
`index_entry.size` of a compressed entry is not the size on disk
(`jatc.cpp:224`); the result of `rewrite_file()` is ignored (`jatc.cpp:157`);
`response.state` is set before the entry (`jatc.cpp:183`); `await(true)` of the
log leaves the counter raised (`log.hpp:232`), which `CountAccounting` describes;
`get()` of a cancelled task never returns (`task.hpp:87`); reference counts are
not atomic although tasks are shared between threads (`smart_ptr.hpp:37`);
`register_service()` appends to the vector the worker iterates over and wakes
nobody (`task.hpp:192`); `set_pattern()` clears tokens `vlog()` may be reading
(`log.cpp:97`); `response::entry()` throws when called twice (`jatc.hpp:86`);
`~cache()` does not wait for its tasks (`jatc.hpp:114`).

In the containers, left out by the guards named in section 2:

- chained table: a range with more elements than free buckets after one growth
  never ends (`raw_hash_table.hpp:570`); copy assignment leaks the first block of
  its temporary (`:135`); a moved-from table has no blocks for a lookup;
  `erase(first, last)` compares with a `last` that may move (`:437`).
- open table: tags of 0x80 and above are skipped where fewer buckets than a scan
  block are left (`hl_hashmap_sse2.hpp:57`, `hl_hashmap_avx2.hpp:39`); values are
  not destroyed; `erase(first, last)` miscounts.
- lists: `list::sort` loses elements from three on (`list.hpp:454`); `insert` of
  a list before its end reads the null position; `splice_after` of a node ignores
  the last one and reads `prev` of the first; splicing adjacent positions breaks
  the links; `forward_list::resize(0)` keeps the list (`forward_list.hpp:222`);
  `splice_after` of a list drops the nodes behind the position.
- vector: copy assignment that grows moves destroyed objects (`vector.hpp:109`);
  `operator=` of a list leaks the block it replaces when it grows and destroys
  nothing when it shrinks (`:93`);
  `insert` of several leaves moved-from objects undestroyed (`:515`, `:545`);
  assignment over fewer objects assigns to raw slots.
- string: a copy to a heap string doubles its block each time (`string.hpp:194`);
  `replace("hello", 1, 1, "xyz")` gives `hxyzyzo` (`:571`); `swap` of a short and
  a long string (`:289`); `operator+` overwrites the terminator of its left
  operand when that has room (`:328`).
- smart pointers: assigning to the last weak pointer of an expired object leaks
  its block (`smart_ptr.hpp:288`); assignment releases before it reads the other
  pointer, which the object may own.
- `function`: a copy that throws leaves a table without a target
  (`function.hpp:129`). `bin_stream`: the comment at `bin_stream.hpp:141` says
  that a string's length is written first; the code writes the text and a zero
  byte (`:148`), so text with a zero byte in it is not read back.

## 5. Proofs

Every theorem is one of safety, has the form `Spec => []Inv`, and follows from
an inductive invariant that the proof module defines first: a conjunction of
parts, each with a comment, with one lemma per action or per part. TLC has
checked each of these invariants on an instance before it was proved.

| module | theorems | for all |
|---|---|---|
| `LockProofs`, mutex | `TypeCorrect`, `AccountingCorrect`, `MutualExclusionHolds`, `NoLostWakeupHolds`, `UnlockNeverBlocksHolds`, `Refinement` | threads and entries, both builds, with or without spurious failures |
| `ServicesProofs`, scheduler | `SheduleTypeCorrect`, `TaskConservedHolds`, `OversleepsOnlyMissedHolds`, `AwaitRunsImmediateHolds`, `NeverEarlyHolds` | clients, tasks and times, beside any other services |
| `ServicesProofs`, both | `ServicesTypeCorrect`, `SheduleBesideLog`, `ServicesOversleepOnlyMissed`, `AwaitedRemovalSafeHolds`, `AwaitFlushesHolds`, `CountAccountingHolds`, `LogOrderHolds` | clients of both services, messages, orders of registration |
| `LockProofs`, cache | `JatcTypeCorrect`, `WritersExcludeHolds`, `OpCountAccountingHolds`, `FreedAfterUnlockHolds`, `AloneReadsBackHolds` | requests, readers (one for the last), filters |
| `MemoryProofs` | `CountsExactHolds` | shared and weak pointers, blocks |
| `MemoryProofs` | `TargetsOwnedHolds` | functions of either class, targets, blocks |
| `MemoryProofs` | `EachFreedOnceHolds` | threads in `flush()`, pushes, buffers |
| `StorageProofs` | `StringsTerminatedHolds`, `StringCallsAgreeHolds` | characters, texts, sizes, size of the object |
| `StorageProofs` | `VectorElementsAliveHolds`, `VectorCallsAgreeHolds` | values, ranges, sizes, objects and plain values |
| `StorageProofs` | `ReadsWhatWasWrittenHolds` | items, width of a scalar, values of a byte |
| `HlTableProofs` | lemmas only: `HlInvInit`, `HlInvStep`, `HlInvUnbroken`, `HlInvAgree`, `HlInvMerge`, `HlInvMaps`, `HlStepMaps` | keys, values, homes and tags, group size, scan block |
| `ChainedTableProofs` | lemmas only: `ChInvInit`, `ChInvStep`, `ChInvWellFormed`, `ChInvAgree`, `ChInvMerge`, `ChInvMaps`, `ChStepMaps` | keys, values, hashes, ranges, initial elements |
| `Objects` | `OwnershipExactHolds`, `BuffersFreedOnceHolds`, `StringsStayTerminated`, `StringCallsStayExact`, `VectorElementsStayAlive`, `VectorCallsStayExact`, `StreamsStayReadable`, `HlmapProbesStayUnbroken`, `HlmapCallsStayExact`, `HashmapCallsStayExact`, `TablesImplementMaps` | all of the last eight rows |

### The assumptions

Each is named in the module that declares the constants, and TLC evaluates those
that are `ASSUME`d:

- `ConstantsAssumption`: fewer threads than `MAX_INT`, at least one entry.
- `SheduleAssumption`: clients and tasks are finite sets, and the scheduler is
  one of the services, as it is for anybody who can call `add_task()` usefully.
  Without it a worker would sleep past a task nobody dispatches.
  `DispatchAssumption`: there is a service, times are numbers.
- `LogAssumption`: finitely many clients, none of which is the worker.
- `JatcAssumption`: finitely many requests and readers.
- `PointersAssumption` (finitely many pointers; `Null` is no block),
  `CallableAssumption` (`Raw` is neither target nor block, and memory never runs
  out: one block more than there are functions, for the copy that a swap makes),
  `QueueAssumption` (pushes have numbers from 1 on; `Idle` is no place in the
  loop), `StringAssumption` (there is room for the terminator in the object,
  pieces are texts, lengths are numbers), `VectorAssumption` (`Raw` and `Gone`
  are no values, ranges are sequences of values, sizes are numbers) and
  `StreamAssumption` (a scalar has bytes and a byte has values; what is written
  fits: values and the lengths of lists the scalar, text has no zero byte, of raw
  bytes there are some, an alignment is not zero) are hypotheses of the theorems
  in the proof modules of the components, as is `HlAssumption` (homes are numbers,
  the group size and the scan block powers of two, and what the client asks of a
  table stays so far below 2^30 buckets that `get_growth_size_aligned()` has a
  power of two for it: 16 buckets an element, twice the argument of `rehash()`)
  and `ChainedAssumption`, which says the same of the chained table: hashes are
  numbers, ranges are sequences of elements, `Free` is no element, and what the
  client asks of a table stays as far below 2^30.
  `ObjectsAssumption` joins the eight for
  `Objects`, and TLC evaluates it in run `library`. The code justifies
  `StreamAssumption`: a list's length is written as a `size_type`, text as a C
  string ends at its first zero byte (the comment that says otherwise is in
  section 4), and `align_up`, a mask, is for powers of two, where it is the
  rounding of `AlignUp` (the theorem needs no more than that `a` is not zero).

The bounds of the runs (`MaxOps`, `MaxTime`, `MaxMessages`, `MaxFilters`,
`MaxLength`, `MaxBlock`, `MaxSize`, `MaxOther`, `MaxItems`, `MaxBuckets`,
`MaxElements`) are constants like the others: a theorem holds for all their
values, those of the tables within what `HlAssumption` and `ChainedAssumption`
say.

### The arguments

**Mutex.** `MutualExclusion` is not inductive: that two threads do not both hold
the lock says nothing about the entries they are about to take. `IInv` adds what
each location implies about the thread's locals and about `mode` (a thread at a
compare-and-swap of `lock()` read 0, a reader has an index), `EntryAccounting`,
which ties the value of each entry to the threads that own it or are counted in
it, and `NoLostWakeup`, which needs the accounting to know that a release has
its `futex_wake` ahead. Ownership follows the loops: a writer on its way in owns
the entries below `i`, one on its way out those from `i` on. Counting readers is
where cardinalities come in (`CountOne`, `AccountKept`), and where `MAX_INT`
does: a count never reaches the sign bit. Exclusion follows because an exclusive
holder owns every entry and so no reader is counted anywhere. `Refinement` maps
every step to a step of `RWLock` or to none.

**Scheduler.** A task that `dispatch()` has popped is neither queued nor run, so
`TaskConserved` needs to know what the worker has in its hand at each place
(`WorkerFits`) and that a task is in one place only (`OnePlace`). `await()`
reads the queue and `_busy` in two steps; `AwaitFits` says that an immediate task
not yet done when the queue was seen empty is in the worker's hand, where
`_busy` shows it. `Covered` carries `OversleepsOnlyMissed` through the loop of
the worker: from the return of the scheduler's `dispatch()` on, the time to sleep
until is no later than any queued task whose `notify()` has had its effect. The
invariant is proved of `SheduleStep`, what any service beside it may do.

**Log.** `QueueOrdered` says that the queue and what `await(true)` threw away are
in the order of each client, so that no message is counted twice; then `_count`
is a sum of four cardinalities (`Accounted`), and a client back from `await()`
has none of its messages on the way (`OnTheirWay`), so that a logger removed there leaves
none `dangling` (`AwaitedRemoval`). This depends neither on who
calls `dispatch()` nor on the loggers other clients remove:
`AwaitedRemovalSafeHolds`, `AwaitFlushesHolds` and `CountAccountingHolds` are also
proved of `ClientDispatchSpec`, which no passing run covers. The order in the log does depend on it (`WrittenOrdered` needs
`WorkerAlone`), and TLC finds `LogOrder` violated as soon as two threads
dispatch.

**Composition.** `Services` needs no invariant of its own: a step of the log
is one the scheduler's invariant allows for (`LogNextIsSurrounding`), and a step
of the scheduler leaves the log's variables alone.

**Cache.** `CountInv` is about `op_count` only and holds whatever the lock is
worth, so `OpCountAccountingHolds` covers `JatcFailingSpec` too, where requests
fail before the lock and unlock what others hold. The rest needs requests that
get there: who is past the lock, filters that share it included (`LockFits`), who
is inside a call (`CallsFit`), and what a deregistration has waited for
(`DeregFits`): it closes and frees when every request has given the lock back,
which is `FreedAfterUnlockHolds`. That is all of `JatcInv`, and it holds with
every step of a filter open to others. `AloneReadsBackHolds` is about behaviours
in which nobody is let in before a filter has closed the stream: there `FileFits`
says where in the file each indexed entry lies, also while a filter holds the
entries in its buffers and the file is closed, and `GatherFits` that the buffers
are the entries it has come to, in their order, and that its position is theirs;
finding 5 is the counterexample otherwise. It also assumes `OneReader`: only then
is the shared position of the stream still where a reader has put it
(`CursorFits`).

**Pointers.** `Fits` relates one control block to the number of shared and weak
pointers to it, with the one more that the shared ones hold together and the one
that the object may hold to itself; each operation on a block moves it from one
pair of numbers to the next, and `CountsOfAssigned` counts pointers when one of
them is changed. A call that ends an object ends its self-reference in between,
which is why the lemmas are about operations and not about calls.

**Functions.** `Owned(s, h)` says that memory `s` gives the functions the targets
`h`, each its own. It is kept, with `h` changed as it should be, by `Reset`,
`Place`, `MoveFrom` and `CopyFrom`, from which every call is built, also halfway
through a swap when the temporary has one of the targets. `BlockFree` is a
pigeonhole argument: a function without a target leaves a block free.

**Disposal queue.** An entry is in the queue, in the hands of one `flush()`, or
done with (`OneHolder`, `Accounted`). Where it is says how much of what is to be
seen of it has been seen (`Reached`), and what was seen is the beginning of
`Whole` of that length (`Follows`) or, after an exception, such a beginning and
the exception (`Dropped`).

**Strings.** `KeepsText(s, t)` says that the string `s` has the text `t`: inside its
characters, all written, and the terminator behind it. `StringsTerminated` alone
would not do, since what a call returns depends on the text. There is a lemma
for each operation (`GrowFacts`, `RoomFacts`, `AppendKeeps`, `StringEraseKeeps`,
`ReplaceKeeps`, `StringResizeKeeps`, `PlusKeeps`, `StringCopyAssignKeeps` and so
on): from a string that keeps a text it makes one that keeps the text the call says, whether
it stays where it is, leaves a literal or goes to a block. The lemmas take the
client's guards as hypotheses only where the code is wrong without them:
`StringReplaceable`, and `Assignable` for a copy and a sum. `AppendEach`, character by character, is a
recursive function; that it appends the whole range is proved by induction on
the number of characters (`Induction`: a set of numbers with 0 and with the next
of each of its members has them all, which follows from the well-foundedness of
the naturals without an operator as a parameter). `RfindFinds` needs that a
bounded set of places has a last one (`LastOne`, by the same induction).

**Vectors.** `Keeps(v, s)` says that the vector `v` holds the sequence `s`: its
elements are in the first slots, each with its value, nothing is built behind
them, and there has been no fault. It is equivalent to `VectorElementsAlive`
with the content as `s` (`AliveKeeps`, `KeepsContent`), but each call can be
stated with it: from a vector that keeps `s` it makes one that keeps the sequence
it should (`PushBackKeeps`, `InsertKeeps`, `InsertRangeKeeps`, `EraseKeeps`,
`ResizeKeeps`, `AssignRangeKeeps`, `CopyAssignKeeps` and so on). What is hard is
halfway through a loop that shifts the elements, where slots are raw or moved
from and some elements are in their old places: `MovedUpSoFar` and
`MovedDownSoFar` say which after so many steps (`MovedUpStep`, `MovedDownStep`),
and `Induction` carries them through the recursive functions that model the
loops. Elements are moved up from the last one and down from the first one, so
that each lands in a slot that has no value, or is an object, respectively;
`CanMoveUp` has the client's guard that moves up by nothing are left out. The
guards `Replaceable` and `Copyable` are hypotheses where an assignment would
meet raw slots or destroyed objects without them.

**Streams.** `StreamInv` says where everything is: each item begins where the one
before it ends (`Consecutive`), its bytes stand there as far as the stream goes
(`InPlace`), a stream that was not cut is as long as its items (`AllThere`), and
the reader is at an item or behind the end of what was cut (`ReaderPlaced`). Then
each read is one of three: of an item that is there (`ReadItemThere`), of one
that was cut in two, and of one behind the end (`ReadItemBeyond`). A scalar reads
back because what its last *n* bytes stand for is what is left of its value
behind the others (`NumberOfBytes`), and a list because after *n* values it has
read the first *n* and is behind them (`ReadsOneMore`, `ReadListThere`). These
are inductions over recursive functions: that the functions exist is
`RecursionExists`, that a property of 0 which each step keeps holds up to *n* is
`InductionUpTo`. Alignment needs some arithmetic: reader and writer are at the
same position, so `AlignUp` skips what was filled in.

**Open tables.** `ProbesUnbroken` says that no bucket between an element and the
home of its key is `EMPTY`; it is inductive with the shape of the table (`Tidy`),
but not while a removal shifts elements back, when there is one hole.
`Reachable(tb, hole)` allows for it, and `ShiftInv` says of each round of the loop
where the hole is, that the elements between it and the loop's bucket do not reach
over it, and how many rounds at most are left: so the loop ends, at an `EMPTY`,
and the hole may stay. What a call does is said as what becomes of the set of
elements `HlHeld(tb)`, each key once: `Gains`, `Loses`, `Replaces`,
`KeepsElements`, `Includes`, `Merging`. A probe reads control bytes, by groups,
past the end of the table and into its mirror; `ByteTells` takes the byte at
distance *e* from the home bucket to the bucket at that distance, for group sizes
and capacities that are powers of two, also where a table is smaller than a
group. From it a lookup finds the key or a bucket that is free (`BucketFacts`,
`EmplacedFacts`), before the loop is back at its first group. `rehash()`,
`insert()` of a range and `merge()` are inductions over the rounds of their loops
(`MovesFacts`, `InsertsFacts`, `MergesFacts`); that the recursive functions exist
is `WalkExists`. `merge()` goes on behind a bucket into which `extract()` may have
shifted an element, so `Merging` does not say that all elements move, only that
each is in one of the two tables and stays where a key is already there. The
contents of the tables as maps follow (`MapsUnique`, `ContentIs`), and with them
`HlCallsAgree`, `HlMergeLosesNothing` and, by cases over the calls (`MapStep`), the
refinement of `KeyMap`.

**Chained tables.** `ChainsWellFormed` says that a walk from a main bucket comes to
every element of it; what a step needs is why. `Ranked` gives the buckets in use
a main bucket, a next bucket and a rank that grows along the chain; only the
head of a chain has no bucket that points to it, and no two point to the same
one. That there are such ranks is `Linked`. So no walk goes round, and it meets
what it looks for or ends in the tail (`WalkFacts`, by induction over its steps;
`BucketFacts`, `FindPrevFacts`, `TailFacts`). An element begins a chain
(`LinkedHead`), goes behind its tail (`LinkedBehind`), moves with its place in its
chain to a free bucket (`LinkedMoved`) or leaves it (`LinkedWithout`,
`LinkedAlone`); a head that goes is replaced by the second element. `Sound` adds
that no key is there twice and that the elements are counted. The branches of
`kickout_bucket()` for a tenant that is not on its chain are never taken in a
sound table (`KickoutFacts`). `find_empty_bucket()` ends because the load leaves a
free bucket (`FindEmptyFacts`), and during a rehash there is one that is nobody's
main bucket, because the elements that have moved and the main buckets of those
that have not are fewer than the buckets (`UnreservedFacts`). Each call is said as
what becomes of the set of elements `Held(tb)`: `Inserts`, `Assigns`, `Drops`,
`Resettled`, `Ranged`, `Built`; the loops are inductions over their rounds
(`MovesFacts`, `InsertedRangeFacts`, `ConstructedFacts`, `EraseRoundsFacts`,
`MergeRoundsFacts`). `erase(iterator)` may put the second element of a chain into
the bucket of the first, and the iterator then stays: `Merging` says after each
round of `merge()` that what the other table still has in front of the iterator
has a key of this one, and how many rounds at most are left, so that, unlike the
open table's, this loop leaves nothing behind but common keys. `ChInv` is that
both tables are sound, or have been moved from, and small enough to grow. The
maps follow as they do for the open table, and `TablesImplementMaps` is one
theorem for both kinds, because `MapStep` says the same of either
(`MapStepsAgree`, `MapStepImplements`).

**Objects.** A client uses one kind of object; `ObjectsInv` is the invariant of
that kind, and each step is one of its component's.

### Only model-checked

- The liveness properties (`LinuxCallsReturn`, `NotifiedTaskRuns`, `ShutdownReturns`,
  `JatcCallsReturn`): TLAPS proves neither formulas under fairness nor
  `ENABLED`.
- The properties of the lists and the events (`NodesIntact`, `NodeListCallsAgree`,
  `ListenersSound`), whose models follow links and chains with `RECURSIVE`
  operators: TLAPS has no SMT backend in such modules. The table below the events
  is proved, but for a client that names its keys, not for the dispatcher.
- That objects of different kinds do not disturb each other is how `Objects` is
  built and no result: the theorems are about any number of objects of one kind.

## 6. Plan

Done, in this order: mutex and guards, dispatcher and scheduler, log and
composition, cache; proofs of the mutex; hash tables, lists, vector, string,
pointers, functions, events, disposal queue, streams; proofs of the services,
the cache, the pointers, the functions, the disposal queue, the strings, the
vectors, the streams and both hash tables.

Next, most important first:

1. The nodes of a list as a recursive function on their number instead of a
   `RECURSIVE` operator, as the chains of a table have it, so that the invariants
   of the lists come into reach.
2. On top of the table, the groups of the event dispatcher (`ListenersSound`).

## 7. Running

`tlc -config MCSharedMutex.cfg MCSharedMutex.tla` checks one run (the other
pairs are listed in `PROJECT.json`), `tlapm LockProofs.tla` the proofs of
one module; the longest, of the tables, take some minutes. Leaves that
take the provers seconds name the one that finds them and allow it more time.
The largest run is `services`, with 2.7 million states; `jatc` has a hundred
thousand and `library` ninety thousand, each with many calls to compare.
