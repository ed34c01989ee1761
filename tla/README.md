# tinyBackend: models, checks and proofs

TLA+ modules for the parts of tinyBackend that carry its own logic: what is
modelled, what TLC checks on small instances, and what TLAPS proves for every
instance. Paths are relative to the repository's root.

## 1. The system

tinyBackend is a C++17 library in five parts.

| part | what it does | state and operations | what is hard |
|---|---|---|---|
| `Distributed/raft` | leader election and membership over UDP; the application synchronises its logs through callbacks | `RaftInstance`: `_state`, `_leader`, version, `votes`, `_peers`; `start`, `stop`, `join_to_cluster`, `exit_cluster`, one handler per message type, three timeouts | loss, reordering and duplication of datagrams; elections that cross; members with different views |
| `Base/ThreadPool` | tasks run by a changing number of threads | `_state`, `_core_threads`, `_target_thread_size`, `_list`; `submit`, `stolen_a_task`, `stop`, `start`, `resize_*`, `clear_task`, `shutdown` | atomics stored and conditions notified without the lock |
| `Base/LinkedThreadPool` | the same with a list, threads removed by marker tasks | the same | as above; concurrent resizes |
| `Base/Time/TimerLoop` | calls events at intervals from a thread | `_run`, `_quit`, `_list`; `loop`, `put_event`, `reset`, `cancel`, `shutdown` | flags set by the thread that is being waited for; cancellation during a call |
| `Base/ScheduledThread`, `SystemLog` | log buffers written by a background thread, flushed periodically | `_schedulers`, `_ready`, `_invoking`, `waiting_tasks`; `push`, `flush`, `shutdown_thread` | order of buffers, loss at shutdown |
| `Base/Buffer` | `BufferPool`, a buddy allocator; `RingBuffer` | a tree of free sizes; read and write pointers | returning in any order; wrap-around |
| `Base/LRUCache`, `Base/BPTree_impls` | a cache, and a B+ tree of file blocks behind it | queue and map of blocks; tree of index and data blocks | splitting, merging, eviction of used blocks |
| `Base/VersionNumber.hpp` | counters that wrap and still compare | one integer | the wrap |
| `Net` | `EventLoop`, `Reactor`, `Channel`, monitors, `FilePool`, `TCP_Multiplexer`, sockets | queues of events and channels by descriptor | events of other threads, descriptors used again, shutdown |
| `LogSystem/linkLog` | traces the nodes of a link through loggers, a server per process and a center | `LinkLogServer`: `_nodes`, `_timers`, `_buffers`; `LinkLogCenter`: `_check`, `_timers`, `_nodes` | timeouts racing creations, iterators kept across sections, reports of several servers in any order |
| `AOP` | advices around functions, by templates | none | none at run time |

How they interact: `RaftInstance` uses `UDP_Communicator` and `VersionNumber64`;
`LinkLogServer` uses `BufferPool`, a monitor and a pipe; `LinkLogCenter` uses
`Reactor`, which uses `EventLoop`, `Channel` and `RingBuffer`; the center's
storage uses the B+ tree, which uses `LRUCache`; `SystemLog` uses
`ScheduledThread` and `BufferPool`; every one of them uses `Thread`, `Mutex` and
`Condition`.

The properties that make each part correct: at most one leader per version and
no lost member (Raft); a task runs once or is killed, and calls return (pools);
no early call, no call after a cancel, a shutdown that returns (TimerLoop); one
owner for every shared cell and no dangling iterator (linkLog); no overlapping
and no lost memory (BufferPool); first in, first out (RingBuffer); the contents
of a map (B+ tree); none lost and, but for a flush that
overtakes a queued buffer, log lines in order (SystemLog).

`PROJECT.json` lists every component with its sources and status, and every
hazard at its line.

## 2. Modules

| module | models | kept beside |
|---|---|---|
| `VersionNumber` | the operators of `VersionNumber64` and `VersionNumber32`, with the largest value as a constant | `Base/VersionNumber.hpp` |
| `VersionCounter` | a counter and an earlier copy of it | the same |
| `Raft` | one `RaftInstance` per address, and the network | `Distributed/raft` |
| `ThreadPool` | workers, submitters and the owner of a `ThreadPool` | `Base/ThreadPool.hpp`, `Base/src/ThreadPool.cpp` |
| `TimerLoop` | owner, timer threads, events, clock | `Base/Time/TimerLoop.hpp`, `Base/Time/src/TimerLoop.cpp` |
| `LinkedThreadPool` | threads, callers and destructor of a `LinkedThreadPool` | `Base/LinkedThreadPool.hpp`, `Base/src/LinkedThreadPool.cpp` |
| `Mutexes` | `Mutex`, `ReentrantMutex` and `Condition::wait` | `Base/Mutex.hpp`, `Base/Condition.hpp` |
| `ScheduledLog` | `ScheduledThread` and the `SystemLog`s that use it | `Base/ScheduledThread.hpp`, `Base/SystemLog.hpp` and their sources |
| `Reactor` | `EventLoop`, `Reactor`, `Channel` and the agents of its connections | `Net`, `Net/reactor` |
| `Monitors` | `Selector`, `Poller` and `EPoller` side by side | `Net/monitors` |
| `Lists` | `List` and `SingleList` | `Base/Container` |
| `LinkLogNodes` | the node table of `LinkLogServer`, the `LinkLogger` objects and the timeouts | `LogSystem/linkLog` |
| `LinkBuffers` | the buffers of `LinkLogServer`, its pipe, its thread and its link to a center | the same |
| `Records` | the records of sequences of buffers, for `LinkBuffers` and `ScheduledLog` | |
| `LinkCenter` | what `LinkLogCenter` does with the records of its servers | the same |
| `LinkStorage` | `LinkLogStorage`: index, record files, searches; extended by `LinkCenter` | `LogSystem/linkLog/src/LinkLogInterpreter.cpp` |
| `RingBuffer` | `RingBufferWrapper` and `RingBuffer` | `Base/Buffer` |
| `ByteTape` | what a ring promises, as an abstract specification | |
| `BufferPool` | the buddy tree and the `Buffer` objects of its users | `Base/Buffer` |
| `BlockCache` | `LRUCache` as `Impl_Scheduler` uses it, over a `BlockFile` | `Base/LRUCache.hpp`, `Base/BPTree_impls` |
| `BPTree` | the B+ tree: changes, searches, blocks in use and deleted | `Base/BPTree_impls` |
| `OrderedMap` | what the tree promises, as an abstract specification | |
| `RaftProofs` | theorems about `VersionNumber`, `VersionCounter` and `Raft` | |
| `PoolProofs`, `LinkedPoolProofs` | theorems about `Mutexes`, `ThreadPool` and `TimerLoop`, and about `LinkedThreadPool` | |
| `LinkLogProofs`, `CenterProofs` | theorems about `LinkLogNodes`, `LinkBuffers` and `ScheduledLog`, and about `LinkCenter` | |
| `MonitorProofs` | theorems about `Monitors` and `Reactor` | |
| `BlockCacheProofs`, `BufferProofs` | theorems about `BlockCache` and `Lists`, and about `RingBuffer` and `BufferPool` | |
| `MCRaft`, `MCThreadPool`, `MCLinkLogNodes` | symmetry sets for TLC | |
| `MCRaftLive` | a cluster that has elected its first leader, as the beginning of the liveness run | |
| `MCLinkCenter` | a center that pairs, and a center that stores and searches | |
| `MCBPTree` | the tree without the numbers of its blocks, as a view for TLC | |
| `MCPools` | the two pools, the timer loop and the mutexes, for safety | |
| `MCThreads` | the thread pool, the timer loop and the reactor, for liveness too | |
| `MCLogServers` | `LinkLogNodes`, `LinkBuffers` and `ScheduledLog` | |
| `MCStorage` | `RingBuffer`, `BufferPool`, `BlockCache`, `BPTree`, `Monitors` and `Lists` | |

The last four put modules that share no state side by side: a behaviour chooses
one of them at its beginning (`part`) and the others rest. The fairness of a part
is asked for in its own behaviours only.

`Mut...` operators are deliberately wrong variants of the definition that
follows them. They are used by no specification; putting one in the place of its
neighbour must make TLC find the property violated, which shows that the
property depends on that piece of code.

### Raft

Each instance has one thread that receives a datagram or times out and handles
it under `_mutex`, so an action is one such iteration: `GrantVote`,
`RefuseCandidate` and `DenyVote` are the branches of `vote_to`, `AcceptVote` is
`accept_vote` with `become_leader`, `FollowNewLeader`, `RefuteOldLeader` and
`SplitBrainExit` are the branches of `LeaderCheck`, and so on. `join_to_cluster`
and `exit_cluster` are loops of the owner's thread: `LoopHead` is their head,
`LoopTimeout` a round without a datagram. `peers` holds the keys of `_peers`;
the times stored there matter in one way only, an entry of 0 means confirmed, and
`acked` is the set of those. `net` is the set of datagrams in flight: leaving one
there for ever loses it, taking any one reorders them, and types in `DupTypes`
stay after delivery (that the other types may be duplicated is covered by the
theorems). The application's `can_be_leader` and
`need_synchronize_from` are choices. Timeouts may fire at any time, which
includes every choice of the timeouts' lengths. The timer test of
`leader_thread_loop` stands behind the handler and does not look at `_state` again:
a leader that has just refused a newer candidate, and by that has become a follower
in its version without a new `_last_flush_time`, may still send a heartbeat
(`LastHeartbeat`, within `RefuseCandidate`). All other ways to stop leading set
`_last_flush_time`, so that for them `LeaderTimeout` is an action of its own.

The build type is Release unless told otherwise (`CMakeLists.txt:10`), so a
failed `assert` does not stop an instance: the ghost `broken` remembers it.
`emergency_exit` does stop it, in every build. `granted` is a history of the
votes given and of the candidates refused.

### ThreadPool

A section under `_lock` is one step, except where it waits: the test of a
predicate and the entry into the wait set are two steps, between which the stores
and notifications of `stop`, `thread_begin` and `thread_end`, made without the
lock, may fall. Conditions wake only who is notified, and `notify_one` any one of
the waiters. A task is named by the client that submits it; `fate` is a history.

### LinkedThreadPool

Threads take functions from a list; `delete_threads` puts markers in front of it, and
a thread that takes one ends (`Exit`). `_core_threads` is atomic and changed without
the lock. A caller's call is a chain of steps: `resize_core_threads` reads the counter,
`create_threads` waits for it, `stop` and `start` test and store in two steps,
`shutdown` works under the lock, and the destructor waits for `TERMINATED`. One caller
resizes, as the comment at `LinkedThreadPool.cpp:74` asks; `resize_max_queue` is
one store that notifies nobody (`LinkedMaxQueue`). The unsigned difference
`_core_threads - size` is capped by `ExitCap` where it underflows. `disturbed` marks
the pools to which one of two things happened that the code does not survive: they
lost their last thread while in use, or a late store of `stop` or `start` overwrote a
shutdown. `LinkedPoolExact` is about all others.

### Mutexes

The mutex itself is one word, the owner another: `lock` takes the first and sets the
second, `unlock` tests and clears the second and frees the first, each in a step of
its own, and `Condition::wait` gives up and takes the mutex without touching the owner
in the code's order. A reentrant mutex counts. `ReentrantMutex` under `Condition::wait`
is left out: the counter is not saved there, and only `TCP_Multiplexer` does it.

### ScheduledLog

A push holds `IO_lock` from its first append to its last; the scheduled thread swaps
its two queues under `_mutex`, writes the buffers of one of them, and flushes logs that
have been quiet. `userPc` and `logPc` are the places of the two; a record is a number,
a buffer a sequence of them, `disk` what has been written. `Starved` is the state in
which a push that holds `IO_lock` waits for a buffer and the thread waits for
`IO_lock`: it does not end. `WaitOver` is the end of the timed wait. A flush, `SystemLog::flush` or the thread's
own, writes the buffer in use although an older one may still be in the queue; `overtaken` is the
history of the logs to which that happened, whose files are complete but not in order. A closing thread
ends its remaining tasks one after the other, one per step. `set_need_flush` makes room
with `need_flush.resize` (`ScheduledThread.cpp:120-121`), which leaves default iterators
behind (`NoIter`) as soon as the new size exceeds the number of logs that need a flush;
the next `flush_need` follows them. That happens once the vector's capacity (`flushSpace`)
exceeds four times the number of logs left, which takes at least five logs, so the runs do
not meet it; what follows is undefined, and the model stops there.

### Reactor

The loop's thread takes functions from its queue in batches, tells channels that have
been silent too long, polls, and calls the callbacks of a channel one bit after the
other; a callback may close its agent, and the descriptor's number may be given to the
next connection. `channels`, `timers` and `watched` are `_map`, `_queue` and what the
monitor has. `Age` makes an entry old, `Open` and `AddChannel` are the owner's, and
`CallLoop` the other calls from outside. The monitor's timeout is finite; start and
stop are called once; callbacks do not call `update_channel`; `POLLNVAL`, which would
make `invoke_event` loop for ever since no code clears it, is not delivered.

### Monitors and Lists

The monitors are driven with the same calls: `asked` is what their callers believe they
are watching. `selector`, `poller` and `epoller` are their tables, `kernel` the
interest list of epoll; a descriptor is ready for any subset of what it may be ready
for. `plain` says that no interest was changed and none empty: `EPoller` passes the
kernel the old event when an interest changes, and keeps an empty one under a number
that no removal finds, so it agrees only until then. `Lists` runs the pointer
operations of the two lists against sequences; `tailSound` ends with the move that
leaves `_tail` of a `SingleList` behind, and `loose` is a node of a `List` that was moved before
itself (`MoveBeforeItself`): chained to itself, lost to the list and still counted. What is done
with such a list afterwards is not modelled.

### TimerLoop

Time is a counter advanced by `Tick`, which waits for nobody; what a thread does
between two ticks is free. An event is in the queue or with a thread; `due` and
`every` are its `_now` and interval. `put`, `low`, `runs`, `asked` and `late` are
history variables of the promises that are checked.

### LinkLogNodes

Each action is one section under `_mutex`. A node and its timer share a `bool` on
the heap; `flag` holds the cells. `Unique` and `Nested` say what users promise:
IDs given once, and loggers kept until their children are created or timed out.
An iterator to an erased node becomes `Dangling`; an operation that follows one,
or uses a `buf_iter` never set, is recorded in `fault` and ends the behaviour,
because what comes after is undefined. Expiry times are left out: a timer may
expire at any time.

### LinkBuffers

`WriteFits` and the `Submit...` actions are what a logger does with the buffer it
shares: append, exchange a full one for another, write it to the file itself, or give
it away and wait for a block. Several loggers may be at one buffer: `writer` says which of them holds
its mutex, and how many sleep in `submit_buffer` or were woken there. The wait frees the mutex,
so others come, get a block and write; the sleeper assigns a block of its own in any case
(`LinkLogServer.cpp:541`), which gives the other one back with its records, and finds none perhaps
(`GetNone`) or no room behind the index (`Overrun`). `crowded` are the buffers at which loggers met
like this, `lost` the records in blocks given back; a write outside of any block is `undefined` and
ends the behaviour. The thread's round is `AcceptMessage`, `HandleLocal`,
`FlushTest`/`FlushSlot` for every buffer, `CheckTimeout2`, `SendOutput`,
`DrainBuffer`/`DrainRecord` and `UpdateState`, then again. `SaveLog` is one buffer of
`save_logs`, each under the buffer's own mutex, and `FlushOut` what a flush and a save do
alike; `CloseThread` follows when all are saved. `Messages` are what the pipe and the
thread's inbox hold together. A record has two halves on the wire, so that a full output cuts it. Messages of
the center are read from the pipe's agent by mistake (`LinkLogServer.cpp:192`), so
there are none. `faithful` says that a center was there for every write and never left.

### LinkCenter and LinkStorage

A server's stream is a choice of records; each action handles one record as
`handle_read` does, storage included. `check` holds the half pairs: a registration
meets its creation in either order (`Meet`), or its timer finds it (`CheckTimeout`).
`index` is the node index in the B+ tree with its cache, `records` the list of files to
be written, `dir` and `inodes` the log files, which a search and a removal see
differently. `query` is a search: it walks from a node's latest log back along the
places in the headers. `handled` is the history of records, which `ReplayExact` and
`QueryExact` compare with what the handler was told and what a search finds.
Assumed: a node's creation reaches the center before its logs (they come through the
same buffer; the logs of a node that was created before the center connected, which
`handle_a_log` gives the place of a default value, are left out), old files that are removed do not include the one in use, and
records have one size.

### VersionNumber

`Succ`, `Plus`, `Less` and `Greater` are the overloaded operators; `Raft` compares and
increments with them. `VersionCounter` is a counter and an older copy that is
compared with it; its properties are proved for every width, so no run repeats
them for one.

### RingBuffer

`buffer` is the memory, `read` and `write` the offsets of the two pointers,
`readable` the counter that tells a full ring from an empty one. An action is one
member function: `Read`, `Write`, `FixRead`, `FixWrite`, `TryRead`, `TryWrite`,
`ReadTo` and `WriteFrom` (to and from another ring or an array of segments),
`ChangeWritten`, `FillAhead` and `SendSegments` (`readv` and `writev` through
`write_array` and `read_array`), the four steps of the pointers, and `Resize`. The
copies in one or two pieces are as in the code. A guard such as
`n <= readable_len` is an assertion of the code that its callers respect; where the
code cuts an argument short, so does the action. `ByteTape` is the promise: the
readable bytes are a queue, the writable ones lie in order behind it. `done` is a
history of what was asked for and given; no action reads it.

Left out: `reposition`, and `resize` within the same memory, which calls it; nobody
calls either. (`reposition` of a full ring would leave `_write` behind the end of the
memory instead of at its beginning.)

### BufferPool

`rest` is the tree `_rest`, `held` what the users' `Buffer` objects hold: `Get` is
`h = pool.get(n)` with the return of what `h` held, `Move` the move assignment, of an
object to itself too. `Climb` is the loop of `get` and `put` that stops at the first
ancestor that is right. The entries of one size are a row of the tree (`Row`), and
`Doubled` are the powers of two, which the code shifts. Sizes count `BLOCK_SIZE`s. That a pool's size is a power of
two is how the program uses it: the constructor allocates `total_size` as it is given
and manages the next power of two, so a pool of another size (a B+ tree may be given
any `memory_size`) would hand out memory that is not its own.

### BlockCache

Holders get blocks, change them in place and put them back, and the scheduled thread
writes the changed ones, everything under one mutex. `node`, `temporary`,
`persistent` and `obsolete` are the members of `LRUCache`; `file` and `total` are the
file and the scheduler's count of blocks, which runs ahead of it. A block that is got
without its data holds anything until it is set. Whether a block has become old when
it is put is a choice. `latest` is a history of what the holders made of each block.
`Reopen` destroys the cache and opens the file again.

### BPTree and OrderedMap

An action is a whole call of `BPTree`: the way down, splits and merges on the way up,
a new or a smaller root, blocks deleted and used again. `tree` holds the blocks, the
header and the fields of `BPTree_impl`; `call` is a history of the last call and its
answer. Searches change nothing: they are operators, and `SearchesExact` compares
them with the contents. Sizes count bytes as the code does, with one size for all
pairs, since the program's trees have values of a fixed size. The erase of a range evens out the
data blocks at its two ends; when that moves pairs to the right one, `call.apart` says that the two are
under different index blocks, and `torn` that one index block has entries between theirs, which
then are not in order any more. The tree is used by one
thread; its blocks are read and written in place, because `BlockCache` gives back
what was put. `OrderedMap` is the promise of the comments on the public functions.

## 3. Runs

Passing runs:

| run | what it shows |
|---|---|
| `RaftElection` | three instances, two versions, refused candidates, instances stopped and started at any time: one leader per version, one vote or refusal per version and instance, votes counted are votes given, roles change in order |
| `RaftLive` | a cluster with a leader, one instance joins, one leaves, a second election is held: a join that succeeded is known to all peers, the asserts on the sender hold until a join fails or somebody leaves, leaving comes to an end, and joining unless heartbeats or requests for votes go on putting its timer off; of two leaders the older one yields, and nobody but a joining instance is forced to exit |
| `PoolSafety` | three threads and two submitters of each pool with any calls of their owners, down to zero threads and back, and other lengths of the queue: no task in two places, threads counted right; two timer threads and two events with resets, cancels and restarts: never early, at most one call after a cancel; three users of a mutex: the owner it names is the one that has it |
| `Threads` | a shutdown that waited leaves nobody running, tasks settle and submitters return; the timer's thread obeys `_quit`; the reactor's tables agree between functions, a connection is closed once and none is left open by `stop`, which returns, channels are taken up and silent ones told |
| `LinkNodes` | three IDs used in any way by anybody: shared cells, buffer counts, loggers, kinds of children |
| `LogServers` | disciplined users meet no dangling iterator, registrations settle; link records have one place, then one in the file, a center gets whole records and, if it stays, all, and a record is lost only where loggers overtook one another in a wait; log lines are kept, in order unless a flush overtook a buffer, and all get into a file unless the pool starves the thread |
| `LinkCenter` | pairs and timers agree, halves are settled, the handler is told what arrived, and searches give the stored logs of their node |
| `Storage` | the ring refines `ByteTape`; buffers of a pool are disjoint and its largest free block is known exactly; no write to a block is lost, held blocks stay, the queues hold what they should; the tree keeps its shape, accounts for every block, finds what it holds, and does to the keys what `OrderedMap` says, but for the range erase below, by which a tree may be torn; the monitors report the same; the lists' pointers are right but for two moves |

Runs that end in a counterexample, each to a line of the repository that says
otherwise (`PROJECT.json`, "findings"):

| run | what happens |
|---|---|
| `RaftDuplicateVote` | a `Vote` delivered twice counts twice: two leaders in one version |
| `PoolShutdown` | a wakeup lost between `thread_end` and `shutdown` |
| `LinkRotation` | the place of a log is noted before a new log file is begun for it: a search does not find it |
| `TreeRangeErase` | a range erase whose ends are in two data blocks with another between them takes keys outside of the range |

Behaviours of the models that no run is devoted to, but that a reader of the code
should know of:

- two instances that join at the same time learn nothing of each other, so views of
  the cluster differ, and two leaders of one version are possible: `ElectionSafety`
  fails in `Raft` with two founders and two newcomers;
- closing a logger between the registration and the creation of its child leaves the
  child's `parent_iter` dangling, and `create_logger` follows it: `NoFault` fails in
  `LinkLogNodes` unless users are `Nested`;
- `below` does not look at the first key of a data block it goes on to, so it may
  give a key that is not below the bound (its comment, `BPTree.hpp:111`, promises
  the smaller ones only); `SearchesExact` says that the smaller ones come first and
  are all there;
- a range erase that spans two data blocks and finds nothing reports success (its
  comment: failure), so `OrderedMap` leaves the answer open there;
- `get_new_block_index` does not reset `begin_record_block_index` when the last record
  block is used up, so the header of a tree that is opened again may name a block in
  use; and `erase_block` leaves an unchanged record block that it replaces without a
  `put_block`, so the cache keeps it for ever;
- a late heartbeat of an earlier leader whom `can_be_leader` refuses takes the
  legitimate leader into `assert_split_brain`, which ends its process
  (`SplitBrainExit`); `RaftLive` excludes it only for an application that refuses
  nobody, and not for an instance that joins: `handle_message_when_online` lets it vote
  but does not call `check_outdated`, so that after a vote for a newer candidate the
  next heartbeat of the old leader ends its process;
- an instance that starts after a failed join asks members that do not know it
  for votes, against their assertion; `JoinedIsKnown` says that it takes that much;
- a leader answers `Online` with a heartbeat, not an `OnlineAck`, so
  `join_to_cluster` reports it as not confirming;
- a `ThreadPool` that is shut before its first thread has stored `RUNNING` is not
  waited for (`ShutdownEarly`), and that late store can also undo a `stop` or let a
  submitter through after `resize_max_queue`: `QuietAtClose` needs
  `Patient` users, those who wait until the pool runs;
- the timer's thread sets `_run` to false without notifying `shutdown`, which then
  waits for ever, and a `shutdown` before the thread has set `_run` returns at once;
- a `LinkedThreadPool` whose threads were all ended by two resizes in a row accepts
  tasks that nobody runs; `delete_threads` notifies nobody, so that the wakeup of a
  later task may go to the marker; a thread that stores `TERMINATED` late, after
  others were created, lets the destructor return while they live; and the late
  stores of `stop` and `start` undo a shutdown (`disturbed`);
- a writer of `LinkLogServer` may miss the notification of `clear_buffer` and wait until
  another buffer is put back; its records so far are written all the same. But when
  another logger has got a block and written while the first one slept, the first one's
  assignment (`LinkLogServer.cpp:541`) gives that block back: its record is lost (`lost`), the
  bytes at its place are those of a block nobody has written, and with no room left the copy goes over the
  end of the block (`Overrun`) or, with no block, to an address near zero (`WriteNowhere`);
- `join_to_cluster` measures a round from `_last_flush_time`, which every heartbeat and every
  granted vote sets anew (`RaftAgent.cpp:411-412`): while a leader is heard every second
  its round of two seconds does not end, and no leader answers with the `OnlineAck` that
  would end it sooner, so the call may not return (`LoopsEnd` asks for no more);
- a leader that has just refused a newer candidate may send one heartbeat in that
  candidate's version, so that heartbeats of two instances can be on their way in one version;
- `SystemLog::flush` writes the newer buffer before an older one that is still in the
  queue: the lines in the file are then not in the order they were pushed (`overtaken`);
- `List::move_to` of a node before itself takes the node out of the chain while `_size`
  goes on counting it (`loose`);
- a range erase that moves pairs to the right one of two data blocks, with others
  between them under one index block, leaves that block's entries out of order: the
  binary search for the blocks to erase may take too many or none, and later searches may miss
  keys that are stored (`torn`);
- whatever a center sends, `CentralOffline` included, makes the server drop the link,
  because the message is read from the wrong agent;
- a registration that arrives before its creation loses the parent's time of creation,
  which `PairsAgree` therefore leaves out; `delete_oldest_files` compares a time cut to
  32 bits (`LinkLogInterpreter.cpp:285`) and deletes no node;
- `EventLoop::shutdown` from another thread does not end a wait, whose predicate does
  not look at `_quit`; `Reactor::stop` avoids it by putting a function;
- `Selector` takes its timeout in milliseconds for microseconds and waits for ever
  when it is 0; `EPoller` uses an entry after erasing it;
- a `SystemLog` whose pool is empty starves its own thread (`Starved`).

### Bounds

`MaxVersion` is the number of elections, 2 so that there is a deposed leader (1 in
`RaftDuplicateVote`, which needs none); an error in an election needs one version, an
error with a late message two. Liveness runs use no symmetry; `RaftLive` begins with
the leader of version 1, so that one more election is held while members change.
`MaxInFlight` bounds the datagrams a timer or a call adds (answers are never
bounded): what would exceed it is lost, as UDP may.
Three instances are the smallest cluster in which a majority is not everybody,
four the smallest in which a vote counted twice makes a false majority possible
for two. `Rounds` is the code's own 3. `MaxOps` bounds the owner's calls of a
pool: three suffice for a resize, another call against it and the shutdown. A
worker is created once, and there are one or two more than the target; a
`LinkedThreadPool` has three threads, two jobs and two calls of each caller, enough for
two resizes or a stop against the destructor. In `PoolSafety` the parts use the same
model values, so that one symmetry set serves all. `MaxRuns`
bounds the calls of an event, after which it is left alone; `Threads` has one event,
since the end of a thread does not depend on a second. `Flag` is the number
of shared cells alive at once; freed ones are used again, so histories are not
bounded. Three cells and three IDs give a parent, a registered child and a stale
timer together. `Kinds` selects kinds of children: one of each sort that
`register_logger` tells apart.

`LinkBuffers` has one buffer of one record, two blocks and an output of three halves:
every second record finds the buffer full and the third one the pool empty, and a
record is cut in the middle. Two connections let a center be replaced. `MaxEvents` bounds
the records written or waiting, the connections and the timeouts together, at five: a connection and
four loggers are the least with which one sleeps, another one takes the block that came free, and the first one,
woken with no block left, gives it back with its record. `ScheduledLog`
has two logs of two records over two buffers, the least that starves. `Reactor`: two
connections and two descriptor numbers, of which the second connection may get the
first's. `LinkCenter`: five records (`MaxRecords`), three of them in the part that pairs
(`MaxPairs`), two times, files of two records (`LogLimit`), so that a file is full in
the middle of a history; one node's service name is the beginning of the other's.
`Monitors`: three descriptors, which `Poller` moves when one in the middle leaves.
`Lists`: four nodes, so that a middle range has neighbours on both sides.

`Storage`: rings of up to four bytes wrap in the middle of a two-piece copy, are full
and empty at every offset; a pool of eight blocks has four levels, and three handles
leave holes on each side; two cached blocks of a file of three make every `get` of a
third an eviction. Data blocks of two pairs and index blocks of four with seven keys
give trees of three levels, with splits, merges and averages of both kinds of blocks, and
index blocks with entries between the ends of a range, which two entries would not have; one place in the
header and two in a record block make the stack of record blocks grow. A torn tree is not followed: nothing
is claimed of one. `MaxTotal` bounds the blocks of a file: eight are enough for trees of
three levels. `TreeRangeErase` has the same blocks and five keys.

The views. No action reads `done` or `call`, so states that differ in them have the
same successors; the properties that do look at them are about steps, each of which TLC
evaluates before it discards a state. `Shape` also drops the numbers of blocks: the
code compares a number with 0 only, and in a state with `TreeShape` and
`BlocksAccounted` the contents of the blocks in use and the number of the deleted ones
determine the rest up to renaming. Both invariants are part of the view, so that a
state that violates one is never taken for one that does not. The view of `Monitors`
drops `epoller` and `kernel` once `plain` is false: nothing is asked of them then, and
the other monitors do not read them.

Deadlock is not checked: behaviours end when the bounds are used up, when the
owner has closed the pool or the loop, and after a fault.

### Fairness

Raft: the leader's heartbeat timer, the timer of leaving, that of joining as long as
datagrams do not put it off for ever (`PutsOff`), and the delivery of heartbeats. The timers are `SO_RCVTIMEO` of a thread that does
nothing else; a heartbeat that is sent every second is received at some time
unless the network is cut for ever. Votes need not arrive. ThreadPool and
TimerLoop: every thread that can take a step does, including one that waits for
the mutex; clients and owners need not call anything. Time advances. LinkLogNodes:
the server's thread expires timers, and a call that has begun ends; users need
not create, register or close anything. LinkBuffers and ScheduledLog: the thread goes
on, timed waits end, time passes, and a call that has begun goes on; `WaitOver` is
strongly fair, because the wait's deadline does not move when the thread is woken in
between. Reactor: the loop's thread goes on, and `stop` once the thread has ended.
LinkCenter: the center's thread goes through its timers and ends the batch it works on.

## 4. Proofs

`RaftProofs`, about version numbers: for every range with an even number of values, `<` and `>`
are opposite and decide any two different values except those half the range
apart (`OrderIsTotal`), and a counter that is less than half the range ahead of a
copy compares as greater, whatever wraps (`CounterOrder`).

`RaftProofs`, about `Raft`, for every set of instances, every bound, network and application:

- `Typing`: the type invariant.
- `OneVotePerVersion`: `VoteOnce` is not inductive by itself. The strengthening
  is `GrantsBehind`: every vote or refusal an instance has given is for a version not beyond
  its own. A new one is for a version beyond its own, so it cannot meet an old
  one. This holds with members coming and going, restarts and duplication.
- `AtMostOneLeader` and `CounterCountsVoters`, under `StaticCluster`: all
  instances are founders, none leaves, `Vote` is not duplicated. The run
  `RaftDuplicateVote` shows that the last cannot be dropped, and concurrent joins (see
  above) that the first cannot. The invariant `StaticInv` adds: all peers are all other instances
  (`Members`); a `Vote` in flight that says yes was granted (`Traffic`); the votes
  counted so far and those still in flight are of different granters, so the
  counter stays below the number of granters (`Counted`); whoever leads, or has a
  heartbeat in flight in a version it has not refused itself, has a majority of grants
  (`Elected`). Two majorities share a member, who voted once. The heartbeat of a leader that was
  just deposed is in a version its sender has refused, and names no second leader.
- `RolesChangeInOrder`: `RoleSteps`, from the type invariant and from what a
  handler lets through.

`MembershipIsKnown` and `MembershipIsSound` state the three parts of `JoinedIsKnown`.
The first two hold in every cluster, with any network. Their invariant `MemberInv` says
who knows whom: what is in somebody's `peers` has the owner of that table in its own,
unless it is leaving, has failed to join, or is a newcomer still that has not been
confirmed by that peer (`PeersKnow`); a datagram in flight comes from a member its
receiver knows and, unless it is an `Online`, goes to one that knows the receiver
(`SendersKnown`); the leader somebody follows is known to it (`LeadersKnown`); where
a handler's assertion has failed, somebody has left or failed to join
(`BrokenExcused`). Every handler is split into what it does to the table, the loop,
the leader, the ghost and the network (`MemberStep`), and one lemma shows that the five
together keep the invariant. The third part, that nobody takes `emergency_exit`, rests
on `StaticInv`: if the application refuses nobody (`CanBeLeader = {TRUE}`), the theorem
asks for `StaticCluster`; for the other applications the part claims nothing.

`PoolProofs`, about `Mutexes`, for any number of users: `OwnerIsRight`. `OwnerAgrees`
follows from where each user is: `MutexInv` ties the pthread mutex, `_owner_thread`,
the depth of each user's locks and the counter to the user's place, waits included.

`PoolProofs`, about `ThreadPool`, for any number of workers and submitters and any sizes:

- `PoolIsExact`. `PoolInv` adds to `PoolExact` who has the lock and who is in the wait
  sets (`Shape`), where each task is according to its `fate` (`Tasks`: once in the queue
  exactly if it is queued, with one worker or with the owner exactly if it runs), and that
  `core` counts the workers between `thread_begin` and `thread_end`.
- `QuietWhenClosed`, from the assumptions of the run `Threads`: nobody uses the pool
  before its first threads run (`Patient`), it is constructed with a thread (`Threads # 0`)
  and never resized to none (`0 \notin Sizes`). `Closing` is what is missing in `PoolInv`:
  until `shutdown` somebody is always up (`StaysUp`), so that `TERMINATED` is stored a
  second time only after the last thread has left.

`LinkedPoolProofs`, for any number of threads, callers and jobs: `LinkedPoolIsExact`.
`LinkedInv` says where each job is (`Listed`, `Held`, `Pending`), that `_core_threads`
counts the threads that are up and that a caller that creates threads waits until each
has counted itself (`Creating`), in which phases the constructor and the destructor
run (`Phases`), and what a pool that nobody disturbs keeps until its end
(`Undisturbed`; a pool is disturbed when it loses its last thread before it is shut down,
or when a `stop` or a `start` that has tested the state stores over that of a shutdown).

`PoolProofs`, about `TimerLoop`, for any number of threads and events, with any intervals:
`TimerIsExact`. `TimerInv` has an event in the queue or with one thread (`OneHolder`), the time of its next
run no earlier than the interval allows (`Paced`, with `Owed` for the part of it that
a run in progress has not added yet), and nothing that is left of a cancelled event but
its last run (`Cancels`).

`LinkLogProofs`, for any nodes, buffers and bools, in any order of calls and timeouts:

- `TableIsExact`. `TableInv` is `TableAgrees` with the types, who shares which bool
  (`FlagsShared`), the sense of `parent_iter` (`Family`: one that does not dangle leads to
  a created node whose children are of its kind) and what the buffers' counters count.
- `CarefulUsersAreSafe`, for users as the run has them: they give each node an ID of
  its own (`Unique`) and keep a logger until its children have been created or have timed
  out (`Nested`). Then no dangling iterator is followed; `Careful` is what
  makes that inductive.

`LinkLogProofs`, about `ScheduledLog`, for any number of logs, buffers and records:

- `RecordsAlwaysKept`: `RecordsKept` says what of a log's records is in memory, in its queue
  or in its file. `LogInv` adds where the thread is between two of its steps
  (`ThreadPlaced`: the queue it writes is empty elsewhere, so that the two may change
  places), that a log which is used or has tasks is scheduled (`UsersPlaced`), and that
  `waiting_tasks` counts the tasks in both queues (`TasksCounted`). With them, each record a
  push accepted is in one place, and in order in memory and, for a log that no flush has
  overtaken, in the file (`AllAccounted`), for destroyed logs after the shutdown too.

`LinkLogProofs`, about `LinkBuffers`, for any number of buffers, records, blocks and places in
the output:

- `StreamAlwaysWhole`. `Streaming` has what the center got so far go on with the first
  message that waits, with its second half if the first one was sent; only the first
  may have begun, and without a center the output is empty (`StreamCut`).
- `RecordsAlwaysFiled`. The invariant `Delivering` is `Streaming` and four parts. `Filing`: a
  record's place is once in the file, in a message or in a buffer (`OncePlaced`); a buffer
  with records has a block, unless a logger that looks for one gave it back (`Blocked`); what waits for
  the center is in the file already (`AllFlushed`). `Ending`: the message of the destructor is
  the last one, and behind it there are no loggers. `Parting`: the end of the node waits
  behind everything else, and the link ends only after it was sent. `Sending`: with a center there
  all the time, every record is on its way in a buffer, the pipe, the queue or the
  stream, and none was written before the center came. `Overtaking` stands
  beside it: at a buffer that is not in `crowded` at most one logger is in `submit_buffer`, and while one is
  there the buffer has no records, so that a block given back holds none.

`BlockCacheProofs`, of the block cache and of the lists it is built from:

- `CacheIsSound`, for any holders, contents and capacity. A call that loads a block evicts another one first, so the invariant is stated as an operator of the
  parts of the state (`CacheOK`) and each half of the call keeps it. Beside the queues
  (`QueuesOK`) and the holders (`HeldOK`) it says where the last state of a block is
  (`KeptOK`): in the cache if it is there, unless somebody who took it is about to write
  it anew, else in the file; and what is cached clean, without a holder that is writing
  it, is what the file has. `FreeUntouched` is the fact evictions rest on: a block without
  users is nobody's to change.
- `ListsAlwaysAgree`, for any set of nodes. A chain is read as a ring: `NoNode` stands
  before its first and behind its last node, as the head and the tail stand for the pointers
  of `NoNode`. Then an insertion and a cut change one pointer in each direction wherever
  they happen, at an end as inside (`InsertForward`, `CutForward` and their mirror images),
  and each operation of `List` is one or two of them. `ListInv` says so of the pointers
  (`DoubleOK`, `SingleOK`) and, with `TailOK`, that `SingleList` knows its last node
  as long as `next_to_after` has not moved it behind another one. A `List` whose node was
  moved before itself leads through the others and counts one more (`LooseOK`). The exceptions are
  exactly these two calls.

`CenterProofs`, for any nodes and servers, in any order of records and timeouts:

- `TimersAlwaysMatch`. `TimersMatch` is not inductive by itself: if two timers read one
  flag, the end of one would free the flag of the other. `CheckInv` (`Matching`)
  adds that no two do. An arriving half either arms a flag of its own (`ArmMatches`) or
  takes the entry out and lowers the flag (`LeaveMatches`); the expiry frees it
  (`TimeoutMatches`).
- `PairsAlwaysAgree`. What the center has concluded depends on how many halves of a
  node it has seen: none leaves the node out of `_check`; one is kept there with the
  registration's type, or with the key of the creation's index entry, unless its
  timeout came first; two have put the registration's type and parent into the index entry,
  where no later step touches them (`PairInv`, one `NodePaired` for each node). The steps
  that are not about the node keep it by one lemma (`PairKept`), the first and
  the second half make it (`FirstHalf`, `SecondHalf`), whichever comes first.

`MonitorProofs`, about the monitors, for any descriptors, interests and data: `MonitorsAlwaysAgree`.
`MonitorInv` ties each monitor to the table of what was asked: the vector of the `Selector`
holds each entry of the table once, its counters are the numbers of descriptors that want
to read and to write, and its bound is above every descriptor (`SelectorOK`); place `i` of the two
vectors of the `Poller` hold one entry, to which its map leads (`PollerOK`, which the swap
with the last place on removal must keep); and as long as no interest was changed
and none was empty the map of the `EPoller` and the kernel's table are that table
(`EPollerOK`). That a monitor so tied reports what is promised, whatever descriptors are ready, is a
lemma for each (`SelectorReports`, `PollerReports`, `EPollerReports`).

`MonitorProofs`, about the `Reactor`, for any number of connections, any callbacks and calls:

- `ReactorAlwaysAgrees`. A callback may close its connection at once, and the system may
  give the descriptor to another connection while the old channel is still in the map.
  `Mapped` says how far that can go: a channel whose connection is closed is the one whose
  callbacks are running (or one that `close_alive` has got over), so that it is erased before
  the loop runs a function that could add its successor. `Scanned` keeps the rest of a scan
  within the map, and `Tabled` the map, the monitor and the timers together; the timers
  are taken as the set of their descriptors, each once (`TimerEnters`, `TimerLeaves`).
- `EachClosedOnce`. No channel is added under a number that is still in the map, because
  whoever has the number is the one the map leads to (`Numbered`, `Mapped`). That nothing
  is lost rests on the order of the functions: batch and queue together (`Pending`)
  hold each connection that was sent before `stop` once, and before the shutdown (`Sent`), so that the
  loop leaves only when all of them are in the map (`Quitting`), and `close_alive` closes these.

`BufferProofs`, about `RingBuffer`, for every size and every set of bytes:

- `PointersStayInside`. `PointersAgree` is inductive as it stands, because it
  gives `write` as a function of `read`, `readable` and `size`; the work is in showing
  that each operation advances by no more than it checked, for the operations on
  segments through the lengths of the arrays they build (`GatherLen`, `WriteArrayLen`).
  It rules out every access behind the end of the memory that a pointer or the
  counter could cause.
- `RingKeepsTape`: the ring implements `ByteTape`. The initial state is an empty tape
  (`RingStarts`) and every step is a step of the tape or a stutter (`RingMoves`). The proof
  has three layers. A run of `n` places from `p` on, around the end, is one sequence
  (`Ring`), and putting bytes into it is one function (`Put`). The two runs that fill a ring, readable
  and writable bytes, are `Queue` and `Spare` (`TapeIsRing`), and a move of a pointer or a
  copy changes them as the tape does (`Popped`, `Unpopped`, `Pushed`, `Unpushed`, `Changed`, `Written`,
  `Covered`, `Holds`). Each operation is one of these, in one segment or two, which
  is one lemma per operation (`ReadTape` to `ResizeTape`). The invariant `RingSound` is
  `PointersAgree` and the size of the memory.

`BufferProofs`, about `BufferPool`, for a pool of any power of two and any number of users:
`PoolAlwaysSound`. `PoolInv` says that each `Buffer` holds the block of an entry, no two the
same one (`Holding`), and of the tree (`Tree`) that these blocks are apart and that every entry
is right (`Right`): 0 if its block is given out, whole below such a block, which
is how the code leaves it, else what its two children make it. Then row by row, from the
smallest blocks up, each entry outside of what is given out is the largest free block within its
own (`EntriesAreExact`), the root's at last. Two blocks are nested or apart (`NestedOrApart`), and a
path from the root stays outside of what is given out (`InsideUpwards`). `positioning` goes only where
the size can be had, so it finds a free entry of its row (`PositioningFinds`); and the loop
that climbs after a change puts right all that the change made wrong, the early stop
included (`ClimbRights`), for `get`, where a parent is the larger child, as for `put`, where two
whole children are one block again. What a loop computes after `k` rounds is shown round by
round with the well-founded order of the numbers (`RoundsExist`, `RoundByRound`).

The assumptions are those of the modules, and those named above. The modules ask for
distinct model values, finite sets of threads, nodes and holders (so that counts are
numbers), for Raft an invalid address outside the set of addresses and versions below
half the range (`BoundAssumption`, which the comparison needs), and for `LinkedThreadPool` a
builder among the callers; for `LinkBuffers` and `ScheduledLog` positive sizes and room for one
record in the output (`BuffersAssumption`, `LogAssumption`), and for `BufferPool` a size that is a
power of two (`PoolAssumption`). Bounds of counters are constants like the others: the theorems
hold for every value of them.

### Only model-checked

- Liveness, all of it: the provers have no rule for fairness and ENABLED.
- The B+ tree (`TreeSound`, `SearchesExact`, its refinement of `OrderedMap`): its operators
  are recursive over a tree of any height, and the provers do not accept modules with such operators.
- `ReplayExact` and `QueryExact`: `LinkCenter` and `LinkStorage` filter, sort and flatten
  sequences by `SelectSeq`, `SetToSortSeq` and `FlattenSeq`, which the library defines
  recursively, with an operator as a parameter; what they return cannot be proved for
  every sequence here.
- The four properties that the code violates.

## 5. Not modelled, and the plan

Left out of the modules above: the contents of logs and messages; the flag
`_running` of `RaftInstance` before its thread runs; threads of a pool that fail
to start; the change of record files of a server's encoder
(`LinkLogInterpreter.cpp:49-66`, `125-157`), whose output `LinkBuffers` has as one file;
`remove_scheduler` of `ScheduledThread`, which `SystemLog` does not use; the opening of an
existing B+ tree file; failing input and output.

Not modelled at all, and why:

- `TCP_Multiplexer` is unfinished and unused: `send_message` overwrites the operation
  with `Null` before it writes the headers, and an accepted stream never learns its
  other end, so that there is no protocol yet to state properties of;
- `FilePool` never sets its flag `run` (`FilePool.hpp:70`), so that every call returns at
  once;
- `BlockQueue` is unused, and `take_node` does not compile when it is instantiated;
- `AOP` is resolved by the compiler; the tables of network errors map codes to text;
  sockets, addresses, files and time are wrappers of system calls and conversions
  without state of their own; `SpinMutex` has the code of `Mutex`.

Theorems worth proving next: `ReplayExact` and `QueryExact`, with the order of the files and
of their records stated place by place instead of by the library's folds; and the B+
tree, with its ways down and up written as recursive functions of the height.
