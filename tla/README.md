# Specifications of the CS744 programs

The repository holds the lab and practice programs of an operating-systems
course: multi-threaded key-value servers, read-write locks, bounded buffers, a
web server, shells, and exercises on processes, signals and sockets. This
directory specifies the ones with a protocol or a shared state that can go
wrong, checks them with TLC and proves the central results with TLAPS.

    tlc -config MCKVPoolRW.cfg MCKVPoolRW.tla      # model-check one run
    tlapm FdQueue_proofs.tla                       # check the proofs of a module

Paths below are relative to `src/`.

## 1. The system

| Component | State | Operations | Interacts through | What is hard | What makes it correct |
|---|---|---|---|---|---|
| read-write lock, reader preference (`lab_nw/kv-server-pool-rwlock/rwlock.c`, same algorithm in `lab_threads/pthreads-sync-code/rwlock/rwlock-reader-pref.cpp`) | `reader_count`, `writer_writing`, two condition variables | lock and unlock for reading and writing | called by the server's workers and by the test program | lost wakeups, stolen signals, spurious wakeups | exclusion, nobody sleeps through its event, implements the abstract lock |
| read-write lock, writer preference (`rwlock-writer-pref.cpp`) | the same and `writer_count` | the same | test program | which sort of thread an unlock wakes | the same, and no reader enters past a pending writer |
| lock test programs (`test-reader-pref.cpp`, `test-writer-pref.cpp`) | a stamp index and the stamps | each thread locks once, stamps twice, unlocks | the locks | their end depends on every wakeup | the joins return; a writer's stamps are consecutive |
| connection queue (`kv-server-pool*/server.c`) | `fd_queue_head/tail`, each worker's `client_fd` | accept, enqueue, dequeue, disconnect | main and the workers, `fd_queue_cond` | signals stolen or sent outside the mutex, failing accept | each connection with one worker, none left behind |
| key-value list (all four `lab_nw/*/server.c`) | `kv_node_head/tail`, nodes, buffers | create, read, update, delete | under a lock, or in one thread | dangling tail, freed cells reused, values that nothing ends, search loop that does not advance | the list is the map its replies promise |
| pool server with read-write lock (`kv-server-pool-rwlock/server.c`) | all of the above | `handle_client`, `main` | clients over TCP | blocking recv and three sends under the lock | a held node stays alive, replies agree with the map |
| pool server with mutex (`kv-server-pool/server.c`) and its client | the list, `available`, the queue | the same commands | byte streams of TCP | a flag that each of seven exits must reset; coalesced sends, dying clients; one stalled client holds all | client and worker in step, everyone served |
| thread-per-client server (`kv-server-thread/server.c`) | the list, `available`, descriptors | the same commands | byte streams, the descriptor table of the process | descriptor passed by address; threads that outlive their connection; numbers reused | each thread on its own connection, in step with its client |
| single-client server (`kv-server/server.c`) and the clients | the list, the bytes in flight | the same commands | byte streams of TCP | coalesced sends, a recv that takes the begin of the next command, dying clients, SIGPIPE | replies answer their commands |
| master-worker buffer (`pthreads-sync-code/master-worker`) | stack, `item_to_produce`, `worker_turn` | produce, consume, leave | one mutex, two condition variables | one condition variable for two conditions, chain of signals at the end | every item once, the program ends |
| turn-taking threads (`sequence.c`, `seq.c`, `wu2.c`) | a turn | print in turn | condition variables | stores and signals without the lock | order, nobody left asleep |
| dining philosophers (`prac/threads/dining_philosopher.c`) | `state` | take and put forks | one mutex | HUNGRY is also used for thinking | neighbours do not eat together, nobody sleeps for nothing |
| goldbach (`goldbach.c`) | partition of the even numbers | count, sieve | joined threads | boundaries of the parts | each number once |
| web server, load generator (`prac/network/q2`) | bounded queue, `running` | accept, handle, shut down | condition variables, SIGINT | signal handler without the mutex, reads that it interrupts | nothing lost, shutdown ends |
| shell with a job list (`lab_shell/shell`) | linked list of background jobs | run, reap | processes | search that assumes it finds, reaping order, failing fork | the job list is the set of children |
| shells with an array (`lab_shell/my_shell.c`, `temp.c`) | array of children, foreground group, pipes, history | run, pipe, interrupt, reap, save | processes, process groups, signals, a file | pid not in the array, handler left in place, pipe ends left open, history not saved | the array is the set of children, the interrupt key hits the foreground only |
| bit string (`lab_IPC/ipc-code/bitstring-send.c`) | `canReceive`, the string | send a bit, acknowledge | SIGUSR1 and SIGUSR2 | signals that come before the flag or the pause | delivered, both end |

The remaining programs (`lab_intro`, `prac/prev`, `lab_IPC/fork_exec`, most of
`puru`) make one pass of system calls and keep no state to specify.

## 2. Modules

| Module | Models |
|---|---|
| `ReadWriteLock` | what a read-write lock promises: sets of readers and writers |
| `RWLock` | `rwlock.c`, one action per function and thread; its properties; the refinement mapping |
| `RWLock_proofs` | the theorems on `RWLock` |
| `RWLockWriterPref` | `rwlock-writer-pref.cpp`, likewise; its theorems are in `ThreadPrograms_proofs` |
| `LockStamps`, `TestReaderPref`, `TestWriterPref` | the stamps that the threads of the two test programs take; the programs over their lock |
| `FdQueue`, `FdQueue_proofs` | the queue between `main` and the workers |
| `KVList` | the list as its callers see it: a sequence of nodes, and whether the tail pointer is lost |
| `KVStore` | the list on cells and pointers; implements `KVList` |
| `KVPoolRW`, `KVPoolRW_proofs` | the server of `kv-server-pool-rwlock`: `FdQueue`, `RWLock` and `KVStore` composed; the lemmas on the list operations, and the theorems |
| `AvailLock` | the mutex with a flag and a condition that the other servers use |
| `KVStream` | a connection as two byte streams: what a `recv` of the server may take, what that does to the command under way, and when client and server are in step |
| `KVClient` | the clients at their end of the streams |
| `KVHandler`, `KVHandler_proofs` | the commands of `handle_client` over `KVList`, `AvailLock` and `KVStream`; the theorem on the mutex and the lemmas on the conversation of a thread with its client, which the proofs of the three servers share |
| `KVMutexPool`, `KVMutexPool_proofs` | the server of `kv-server-pool`: `FdQueue`, `KVHandler` and `KVClient` composed; its theorems |
| `KVThread`, `KVThread_proofs` | the server of `kv-server-thread`: descriptors and threads around `KVHandler` and `KVClient`; its theorems |
| `KVSession` | the server of `kv-server`: one thread of `KVHandler` without a lock, and `KVClient` |
| `MasterWorker` | `master-worker.c` |
| `Philosophers` | `dining_philosopher.c` |
| `TurnTaking` | `sequence.c`, `seq.c` and `wu2.c`; the variable `version`, which no step changes, says which |
| `BitString` | `bitstring-send.c` |
| `WebServer` | `simple_server.cpp` with the users of `generator.c` as its clients |
| `ThreadPrograms_proofs` | the theorems on the programs made of threads: `TestWriterPref` with its lock `RWLockWriterPref`, `MasterWorker`, `Philosophers`, `WebServer`, `TurnTaking` |
| `ShellJobs` | the job list of `lab_shell/shell` and the shell's children |
| `MyShell`, `HistoryShell` | `my_shell.c`, and `temp.c` as the same shell with a history |
| `ProcessPrograms_proofs` | the theorems on the programs made of processes: the three shells, as `MCShells` runs them, and `KVSession` |
| `MC...` | values of the constants for TLC; `MCThreadPrograms` and `MCShells` run several programs, one at a time |

### Threads, mutexes and condition variables

All the modelled data is read and written with its mutex held, except where a
module says otherwise. A critical section is therefore one action, from
`pthread_mutex_lock` (or the return of `pthread_cond_wait`) to the next wait or
unlock, and the mutex itself is not a variable. A thread in
`pthread_cond_wait` is *parked*; signal moves one parked thread, broadcast all,
and a spurious wakeup any, to a *woken* place, from which it competes with every
other thread and tests its condition again. Which parked thread a signal picks,
and who gets the mutex next, is left open. The exceptions are steps of their
own: the `pthread_cond_signal` of server.c:233 (261 in `kv-server-pool`) and the
test of `item_to_produce` in master-worker.c:54. In `WebServer` the signal
handler takes no mutex, and in seq.c `main` does not, so there the place between
the test and the wait is one of its own. `AvailLock` holds its mutex across a
blocking `recv`, so there the mutex is part of the state (`MutexFree`).

### How state and actions correspond to the code

* **RWLock, RWLockWriterPref.** `reader_count`, `writer_count` and
  `writer_writing` are the fields of `struct read_write_lock`; `at[t]` is where
  thread `t` is (outside, parked, woken, or inside). The actions have the names
  of the functions. `rwlock.c` never uses its `writer_count`.
* **TestReaderPref, TestWriterPref.** `Reader(t)` and `Writer(t)` are the four
  steps of the thread functions. The order in which `main` creates the threads
  does not restrict the order in which they start, so all exist at the
  beginning; `Joined` is `main` after its last join.
* **FdQueue.** `fd_queue` is the linked list (its nodes are never freed, so a
  sequence says all there is to say), `worker[w]` the place in `handle_client`,
  `client_fd[w]` the local of that name. A connection is named by itself and
  not by its descriptor number: the worker closes the descriptor as the last
  thing it does with it, so a reused number cannot be confused here. `KVThread`
  is about a server where it can.
* **KVStore.** `heap` maps cells to nodes, buffers or free memory. `CreateNode`,
  `DeleteNode`, `ReplaceBuffer` and `StoreValue` are the list operations of the
  four commands with their order of `malloc`, link, `free`. Nothing zeroes a buffer
  and no client sends a NUL, so a buffer is a value and whether other bytes follow it
  before the first NUL (`more`), which `strlen` of READ (server.c:140) counts in.
  Writing through a dangling `kv_node_tail` is undefined behaviour: `WriteTailNext`
  chooses among no effect, a damaged value (if a buffer now lives in the cell) and a
  link (if a node does).
* **KVList.** `list` is what a walk from the head visits and `tailLost` says that
  the tail pointer is not its last node. `KVStore!ImplementsKVList` maps the heap
  to it. The modules with many more variables build on `KVList`.
* **KVPoolRW.** `pc[w]` is the place of a worker in the `switch`, `payload[w]`
  the command, `current[w]` the node. A command is: receive, lock (as many steps
  as `RWLock` needs), search with the change that follows, then the blocking
  `recv` of the value or the sends of READ, then unlock. `stored` and
  `tailDeleted` are history variables: the map the replies promise, and whether
  a DELETE has hit the last of several nodes.
* **KVStream, KVClient.** `up[c]` is what is under way to the server: commands, values
  of one byte or more, and what is left of a command (`Rest`); `down[c]` are the sends
  to the client that it has not taken. Nothing marks their ends. `TakeValue` is the `recv`
  that asks for one byte more than the value was said to have, while the client sends
  `strlen(value)` bytes: if the next command is there, it takes the begin of it, all of
  it, or so much that the rest is read as a command. `Takes(c, n)` is one `recv` of the
  client that takes `n` sends. `fate[c]` records what became of the command under way in
  this way (`cut`, `eaten`, `merged`), and a client is `astray` once bytes were taken for
  a command that are not the begin of one, or several threads read its connection; from
  then on the server may take anything from it and the client is not followed. `Kill`
  ends a client at any time: the server then reads nothing, answers "Invalid command",
  and its sends may raise SIGPIPE (`alive`).
* **KVHandler, KVMutexPool.** `pc[t]` is the place of a thread in the `switch`. The mutex
  is held from the search to the end of the command, so the search with its change is one
  action and the `recv` of the value another. "Key not found" is sent after the
  unlock (147-152), together with the release: no other step can tell. Which of the
  seven exits is taken is in `pc[t]` and `payload[t]`; they differ in what `Missed`
  sends, and the variant `ReleaseLock_FlagInMiss` forgets the flag in one of them.
* **KVThread.** `slot` is `client_fd` of `main`, whose address `pthread_create`
  gets; `ReadArgument` is the load at line 25. `table` maps descriptors to
  connections, and `accept` returns the lowest free one. A thread never ends. A
  conversation goes astray when a descriptor that some thread has had is given out
  for it again (`Accept`), or when another thread reads `slot` while it holds the
  descriptor of that connection (`Mistaken`).
* **KVSession.** `backlog` are the connections that the kernel has completed and `accept`
  has not returned; `client_fd` is the one that is served. The commands are those of
  `KVHandler` with a lock that is always free.
* **MasterWorker.** `buffer` is `buffer[0..curr_buf_size-1]`; `produced` and
  `consumed` count the lines that `check.awk` counts.
* **Philosophers.** `state` is the array of that name, `at_table[i]` the place of
  thread `i`. `can_take_forks` is an operator on `state`, called once by
  `take_forks` and twice by `put_forks`, with its signal in `Signal`.
* **TurnTaking.** One action per access to the turn, since `main` of seq.c stores
  and signals without the lock. `Broadcasts`, `MainStarts` and `Ends` are what the
  three programs differ in; `printer[t]` is the place of thread `t`.
* **BitString.** `toChild` and `toParent` are the pending signals, one of each
  number at most. Handlers run at any time; a `pause` is two places, before the
  call and in it.
* **WebServer.** `client_queue` and `running` are the globals; `thread`,
  `serving` and `main_at`, `newsockfd` are the places and the locals of the pool's
  threads and of `main`. A connection is named by the user who opened it, for a
  user opens the next one only after the server has closed the last. `IntHandler`
  may run at any time, in `main` or, if `WorkersTakeSignals`, in a thread of the pool
  (POSIX leaves it open; Linux prefers `main`). It makes the blocking call of its thread
  fail with EINTR: `accept` of `main`, or `read` of a thread that has not got the
  request yet, which then closes the connection unanswered (`closing`, `CloseUnread`).
  Between the test of `running` and `accept` (`to_accept`) it fails nothing. When the
  process ends (`Join`) the connections still open end too, by FIN or by RST
  (`CutOff`). A user that finds its connection `closed` counts it, answered or not
  (generator.c:74-101); one that finds it `reset` exits with all users of its process,
  whose connections the server still has for a while (`orphaned`). `answered`, `cut`
  and `heard` are history variables.
* **ShellJobs.** `node` holds the live nodes of `bgJobs`, named by their job
  number, so that a freed node is outside its domain and `tail` may dangle.
  `proc` is what the system knows of each process id: unused, running, or a zombie
  that has not been waited for. `Reap` is one turn of the loops in main.c before
  and after `readline`; `command` is the kind of line. `fork` may fail at any time.
* **MyShell, HistoryShell.** `child_process` is the array without its unused end;
  `child[p]` what the system knows of a child; `sigint` the shell's disposition,
  which children inherit; `writeEnds` who can still write to which pipe of the
  pipeline under way. `place` is where the shell is in `main` and
  `execute_command`. `HistoryShell` adds the circular buffer, the file and
  sessions one after the other; the file may be missing, unreadable or not writable
  (`Start`, `save_history`), and after a pipeline the second `free` of the last command
  (temp.c:385, 395) may abort the shell unsaved (`DoubleFree`). `ResetsForeground` is
  what temp.c changed in the handler.

Variants of a definition named `X_Something` are not part of any specification:
each is `X` with a slip, and a property is seen to fail when `X` is replaced by
it.

## 3. Runs

| Run | Bounds | What it shows |
|---|---|---|
| `rwlock_reader_pref` | 2 readers, 3 writers, each locks once | Types; no reader or writer sleeps through its event; the lock implements `ReadWriteLock`; the program ends |
| `kv_pool` | 2 workers, 2 connections, 2 keys, 2 values, 5 cells, 1 failed accept | the list can always be walked; a node in use lives; what can be read is what was answered; the heap implements `KVList` |
| `kv_created_lost` | the same | *violation*: a created key that no READ finds |
| `kv_read_more` | the same | *violation*: a READ sends more than the value that was stored |
| `kv_mutex_pool` | 2 workers, 2 clients, 2 commands, 2 keys, 1 failed accept | `available` is never 0 when a thread tests it; client and worker are in step however the streams are cut; who connects is served, but for the named exceptions |
| `kv_thread` | 2 connections, 1 failed accept, 2 descriptors, 2 commands, 1 key | each thread on its own connection and in step with its client, until the conversation goes astray; the server dies of a lost client only; every command is answered, but for the named exceptions |
| `kv_thread_slot` | the same without the failure | *violation*: a running thread has another connection's descriptor |
| `kv_session` | 2 clients, 4 commands, 2 keys | replies answer their commands however the streams are cut; the server dies of a lost client only; who is not answered is stuck, or held up by an UPDATE, by SIGPIPE or by the client before it |
| `thread_programs` | queue: 3 workers, 4 connections, 2 failed accepts; 5 philosophers; 3 masters, 3 workers, 5 items, a stack of 2; 3 turn-taking threads; 4 bits; writer-preference lock: 2 readers, 3 writers | each connection in one place, no signal lost; neighbours exclude each other and sleep only behind an eater; every item once, the program ends; turns go on; the string is delivered unless a signal hit a window; of test-writer-pref.cpp what `rwlock_reader_pref` shows, and no reader enters while a writer is pending, and a writer's stamps are consecutive (the verdict of lines 196-202) |
| `web_server` | 2 threads, a queue of 1, 2 users with 2 counted requests each | no connection or wakeup is lost, and the users count every answer and what was closed unanswered; requests are answered; an interrupt at a quiet moment stops the server |
| `web_shutdown` | the same with one request each, signals to `main` only | *violation*: Ctrl+C, and the server does not stop |
| `shells` | 3 process ids; array of 2, pipelines of 3 stages; history of 2 lines, 4 lines, 2 sessions; 4 jobs; any fork may fail | array and job list are the children; the interrupt key hits the foreground only; commands and pipelines end; finished jobs are reported; the history is the last lines |

**Why the bounds are enough.** For a stolen signal one needs a parked writer, a
woken one and one that overtakes it, and a reader on each side: 3 and 2. In the
queue, the third worker takes what the second was woken for while the first is
parked, and a fourth connection waits; with two failed accepts one worker has to
do it all. The list needs two nodes for a dangling tail, and five cells so that
the deleted node's cell becomes the buffer of the other key before the next
CREATE writes through the tail. In `kv_pool` every stored value has other bytes
behind it (`Endings`), which hides nothing from its properties: they only ask what
a value begins with. Cells that leak are never reused, so the heap
also bounds the length of a behaviour: `HeapHasRoom` lets a CREATE arrive only
while its two `malloc`s can succeed. In `kv_mutex_pool` two commands are a
CREATE of one key and an UPDATE of the other, which loops, or any two that contend for
the lock while a client's `disconnect` is taken with a value; the failed accept takes
one of the two workers away. In `kv_thread` two commands suffice for a thread to wait
for a value with the mutex held while another thread asks for it, and with the
disconnect for one whose begin is lost; one key is enough there, since the UPDATE
that loops needs a second one only for its own sake. In `kv_session` four commands
lose the tail of the list and a node behind it, and the second client waits in the
backlog. Five items through two places leave masters parked at a full stack after
the last item. Five philosophers are the code's; with four or more a philosopher
has a neighbour's neighbour who eats meanwhile. In the web server a queue of one is full
with the first connection, so that the other user's next one leaves `main` before a full
queue, and of a user's two connections the first can be cut by an interrupted `read` and
the second by the end of the process. `NothingLost` is proved for every size; a larger
queue would only add pushes before the first woken thread runs, which the queue of
`thread_programs` has. In the shells the third of four
jobs has two neighbours, three process ids come back for the fourth and make a
pipeline with a middle stage, and the third line turns the history over; temp.c is
run with two process ids, which bounds its product with the history. The bounds
named in the modules are `MaxAcceptErrors`, `Cells` (with `HeapHasRoom`),
`Endings`, `MaxCommands`, `NumFds`, `MaxRequests`, `MaxJobs`, `MaxStages`, `Limit`,
`MAX_HISTORY_SIZE`, `MaxLines`, `MaxSessions`, `LENGTH`, `N` and the sets of
threads, connections, clients, users and process ids.

**Several programs in a run.** `MCThreadPrograms` and `MCShells` choose one program at the
start (`program`), and for `TurnTaking` one of its three versions; the others stay in
their initial states. Each property speaks of its own program's variables.

**Stated exceptions.** UPDATE's search does not advance (server.c:186-193 and its
copies), so a command on a key that is not in the first node never ends and keeps
the lock (`pc[t] = "loop"`). A client is `Stuck` when the server took its command for
the end of a value, or when it took the length, or the value, together with "OK" and then
waits for a length that is over. It is `Astray` when what the server reads of it
is no longer commands. SIGPIPE ends the servers. The liveness properties name these as
their exceptions, as those of the thread programs name `missed` and `raced`, and
`InStep`, `RepliesMatch` and `DiesOfLostClient` say how far each of them reaches.
Outside them the properties are unconditional. `RequestAnswered` excepts a server that is
being stopped, and `NothingLost` bounds what the users then count without an answer.

**Symmetry** (`kv_pool`): workers, connections, cells, keys and values are only
compared for equality; the run checks invariants and the safety formula
`ImplementsKVList`, which treats them alike.

**Fairness.** Weak fairness on a thread says that a thread that can run does.
Nothing makes spurious wakeups happen, so that a lost wakeup shows as a
violation of liveness. Users of the key-value clients go on until they disconnect
and take what they wait for; without that no code could serve more clients than
there are workers. Killing a client, typing a command, failing an accept or a fork and the interrupt
key are never required. In `WebServer` users send what they have connected for,
and `main` has strong fairness, for without it threads that wake up spuriously
could keep the mutex from it for ever. In the shells the user goes on typing,
foreground commands end, and a stage of a pipeline ends when its input has; a
background command need not, except in `ShellJobs`, where children end. Waiting
for a read-write lock is not claimed to end in general: a stream of readers
starves writers under reader preference, and the other way round.

**Deadlock** is checked in `MCKVPoolRW`, `MCKVCreatedLost`, `MCKVReadMore`,
`MCTestReaderPref`, `MCWebServer` and `MCWebShutdown`; the other configurations switch it
off, for they contain programs that end, or a server that SIGPIPE may end.

## 4. Findings

1. `kv_created_lost`. DELETE of the last of several nodes leaves `kv_node_tail`
   at the freed node. The next CREATE answers "Key-value pair created" and links
   its node behind the freed one; the key, and every later one until the list is
   empty, is unreachable. The assignment (`lab_nw/kvserver.pdf`, page 3) asks
   that stored keys are available to later clients. All four servers share the
   code.
2. `kv_thread_slot`. `main` passes the address of its one `client_fd` to every
   thread (kv-server-thread/server.c:284-286). A connection accepted before the
   last thread has read it (line 25) is served by two threads, and the earlier one
   by none. The assignment (page 3) says that the server passes the descriptor
   returned by `accept` to the new thread.
3. `web_shutdown`. The SIGINT handler of the web server (simple_server.cpp:97-102)
   changes `running` and broadcasts without the mutex. A thread that is about to
   wait misses both and is never joined; so does `main` if it waits for room in the
   queue (line 184), since threads that leave take nothing off it. Line 154 says
   "To stop the server, press Ctrl+C".
4. `kv_read_more`. The buffer of a value comes from `malloc` and is not zeroed
   (server.c:108-109, 205-206), the client sends the value without a NUL
   (client.c:109, 189), and READ sends as many bytes as `strlen` finds (140): what an
   earlier value, or the allocator, left behind comes with it. The assignment
   (`lab_nw/kvserver.pdf`, page 2) says that read "must display the value corresponding
   to the key". All four servers share the code.

What remains true in spite of them is checked too: `ContentsAsAnswered` (what is read
begins with the value stored last), `InStep` and `HeardShutdownEnds`.

Met while modelling, and stated as exceptions of properties and not as findings,
since nothing in the repository says otherwise of them: UPDATE's endless search;
the bytes of the next command that `recv` takes with a value (kv-server/server.c:129,
222; 119, 232 of the other servers); the client that takes the length or the value with
"OK" and waits for ever (client.c:132, kv-server/client.c:128); SIGPIPE that ends a
server; the `read` of a pool's thread that SIGINT fails (simple_server.cpp:39), and the
connection without an answer that the generator counts (generator.c:74-101); the last
command of a pipeline that is freed twice (temp.c:385, 395); the handler that stays after
a failed `fork`, and `kill(1, SIGINT)` (my_shell.c:71, 279); the window between
test and `pause` (bitstring-send.c:108).

## 5. Proofs

All theorems hold for every value of the constants that the named assumption of
the specified module allows, and assume no fairness.

| Module | Assumes | Theorems |
|---|---|---|
| `RWLock_proofs` | `ThreadsFinite` | `Inductive`, `TypeCorrect`, `MutualExclusion`, `NoLostWakeup` (`Spec => []NoWakeupLost`), `Refinement` (`Spec => ImplementsReadWriteLock`) |
| `FdQueue_proofs` | `FdQueueAssumption` | `QueueInvariant`, `OncePlaced` (`QueueSpec => []EachConnectionOncePlaced`), `NoSignalLost` (`QueueSpec => []WokenCoverQueue`) |
| `ThreadPrograms_proofs` | `ThreadsFinite`, `RolesDisjoint`, `RolesCover`, `TableAssumption`, `BufferAssumption`, `WebServerAssumption`, `TurnAssumption` | of `RWLockWriterPref`: `LockInvariant`, `TypeCorrect`, `MutualExclusion`, `WakeupsSuffice` (`Spec => []NoWakeupLost`), `WriterPreference` (`Spec => WritersFirst`), `Refinement`; of `TestWriterPref`: `TestUsesLock` (`TestSpec => Spec`), `WritersAlone` (`TestSpec => []WriterStampsConsecutive`); of `Philosophers`: `TableInvariant`, `NeighboursNeverBothEat` (`DiningSpec => []NeighboursExclude`), `SleepsBehindEater` (`DiningSpec => []ParkedBehindEater`); of `MasterWorker`: `BufferInvariant`, `ItemsOnce` (`BufferSpec => []EachItemOnce`), `NobodySleepsThrough` (`BufferSpec => []NoBufferWakeupLost`); of `WebServer`: `ServerInvariant`, `NothingIsLost` (`ServerSpec => []NothingLost`); of `TurnTaking`: `TurnsTaken` (`TurnSpec => []TurnsGoOn`) |
| `ProcessPrograms_proofs` | `MyShellAssumption`, `HistoryAssumption`, `MCShellsAssumption`, `SessionAssumption` | of the shells: `JobList` (`MCSpec => []JobListSound`), `ArrayHoldsChildren` (`MCSpec => []ArrayIsChildren`), `InterruptHitsForeground` (`MCSpec => []OnlyForegroundHit`), `HistoryLists` (`MCSpec => []HistoryIsLastLines`); of `KVSession`: `SessionHolds` (`SessionSpec => []SessionInv`), `RepliesInStep` (`SessionSpec => []RepliesMatch`), `OnlyLostClientKills` (`SessionSpec => []DiesOfLostClient`) |
| `KVPoolRW_proofs` | `PoolAssumption`, `StoreAssumption` | `ImplementsRWLock`, `ImplementsFdQueue`, `PoolInvariant` (`Spec => []PoolInv`), `TypeCorrect`, `ListAlwaysSound` (`Spec => []ListSound`), `HeldNodesLive` (`Spec => []HeldNodeLives`), `AnswersHold` (`Spec => []ContentsAsAnswered`), `ListRefinement` (`Spec => ImplementsKVList`) |
| `KVHandler_proofs` | nothing | `LockInvariant` (`Lock!Spec => []LockInv`) |
| `KVMutexPool_proofs` | `MutexPoolAssumption` | `PoolInvariant` (`Spec => []PoolInv`), `AlwaysInStep` (`Spec => []InStep`), `OnlyLostClientsKill` (`Spec => []DiesOfLostClient`), `ImplementsAvailLock` (`Spec => HandlerProofs!Lock!Spec`), `CondIdle` (`Spec => []CondNeverWaited`) |
| `KVThread_proofs` | `ThreadAssumption` | `ServerInvariant` (`Spec => []ServerInv`), `AlwaysInStep` (`Spec => []InStep`), `OnlyLostClientsKill` (`Spec => []DiesOfLostClient`) |

**The read-write locks.** Exclusion is not inductive alone: a writer enters on
the word of `reader_count` and `writer_writing`, so the invariant must say that
the fields tell the truth about where the threads are (`CountsReaders`,
`FlagsWriter`; `CountsWriters` for the writer-preference lock, whose
`writer_count` also counts the writers that wait). The wakeup properties are
inductive relative to these: an unlock decides by the fields whom to wake. There
is one lemma for each function of the lock; `ThreadSets` has the facts about
cardinalities. For the refinement, `StepRefines` maps each step to one of the
abstract lock or to a stutter: `In("reading")` and `In("writing")` change only when
a thread enters or leaves. `WriterPreference` follows from the same invariant, since a
reader that enters has seen a `writer_count` of 0.

**The test program.** `TestUsesLock` shows that the threads of test-writer-pref.cpp do to
the lock what `RWLockWriterPref` says, so that its invariant may be used. `StampsInv`
says besides which stamps each thread has taken; while a writer stands between its two, only
it is inside, so nobody else can take one.

**The list on the heap.** `HeapInv(s)` describes memory by the sequence `s` of the listed
nodes: the head pointer, each `next` and the end are those of `s`, no cell occurs twice,
each node has a buffer of its own, and a tail pointer that points to a listed node at all
points to the last. Each operation turns one such `s` into another (`CreateKeeps`,
`DeleteKeeps`, `ReplaceKeeps`, `StoreKeeps`), also a CREATE that writes through the
dangling tail: the cell it hits is never a listed node, so it can damage a value but not
the list. `Walk` is defined by recursion over the heap. `WalkVisits` shows that the
function that reads off `s` satisfies its equation and is the only one, by induction up to
a bound; the library's induction rules cannot be used, so `UpTo` derives one for sets from
the well-foundedness of finite subsets. `View(s)` are the keys and values of `s`, and
`CreateRefines` to `StoreRefines` show that the operations act on it as `KVList` says.

**The pool server.** `PoolInv` joins the invariant of the lock, `Stages` (which worker has
the lock, in which way and with what command, at each place of the `switch`) and, for some
`s`, `HeapInv(s)`, what each worker's node is (`Holds`: a listed node, or one that a CREATE
lost), and what the list and `stored` have in common (`InStepWith`). A single part is
not inductive: that a READ's node is still listed when it sends needs that nobody
unlinks meanwhile, which is `RWLock`'s exclusion and comes from `ImplementsRWLock`; that the
answers agree with the map needs that a worker in the middle of a CREATE or UPDATE is
alone. `ContentsAsAnswered` claims only what a buffer begins with, and of a buffer that was
written through the dangling tail nothing. `ListRefinement` reads the mapping off the same invariant.

**The connection queue.** `QueueInv` says where a connection is in terms of places,
not of cardinalities: a connection is queued or served exactly from its accept to its
close (`PlacedWhileOpen`), and two positions, two workers, or a position and a worker
never share one (`PlacedOnce`). -1, which several workers may share, is excepted.
Without `PlacedWhileOpen` an accept could append a connection that is in use.
`WokenCoverQueue` is inductive by itself: an enqueue lengthens the queue and the woken
workers by one each, unless nobody is parked any more; a worker that takes a
connection shortens the queue by one, and the woken workers by at most one; the
signal outside the mutex and a spurious wakeup only add to the woken.

**The philosophers.** `ParkedBehindEater` is not inductive: a philosopher that was
woken spuriously parks again if it is still HUNGRY, so `TableInv` asks for an eater near
everybody who is parked or woken (`WaitsForSomeone`). `take_forks` first takes EATING away
from a philosopher that a neighbour had made EATING while it thought; on that its
waiting neighbours may rely, and it is kept because nobody beside it can be EATING,
so that `can_take_forks` gives it back at once. `put_forks` takes EATING away for
good, and only the two neighbours can have relied on it; after `can_take_forks` each of
them eats or has an eater on its other side (`CanTakeForks`). With one philosopher, its
own neighbour on both sides, and with two the same lemmas apply.

**Masters and workers.** `BufferInv` is the types, `EachItemOnce` and `NoBufferWakeupLost`,
each of which is inductive given the types. The lock is not held between the loop's
test of `item_to_produce` and the next one (master-worker.c:54), so `Produce` tests again;
without that a second master would produce an item past the last. Workers
wait for their turn and for an item on one condition variable, so they are woken by
broadcast (`BroadcastEffect`), and one that leaves hands the turn on as it does
(`TurnPasses`). Masters are woken one at a time: the invariant says that if one is
parked while there is room then another is woken, which a woken master keeps true because it
either finds the stack full again or signals the next one (lines 37-52).

**The web server.** `NothingLost` counts the places of a connection; `ServerInv` says the
same without counting: until the process ends, the queue and the backlog hold nobody
twice, and the two, `main` and the threads hold disjoint sets that together are the open
connections (`InOneHand`). `OneHandOnePlace` goes back to the count. That an enqueue
appends a connection at all, and an accept overwrites none, is `HoldersKnown`, which ties
`newsockfd` to the place of `main`, and `serving` to the places of the threads; an
`accept` that SIGINT interrupts is the case where `main` goes on without one.
`HoldersKnown` also says that the queue is empty while a running thread stands between
its test and its wait: otherwise `Wait` would park a thread beside a connection.
The figures of the generator are an equation between the answers, the connections that
ended without one, and what each user has counted. It needs `RequestsLeft`, by which the
bound of the model never stands for a count, and, for the bounds on the unanswered,
two facts about the shutdown: a read fails only after `running` was reset
(`HoldersKnown`), and a user whose connection ended so comes to no thread again
(`CutForGood`), for the threads that find `running` reset leave. Nothing of this asks
when SIGINT comes. The wakeups are claimed only while `running` is set,
for afterwards they are lost, as `web_shutdown` shows.

**The turns.** `TurnsGoOn` speaks of three moments only: a thread whose turn it is and
that is parked, one that returned, and a printing out of turn. Between two moments
`TurnInv` says what each place implies: whoever has printed has the turn until it stores
the next one (`InOrder`), and a thread whose turn it is is parked only if the signal for
it is still to come (`Awaited`). The unlocked store of `main` in seq.c can undo the first,
and its signal the second, so the two parts are claimed after the store and while `missed`
is false. The arithmetic of the ring is in `NextPrinter`.

**The job list.** `JobListSound` is inductive together with `WaitedHasNoJob`: while the
shell waits for a foreground command that command is a child without a job, so a job that
is added cannot have its process id. The links are proved for each operation: adding a
last node, and removing the head, the tail, a middle node or the only node, where the
nodes between which the list closes are next to each other in the order of the job
numbers. `FindJob` is a recursive function over the nodes; that it finds a node for every
child that can be reaped is shown by exhibiting a function that satisfies its equation
(`SearchEnds`), and `FindJobFinds` looks at the last node from which the search could go
wrong, in place of an induction.

**The array of children.** `ShellInv` says at each place of `main` and `execute_command`
which children are not background ones (`OthersOK`): none, the foreground command, or the
stages of the pipeline that have not been reaped. With it a `waitpid` for one of those
never takes a child of the array, and the one with WNOHANG reaps only children of the
array, before which `ArrayOK` holds; so the count that my_shell.c:66 decrements in any
case is decremented for a pid that is there. `SignalOK` is about the interrupt key: until
the fork of a foreground command fails, the handler is installed only while a foreground
command is waited for, and every other child inherited SIG_IGN. `AnyStep` covers both
programs, so that each step is proved once; `AnyEnd` are the ends that only temp.c has, at
the end of its input and by the second `free`.

**The history.** `Holds(h, s)` says slot by slot, counted back from `idx`, that the buffer
has the last lines of `s`; adding a line, printing, saving and loading are then facts
about positions modulo the size (`NextSlot`, `BackOnce`, `KeptLines`), for one slot as
well as for many. Loading is a fold over the file, again proved by a function that
satisfies its equation. A session that ends without saving leaves file and `saved` as they
were, so that the next one begins with what was saved last, or with nothing.

**The mutex with a flag.** `LockInv` needs `OneInside`: otherwise a release could
set the flag while another thread is inside. `KVMutexPool_proofs` shows that each step of
the server, of its queue and of its clients is a step of `AvailLock` on `available` and `at`
or leaves both alone, whichever way a command ends, and takes `LockInvariant` over.

**A thread and its client.** `InStepAt` is about a few moments only: the client is idle, has a
reply to take, or waits while the thread waits too. `Talk` says for every pair of places
what the request, the two streams and `fate` then are: nothing owed (`Settled`), a request
that was taken (`Asked`), a value that was asked for and one that is due (`ValueAsked`,
`ValueDue`), answers that the client has not taken yet, in each of the ways in which its
`recv` can cut them (`Answering`), a command of which the server took the begin or all
with a value (`Robbed`), or a conversation that is over, because the client was killed or
is astray (`Over`). `CommandKeeps`, `ConnectedKeeps`, `DisconnectedLeaves`, `InvalidKeeps`,
`ReceiveValueKeeps` and `ClientStepKeeps` show that every step of either side keeps it,
which is where each of the exits of the commands has to send exactly the answers that the
client's branches expect; `ConversationInStep` reads `InStepAt` off it. They speak of one
thread and one connection and are used by the proofs of all three servers.

They hold only if the thread has the connection to itself. In the pool `PoolInv` gets that
from `QueueInv` of `FdQueue_proofs`: a connection is in one place, so no step of a second
worker touches the conversation, and an accepted connection comes to its worker untouched
(`UnservedWait`). In the single-client server `SessionInv` says of each client where its
connection is (`Situation`): served and in `Conversation`, in the backlog, where
each waits once (`Line`), and `Unserved`, or `Left`, with the answer to its disconnect at
most. The thread-per-client server has to earn it: `Awaited` says that the
descriptor in `main`'s variable is that of a thread which has still to read it, and
`SoleReader` that who reads from the connection of a conversation not gone astray is its
own thread. Both break after an accept that overtakes a starting thread, or when a
descriptor is given out again that a thread still has, and at exactly these steps the
conversation goes astray; `kv_thread_slot` shows what the descriptors are then.
`DiesOfLostClient` is part of each of the three invariants: only a send to a client that
has ended or gone astray can raise SIGPIPE, and by `Talk` no thread sends anything to a
client after the answer to a disconnect that it understood.

**Only model-checked.** Everything under fairness (`Termination`, `TestEnds`,
`MasterWorkerEnds`, `ServedUnlessLooping`, `Answered`, `RequestAnswered`,
`HeardShutdownEnds`, `CommandIsWaitedFor`, `FinishedIsReported`, `DeliveredUnlessRaced`):
liveness and `ENABLED` are out of the prover's reach. Every other property of a passing
run, that is every invariant, `WritersFirst` and the refinements, is stated by a theorem.
The invariants of types (`TypeOK` of the writer-preference lock and of the servers) and
`DiesOfLostClient` of the pool server are proved and in no run; the run of `KVThread`
checks the latter on the same handler and the same clients.
Induction is available over sets only, as above, for the library's rules take an
operator as a parameter.

**What the proofs changed in the model.** The proof of `OnlyForegroundHit` split the branches
of `sigint_handler` and found that two of them overlapped for temp.c, so that the model chose one
where the code tests `foreground_pid` first. `update_child_process_array` now says position
by position what the loop does. `DiesOfLostClient` used to say that some client was lost, which
a client of long ago satisfies; it now says that the one being served was. The turn-taking
programs were told apart by constants that no theorem could relate to each other, and
are now by the variable `version`.

## 6. Plan

Done: all components of section 1 but goldbach; every safety property proved.

Next: the half of each liveness argument that needs no fairness, that is a measure, such as
the stamps or items still to come, that no step increases.

## 7. Not modelled

Formatting, terminal output and argument parsing; the values' bytes; `malloc`
returning NULL; `recv` errors other than through a bad descriptor or a lost peer;
TCP that cuts a single `send`, whose bytes arrive together; values of a negative size; an
`accept` of kv-server that fails; what becomes of a conversation that went astray but that
the server may read anything from it, and of clients whose server has died; a double
`free` that the allocator does not notice but that does harm later; what a user types while the client is
not connected; a second `connect`, on which a client exits (it is then a killed
client); the verdicts of the lock tests that compare the order of acquisitions, which
rest on `usleep`; requests on which the web server exits, and its text handling
(`http_server.cpp`), which keeps no state between requests; the marks that `jobs`
prints for the current and the previous job; Ctrl+C at `lab_shell/shell`; built-in
commands of the shells but `exit` and `history`; a `max_buf_size` of 0, with which the
master-worker program stops at once; `wu1.c` and `goldbach.c`, whose threads share a
counter or nothing; `sigalarm4.c`, `socket-server.c`, the ping-pong and file-transfer
programs of `prac/socket`, one flag or one counter each; `zemaphore`, whose functions
are empty in the repository; vendored and generated files.
