# cpp_demos in TLA+

The repository is a collection of C++ programs: a reliable protocol over UDP
multicast with the file transfer built on it (`kcp_demos`), a process pool with an
HTTP server on top of it, a bounded buffer, and some twenty small programs, each
about one thing (a condition variable, merged signals, a daemon, pipes, datagrams,
an echo server, singletons, smart pointers, ...). The modules here model those, TLC
checks them on small instances, and TLAPS proves their safety properties for every
value of the constants.

    tlc  -config KcpArqSafety.cfg MCKcpArq.tla     model-check a run
    tlapm KcpArqDelivery.tla                       check the proofs of a module

## 1. The system

| component | state | operations | interaction |
|---|---|---|---|
| KCP protocol (`third_party/kcp/ikcp.c`) | queues and buffers of both directions, `snd_una`, `snd_nxt`, `rcv_nxt`, the peer's window, the ACK list, the window probe | `ikcp_send`, `ikcp_recv`, `ikcp_input`, `ikcp_flush` | two control blocks exchange datagrams that are lost, repeated and reordered |
| KCP timers (same file) | `current`, `ts_flush`, `rx_srtt`, `rx_rttval`, `rx_rto`; `ts`, `rto`, `resendts`, `fastack`, `xmit` of a segment | `ikcp_update`, `ikcp_flush`, `ikcp_check`, the ACK part of `ikcp_input` | the caller's loop reads a 32-bit clock that wraps |
| wrapper and programs (`kcp_wrapper.*`, `sender.cpp`, `receiver.cpp`) | a socket, a control block, the file being read, the files written | `init`, `sendFile`, `sendDirectory`, `update`, `onDataReceived` | one sender, a multicast group of receivers |
| producer and consumers (`producerAndConsumer1.cpp`) | a counter, a mutex, two condition variables | nine threads in two loops | shared memory |
| condition variable with a stop flag (`pthread_condition1.cpp`, `pthread_create.cpp`; without the flag `pthread_condition.cpp`) | `count`, `is_running`, a mutex, a condition variable | `task1`, `task2` | shared memory |
| process pool (`2process_pool.cpp`) | descriptor tables, pipes, `nextWorker` | constructor, `submit`, destructor, `worker` | processes that inherit descriptors at `fork()`, pipes |
| HTTP server over the pool (`httpserver.cpp`) | the pool's, clients' descriptors | accept loop, `handleClient` | tasks that carry a descriptor NUMBER to another process |
| forking server (`3http_server.cpp`, `process_zombie_with_signal.cpp`) | who holds which socket, a pending signal, children | accept loop, `handleClient`, `reapZombies` | `fork()`, SIGCHLD, connections |
| daemon (`deamon.cpp`) | sessions, groups, descriptor tables of three processes | `daemonize` | `fork()`, `setsid()` |
| pipes (`pipe/`) | a pipe and who has its ends open | a writer and a reader | `fork()`, a FIFO in the directory |
| datagrams (`udp/`) | the receivers' buffers | senders, receivers | UDP, a multicast group |
| echo server (`socket/`) | sockets, a thread for each client | `client_handler`, the clients' loop | TCP |
| singletons (`singleton/`) | `instance`, `mtx` | `get` | shared memory, store buffers |
| smart pointers (`smart_ptr/`) | objects, reference counts | all members that change ownership | |
| memory pool (`memory_pool1.cpp`) | the free list | `allocate`, `deallocate` | |
| observers (`observer.cpp`) | the vector of observers | add, remove, notify | callbacks |
| joined threads (`pthread_join.cpp`, `pthread_exit_retval.cpp`, `pthread_mutex.cpp`) | an array, results, a mutex | create, work, join | shared memory |
| builder, factory, mmap, language and single-call samples | little or none | | not modelled, see section 8 |

What is hard in it:

* **Ordering and unreliable delivery.** Every segment carries `una` and `wnd`;
  an old one overwrites the remote window and names an old `una`. A PUSH whose
  ACK was lost comes again. The correctness of `snd_buf` (nothing forgotten that
  the peer does not hold) depends on all of them.
- **Closed windows.** `ikcp_recv` reopens a window with one unacknowledged
  segment; if that is lost, only the probe timer can help.
- **Time.** Timestamps wrap after 49.7 days, updates come late, the flush plan
  of `ikcp_update` is read by `ikcp_check`.
- **Wake-ups.** Signals sent after the unlock, one condition variable for eight
  consumers, spurious wake-ups, a stop flag that is no part of the condition.
- **Inherited descriptors.** A pipe ends when the last process that holds its
  write end closes it, and `fork()` spreads write ends. So do sessions, sockets and
  what the shell left open.
- **Merged signals.** Children that end while SIGCHLD is pending or handled are one
  signal.
- **Unlocked reads.** The lazy singleton's first test runs against a store that is
  still in another processor's buffer.
- **Kills at any point.** A process that is killed between two calls of its partner
  must not leave it waiting, nor end the server of the others.

For each component the properties that make it correct are those of section 4.
`PROJECT.json` lists every hazard at its line with the properties that cover it,
or why none does.

## 2. The modules

    ReliableChannel          what a KCP session promises its users
         ^ refines
    KcpArq                   the protocol: both control blocks and the network
      KcpArqInv              its inductive invariant      MCKcpArq: TLC's constants
        KcpArqProofs         lemmas on its operators, types
        KcpArqTransfer       no fragment is lost
        KcpArqDelivery       delivery in order, refinement of ReliableChannel
        KcpArqWindows        windows, stranded data, numbers never backward
    KcpTimer                 the clock that KcpArq leaves open
      KcpTimerProofs
    FileTransfer             the programs, over an ideal KCP   (MCFileTransfer)
    ProcessPool              the pool, at the level of system calls
      ProcessPoolProofs
      HttpPool               the server, EXTENDS ProcessPool
    Programs                 which of the small programs runs
      BoundedBuffer, its proofs in BoundedBufferProofs
      BatchTask, ForkServer, Daemon, Pipes, Datagrams, EchoServer, Singleton,
      SmartPointers, MemoryPool, WeatherStation, JoinedThreads
        MCPrograms           all of them in one run
          ProgramsProofs

### KcpArq and ReliableChannel

The variables have the names of the fields of `IKCPCB`, each a function of the
node. `Send(n, count)` is `ikcp_send` of a message of `count` fragments, `Recv(n)`
is `ikcp_recv` with its trailing move from `rcv_buf` and the window update it
asks for, `Flush(n, late, due)` is the whole of `ikcp_flush` (ACKs, probe, window
commands, numbering, transmission), `Input(n, s)` the whole of `ikcp_input` for a
segment, with one action for each command. `Lose(s)` and the segments that
`Arrive` leaves in `net` are the network.

Abstractions, and what they leave out:

* Time is the pair of parameters of `Flush`: `late` is the set of segments whose
  timer has run out or that fast retransmission picks, `due` says that the probe
  timer has run out. Any choice is allowed, so the safety results hold for all
  timings; KcpTimer computes the choice.
* A fragment is a token: its position in the sender's stream, and `frg`.
  Sequence numbers are naturals and do not wrap; `wnd` fits its 16 bits and `frg`
  its 8 (`rcv_wnd` is 128 in the wrapper).
* Segments of one datagram travel separately, and the network is a set: every
  order of the code is there and some more, and identical copies are one.
* `nocwnd = 1` and `stream = 0`, as the wrapper sets them: the congestion window
  is computed by the code but not used, so it is no variable here.
* The user's buffer holds any message (`ikcp_recv` never returns -3), and
  datagrams are well formed.

`ReliableChannel` has only `sent` and `delivered`: every message one side sends is
delivered to the other once, whole, in order, and in the end.

### KcpTimer

One control block. `Update(gap)` is `ikcp_update` called `gap` after the last call,
with `ikcp_flush` in it; `InputAck(ack, una)` is `ikcp_input` of one acknowledgement
and any `una`; `CheckTime` is `ikcp_check`. Timestamps are in `0..W-1` and compared
by `TimeDiff`, as `_itimediff` does. True time, the time of the last flush and of the
last transmission, and the acknowledgements that passed a segment over are
history variables: the properties compare the code's arithmetic to them.
`updated` starts with any value, since `ikcp_create` does not write it. Left out:
duplicate ACKs, the probe timer, the growth of `rto` beyond 32 bits, and
`nodelay = 0`. Note that `fastack` is not reset by a retransmission on timeout, so the
evidence for a fast one counts from the last fast one; the property says so.

### FileTransfer

`Initialise` and `InitFails` are `KCPWrapper::init` and its early returns, `OpenFile`
and `SendChunk` are `sendFileInternal`, `Return` is the end of `main` with
`~KCPWrapper` and `ikcp_release`, `Update` is `KCPWrapper::update` with
`onDataReceived` for what it takes in. KCP is ideal here: what is flushed arrives
at once. What remains is who calls what.

### BoundedBuffer

One of the small programs (see below), and the one with the most threads. One action per
pthread call; `at[t]` is where thread t is in its loop. A thread that is "woken" is inside `pthread_cond_wait` and has still to get the mutex: between the
two, any other thread may run. The sleeps are left out (any delay is possible).

### ProcessPool, HttpPool

One action per system call. `fds[p]` is the descriptor table of process p, from
number to open file; `numWorkers` is chosen when the pool is built. `Fork` copies the table, `Exit` empties it, `pipe()` takes the lowest
free numbers. A read of an empty pipe blocks until no process holds its write end.
`Fails` is the `exit(1)` of the constructor. `HttpPool` adds `accept()` and
`handleClient`, which looks the number up in the worker's own table.

### The small programs

They have nothing in common, so one run checks them all: `program` (module
`Programs`) is the source file whose `main` runs, chosen in the initial state, and the
variables of all other programs keep their initial values. Each module has its own
Init and Next under a prefix; `MCPrograms` puts them together.

* `BatchTask`: one action per pthread call. `StopFlag` tells the programs with
  `is_running` from the one without.
* `ForkServer`: the steps are system calls. `sigchld` is a flag, not a counter, as a
  standard signal is; `Deliver` starts the handler between any two steps of `main`,
  also inside a blocked `accept()`. `holders[s]` are the processes with a descriptor of
  socket s. Clients may never send, and may hang up at any time; `accept()`, `fork()`,
  `read()` and `write()` fail where they can.
* `Daemon`: three processes with sessions, groups and descriptor tables. `Inherited`: the
  shell may leave any set of numbers open. `open()` takes the lowest free number: this is
  why the log gets 0 and `/dev/null` the next ones, fewer than three if some of its `open()`
  fail, which nobody looks at. So the daemon's standard input is its log, not `/dev/null` as
  `deamon.cpp:90` has it; `Detached` needs only that none of the numbers is the terminal.
* `Pipes`: three programs over one pipe, which is a number of bytes. Any process may be
  killed at any point; a FIFO of an earlier run may be there; `open()` of a FIFO waits.
* `Datagrams`: a byte is the number of the line it is from. The network loses, repeats
  and reorders. `udp_sender` waits for an answer that no receiver here gives.
* `EchoServer`: one thread for each client, `SIGPIPE` for a send to a connection that was
  reset, an abort when `accept()` fails (threads that can be joined are destroyed), also
  for a client that is killed while it waits to be accepted. A connection is two streams
  of bytes, each marked with the number of its word; `typed[k]` has the lengths of the
  words. Client and server are on one host, so what is sent arrives in one piece, but
  every `recv()` takes at most `Room` bytes and leaves the rest for the next one. A word
  that does not fit into `write_buf` behind `"server: "` overflows it (`Overflows`). What
  lies there is the compiler's choice: the thread's `read_buf`, or its saved frame. So the
  process crashes at once or when the thread returns, or the answer is sent with
  all its bytes, more than the client's `recv()` takes. `cin >> buf` stops at 1023 bytes, as it
  does for an array since C++20 (and in libstdc++ since version 11); before, a longer word
  overflows the client's own buffer, which ends the client: `Leaves`.
* `Singleton`: the steps are the accesses of `get()`. The memory is that of x86: a store
  waits in its thread's buffer until it drains, at the unlock at the latest.
* `SmartPointers`: any program that calls the members of the two classes in any order
  and hands each raw pointer over once. The count of an object's `RefCount` is
  `counter[o]`.
* `MemoryPool`: users who return what they got, the null pointer of an empty pool too.
* `WeatherStation`: `removeObserver` with its `erase` inside the loop, which passes over the
  entry behind an erased one. `SideBySide(o)` speaks of the vector as it is, not of the calls
  that made it: o, x, o become neighbours when x is removed.
* `JoinedThreads`: `pthread_create` may fail, and the join of an id nobody wrote is
  undefined: it fails or crashes.

## 3. Runs

| run | module, config | states | result |
|---|---|---|---|
| kcp_safety | MCKcpArq, KcpArqSafety | 967,019 | pass |
| kcp_both_ways | MCKcpArq, KcpArqBothWays | 196,190 | pass |
| kcp_live | MCKcpArq, KcpArqLive | 24,930 | pass |
| kcp_timer | KcpTimer, KcpTimer | 295,204 | pass |
| kcp_first_update | KcpTimer, KcpTimerFirst | | violation |
| sender_exit | MCFileTransfer, FileTransfer | 298 | violation |
| programs | MCPrograms, Programs | 320,045 | pass |
| batch_stop | BatchTask, BatchTaskStop | | violation |
| observer_removal | WeatherStation, ObserverRemoval | | violation |
| process_pool | ProcessPool, ProcessPool | 2,136 | pass |
| pool_destroy | ProcessPool, ProcessPoolDestroy | | violation |
| http_pool | HttpPool, HttpPool | | violation |

Bounds, and why they are enough:

* *kcp_safety*: four messages of one fragment from `a` to `b`, windows of two. The
  stream is twice the window, so the window closes, is reopened and slides over all
  it held. Two ACK segments may be on their way at once, so `una`, `sn` and `wnd`
  overtake each other. The network loses nothing here, but a flush may send any
  segment again at any time, so duplicates of the data are there.
* *kcp_both_ways*: `a` sends two fragments, `b` one, in messages of one or two, and
  the network loses or duplicates one segment. Both directions share segments'
  `una` and `wnd`; fragments of one message arrive in either order.
* *kcp_live*: three fragments through a window of two and one lost segment. The loss
  may hit the data, the ACK, the probe or its answer.
* *kcp_timer*: `W` = 48 with the clock starting at 0 or 5 before it wraps; the constants
  keep the order of the code's (`Interval` < `RtoDef` < `Jump`, 10 < 200 < 10000).
  Gaps of 1, 4 and 9 are punctual, late, and later than `Jump` = 8; three segments are
  what `FastResend` = 2 needs.
* *programs*: seven counts in batches of two, so that a rest stays behind. Three consumers
  and room for two, so that a broadcast wakes more threads than there are items, and two
  spurious wake-ups: an unlimited supply could keep the mutex from the producer forever.
  Two forked clients: the second signal merges with the first, or comes while the handler
  runs.
  `MaxFd` = 5: the four numbers the daemon opens and two above them; the shell leaves any
  subset of the six open.
  Pipes of 8 bytes with reads of 4 and messages of 3, so that a read cuts a message as
  1024 cuts one of 14. Two lines of up to two bytes, so that a short one follows a long
  one. Two echo clients and three words of 1 or 3 bytes each, with buffers of 4 and a prefix
  of 2: the answer to the first still fits with its NUL, that to the second overflows
  `write_buf`, is longer than a `recv()` takes, and leaves a rest for the next word. `accept()`
  fails here for a client that is gone; that it fails for want of descriptors, which takes
  more clients than `MaxClients`, is left to the theorem. Three threads race for the
  singleton: one holds the lock, one waits for it, one is past the first test. Two
  objects and three pointers: two owners and one that comes or goes. Two blocks and
  three users, so that the pool runs dry. Three entries of two observers: the same one
  twice side by side, apart, and made neighbours by a removal. Three joined
  threads with two elements or lines each.
  CHECK_DEADLOCK is off because programs end.
* *process_pool*: pools of one to three workers (the first, a middle and the last differ in
  what they inherit; only a pool of one is ever destroyed), pipes of two tasks and seven tasks, so that pipes fill and the turn goes
  round twice or more. Real pipes hold 2048 tasks of 32 bytes.
* *http_pool*: `FirstFd` = 4, since number 3 is the listening socket. A read of 1023
  bytes takes up to 31 tasks; `PipeTasks` must not exceed that.

One branch of `Input` is not interesting in these instances: a PUSH beyond the receive
window (`Beyond`) needs an old window advertisement that overtakes a newer one,
five fragments and a behaviour of some twenty steps. The proofs cover it.

## 4. Properties

Safety of the protocol (`KcpArq`): `DeliveredIsPrefix`, `NoFragmentLost` (what an ACK
removes from `snd_buf` the peer holds), `WindowsRespected` (no stale advertisement makes
a queue outgrow its window), `NothingStranded` (no data waits in `rcv_buf` that the
reader's queue has room for), `NeverBackward`. Liveness: `ImplementsChannel` (the
abstract channel with its fairness) and `SendersDrain`.

`KcpTimer`: `FlushesKeepPace`, `ResentInTime`, `ResentWithReason`, `CheckNeverLate`.
`ResentInTime` bounds the delay of a retransmission by one interval whatever
the gaps between calls, since the property looks at the end of a call: a late call
catches up. `ikcp_check` returns `current` for an overdue segment although
`ikcp_update` does nothing before `ts_flush`: a caller that obeys spins until then,
but is never late.

`BoundedBuffer` (in the run *programs*): `IndexInBounds`, `NoForgottenConsumer`,
`NoForgottenProducer`, `KeepsMoving`.

`ProcessPool`: `TasksInTurn`, `OneReader`, `NoBrokenPipe`, `TasksRun`, `WorkersFollow`.
The workers follow an owner that dies in its constructor although the destructor
deadlocks: then all of the owner's ends are closed at once, the last worker sees end
of file first, and its exit releases the one before it.

The small programs, in the run *programs*:

| module | property | what it says |
|---|---|---|
| BatchTask | `NoForgottenBatch`, `EveryBatchTaken` | task1 sleeps on a full batch only while its signal is to come; each batch is taken |
| ForkServer | `NoChildForgotten` | a zombie is always known to a pending signal or a running handler |
| | `OwnClientOnly` | no child has another's connection, and the server keeps none |
| | `EveryClientServed` | who sends gets an answer and the end of the connection, though others never send |
| Daemon | `Detached` | the process that logs has no terminal, no way back to one, nothing inherited, and its log, whatever the shell left open and whichever `/dev/null` cannot be opened |
| Pipes | `StaleOnlyUnsent` | the reader prints the writer's buffer, and its own old one only when the writer died before it wrote |
| | `PipeDelivers` | the reader returns once the writer is gone |
| Datagrams | `PrintedAsSent` | what is printed is one line, with nothing left of another |
| EchoServer | `EchoInStep` | a client whose own words fit the buffers gets the whole answer to the word just typed, whatever the others type; when the words of all fit, the server does not crash, and no client that is killed ends it by SIGPIPE |
| Singleton | `OneInstance` | one instance, and each thread gets it |
| SmartPointers | `OwnedOnce` | an object lives exactly while it is owned, by one or by as many as its count says |
| MemoryPool | `BlockHeldOnce` | a block is in one place |
| WeatherStation | `RemovalComplete` | the entries of others all stay, in their order, and nothing is added; one of the removed observer stays exactly when two of its entries were neighbours |
| JoinedThreads | `PrintedWhenJoined` | main prints when all that exist are done; lines under the mutex do not mix |

Both say nothing of `name_pipe`: its reader prints the rests of messages that
its 1024 bytes cut, and the same buffer again and again after the writer's end.
`named_pipe`'s reader waits in `open()` forever when the writer has ended before:
`PipeDelivers` starts where the pipe is open.

### Fairness

* *KcpArq*: fairness is what the library asks of its callers: `ikcp_update` is called again
  and again (`ikcp.c:1219`, `kcp_wrapper.h:55`), so that a flush with an expired timer
  comes for each segment, and a reader reads. `receiver.cpp` does both in an endless
  loop. `sender.cpp` does neither, and the run *sender_exit* shows what that costs: the
  liveness results are about the protocol, not about that program. The network loses
  `MaxFaults` segments at most: each kind of segment that keeps coming arrives.
* *MCPrograms*: the kernel runs every thread of the condition variables (task1 and task2,
  the producer, each consumer), the server, each of its children and the two processes
  of a pipe, and delivers a pending signal. That is weak fairness of each one's steps;
  nothing is assumed of a mutex beyond it: who gets it is open. Users, clients, kills and
  spurious wake-ups need not come. *BatchTask* alone assumes the same of its two threads.
* *ProcessPool*: the kernel runs every process, and a destructor that has begun goes
  on. The owner need not submit, and `pipe()` and `fork()` need not fail.
* *FileTransfer*: the processes start and go through their loops.
* *WeatherStation*: a program that goes on calling the station, since `removeObserver` can be
  judged only where it is called.

## 5. Where the code does not do what it says

| run | what the program does | what it says |
|---|---|---|
| kcp_first_update | `ikcp_create` never writes `updated`; when malloc's memory holds anything but 0, the first `ikcp_update` does not plan its flush | "at the first update, initialise the flush time", `ikcp.c:1227` |
| sender_exit | nothing calls `update` in the sender: after a second it exits with all chunks in `snd_queue` | "wait a while to make sure the data have been sent", `sender.cpp:60` |
| batch_stop | `task1` tests `count < 10` only, so the last signal sends it back to its wait and `pthread_join` never returns | "so that task1 can leave its wait", `pthread_condition1.cpp:56` |
| observer_removal | the loop erases an entry and goes on one further: of two neighbouring entries of an observer the second stays, and it is still told | "deregister an observer", `observer.cpp:87`; "this time only the temperature display is updated", `observer.cpp:90` |
| pool_destroy | with two workers or more the destructor waits forever: the second holds the write end of the first one's pipe | "destructor, reaps the worker processes", `2process_pool.cpp:69` |
| http_pool | a client's descriptor number means something else in a worker: no client is answered, worker 0 reads its own pipe as a request and closes it, and the server dies of SIGPIPE | "main loop, accepts client connections continuously", `httpserver.cpp:88` |

## 6. What is proved

All theorems hold for every value of the constants that satisfies the named
assumptions: two nodes and `RcvWnd >= WndRcv` (which `ikcp_wndsize` enforces) for
KcpArq; any even `W`, with intervals, gaps and jumps that half of it can tell apart, for
KcpTimer; any number of consumers and any capacity for BoundedBuffer; any number of
workers for ProcessPool; any number of clients, threads, lines and objects, any finite
number of pointers and blocks, and any sizes for the small programs.

**KcpArq.** `TypesHold` is type correctness. It needs little more than the shape of
the actions, but all that follows rests on it. The other invariants talk of the
sender's stream, a history of every fragment ever sent:

1. `TransferInv`: a sending half is the stream, cut into what has a number and what
   waits for one (`SenderInv`); a receiving half is the peer's stream up to `rcv_nxt`
   (`ReceiverInv`); a segment in flight, however old, tells the truth (`NetInv`): its
   `una` and its ACK name only what its sender holds, its fragment is that of its number;
   so does the ACK list (`AckInv`). With these, an acknowledgement removes only what
   the peer holds: `NoFragmentIsLost`. `NoFragmentLost` alone is not inductive, since it
   says nothing of the segments that will later remove something.
2. `DeliveryInv`: the sender's messages tile its stream, and the reader stands at the
   beginning of the next one. Together with `ReceiverInv`, what `ikcp_recv` merges up to
   `frg = 0` is exactly that message: `DeliveredInOrder`, and with it `RefinesChannel`,
   every step of the protocol is a step of the channel or a stutter.
3. `WindowCorrect` (KcpArqWindows): a window advertisement in flight never lets the sender
   go beyond `snd_wnd`, nor `rcv_buf` beyond `rcv_wnd`; after each move `rcv_queue` is full
   or the next number is missing. This gives `WindowsAlwaysRespected`, `NothingIsStranded`
   and `NumbersNeverBackward`.

**KcpTimer.** The code's timestamps wrap, the properties compare true times. The bridge
is `Stamp`: two timestamps at most half the clock apart have the difference of their
times (`DiffExact` and the lemmas around it).

1. `Types`: `TimerTyped`.
2. `Planned`: after a flush, `ts_flush` is the stamp of one of the next `Interval`
   milliseconds, and at most `Interval` after the last flush. `FlushesKeepPace` does not say
   the second half, which a call that does not flush needs: `FlushesOnTime`.
3. `TimersSet`: `resendts` is the stamp of the last transmission plus `rto`, and a timer that
   has run out was handled by the last flush. This is inductive only as long as `resendts`
   and the clock are less than half the clock apart, which the code does not ensure: a peer
   that never answers lets `rto` grow until it is, after some forty transmissions and
   weeks. `WithinHalfClock` says that it is not so, and `ResendsOnTime` and
   `ResendsWithReason` are conditional on it. `ShortRunsResend` shows the condition for
   programs of at most a third of the clock (16 days), whatever the peer does and wherever
   the clock wraps: there `rto`, which at most grows by half at each loss, stays below one
   and a half times the age of the program. The instance TLC checks satisfies it.
4. `ChecksOnTime` needs `Types` only: `ikcp_check` never advises more than what is left to
   `ts_flush`.

**BoundedBuffer.** `BufferInv`, all four invariants together, is inductive as it stands:
`BufferTyped`, `BufferBounded`, `ConsumersRemembered`, `ProducerRemembered`. Two more theorems
have no run of their own. `OneInside`: in a critical section is exactly who holds the mutex,
though `pthread_cond_wait` releases it and takes it back in the middle. `NeverAtRest`: if there
is a consumer at all, some thread can always go on. When all are outside and asleep, the two
`NoForgotten` invariants make the buffer empty and full at once. The
proofs are about the threads alone, `BufferSpec`; `ThreadsOfTheBuffer` (in `ProgramsProofs`) shows
that this is what the run checks: `ProgramsSpec` implies it.

**ProcessPool.** `OneReader` needs `Stage`: how far the constructor is, and that a worker
not yet forked has no descriptors. From it, `EachWorkerReadsItsOwn`, `SubmitIsHeard`
(a worker whose pipe the owner can still write to is not gone) and `PoolTyped`.
`TasksGoRound` needs besides (`TaskInv`) that `nextWorker` is the number of submitted tasks
modulo the number of workers, and that a worker that does not run a task holds none: then
one more task is the next turn of exactly one worker.

**The small programs.** The theorems of `ProgramsProofs` are about `ProgramsSpec`, the
specification TLC runs: `StepsApart` reduces each of its steps to one of the program in
question or a stutter.

* `ChildrenReaped`, `ConnectionsApart`: `NoChildForgotten` is inductive once the types are
  known. `OwnClientOnly` needs that the server has no client in hand when it is back at
  `accept()` (`ForkTypes`): then a `fork()` copies one connection only.
* `BatchesSignalled`: inductive as it stands.
* `OneForAll`: `SingletonInv` says where a store can wait (between `new` and the unlock), that
  who is behind the lock is alone, and that who returns has seen the instance in memory
  or made it.
* `EachOwnedOnce`: `Owned(o)` is `OwnedOnce` for one object, with the number of its owners
  for shared pointers and "two owners are one" for unique ones; `OwnersCounted` and
  `OnlyOwner` say how the number changes with one pointer and when it is 1.
* `JoinedBeforePrinted`: `ThreadInv` says what each thread has done at each point
  (`Working`), and that main has passed only threads that have returned (`Joined`).
* `LinesPrintedWhole`: `DatagramInv` keeps only that what flies is a line that was sent.
  `PrintsTheLine` is the heart: after `memset()` and `recvfrom()` the first NUL is behind the
  line, so that `cout` prints the line, whatever the buffer held.
* `AnswersInStep`: `EchoInStep` looks at a client at rest. `InStep(k)` says where the one word
  of a client is while it waits, byte for byte, and that nothing of an earlier one is left
  in either direction; `InTurn(k)` asks it of the clients whose words fit, and of all others
  only how far the connection is. While the words fit, a receive takes all of what is there (`AllTaken`), since a word with its prefix
  is shorter than a buffer (`WordFits`), and no thread is about to send to a connection that is
  reset. For words that do not fit nothing is claimed: there the answers do get out of step.
* `DaemonDetached`: `Descent` (who is born of whom, in which session) and `OpenedUpTo(n)`: before
  the (n+1)st call of `open()` some lowest numbers, n at most, are open, none on the
  terminal, and number 0 is the log, since `Lowest` of such a table is its size
  (`LowestIsNext`), whichever `open()` of `/dev/null` has failed.
* `BlocksHeldOnce`: `InOnePlace(b)` says with quantifiers what `BlockHeldOnce` counts; the
  constructor's list holds each block once since an injection between finite sets of one
  size is onto.
* `RemovedAndKept`: an action property of `removeObserver`, for a list of any length: what stays
  of the removed observer stays exactly because two of its entries were neighbours. That the
  loop with its `erase()` has one outcome (`ErasedDecided`), and that what is left can be
  numbered in its order (`ListedInOrder`), are inductions over numbers: the first by taking the
  least number where it fails (`LeastNumber`, from `WFMin` of the library, which has no
  operator parameter), the second by counting up (`CountUp`).
* `AllTyped` collects the types of all twelve modules. Those that bound something take the
  invariants above: bytes of a pipe are never more than it holds or less than a read takes
  (`PipesTyped`), a shared pointer's count is that of its owners (`PointersTyped`), an
  element is multiplied once at most (`ThreadsTyped`), and task2 counts no further than its
  goal, at which it has left its loop (`BatchTyped`).
* `BuffersPrinted`: `PipeInv` says that what was sent is in the pipe as long as somebody may
  read it, and which ends are open at which call: end of file then means that the writer
  is gone.

**Model-checked only.** Liveness (`ImplementsChannel` with its fairness, `SendersDrain`,
`KeepsMoving`, `EveryBatchTaken`, `EveryClientServed`, `PipeDelivers`, `TasksRun`,
`WorkersFollow`), since the prover does not handle fairness. All safety and action
properties of the passing runs are theorems, `ResentInTime` and `ResentWithReason` under the
condition named above.

## 7. Plan

Done: the core (KcpArq, its abstract specification, refinement and proofs), the timers,
one module for each concurrent program, and the small programs. Next, in this order:

1. FileTransfer with the sizes of messages: a full chunk of 272 + 65536 bytes does not
   fit `recv_buffer_` (65535), so `ikcp_recv` returns -3 forever; a second run of the
   sender under the same `conv`; files appended twice; several receivers on one `conv`
   that acknowledge for each other.
2. KcpTimer: the window probe timer and its doubling, and the overflow of `rto`.
3. The wrapper's loop around `recvfrom`, which repeats the call for ever while an error
   other than EAGAIN lasts.

## 8. Not modelled

Builder and factory construct one object and print it. The mmap pair shares a page
without any synchronisation, and no condition on it is meant to hold. `1fork.cpp`,
`signal_test.cpp` and the thread samples of cancel, detach, create1 and self show one call
each and share nothing; the language samples (`char_buffer/`, `move/`, `list.cpp`,
`sizeof.cpp`, `gdb_test.cpp`) print the values of expressions. `build/` is generated.

In the modelled components, left out are: malformed datagrams, stream mode, the
congestion window, wrap of sequence numbers, errors of `recvfrom` other than EAGAIN,
a task whose closure is larger than the buffer inside `std::function`, the kernel's
limit of open descriptors (except in EchoServer), objects that hold smart pointers
themselves (`p = p->next` with SharedPtr frees the object it reads from), threads that use
one SharedPtr or one memory pool together, a block that a client returns twice, memory
models weaker than that of x86, and TCP segments that split a word. What an overflow of
`write_buf` writes, and what a client prints of a buffer that is full to its last byte and
has no NUL, are not modelled byte by byte: only that the process may crash or not.
