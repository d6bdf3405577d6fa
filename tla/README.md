# A verification of sephi

sephi is a C++ library of inter-process communication (message queues, shared
memory, events) and of networking over asio (TCP, UDP, serial ports). This
directory holds TLA+ modules that model its core, TLC configurations that check
them on small instances, and proofs that TLAPS checks for every size.

Paths below are relative to the repository.

## 1. The system

| Part | Code | State | Operations |
| --- | --- | --- | --- |
| Message queue: index | `include/sephi/ipc/mq/boost/message_queue_mod.hpp` (`mq_hdr_t`) | `mp_index`, `m_cur_first_msg`, `m_cur_num_msg`, the message headers | `queue_free_msg`, `lower_bound`, `insert_at`, `top_msg`, `free_top_msg` |
| Message queue: operations | the same file (`message_queue_t`), `src/ipc/mq/message_queue.cpp` | `m_mutex`, two conditions, `m_blocked_senders`, `m_blocked_receivers` | `send`, `try_send`, `timed_send`, `receive`, `try_receive`, `timed_receive` |
| Events | `src/sync/event.cpp`, `src/ipc/sync/event.cpp` | `flag_`, mutex, condition | `set`, `wait` |
| Named event | `src/ipc/sync/named_event.cpp` | a named condition and a named mutex | `set`, `wait`, open, remove |
| Shared memory | `src/ipc/shm/shared_memory.cpp` | a named segment | create, open, remove; construct, find, destruct |
| Message queue: names | `src/ipc/mq/message_queue.cpp`, constructors and `remove` of the header | a named segment | create, open, remove |
| TCP client | `src/net/tcp/client/client.cpp` | `connection_state_`, `socket_`, `sending_messages_` | `write`, `close`, `reconnect`, the handlers of asio |
| TCP server, sessions | `src/net/tcp/server/*.cpp` | `sessions_`, per session `sending_messages_` | accept, `leave`, `close`, `write_to*`, the handlers |
| UDP socket | `src/net/udp/udp.cpp` | the socket | `write_to`, `broadcast`, `close`, `handle_read` |
| Serial port | `src/net/serial/serial.cpp` | as the TCP client, with `port_` | `write`, `close`, `reopen`, the handlers |
| Values and aliases | `types.h`, `remote.h`, `chunk.cpp`, `serial_params.*`, containers, wrappers of library primitives | none that changes | - |

How the parts interact:

* A message queue lives in shared memory. Threads of any process call it; they
  meet only in `m_mutex` and in the conditions `m_cond_send`, `m_cond_recv`.
  A sender wakes a receiver and a receiver wakes a sender. The index is touched
  only under the mutex.
* `ipc::Event` is placed in a `SharedMemory` by its users; `sync::Event` is used
  inside a process. Both are the same code over two libraries.
* The TCP client, the server, the UDP socket and the serial port each own an
  `io_context_` and one thread (`runner_`) that runs its handlers. The user's
  thread posts functions to it, but it also reads `connection_state_` and
  `sending_messages_` (client, serial port) or even changes `sessions_` (server)
  without a lock. Connection handlers of the application are called inside the
  handlers and call back: the ones in the tests reconnect.

What is hard here: wake-ups that must reach the right thread while others time
out or arrive in between; pointers that are moved in two segments of a circular
array; handlers of a socket that has been replaced, which run late against the
new one; failures that arrive twice; names of shared resources that one user
removes while another uses them. The `hazards` of `PROJECT.json` list them at
their lines, with the properties that look after them.

What makes each part correct:

* index: it never loses a message buffer, stays sorted, and behaves as a bounded
  store with one FIFO queue per priority;
* queue operations: no thread sleeps while what it waits for is there, the
  counters that decide on notifications are right, timed calls return;
* events: each return of `wait` consumes a `set`, and no `set` is lost;
* TCP client: chunks are sent one at a time and in order, a lost connection is
  noticed, and a client whose handler reconnects is connected again;
* serial port: the same, and the closing and opening that `reopen` and `close`
  post never leave the port shut while it is said to be open;
* server: a session is in `sessions_` as long as the application believes it
  connected, but for the moment a thread needs between the two, identifiers that
  are reused confuse nobody, a loss is reported;
* UDP: every datagram is handed over whole, once and in order, and the runner
  never blocks;
* named resources: users of a name share one object until it is removed, and
  names are not left behind.

## 2. The modules

| Module | Role |
| --- | --- |
| `PriorityQueue` | abstract: what a message queue promises |
| `MqIndex` | the index, both branches of the header; implements `PriorityQueue` |
| `MessageQueue` | the operations by many threads; `EXTENDS MqIndex` |
| `AutoResetEvent` | abstract: what an event promises |
| `Event` | `set` and `wait`; implements `AutoResetEvent` |
| `AsioLink` | what the client and the serial port share: the runner, the queue of chunks, the user's thread |
| `TcpClient`, `Serial` | the client and the serial port; each `EXTENDS AsioLink` |
| `TcpServer` | the server and its sessions |
| `Udp` | the UDP socket |
| `NamedResources` | named events, shared memories and message queues by name |
| `MessageQueueProofs`, `EventProofs`, `NamedResourcesProofs`, `TcpClientProofs`, `SerialProofs`, `TcpServerProofs`, `UdpProofs` | theorems and proofs |
| `AsioLinkProofs` | lemmas that the proofs of the client and of the serial port share |
| `MC*` and `*.cfg` | instances for TLC |

Definitions named `Bug_...` are not part of any specification. Each is a
plausible mistake in the code; put in the place of the definition it stands
next to, it makes TLC report the property that `mutants` in `PROJECT.json` names.

### MqIndex

One step per critical section: `StoreMsg` is the part of `do_send` that has found
room (`queue_free_msg`, then the header and the content are filled), `TakeTopMsg`
the part of `do_receive` that has found a message (copy, clean the header,
`free_top_msg`). `CircularIndex` chooses the branch of
`#if defined(BOOST_INTERPROCESS_MSG_QUEUE_CIRCULAR_INDEX)`.

`insert_at` is kept in its four cases (`ExtendFront`, `ExtendBack`, `MoveFront`,
`MoveBack`), each with the segments and the copies of the code; `std::copy`,
`std::copy_backward` and `std::lower_bound` are external and stated by what they
do. A message buffer is its number; the content of a message is a model value,
with its size, so that the size check, zero-length messages and the cleaning of
headers are there and bytes are not. A queue of capacity 0 is left out
(`ConstantsAssumption`).

### MessageQueue

A call is modelled by its critical sections: from the lock to the wait, to the
notification or to the return (`do_send`, `do_receive`), and from each return of
the wait (`ResumeSend`, `ResumeReceive`). `notify_one` is a step of its own
(`NotifyOne`) and is made with `m_mutex` locked: the `scoped_lock` is declared
outside the block whose end is commented "Lock end", so it lives until the
function returns. A wait may end by a notification, for no reason
(`SpuriousWakeup`) or by its timeout; a timed wait may take a notification and
still report a timeout, as POSIX allows. The exceptions of the size checks are
steps that change nothing. The `catch` blocks around the waits are not
modelled: the library's wait does not throw here. `get_num_msg` and the other
getters only read.

### Event

`set` is one step, `wait` one up to the condition and one after each wake-up.

### AsioLink, TcpClient, Serial

`Run` runs the next entry of asio's queue, one action per handler
(`handle_connect` or `handle_open`, `handle_read`, `handle_write`) and per
posted function (`Enqueue`, `shutdown` or `close_port`). The user's calls are
split wherever the runner may act in between: `write` into the test of
`connection_state_` and the post, `close` of the client into the test, the
change of the state and the post (`close_test`, `close`, `close_post`), `close`
of the serial port into the change and the post. The destructor is a `close`
after which the user stops (`stop`); that of a client that is not connected
posts nothing (`stop_disconnected`). The connection handler of the application
is part of the model: with `retries` it is the one of `test/net/tcp/client.h` or
`test/net/serial/serial.h`, which calls `reconnect` or `reopen` whenever it is
told "disconnected".

asio is external: an operation in progress completes by queueing its handler;
closing the socket or port queues the handlers of its operations with an error;
entries run in the order they were queued; `run` returns when nothing is in
progress or queued. A handler does not know its socket.

In `TcpClient` operations on a socket that is still connecting may fail or wait.
`shutdown` on a socket that is not connected may throw, which ends the program
(`runner` is "terminated"). Sockets are named 0 and 1 in turn, only so that
fairness can speak of the operations of one socket.

`Serial` has the difference the code has: `close` sets `connection_state_` at
once and posts the closing, `do_open` replaces `port_` at once and posts the
opening, and both posted functions act on the port of the moment they run.
`reopen` is therefore one step that queues a closing, the handlers of the old
port's operations and an opening, in this order. Opening a port that is already
open is an error, as in asio. A fault is a lost device, a failed opening, a
`set_option` that throws (which ends the program) or a `flush` that fails (which
leaves the port open).

### TcpServer

The runner's handlers are `handle_accept`, `handle_read` and `handle_write`; the
user's thread is `close`, one step to the shutdown of a session
(`close_session`), one for its erasure (`close_leave`) and one for its report
(`close_report`), and the destructor (`stop`). The two threads share `sessions_`
without a lock. The model lets the steps of `close` fall between any two
handlers and, inside a handler, between the change of the map and the call of
the application's connection handler, in the order of the code: `leave` erases
the session and then tells "disconnected" (`report`), `handle_accept` tells
"connected" and then puts the session into the map, reads it and accepts the
next one (`emplace`). A handler that has begun is the entry "report" or
"emplace" in front of the queue. The model ends in "undefined" where the iterator
stands on a session the runner has erased. Races inside one operation of the map
are not modelled.

A session is numbered in the order of acceptance, and its identifier is an
address from `Address`. An address is given to a new session only when the old
one is destroyed, that is when neither the map nor a handler bound with
`shared_from_this` nor a call of `leave` refers to it (`Alive`); find and erase go
by address (`Under`). `left` records that the session was reported
"disconnected". `Bug_AliveInMap` shows what the handlers' share is for.

The application's packet handler answers a packet to its sender, to all, or to
all others; its connection handler does nothing. (It is told "connected" before
the session is in `sessions_`, so an answer from there is refused.) A connection
that is "lost" may have been closed by the peer, which leaves sending possible
and `shutdown` harmless, or reset, which makes `shutdown` throw.

### Udp

`handle_read` is one step up to the loop and one per iteration
(`receive_from`), because datagrams arrive in between; `available` is the
variable of the loop. `platform` is chosen at the start, for the three
differences the code depends on: what `available()` counts (the next datagram on
Linux, all of them on Windows), what `shutdown` of an unconnected socket does (it
throws on Linux; on Windows every later receive fails), and what a datagram that
is too long does (cut off, or an error that throws). Waiting with `null_buffers`
resets `sender_ep_`, as asio does. `make_address` may throw in the caller of
`write_to`, with no effect.

### NamedResources

One module for the three classes, since they share the table of names; `class`
is chosen at the start. A handle opens its names one after the other
(`NamedEvent`: the condition, then the mutex) and its destructor removes them one
after the other, whoever else uses them. An object is known by the handle that
created it, and a handle remembers how often each name had been removed when it
opened it (`epoch`), which is what the properties speak of. A constructor may
throw (wrong tag, or any failure) without a destructor, a move assignment forgets
a name, and a process may crash at any point, also with the mutex locked.
Windows, where the destructors of the segments remove nothing, is left out.

`set` and `wait` of the named event are as in the code, without flag and
predicate. The comment "If you use a scoped_lock and a predicate like anonymous
event, the deadlock occurs. Why? I don't know." has an answer: the flag of
`sync::Event` is a member of the object, and every process has an object of its
own; `Bug_ResumeIfSet` is that version, and `NotifiedReturns` fails with it.

## 3. What TLC checks

| Run | Instance | States | Shows |
| --- | --- | --- | --- |
| `index` | capacity 6, priorities 0..2, contents of sizes 0, 1 and 2 (too large) | 111,000 | types, permutation, order, clean free messages, the assertions of `lower_bound`, refinement of `PriorityQueue` |
| `queue_circular` | 3 threads, capacity 2 | 8,700 | counters, no lost wake-up, no standoff, waiting threads proceed, timed calls return |
| `queue_linear` | the plain index; 3 threads, capacity 3, 2 priorities, buffers too small and too large | 16,000 up to symmetry | permutation, refinement of `PriorityQueue` |
| `event` | 4 threads | 132 | no lost set, refinement of `AutoResetEvent` with its fairness |
| `client` | 3 writes, 2 faults, 1 close, reconnecting or not | 63,000 | one write at a time, order, reads, no multiplication of handlers, a loss is noticed, connected again unless stuck |
| `client_stuck` | 1 write, 1 fault | - | violated: everything accepted is sent |
| `client_livelock` | 1 write, 1 fault | - | violated: connected again |
| `serial` | 3 writes, 2 faults, 2 closes, reopening or not | 124,000 | one write at a time, order, reads, no multiplication of reopenings, a loss is noticed, stays open unless stuck |
| `server` | 2 sessions, 2 addresses, 2 packets, 1 fault, 1 close | 594,000 | map and reports agree but for a session on its way, late handlers meet their own session, chunks flow, a loss is reported |
| `server_close` | 2 sessions, 1 fault, 1 close | - | violated: close completes |
| `udp` | 3 datagrams of 0 or 2 bytes from 2 remotes, 1 send, 1 fault, 1 close, 2 platforms | 236,000 | whole and in order, the loop counts right, errors name their remote, what can be received is, the destructor returns |
| `named` | 3 handles of each class, 1 crash or failure | 47,000 | shared until removed, no leak, a woken thread returns |

Why the bounds are enough. With capacity 6 all four cases of `insert_at` happen
with one and with two segments, at both ends of the array and with runs of more
than one message on either side; three priorities give messages below, equal to
and above the others. Three threads with capacity 2 compete for a wake-up in
every way: one arrives late, one times out, one waits on; for more of them there
are the proofs. For the client, three chunks tell order from loss, two faults
give a failure during recovery from another; for the serial port a second close
meets the reopening that the first one has caused. For the server, two sessions
are enough for one to get the address of the other and for `close` to have a
next one; the single fault and the shutdown give failing reads and writes of the
same session, and two packets a chunk that waits behind another. Three datagrams
put an empty one before, between and behind others, and let one arrive while the
loop runs. Three handles are a user, one that removes the names meanwhile and
one that opens them in between.

`MCView` in the index and the plain-index run looks at each buffer through the
index: renaming the buffers changes no behaviour and no property, and a state
whose index is not a permutation is kept apart. Threads are symmetric; symmetry
is not used where liveness is checked. The addresses of sessions are symmetric
too: the run `server` only looks at behaviours whose first session is at a given
address (`FirstSessionThere`), since every other one is such a behaviour with
the addresses exchanged. The runs of the network classes and of the names have
`CHECK_DEADLOCK FALSE`: a client that has sent everything, or an object that was
destroyed, may rest.

Fairness, and why the code justifies it:

* `MessageQueue`: a thread that is about to notify does (weak); one that wants
  the mutex again gets it (strong: others lock and release it meanwhile; nobody
  keeps it); a timed wait ends (strong: after `abs_time` every further
  `timed_wait` returns at once). Nobody is assumed to call.
* `Event`: a woken thread gets the mutex. Nobody is assumed to set.
* `TcpClient`: the runner runs what is queued; a connect or a write completes if
  its socket is left alone; operations of a lost connection fail; the user's
  `write` and `close`, once begun, end. A peer need not send, and faults need
  not happen.
* `Serial`: the same; a write on an open port completes, and whatever is in
  progress on a lost or closed one fails.

* `TcpServer`: the runner runs what is queued, operations on a connection that
  is lost or shut down fail, and a `close` that has begun goes on. No packet or
  connection need arrive, and no write need succeed.
* `Udp`: the runner runs what it can, and a readable socket is noticed.
* `NamedResources`: a holder of the mutex goes on (weak), a thread that wants it
  gets it (strong, as for the queue). Nobody is assumed to set.

Findings (the `violation` runs):

1. `client_stuck`: `handle_write` returns on an error and leaves the chunk in
   `sending_messages_`; from then on `write` believes that a write is in
   progress. It is enough that the connection was lost before the write was
   started or while it was under way. The loop of `test/net/tcp/tcp_test.cpp:49`
   does not end.
2. `client_livelock`: a connection lost before or during a write fails the read
   and the write; both handlers reconnect, and each reconnect aborts the attempt
   of the other, whose handler reconnects. The loop of `tcp_test.cpp:42` need
   not end.
3. `server_close`: `~Server() noexcept` calls `close`, which calls the throwing
   `shutdown` on every session; a peer that has reset its connection, before
   `close` or while it is on its way to the session, makes it throw
   (`session.cpp:38`). The same property fails where the runner erases the
   session the loop of `close` stands on (`server.cpp:85`).

Disagreements that have no run of their own: the serial port repeats the first
one (`serial.cpp:161`, `test/net/serial/serial_test.cpp:67`); and "Notify outside
lock to avoid contention" (`message_queue_mod.hpp:818`, `:951`) is not what
happens, as the lock of `:746` (`:873`) is still held (`NotifyOne` is taken with
`m_mutex` locked; wake-ups are not lost by it). An empty UDP datagram on Linux
stops the reception for good and keeps the runner busy: `ReceivedUnlessEmpty`
states the exception, since no line of the repository promises otherwise. The
exceptions of `NamesDoNotLeak` (`orphaned`) are leaks of names.

`ReconnectsUnlessStuck` and the other properties of `client` say what is left:
without a write in progress at the time of the loss the client does recover, and
in any case nothing is reordered or duplicated. `StaysOpenUnlessStuck` says the
same of the serial port. The exception is real there too: once a write was cut
off, the read and the write both reopen, and the closings and openings they post
undo each other for ever, so that the port is opened and closed in turn. No line
of the repository promises otherwise, so this is described here and not listed
as a finding.

## 4. What is proved

All theorems hold for every value of the constants, so also for every bound on
writes, faults, closes, sessions and datagrams. The assumptions are the
`ConstantsAssumption` of each module (for the queue: capacity at least 1,
priorities and sizes natural numbers, a marker for "no data" that is not a
content; for the network classes: bounds and sizes natural numbers, finitely
many addresses, remotes that differ from "nobody" and "everyone"; for the
names: "no object" is not a handle), `ThreadsAssumption` (finitely many threads)
and `NoCallAssumption` (a value that is not a call). Every safety invariant that
a run checks is also stated by a theorem.

### The message queue (`MessageQueueProofs`)

1. *The index as a permutation*: `IndexTypeCorrect` and `NoBufferLost`. The
   inductive invariant is their conjunction: positions must be in range for a
   move to be defined, and the permutation is what makes the copies harmless.
   Each of the four cases of `insert_at`, with one segment or two, is a
   rearrangement: the new index is the old one composed with an injection of the
   positions (lemma `Rearranged`), given explicitly. `lower_bound` enters only
   through its range, for which the least element of a set of naturals is needed
   (`LeastNatural`).
2. *The order*: `AlwaysSorted`, `FreeMsgsAreClean` and `LowerBoundIsRight`.
   `StoredSorted` needs to know what is at the k-th place counted from the
   bottom, wherever the run lies in the array. `Shifted(room, c)` says it of an
   insertion at place c: places below c keep their message, those above move up
   by one, and the buffer at c was free. It is proved of each case of
   `insert_at`, and `lower_bound` is shown to return the place above all less
   urgent messages and below all others. The inductive invariant `OrderInv` adds
   to the permutation that the plain index starts at position 0 (`FirstOK`) and
   that free messages are clean; the latter is a matter of the order too, since
   an insertion that got the shift wrong would hand out a message still in use.
3. *The refinement of `PriorityQueue`*: `StoresPriorityQueue`. In a sorted run
   the messages of one priority lie next to each other (`Segment`), and
   `StoredFifo` reads them from the top down; it relies on the order, and finds
   the segment by counting the messages of higher priority. A new message becomes
   the bottom one of its segment, that is the last of its queue, and moves the
   segments above by one; the top message is the first of the highest nonempty
   queue. The guard on the capacity is the count of all stored messages.
4. *The threads*: the inductive invariant `WakeupInv` joins types, the counters
   (`CountsOK`) and, for each side, "while somebody waits, the stored messages
   (free places) are at most the notifications on their way plus the threads
   awake". `NoLostReceiverWakeup` is not inductive alone: that a sender notifies
   at all depends on the counter being nonzero while somebody waits. Each action
   is reduced to how many threads enter and leave each place (`Change`), and the
   rest is arithmetic. From it follow `BlockedCountsCorrect`,
   `NoReceiverWakeupIsLost`, `NoSenderWakeupIsLost` and `NeverStandoff`.
   `ImplementsIndex` shows `Spec => IndexSpec`, so that all of the above holds of
   the queue that threads share; for the step after a wait it needs
   `CallsInvariant`, that whoever waits has passed the size check.
   `QueueIsPriorityQueue` is the conclusion: any number of threads calling
   `do_send` and `do_receive` implement the abstract queue.

### Events and names

* `EventProofs`: `NoSetIsLost` (`NoLostSet` is inductive once types are known)
  and `ImplementsAutoReset`, the safety part of the refinement, one abstract
  step or stutter per action.
* `NamedResourcesProofs`: `SharingHolds` and `NothingLeaks`. `SharedUntilRemoved`
  is not inductive: `NamesInv` adds that no reference has an epoch later than its
  name's, which is why a removal separates the old references from the new ones,
  and how far each constructor and destructor has come. A name that is absent
  from the table has no reference of the current epoch, so a handle that creates
  it disagrees with nobody. `NamesDoNotLeak` is inductive with `NamesInv`.

### The network classes

* `AsioLinkProofs` has no theorem of its own: how appending to asio's queue,
  running its first entry, starting an operation and aborting those of a socket
  change the number of operations in flight of each kind, and what that leaves of
  `LinkInv` (types, `OneWriteAtATime` and `ChunksInOrder`).
* `TcpClientProofs`: `OneWrite`, `ChunksStayInOrder`, `ConnectedReads` and
  `ReconnectsBounded`. `ReconnectsDoNotMultiply` is not inductive: the write that
  a new chunk starts adds one to what is in flight. `FlightsBounded` is: one
  operation or handler while no chunk waits, two otherwise. It holds because a
  chunk whose write has failed stays in `sending_messages_` for good, so that no
  further write starts - the cause of the finding `client_stuck` is at the same
  time what keeps reconnects from multiplying.
* `SerialProofs`: the same four for the serial port, where the openings that
  wait in the queue count as under way. `reopen` is the step to prove: it queues a
  closing, the handlers of what the old port had in progress and an opening, and
  none of the three may count twice.
* `TcpServerProofs`: `MapAlwaysMatches`, `LateHandlersAreHarmless` and
  `ChunksAlwaysFlow`, with `close` in the user's thread between any two steps of
  the runner. The inductive invariant says that no operation is in flight twice
  and only the handler in front has begun (`Once`), that two sessions that are
  alive have different addresses (`OwnAddress`, which the reuse of addresses would
  break if a handler did not keep its session alive), that a session on its way
  into the map has nothing else in flight and no other is being accepted
  (`Entering`), that one which is being reported is out of the map (`Reporting`),
  and that a write in flight has a chunk to write.
* `UdpProofs`: `DatagramsHandedWhole`, `LoopIsCounted` and `ErrorsAreAttributed`.
  `WholeInOrder` is not inductive: a datagram that is longer than the buffer
  `receive_from` is given would be cut off. That it fits follows from
  `LoopStaysCounted`, and this one from facts about the sums `Bytes(n)`: a sum
  without its first datagram is a sum of the rest, and datagrams that arrive in
  the meantime change no sum of those before them. That a read error names nobody
  needs that `sender_ep_` is reset whenever the loop is left.

### Only model-checked

Liveness, which is out of the prover's reach: `WaitersProceed`,
`TimedCallsReturn`, the fairness of `AutoResetEvent`, `ReconnectsUnlessStuck`,
`LossIsNoticed`, `StaysOpenUnlessStuck`, `LossIsReported`, `ReceivedUnlessEmpty`,
`JoinReturns` and `NotifiedReturns`. Library theorems that take an operator as
parameter cannot be used either; where an induction is needed (least elements,
the sums of `UdpProofs`) it is carried out over a set of natural numbers.

## 5. Not modelled

* Crashes of a process inside an operation of the message queue: the code has no
  recovery (the mutex is not robust). Crashes of users of names are modelled.
* `reconnect` and `reopen` from another thread than the runner (a data race on
  `socket_` or `port_`), writes to sessions from the user's thread (a data race
  on `sessions_` and `sending_messages_`), partial writes inside `async_write`,
  the lifetime of the chunk a pending UDP send refers to.
* The objects inside a shared memory segment: `construct`, `find`, `destruct` and
  `invoke_atomic` forward to the library, which does the work.
* Alignment, sizes of shared memory, permissions; Windows for the named
  resources.
* Values and aliases (last row of the first table): they have no state that
  changes.

## 6. Plan

Every component with state of its own is modelled, and every safety invariant of
the runs is proved. What may still be added: action properties of the queue and
of the server (a wait never overtakes the size check, a session that has left
does not come back), and the safety facts on which the liveness properties rest,
such as that a loss always leaves a failing operation of the same socket in
flight.
