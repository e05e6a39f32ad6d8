# User_TCP_IP: models, checks and proofs

This directory specifies the user-space TCP/IP stack of this repository (a C++
port of a small TUN/TAP stack) in TLA+, checks the specifications with TLC on
small instances, and proves the most important properties with TLAPS for every
value of the constants. Paths below are relative to the repository.

The stack is work in progress: there is no `main`, and several globals
(`rw_mutex`, `norm_mutex`, `sockets_queue`) are defined in more than one
translation unit. The models take each translation unit with its own globals;
everything else is as the code has it, its defects included. In
particular `rw_mutex` of the timers and `rw_mutex` of the registry are two
locks, and so are the two `norm_mutex`.

`ip_hdr` and `netdev_receive` reinterpret the `SkBuff` object instead of its
data. `Network` models them so and shows that no datagram gets to `tcp_in`
(`NoDatagramIsHeard`). `TcpSock` and `SocketTable` take `tcp_in` from its call
on, with a segment whose addresses and length are right: what they say of
received segments is about the code of TCP, once something calls it.

## 1. Inventory

| Component | Source | State | Operations | Talks to |
|---|---|---|---|---|
| TCP connection | `src/tcp.cpp`, `src/tcp_input.cpp`, `src/tcp_output.cpp`, `src/tcp_data.cpp`, `include/tcp.hpp` | the control block (`snd_una`, `snd_nxt`, `rcv_nxt`, ...), the state, `inflight`, `backoff`, `delacks`, four timer pointers, the write, receive and out-of-order queues | `tcp_in`, connect, write, read, close, abort, five timer handlers | IP output, timers, the socket above it |
| Socket calls of one socket | `src/inet.cpp`, `src/sock.cpp` | `Socket.state`, flags, `Sock.err`, `poll_events` | connect, write, read, close, abort, lookup | TCP connection |
| Timer queue | `src/timer.cpp`, `include/timer.hpp` | `timers_queue`, `tick`, per timer `refcnt`, `cancelled`, `expires`, a lock | create, cancel, release, sweep | every component that arms a timer; starts handler threads |
| Socket registry | `src/socket.cpp`, `include/socket.hpp`, `include/wait.hpp` | `sockets_queue`, `sock_amount`, `refCnt` | socket, get, lookup, delete, free, poll, abort all | inet layer, IPC, timers |
| IPC server | `src/ipc.cpp` | list of channels and threads | accept, one thread per channel, dispatch of calls | registry |
| ARP | `src/arp.cpp` | cache of (address, hardware address, state) | receive, request, reply, lookup | device, neighbour output |
| Routes, neighbour output | `src/route.cpp`, `include/dst.hpp` | route list | lookup, output through ARP | ARP, device |
| IP | `src/ip.cpp` | none | receive, output | TCP, ICMP, routes |
| ICMP | `src/icmp_v4.cpp` | none | echo reply | IP |
| Devices | `src/network_device.cpp`, `src/tuntap_interface.cpp` | loopback and TAP device | receive loop, transmit | ARP, IP |
| Buffers, intrusive queue | `include/socket_buffer.hpp`, `include/intrusive_queue.hpp` | `refcnt`, links | alloc, free, add, delete, walk | all of the above |
| Utilities, CLI | `src/utils.cpp`, `src/cli.cpp` | none | checksum, parsing | all of the above |
| Applications | `app/` | - | POSIX calls | IPC |

**Threads.** One thread of `timers_start` (clock and sweeps), one detached
thread per fired handler, one receive thread, one thread per IPC channel, the
accept loop. They meet at `sock->lock` (one per socket), `rw_mutex` of the
registry (`src/socket.cpp:7`) and of the tick (`src/timer.cpp:5`), `norm_mutex`
of the timer queue and of the IPC server, and the lock inside each timer. Lock order: `rw_mutex` before `sock->lock`; `norm_mutex`
before a timer's lock; `sock->lock` before `norm_mutex` (a handler creates a
timer) and before a timer's lock.

**What is hard.** The acknowledgement test against the control block over long
sequences of calls; text and FIN behind an unacknowledged SYN; timers whose
handlers fire when cancelled; teardown paths through a pointer that was just
nulled; a refused connect that frees a socket under its timers; buffers freed by
the handler that queued them; buffer objects taken for headers; the sweep that deletes a
timer whose lock it holds, against clients that use the timer; pointers
returned after the lock that protects them. Section 8 of this file and the
list of hazards in `PROJECT.json` name the line of each.

**What would make each component correct.** TCP connection: the state follows
RFC 793, acknowledgements carry what was received, what is queued is sent once
acknowledged, every timer that is armed has its effect, no handler kills the
process. Timers: a handler fires at most once and only for the timer it belongs
to, no pointer dangles, the locks exclude, the queue shrinks. Registry: a
pointer that is used is that of a socket, `refCnt` and `sock_amount` are exact,
no two locks are taken in opposite orders. IPC: an answer goes to the channel
that asked, a dead channel leaves the list. ARP: a request is answered, a
packet that waits for an address is sent or reported. Buffers and queues: a
node is in at most one queue.

## 2. Plan

Done, in this order: `TcpSock` (one socket with all its calls, segments, sweeps
and handlers), `TimerService` and `Timers` (the timer queue with its locks and
memory), `SocketService` and `SocketTable` (the registry), `IpcServer`,
`Network` (everything below TCP), `Checksum`; with proofs about all of them, of
every property of a passing run except the liveness properties.

How they fit together: a call of a client goes through a channel of `IpcServer`
(its *running*) to a call of `SocketTable` (its *inside*), which is one action
of `TcpSock`; what `TcpSock` gives to IP (`out`) is an `Output` of `Network`,
and a segment that `Network` gave to `tcp_in` (`segments`, which stays empty)
would be a `Receive` of `TcpSock`, after a `Lookup` of `SocketTable`; `TcpSock` uses of the timers what
`TimerService` promises.

Considered and left out. A `TcpPeer` that composes `TcpSock` with a peer and a
lossy network: `TcpSock` accepts every segment at any time, which is more than
any peer can send, and no connection is ever established for a peer to take
part in. The pointers of a node that is queued twice: `TcpSock` has the effect
(`Corrupt`, `Walk`). `tcp_calculate_sacks` and option parsing: never reached in
a state where their result is used.

Left for later: a service that `IpcServer` implements, as `TimerService` and
`SocketService` do for the other two components with threads.

## 3. Modules

| Module | Models | Used by |
|---|---|---|
| `TcpSock` | one socket | `MCTcpSock`, `TcpSock_proof`, `TcpSteps_proof` |
| `MCTcpSock` | the small instance: segments, initial numbers | runs `tcp_sock`, `syn_received`, `fin_wait`, `closed_reset`, `delayed_ack`, `queued_skb` |
| `TcpSock_proof` | theorems about the states of `TcpSock` | `TcpSteps_proof` |
| `TcpSteps_proof` | theorems about its steps, and what they send and queue | - |
| `TimerService` | what the timer queue promises, abstractly | `Timers` |
| `Timers` | the timer queue, lock by lock | run `timers`, `Timers_proof` |
| `Timers_proof` | theorems about `Timers` | - |
| `SocketService` | what the registry is to the processes, abstractly | `SocketTable` |
| `SocketTable` | the registry, lock by lock | `MCSocketTable`, `SocketTable_proof` |
| `MCSocketTable` | the small instance: timeouts | run `socket_table` |
| `SocketTable_proof` | theorems about `SocketTable` | - |
| `IpcServer` | accept loop, channels, clients | `MCIpcServer`, `IpcServer_proof` |
| `MCIpcServer` | the small instances: calls, symmetry | runs `ipc_server`, `ipc_channel` |
| `IpcServer_proof` | theorems about `IpcServer` | - |
| `QueueLemmas` | lemmas on sequences without duplicates, and an induction over numbers | `IpcServer_proof`, `SocketTable_proof`, `Checksum_proof` |
| `Network` | device, Ethernet, ARP, IP, ICMP, routes | `MCNetwork`, `Network_proof` |
| `MCNetwork` | the small instance: frames, destinations, addresses of buffers and routes | run `network` |
| `Network_proof` | theorems about `Network` | - |
| `Checksum` | the checksum of a segment | `MCChecksum`, `Checksum_proof` |
| `MCChecksum` | the small instance: bytes of two bits | run `checksum` |
| `Checksum_proof` | theorems about `Checksum` | - |

### TcpSock

*State.* `tsk` is one record with the fields of the `Socket`, `Sock` and
`Tcp_Sock` that the control flow reads: the TCP state, the socket state, `err`,
`poll_events`, the control block, the counters, the three queues, the timer
pointers (null, garbage, or a timer with its function and whether it is due).
Five fields are of the model: `cancelled`, the timers that wait for the next
sweep; `out`, what the current step gave to IP; `live`, what may become of the
process during a step; `freed` of the socket, set once its Sock is deleted, and
`freed` in a received buffer. `proc` says whether the
process is up and `handlers` counts the handler threads per function.

*Actions.* Every handler holds `sock->lock` throughout, so one handler is one
action: `Connect`, `Write`, `Read`, `Close`, `Abort` and `SetFlags` are the
calls of the application, `Receive` is `tcp_in` with one segment, `TickAdvances`
is the clock, `timers_tick` one sweep, `RunHandler` a handler thread. `Connect`
takes any address, also one that `inet_stream_connect` refuses; `_connect` then
frees the Sock (`inet_free`) in whatever state it is. Calls and segments find
the socket no more after that (`InTable`), but its timers and threads go on. The
`Socket` object stays, for the reference of its constructor is never dropped
(`SocketTable`). The
functions of the code are operators of the same names from the socket before a
call to the socket after it, applied in the order of the calls. `PROJECT.json`
maps each of them to its lines.

*Undefined behaviour* is kept as a choice. A null pointer that is called
through kills the process; an uninitialised one, freed memory and an index that
was never initialised may kill it or not (`live` has both outcomes). So may
every segment that is sent: `ip_output` goes through a pointer that it has
overwritten, and the buffer is then deleted through a pointer that `push` has
moved. The uninitialised fields of the constructor start with any of the values of
`Uninit32` and `Uninit8`. When the process dies, nothing happens any more: that
is why these runs do not check for deadlock.

*Abstractions.* Sequence numbers are modulo `U32`, byte counters modulo `U8`.
A segment is its flags, its two numbers and the length of its text. Out of the
model are listening sockets (the switch returns at once in LISTEN), RTT
estimation, the SACK blocks themselves (their uninitialised index is kept) and
option parsing (`Mss` is a constant). `giveup` in the retransmission handler is
free: it stands for the doubled `rto` that has passed 60 s. IP below is
`Network`: a segment handed to it is in `out`.

### TimerService and Timers

`Timers` has the thread of `timers_start`, step by step (`AdvanceTick`,
`BeginSweep` under `norm_mutex`, `Visit` that takes the lock of a timer,
`Sweep` with lines 88-97, `LeaveTimer` with the unlock of line 98, `EndSweep`),
against clients that run `Timer::create` (`Construct`, then `Publish` under
`norm_mutex`), `cancel` and `release` (`LockTimer`, then `Cancel` or
`Release`). Memory is a set of blocks: `delete` frees one and `new` may return
it at once. The mutex word belongs to the block and not to the timer, so that
the unlock of line 98, which works on memory that was deleted two lines before,
hits whatever is there by then. Blocks that hold something other than a timer
are not in the model: such an object would be written to by that unlock, which
is undefined behaviour that the properties do not excuse.

A client is a thread that holds `sock->lock`; it stands for one timer pointer.
Clients follow the discipline of `src/tcp.cpp` lines 208-243: the pointer is
nulled or overwritten after `cancel` or `release`. Null and uninitialised
pointers are the business of `TcpSock`, which shows when they are used.

`TimerService` is the same without threads, locks and memory: a timer is armed,
released or cancelled; a cancelled timer is collected and its handler may be
started in that step; a released timer stays for ever. `Timers` is shown to
implement it under the mapping `Status`, by TLC and by proof. `TcpSock` uses
exactly this service: its `cancelled` sequence is the timers that `Collect` may
take, its `timers_tick` collects all of them.

### SocketService and SocketTable

`heap` is the memory a Socket may occupy: a block is free (`NULL`) or a Socket
with its process, `refCnt`, the thread that has its lock, its Sock (not
allocated, allocated, freed) and its links (to itself, into the table, null).
`sockets_queue` and `sock_amount` are the table, `rw_mutex` the thread that has
it over more than one step: a `socket_free` that waits for a socket, or a walk
of `socket_debug`. `thread` has one record per thread: a worker is the thread of
a channel, the receiver runs `tcp_in`, the debugger `socket_debug`.

A call is `Call` (`get_socket`), `Acquire` (the lock, later), `Leave` (what the
call does inside, and `socket_release`); `connect` stands for all of them, since
it can do everything they can: keep the socket, fail and free it (`BeginFree`,
`Unlink`, `FreeSk`), or end the process (`Crash`: the null pointer of
`tcp_clear_timers`, a blocking `connect` that locks its own lock). `Create` and
`Add` are the two halves of `_socket`. `_poll` sleeps (`Wake`) and looks up
again. Uses of freed memory are choices: they end the process or not.

`SocketService` says what a process gets: its sockets form a line, for they all
have descriptor 4098; calls reach the first and only the first is ever freed.
`SocketTable` is shown to implement it, by TLC and by proof, with the line of a
process read off the table: `Lines` is the table restricted to the blocks that
hold a socket of the process (`Selected`).

No socket is ever deleted: its constructor counts a reference that nobody
drops. That leak is what keeps the pointers of `get_socket` valid, and
`PointersAreSockets` and `RefCountsHolders` say so; what can still go wrong is
the Sock, and there the second `socket_free` runs into the null links of the
node before it can free a second time (`SkFreedOnce`).

### IpcServer

One action per step of a thread between two system calls: the accept loop
(`Accept`, `Enlist`, `StartThread`, `SetId`), the thread of a channel (`Begin`,
`Read`, `ReadTail`, `Answer`, `Ignore`, `Close`, `Free`, `Throw`) and the client
at the other end (external: the kernel's stream and descriptors, and programs
that make one call at a time). A write that does not fit the buffer of 8192
bytes comes in pieces and is read by two `read`s; the second takes what is
there. `files` is what the kernel has behind each descriptor: descriptors are
given again as soon as they are closed, and the list finds its entries by them.

What a call does in the stack is the business of the other modules: here it
takes any time, `poll for ever` may never return, and any call may end the
process. `read` is a call of its own because `ipc_read` alone reports a failed
send instead of throwing (it also passes the descriptor of the channel where
the socket is meant, so that its answer is always an error; an answer here is
the name of the call).

### Network

One frame is one action, from `netdev_receive` to its last call: only the
receive loop writes the ARP cache. Addresses and pointers are sequences of
bytes, because every property here depends on which byte is where: `Native` is
the byte order of the host, `Ntohs32` what `ntohs` makes of 32 bits, `Packet`
the layout of `Arp_Hdr` with its `size_t`. `Hwaddr` is arbitrary, since
`parse_MAC_string` returns a dead array.

A header is the buffer object. On a machine with pointers of eight bytes it
begins with the two links of its list node, both its own address in a new
buffer, and the route pointer. `Ethertype` is therefore two bytes in the middle
of `next`, and the allocator decides (`Blocks`) whether a frame is ARP, IP or
unknown; `arp_hdr` alone looks at the frame itself. `ip_rcv` reads version and
length from the address too (`ip_hdr`): its last byte, aligned, on a
little-endian host, its first, zero, on the other. `ip_output` stores the route,
then writes its header over the links and converts the addresses in place
(`Converted`): the source is half of `next`, the destination half of the route
pointer. On a little-endian host that half is turned around, so the pointer
that `dst_neigh_output` follows is that of a route only if the half reads the
same both ways; otherwise it finds whatever is there (`Elsewhere`) or ends the
process. Its checksum takes the length after conversion and reads beyond the
object on either host. `Output` is a segment of TCP with one of `Destinations`,
in a new buffer or a queued one (`Links`).

Kept as the code has it: `ntohs` and `htons` on addresses, the return value of
the insertion taken for a failure, the exchanged ARP opcodes, the flags of a
route passed as its metric (so that the gateway of an intact route is never
used), the ICMP type read where the IP header begins, the buffers of other
frames that nobody frees. `MemoryAssumption`: `operator new` aligns to 16 bytes
and the uppermost byte of an address is 0.

### Checksum

The loops of `sum_every_16_bits` and `checksum`, an iteration a step, from the
sum that `tcp_udp_checksum` starts with, on either byte order; against the
definition of RFC 1071 on the bytes of pseudo header and segment. `Load16` and
`Load32` are the values that the bytes in memory have for the host, `Htons` the
conversion. The size of a byte is a constant (`Byte`, 256 in the code), the
widths of a word and of `uint32_t` follow from it. It is more than 2: with bytes
of one bit two lost carries make up for a byte in the wrong place, and the
condition of `RightUnlessCarryLost` is no longer exact.

## 4. Runs

| Run | What it shows |
|---|---|
| `tcp_sock` | one socket under every interleaving: type, and nine properties of what it can and cannot do while the process is up |
| `syn_received` | counterexample: SYN_RECEIVED is entered without a SYN-ACK (`include/tcp.hpp:103`) |
| `fin_wait` | counterexample: FIN_WAIT_1, and CLOSING after it, are entered without a FIN sent (`include/tcp.hpp:110`, `123`) |
| `closed_reset` | counterexample: the RST of a closed socket matches nothing (`src/tcp_input.cpp:210`) |
| `delayed_ack` | counterexample: an armed delayed acknowledgement is never sent when the peer falls silent (`src/tcp_input.cpp:470`) |
| `queued_skb` | counterexample: the handler that queues an out-of-order buffer frees it (`src/tcp_data.cpp:103`) |
| `timers` | the timer queue: locks exclude, no pointer dangles, the walk stays on the queue, `TimerService` is implemented, cancelled timers leave |
| `socket_table` | the registry under every interleaving of its locks: six invariants, `SocketService` is implemented, calls return |
| `ipc_server` | three clients, two descriptors: no thread uses or closes the descriptor of another, the list keeps one entry per failed read |
| `ipc_channel` | every kind of call on one channel: answers are those of the calls, calls are answered, descriptors return |
| `checksum` | wrong exactly when a carry of 32 bits is lost, or for an odd last byte on a big-endian host (`include/utils.hpp:100` claims RFC 1071 without condition) |
| `network` | no neighbour is ever resolved, only malformed ARP packets leave, no datagram gets to TCP, wherever the buffers lie |

What `tcp_sock` says about this program, in short: the tests on the
acknowledgement number refuse exactly the number that acknowledges the SYN, so
the SYN is never taken off the write queue (`SynPinned`), nothing but the SYN
and pure acknowledgements is ever transmitted (`OnlySynAndAckOnWire`), a
connect never completes (`ConnectNeverCompletes`), although the TCP state moves
on along RFC 793 (`FollowsRfc793`) and later calls queue one FIN at most on an
active close (`ActiveCloseQueuesOneFin`). No connection is torn down by a
process that stays up (`NeverTornDown`): `tcp_done` and `tcp_enter_time_wait`
run into the null pointer of `tcp_clear_timers`, and the ways to TIME_WAIT and
LAST_ACK around it (`src/tcp_input.cpp:344`, `src/tcp.cpp:256`) wait for an
empty write queue or a retransmission timer that fires, which never come. Only a
refused connect ends a socket, without a change of its state. Timers fire when cancelled and
only then: the SYN is never repeated (`SynNeverRetransmitted`) and of the five
handlers only the delayed acknowledgement ever runs (`OnlyDelackHandlerRuns`).
What the code gets right is the order of counting and acknowledging
(`AcksAreCurrent`).

**Bounds.** `tcp_sock`: 8 sequence numbers and a window of 4, so that the
window wraps and both sides of it are reached; initial numbers 0 and 3, the two
ends of what `generate_iss` may draw; headers of one byte and text of 0 or 1,
with the full-size limit at 2, so that segments are full-sized or not; three
buffers in the write queue (the SYN and two FINs), two received buffers, one cancelled timer, one handler thread per function. A counterexample
of any of the properties needs at most a handshake, two segments and a sweep.
The bounds `MaxSkb`, `MaxText` and `MaxTimers` are guards of the actions that
would exceed them. `timers`: two clients and three blocks, so that a block is
deleted and used again while another timer is in the queue before or behind it;
nothing in that module is unbounded. `socket_table`: two workers, two processes
and two blocks, beside the receiver and the debugger: two calls meet at one
socket, a process has two sockets or each has one, a creation fails beside a
live socket; a timeout of 5 ms is one sleep and -1 is none that ends; blocks run
out because sockets are never deleted, which bounds the run. `ipc_server`: three
clients for two descriptors, so that a descriptor is given a second time while
another channel is open and `accept` can fail; calls are those that differ in
how their thread ends. `ipc_channel`: one client, since channels share nothing
but the list; a write has up to two pieces beyond the buffer (`MaxRest`), a
channel holds two (`Capacity`), so that a tail is read whole, short or empty.
The backlog of 20 is not bounded: three clients cannot fill it. `checksum`:
bytes of two bits, up to four of them, and addresses whose sums stay below the
width, reach it and pass it; a length of four needs both bytes of its word, as
lengths do in the code. `network`: `MaxFrames` is 4, enough for two packets of a neighbour
after one another, an update and a datagram; the frames are one for each branch
that the code would take if it read them, the blocks one for each known type and
byte order (each reads as an unknown type on the other host), the routes one
whose address survives the conversion and two whose addresses do not.

Every property has a mutant in `PROJECT.json`: the module with one definition
changed as a plausible bug would change it, under which TLC finds the property
violated.

## 5. Fairness

`TcpSock!FairSpec`: the loop of `timers_start` never ends, so the clock passes
every timer and sweeps happen (WF of one advance of the clock that makes all
timers due, WF of `timers_tick`), and a detached thread is scheduled by the
system (WF of each `RunHandler`). Nothing is assumed of the peer or the
application. `Timers!FairSpec`: WF of the sweeping thread, whose every step is a
few instructions away or a lock that is soon free, and WF of a client inside
`cancel` or `release`. A weak condition is enough for the locks: no client
locks the same timer twice, and `norm_mutex` is held by clients within one step
only. Clients need never create or cancel anything.

`SocketTable!FairSpec`: SF of each thread that is in a call. The lock of a
socket is held by a thread that lets it go, and taken again by others, so that
a weak condition would let a thread be overtaken for ever; a lock of the system
that starves nobody is what the code relies on. No call, segment or walk need
ever happen. `IpcServer!FairSpec`: WF of the accept loop, of the thread of each
channel and of a client that has begun to write a call (`write` goes on by
itself). Not of `poll for ever`, of the outcomes of a call that end the process,
nor of a client's next call, its reading of an answer or its end. `Checksum`: WF
of its one loop. `Network` has no liveness to state: nothing that should happen
does.

## 6. Proofs

`tlapm` checks every theorem. Assumptions are those the modules declare:
numbers and bytes have more than two values, initial numbers come from the lower
half, lengths fit into a word, null and garbage are not timers, threads or
blocks, segments and frames are segments and frames, buffers are aligned and
their addresses do not reach the uppermost byte.

`TcpSock_proof`. Type correctness and `SynPinned` are not inductive by
themselves. The invariant `Safety` says that the socket is either `Fresh` (as
`socket()` left it: CLOSE, UNCONNECTED, an empty write queue) or `Connecting`:
the SYN heads the write queue, `snd_una = iss`, `snd_nxt = iss + 1`, `inflight`
is not 0, the socket is CONNECTING with an error. Then no acknowledgement
number satisfies both `snd_una < ack` and `ack < snd_nxt`
(`NothingAcknowledged`), so the write queue keeps its head and `inflight` its
value, and every later buffer is queued behind them (`QueueBehindSyn`). The
paths that leave these two descriptions go through `tcp_clear_timers`, for
which `ClearTimersDoomed` shows that no outcome leaves the process up; a lemma
carries this along every caller. A socket whose Sock is freed is described by `Gone`
instead: it sends nothing, its cancelled timers are still delayed
acknowledgements, and only sweeps and threads get to it. The second part of `Safety` (`DelackTimers`)
says that the cancelled timers are delayed acknowledgements and that there is
none before the peer has answered; it is needed so that the one handler that
runs finds a state in which its acknowledgement is legal. One lemma per
operation (`ConnectSafe`, `InputSafe`, ...) concludes that the operation leaves
the socket in `Safety` or the process dead; `SafetyNext` collects them.

`TcpSteps_proof` is about what happens between two such states. `Step` relates
the socket a call finds to the one it leaves: the state stays or moves along one
edge of RFC 793, the acknowledgements sent carry the numbers the call ends with
(`Current`), and a write queue whose only FIN is its last buffer after an active
close, and that has none before, stays like that (`Fins`). For segments the
work is in the order of the functions of `tcp_in`: text is counted
(`DataQueueCurrent`), then the FIN (`FinCurrent`), and only then an
acknowledgement leaves (`AckCurrent`, `DelayedAckCurrent`); `Led` says what the
peer may cause meanwhile and is transitive. `Orderly` (`Current` and `Fins`
of the socket) is inductive together with `Safety`: without `NothingAcknowledged`
the FIN might leave the queue, and a doomed call proves nothing about its
outcome. A step of a freed socket is `Idle`. The four properties follow from it, the two about steps through
`NextAdvances`.

`Timers_proof`. `Consistent` strengthens the four invariants of the run with
`HeldTimers` (a client that may use its pointer keeps the one reference of a
queued, uncancelled timer; a block under construction is not queued),
`CancelledTimers` (a cancelled timer has no reference), `SweepLocks` and
`SweepAdvances`. The step that could break the exclusion is `LeaveTimer` after
a deletion: the block may hold a new timer by then, but its client is in
`Publish`, waiting for `norm_mutex`. The lemmas on queues (`SuccNode`,
`UnlinkedNodes`, `AppendedNodes`) say what `queue_del`, `queue_add_tail` and the
saved successor do to a queue without duplicates. `TimersImplementService`
shows that initial states map to initial states and every step to a step of
`TimerService` or a stutter.

`SocketTable_proof`. `Sound` strengthens the invariants of the run with the
links between them: the thread that has the lock of a socket is the one that is
inside with a pointer to it (`LocksMatch`), a socket is in the table exactly if
its node is queued, and then it has its Sock (`NodesMatch`), a thread in
`Unlink` or in a walk has `rw_mutex` (`TableLocked`), the socket under
construction is known to its creator only (`CreatorsAlone`), a thread that
frees a Sock has unlinked its socket (`FreesOnce`). `RefCountsHolders` then shows that `Released` never
deletes (`ReleasedSocket`), which is why pointers stay valid.
`AmountDriftsByFailures` needs the cardinality of a set that changes in two
steps only; one lemma per step says by how much.

`TableImplementsService` needs one more invariant. `Unlink` is a `Leave` of
`SocketService` only if the socket is the first of its process *then*, long
after `get_socket` found it so: between the two the call was inside the socket,
waited for `rw_mutex` and for the lock. `Oldest` says that it still is, or is in
the table no more: sockets join at the end, so nothing comes before it, and
removing another keeps the order (`StillFirst`); a creation that failed frees a
socket that was never there. What appending to the table and removing from it
do to the lines is said by `SelectedAppend` and `SelectedRemoved`. `Add` is then
a `Join` (`AddJoins`), `Unlink` a `Leave` or, for a failed creation, a stutter
(`UnlinkLeaves`), and all other steps leave the lines alone.

`Network_proof`. `Inv` adds to the type that the cache and `segments` are empty
and that all packets that left are malformed (`Quiet`). The argument is about
bytes: what `ntohs` makes of 32 bits begins with 0, the address of the device
with 10 (`HalfAddress`), so `arp_rcv` never gets to its insertion, on either byte
order and whatever the packet; with an empty cache the neighbour output can only
request or end the process, whatever the route pointer has become
(`OutputQuiet`); and in a request the sixth byte belongs to `hwsize`, so it is
not the 4 of RFC 826. The first byte of what `ip_rcv` takes for its header is
the first or the last of the address of the buffer (`HeaderIsAddress`), whose
upper or lower four bits are 0: no version or no length (`DatagramRefused`).

`IpcServer_proof`. `Typed` is the type; `Bound` says how the accept loop, the
list and the descriptors hang together: a client has no channel before it is
accepted (`Newcomers`, `Accepted`), every serving thread has a descriptor with
its own client behind it, so that no two have the same, and an entry to find
for it, and the list is counted (`Counting`); `Exchanges` ties the state
of a client to what is on its channel, by cases of where its thread is: an
untorn channel holds either pieces of the client's one call, or the call runs,
or its answer is on the way. `QueueLemmas` says what removing an element does
to a sequence.

`Checksum_proof`. `Summing` says that the sum so far is that of the words passed
modulo `Full`, so that all additions together lose what one reduction of
`ExactSum` loses. Two sums are `Same1s` if ones' complement does not tell them
apart: congruent modulo `Word - 1`, and 0 only together. A fold keeps the sum
`Same1s` (`FoldedSame`), since `Word` is 1 modulo `Word - 1`; reading every word
in the other byte order multiplies it by `Byte` (`Load16Is`, `HtonsComplement`,
`SumOfWordsIs`), which the final store undoes, since `Byte * Byte` is `Word`
(`SumsAgree`). That gives one direction. For the other, a lost carry is worth 1
modulo `Word - 1`, there are at most two, and a last byte in the wrong half adds
less than `Word - 3`, so that together they are never a multiple of `Word - 1`
(`LossShows`): the checksum is then really wrong.

The induction theorems of the library take an operator as a parameter, which no
installed prover can instantiate. Where a proof goes along a sequence of any
length (the sums of `Checksum`, the selections of `SocketTable`) it uses
`Induction` of `QueueLemmas`: a set of numbers that holds 0 and with each number
the next, proved from the least number outside of it. The sums and selections
are recursive functions for that reason.

Theorems and the properties they state are listed in `PROJECT.json`.

**Only model-checked:** `CancelledTimersLeave`, `CallsReturn`, `CallsAnswered`,
`DescriptorsReturn` and `Returns` (liveness is outside the prover's reach), and
the counterexamples. Every other property of a passing run is a theorem.

## 7. Not modelled

Listening sockets, RTT estimation, SACK blocks and option parsing (no effect on
the modelled control or never reached). `socket_find`, `socket_garbage_collect`,
`socket_delete` and `abort_sockets` of the registry, `free_arp`, `free_routes`
and `free_netdev`: nothing that runs calls them. The start-up of the TAP
interface and of the listening Unix socket, and the CLI: system calls and shell
commands that either succeed or end the process. The pointers inside a buffer
(`push`, `reserve_headroom`), but for the death they may bring when a buffer that
was sent is deleted. `timer_debug` and printing; the locks of
`socket_debug` are modelled. The example applications, which are clients of the
host's own sockets. A `std::thread` that cannot be created and an allocation
that fails throw and end the process; the models leave both out.

## 8. Hazards

`PROJECT.json` lists each hazard with its line and the properties that cover
it. Four have no property, each with the reason there: the overflow of
`expires`, which has no control behind it; the window test near the top of the
sequence numbers, the leak of buffers of an unknown type and the thread that
runs on a freed Sock, which are in the models and happen. Between the components the pattern is one: what a hazard
would do is often prevented by another defect (a leaked reference keeps stale
pointers valid, null links stop a double free, an empty cache hides a null
pointer), so that repairing one alone uncovers the next. The properties that say
so, `RefCountsHolders`, `SkFreedOnce`, `ArpCacheStaysEmpty` and `NeverTornDown`,
are the ones to rerun after a repair.
