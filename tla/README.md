# Verification of wpxe

wpxe is an iPXE network boot loader with two additions: a BitTorrent client
(`src/src/net/tcp/bittorrent.c`) and a TCP that can listen (`src/src/net/tcp.c`).
This directory models the parts of it in which several things happen at once:
timers, connections, caches and transfers that call one another back.  The modules
are checked with TLC on small instances.  The two services that everything else
rests on, retry timers and the allocator, and the DHCP session are also proved
correct for every size with TLAPS.

`PROJECT.json` maps every definition to the lines of code it stands for, and lists
components, runs, mutants, findings, hazards and theorems.

## The system and its hard parts

Everything runs on one processor without preemption.  `step()` runs one process of a
run queue; packets, timers and user input are all served from processes.  A handler
therefore runs to completion, but it may call back into the object that called it: a
delivery may close the connection that delivers, an allocation may evict the cache
entry in use, a timer callback may stop or free other timers.  Concurrency is the
order in which handlers run, and re-entry within one.

| Part | State | Operations | What makes it hard |
|---|---|---|---|
| Retry timers (`net/retry.c`) | list of running timers, timeout, count and start of each | start, start fixed, stop, poll, expire | callbacks change the list being walked; the tick counter wraps; only one expiry a poll |
| Allocator (`core/malloc.c`, `core/iobuf.c`) | the free list, headers and descriptors of blocks handed out | allocate, free, reallocate, discard cached data | discarders free memory from inside an allocation; blocks must be merged with both neighbours in one walk; I/O buffers have one or two blocks |
| TCP (`net/tcp.c`) | list of connections, static listener pointer, sequence state, transmit and receive queues, two timers, pending operations | open, listen, send, close, receive, expire, discard, shut down | lost, repeated and reordered segments, wrap of sequence numbers, close from inside a delivery, memory pressure, failing transmission, clones of the listener |
| BitTorrent (`net/tcp/bittorrent.c`) | a request per node, its peers, remaining pieces, bitmap, queues, half-received message | open, step, accept, deliver, close | two connections of one node advance independently; messages are cut anywhere; sockets fail or close |
| Devices (`net/netdevice.c`) | device lists, references, transmit queues | register, open, close, unregister, transmit, complete | a device goes away while routes, ARP entries and packets refer to it |
| ARP (`net/arp.c`) | entries with address, timer and waiting packets | transmit, receive, expire, flush, discard | an entry may be evicted by an allocation made inside an operation on it |
| IPv4 (`net/ipv4.c`) | routing table, reassembly buffers | make routes, transmit, receive, expire | routes outlive settings; fragments come in any order |
| TFTP, TFTM, MTFTP (`net/udp/tftp.c`) | flags, peer, block bitmap, file size, sockets, timer | open, expire, receive OACK, DATA and ERROR, close | several server sessions answer; blocks have gaps; recovery and fallback change the rules in the middle |
| DHCP (`net/udp/dhcp.c`) | a session: its state, the offers chosen, the list of boot servers, its timer | start, transmit, receive, expire, cancel | several servers answer late and twice; states give up after a time of their own, the timer at its maximum |
| Objects (`core/refcnt.c`, `core/interface.c`, `core/process.c`) | reference counts, plugged interfaces, the run queue | get, put, plug, close, restart, step | a close runs handlers that close, unplug and free in turn, objects that are being called included |
| Names and redirection (`core/open.c`, `core/xfer.c`, `core/resolv.c`) | named sockets, resolver multiplexers | open, reopen, redirect, resolve | the socket an operation came from is replaced during the operation |
| HTTP (`net/tcp/httpcore.c`) | receive state, lengths, flags, three interfaces | open, send, receive, retry, redirect, read a range, close | one request serves several responses; the end of a file may be its length, its last chunk or the close |
| Downloads and block reads (`core/downloader.c`, `core/monojob.c`, `int13.c`) | image and position; a drive, its command and buffer | create, deliver, finish, cancel; start, issue, wait, time out, unhook | the one who waits must be told; a buffer must not be written once its command is over |

How the parts interact: TCP, ARP, IPv4 reassembly, TFTP and DHCP each own retry
timers; TCP, TFTP and DHCP hand packets to IPv4, which asks ARP, which queues them
on a device; DHCP stores the settings that IPv4 makes its routes from; BitTorrent
and HTTP run over TCP, HTTP through a named socket that redirects it there, and
deliver to a downloader or a drive; all of these are objects plugged together by
interfaces; an allocation anywhere may call the cache discarders of TCP and ARP.
The properties that matter are: data arrives whole, once and in order; nothing is
acknowledged that was not delivered; every buffer and reference has an owner until
it is freed; whatever waits has a timer or a peer that ends the wait.

## Modules

| Module | Models | Used by |
|---|---|---|
| `RetryTimer` | all of `net/retry.c` | `MCRetryTimer`, `RetryTimerProofs` |
| `Heap` | what an allocator promises: an abstract specification | `MemBlock` |
| `MemBlock` | `alloc_memblock()`, `free_memblock()`, `discard_cache()` and `mpopulate()` | `Malloc`, `MemBlockProofs` |
| `Malloc` | `malloc()`, `realloc()`, `free()` and I/O buffers over `MemBlock` | `MCMalloc` |
| `Tcp` | a connection's handlers as operators on a connection record | `TcpNet`, `TcpPeer` |
| `TcpPeer` | one active connection against any peer that keeps to RFC 793 | `MCTcpPeer` |
| `TcpNet` | hosts that run this TCP, with listeners, over a network | `MCTcpNet` |
| `BtSwarm` | the three-node chain of BitTorrent clients | itself |
| `BtFraming` | how messages are found in the byte stream | itself |
| `NetDevice`, `Arp`, `Ipv4` | operators on the state of the IP stack | `IpStack` |
| `IpStack` | the composed stack of one host | `MCIpStack` |
| `Tftp` | one download and its servers | itself |
| `Dhcp` | DHCP and boot server sessions and their servers | `MCDhcp`, `DhcpProofs` |
| `Objects` | reference counts, interfaces and the run queue, as operators on a world | `Naming` |
| `Naming` | opening, redirecting and resolving | `Http` |
| `Http` | an HTTP request | `Download` |
| `Download` | the composition, with downloader, foreground job and INT 13 drive | `MCDownload` |
| `RetryTimerProofs`, `MemBlockProofs`, `DhcpProofs` | theorems about these three | |

**RetryTimer.**  `timers` is the list `timers` of the code, `timer[t]` the
structure, `refcnt[t]` the count of the object the timer is part of (-1 when freed,
as in the code).  Actions are `start_timer`, `start_timer_fixed`, `stop_timer`,
`Tick`, one poll that finds nothing, and one for each thing a callback does in this
stack: nothing, restart with the backed-off timeout, restart with a fixed one, stop
another timer, drop the object.  An expiry and its callback are one step because
`retry_poll()` calls it and returns.  `elapsed` is a ghost: the true time a timer
has run, which the wrapping difference of two tick counts must not exceed.

**Heap, MemBlock, Malloc.**  A block is an address and a size, `free_blocks` the
list of the code.  `alloc_memblock()` is a loop of two phases, a search and a round
of discarding, each of which is a step; no caller runs before it ends.  `Malloc`
adds what callers see: a header before the data of `malloc()`, and an I/O buffer
whose descriptor is behind its data or, when it does not fit there, a block of its
own.  `todo` holds the calls of `free_memblock()` that the running function has
still to make.  `HeapPromise` is the abstract specification `Heap` with the
allocated blocks for `live`: what is handed out is aligned, inside the heap and
shared with nobody, and a request is refused, or cached data discarded, only when
there is no place.  `BlockDiscipline` says that `Malloc` uses `MemBlock` by its
rules, so that the theorems about `MemBlock` hold in the composition.

**Tcp, TcpPeer, TcpNet.**  A connection is a record with the names of `struct
tcp_connection`; flags sent, acknowledged and received are sets.  Each handler
(`tcp_rx`, `tcp_expired`, `tcp_wait_expired`, `tcp_xfer_deliver`, `tcp_close`,
`tcp_discard`, ...) is an operator that returns the connection with the segments it
sent, so that a handler is one step with all it calls.  Sequence numbers are taken
modulo `SeqSpace` and start just below the wrap.  Transmission may fail at the
allocation of the packet or below TCP (`Failures`).  `TcpPeer` needs no network:
what the peer may have sent follows from the windows it was offered, and any such
segment may come at any time, again, or never.  `TcpNet` keeps the set of all
segments ever sent, which a host may receive in any order and number; it adds
passive opens, the clone made for each of them, the static listener pointer,
demultiplexing and `tcp_shutdown()`.  `NetAssumption` says that `random()`
keeps the sequence numbers of a host's connections apart, which the code does not
ensure: where two connections overlap, segments of the old one can be taken for the
new one's, and TLC then finds `AckedWasDelivered` violated.  The listener itself stays
open in the runs (`MayUnlisten`), since the code says nothing of what follows once
it is gone.

**BtSwarm, BtFraming.**  The code gives three node ids fixed roles, and so does the
model: the first answers, the middle one asks for every piece in turn, the last asks
for what it is told of.  `BtSwarm` delivers whole messages through one ordered
channel for each direction; `BtFraming` shows when the receiver sees whole messages
at all.  Peers may fail to be made (`PeerMayFail`): a child connection is then left
unplugged, and what comes over it is acknowledged and thrown away (`discarded`), and a
node that connects goes on with a null pointer (`corrupt`).  In `BtFraming` a byte is its position in the stream, a step one iteration
of the loop over a received buffer.

**NetDevice, Arp, Ipv4, IpStack.**  The state of the stack is one record that the
operators of the three modules transform, because calls pass through all three:
`ipv4_tx()` makes a route decision, `arp_tx()` creates an entry, the allocation of
which may evict others, and `net_tx()` puts the packet on a device.  Packets are
numbers, so that "freed twice", "lost" and "overtaken" can be stated.  Addresses
have 4 bits and a netmask is its number of host bits.  An allocation evicts the
number of entries chosen from `Mem`, or fails; a driver's transmit routine may evict
too (`Drv`).

**Tftp.**  The request is a record with the names of `struct tftp_request`, extended
by what it has sent and what the recipient was given.  Servers are external: plain
with or without options, RFC 2090 multicast with the client as master or not, and
MTFTP with a transfer of others possibly under way.  A packet sent may be received
at any later time, any number of times, or never, so that a session is the number of
blocks it has sent.  Failures of sockets, memory, name resolution and the recipient
are choices of the steps that meet them.

**Dhcp.**  `dhcp` is the session with the names of `struct dhcp_session`; a packet
is what the client fetches from one.  Servers are external: a broadcast or directed
request may be answered by everyone it reaches, or lost, and an answer may come at
any later time and again; a boot server answers only when it is the one asked,
where `dhcp_proxy_rx()` would take a reply without server id from any host.  `elapsed` and `timer.waited` are the two differences of
tick counts the code computes; a poll may be up to `Late` ticks late.  `offers` is a
ghost: the packets the discovery state has handled.

**Objects, Naming, Http, Download.**  Calls nest deeply and come back to objects
that are still on the stack, so an operation is a function from a world to a world
that does what precedes its first call and pushes the remaining calls on
`world.stack`; an action runs a handler until the stack is empty.  `world.cnt` are
the reference counts, and `bad` is set when a freed object is used.  A server's
response is a sequence of tokens, one for each header line the client tells apart
and each byte of data, and is delivered in segments of any length.  A DNS request and
a TCP connection are reduced to what their users see: the request holds one reference
for its timer and its socket, and a closed connection leaves at once the list where it
would go on to exchange FINs, of which nobody here hears.  `site` is the
surroundings a behaviour takes place in: pages, how the server ends a connection,
and after how many allocations memory runs out, so that each allocation of a handler
fails in some behaviour.

## Runs

| Run | Question | Bounds, and what happens within them |
|---|---|---|
| `timer_served` | Are references balanced, does no timer fire early, is each served? | Two timers, one of them in a counted object; ticks wrap after 6, timeouts are 1 to 4, so that every order of start, stop, wrap and expiry occurs; a stop measures at most one tick (`MaxRuntime`) |
| `malloc` | Does the allocator keep its promise, and do its two layers fit together? | A heap of 19 bytes that is not aligned at either end, blocks of at least 2, up to four pointers, lengths for which the descriptor is inline and for which it is not, buffers queued where a discarder finds them |
| `tcp_peer` | Is the stream intact, the accounting exact, nothing forgotten, and does everything arrive, against any peer? | In a hostile setting two bytes and FIN each way, windows of 0 and 2 offered and 1 and 4 accepted, transmission that fails below TCP, resets; in a patient one four bytes in and two out; in both one packet queued out of order, one discard, one retry; sequence numbers wrap within both streams |
| `tcp_net` | Is what is acknowledged delivered, and do the assertions of the code hold, between two hosts that both run it, with a listener? | One client and one server; the client's connection, the listener, its clones and the bytes sent make at most five together (`MaxWork`): two bytes over one clone, one byte and a second clone that an old SYN starts or a stray segment leaves in LISTEN, or three clones; every order of closing, close from inside a delivery, shutdown of the server's stack |
| `bt_settled` | Does every node get every piece once? | Three pieces; a node starts once the ones after it have settled |
| `bt_disconnect` | Do references balance whatever closes or fails, but for those that a peer without bitmap leaks? | Two pieces, any order of start, closing connections and requests, closed windows, failing sockets, and failing allocations of a peer, its buffer, its bitmap and a piece to send |
| `bt_framing` | Are messages found in the stream as they were sent? | Handshake and every sequence of three messages, every way of cutting PIECE messages and joining others |
| `ip_stack` | Do buffers, references, routes, cache and fragments stay right while devices come and go? | Two devices up and a third that may register, three packets, a ring of two, one ARP retry, two datagrams of three units with one id from two senders, cut in every way (so that a buffer is extended and waits for more), four external events in any order, timers and completions besides; a registration may fail, making the routes anew may stop at any of them, allocations fail, and those of a driver evict an ARP entry |
| `tftp_transfer` | Is a finished download whole, an acknowledged block delivered, an unfinished one always retrying? | All four openers, files of 3 and 4 units with blocks of 2 or 3 (a short last block and an empty one), two sessions, one MTFTP timeout before the fallback (3 in the code) |
| `dhcp_session` | Is the lease the best offer, the ProxyDHCP server honoured, every timeout justified, and does every session end? | Four networks: ranked servers with a proxy to be asked, a BOOTP server with proxies that put options in their offers, servers that disagree about proxies or refuse, and a server of negative priority; time in quarters of a second with all timeouts of the code |
| `http_download` | Are references exact, is success the right data, is nobody left waiting, is everything freed? | Files of two bytes with a length, chunked or ended by the close, missing, behind a password of either scheme, moved, or with lines that cannot be parsed; downloads and block reads; any cut into segments, DNS failures, resets, timeouts, cancelling, each of the first six allocations of a handler failing, except those of a redirection (see the next run) |
| `http_dangling_redirect` | Is a failed redirection reported? (violation) | A page that has moved to a location that cannot be opened, or for which memory runs out |

What each property says is written above it in its module.  Every one of them is
violated when a definition it depends on is replaced by the mutant named in
`PROJECT.json`, each a bug the code could plausibly have: a dropped guard, an
off-by-one, a missing reset, a swapped order.

The bounds are the smallest at which the cases of the table occur: two of whatever
can be confused with another (timers, peers, sessions, senders), one more packet
than fits where something overflows, one retry where retries repeat the same step,
and counters that start next to their wrap.  `CHECK_DEADLOCK` is off where the
system may stop: a finished transfer, a closed connection, a used up budget of
events.

### Fairness

* `RetryTimer`: the clock advances and the event loop polls (weak fairness of `Tick`
  and `retry_poll`), since the poll is a permanent process.  The bound
  `PollsPerTick` says that it polls at least that often in a tick.
* `TcpPeer`: a running timer expires, and the peer sends what it may send next and
  acknowledges what it has got.  These are conditions of the form "infinitely often
  not due, or infinitely often done", which is weak fairness with its enabling
  condition written out: TLC evaluates it much faster than ENABLED of these actions.
  `Download` does the same.
* `BtSwarm`: every node is started, its process `bt_step()` keeps running, and TCP
  connects, delivers and acknowledges.  The run that uses this has no disconnections
  and failures.
* `Dhcp`: time passes while the timer runs, and the poll serves it (weak fairness of
  `Tick` and `dhcp_timer_expired`).  Nothing is assumed of servers or the network.
* `Download`: queued processes are stepped, a DNS request is answered or fails, a
  connection is served by a server that answers and then closes, and a drive's
  command is issued, waited for and timed out: `monojob_wait()` and
  `int13_command_wait()` call `step()` as long as they wait.
* `IpStack`: cards transmit what they accepted and timers expire, one at a time.

Otherwise nothing is assumed of users, of allocations or of any one packet.  That a
peer's segment arrives in the end is part of the condition on the peer.  `Tftp` and
`TcpNet` are checked for safety only; that `Tftp` does not stop is the invariant
`AlwaysRetrying`.

## Proofs

### Retry timers

`RetryTimerProofs` proves about `RetryTimer`, for any set of timers, any timeouts
and any width of the tick counter:

* `TimerTypes`: the structures keep their type;
* `TimerListExact`: the list holds exactly the running timers, each once;
* `TimerReferences`: a running timer holds one reference of its object;
* `TimerNeverEarly`: no timer expires before its timeout has passed.

The assumption is `TimerAssumption`: timeouts and bounds are natural numbers, the
tick counter has a positive modulus and the counted timers are among the timers.
TLC evaluates it in `timer_served`.  The theorems cover timeouts of zero and
timeouts longer than the tick counter's range, which that run leaves out.

The inductive invariant is `IInv == TypeOK /\ ListHoldsRunning /\
ReferencesBalanced`.  No conjunct is inductive alone.  `stop_timer()` tests the flag
`running` and then takes the timer off the list, so that even the type of the list
needs the second conjunct, which says that the timer is on it, and once.  An expiry
drops the reference of a timer that it found on the list, and only the second
conjunct says that this timer is running, so that the third counts a reference for
it.  The proof has one lemma for each action.  Two lemmas on lists, `ListAdd` and
`ListDel`, say what adding and removing do to membership and repetition; `Stopping`
and `Starting` carry them over to the pair of list and structures, so that the
actions with callbacks, which do both, combine them.  `TimerNeverEarly` adds the
invariant `UsedAtMostElapsed`: the difference of two tick counts modulo their width
never exceeds the time that has really passed, though it may fall short after a
wrap.

### The block allocator

`MemBlockProofs` proves about `MemBlock`, for every heap, every smallest size and
every set of requests:

* `ListCoalesced`: the free list is in address order and no two of its blocks touch;
* `BlocksDisjoint`: blocks in use are inside the heap and overlap nothing;
* `LeaksBounded`: every aligned unit of the heap is free or in use, so that memory
  is lost only at the ends of the heap, as the comments in `alloc_memblock()` say;
* `AllocatorKeepsPromise`: the allocator implements `Heap`.

The assumptions are `MemBlockAssumption` and `AlignedRequests`: alignments above the
smallest size are multiples of it, and so are offsets (only the IPoIB driver passes
one that is not zero).  The inductive invariant joins the first three with the shape
of blocks: a free block ends at multiples of the smallest size or at an end of the
heap.  None holds by itself: that a block returned by `free_memblock()` meets at
most one block on either side needs the order of the list and the disjointness, and
that a split leaks nothing in the middle needs the shape.  The walk of
`free_memblock()` is the lemma `FreeKeeps`, a split `GrantKeeps`; `Splice...` say
what replacing part of a list does.  For the refinement, `NoFitNoCandidate` turns
"no free block fits" into "no place in the heap satisfies the request": an aligned
place that avoids all blocks in use lies, by `LeaksBounded` and `Coalesced`, within
one free block, which then fits.

### DHCP

`DhcpProofs` proves about `Dhcp`, for every set of addresses, networks and timeouts:

* `NoHastyTimeout`: a session times out only in discovery without an offer, while
  requesting its address, or when every boot server has been tried
  (`TimeoutsJustified`);
* `BestLease`: a registered lease is the answer of a server that no considered offer
  outranks (`LeaseIsBest`).

`TimeoutAssumption` asks that twice the sum of a state's give-up time and the
timer's minimum is at most the maximum; the code's 2 s and 3 s with a minimum of 1 s
and a maximum of 10 s satisfy it.  The inductive invariant adds `Timing`: a timer
started a time t into a state runs for at most t and the minimum, because each
timeout is at most twice the one before, and a state that gives up starts it only
while t is within its patience; so the next doubling never exceeds the maximum
there.  `Holding` says that the offer the session holds is one of those it
considered, that none outranks it, and that nothing is registered before a lease is
requested.

### Only model-checked

All other properties.  Liveness under fairness and ENABLED are out of the reach of
the prover and stay with TLC, and so does what a recursive definition computes for
every input, which would need induction over data: the call stack of `Download` and
the queues of TCP and ARP, whose handlers walk them to the end.

## Where code and comments disagree

* `http_dangling_redirect`: when the location of a redirection cannot be opened,
  `http_rx_location()` returns the error, but `xfer_vreopen()` has already unplugged
  the request from its parent.  The downloader waits until it is cancelled, although
  the comment on header handlers says "If an error is returned, the download will be
  aborted." (`src/src/net/tcp/httpcore.c:659`).

The following were met while modelling too.  The models follow the code into some of
them, and others are excluded by a condition that the module states, named here; the
hazards in `PROJECT.json` give the lines:

* A segment without SYN that reaches the TCP listener leaves a clone in LISTEN,
  which then takes the segments of that peer's port.  The comment in `tcp_demux()`
  says "If no established connection is found, return listener"
  (`src/src/net/tcp.c:833`).  `tcp_net` has these clones; no property asks that the
  port recovers.
* If the middle BitTorrent node hears from the first before it has shaken hands with
  the last, it skips its own handshake, and the loop of `bt_peer_socket_deliver()`
  at the last node never ends, though the comment at `bt_step()` asks "to avoid
  blocking other functions" (`src/src/net/tcp/bittorrent.c:477`).
  `EveryNodeComplete` is checked for nodes started from the last to the first
  (`Settled`).
* A redirection that fails leaves the downloader waiting, as the run above shows, so
  `http_download` has no failing redirections: every location exists, and memory
  does not run out while one is opened (`lossy`).
* In HTTP, an image keeps the length announced with a redirection or a password
  prompt when that comes first and is longer than the file.  A redirection that
  answers the read of a range ends the read without data and without error.  A whole
  file sent for a range is taken for the range.  `http_download` excludes all three:
  announced lengths are at most the file's or follow the prompt, the drive's page
  that has moved is served without early closes (`abrupt`), so that the redirection
  answers HEAD, and servers send the range asked for (`Reply`).
* A server that closes in the middle of its answer to HEAD leaves the capacity unset
  without error, and a prompt without a body on a connection that is kept waits for
  the server to close it.  The model follows the code into both; no property asks
  for the capacity, and `EveryWaitEnds` assumes that servers close.
* MTFTP that has received a block and falls back to plain TFTP discards the bitmap
  but keeps the file size, so that the first plain block ends the download without
  error (`CompleteMeansWhole` asks for a bitmap).
* When the 16-bit block number has wrapped, TFTP takes a late copy of an early block
  for a later one, and for an empty file it writes through a bitmap that was never
  allocated (`TftpAssumption`).  An OACK without a size ends a request for the size
  with the size 0 (`CompleteMeansWhole` admits it).
* `arp_tx()` leaks the packet when it cannot allocate an entry (`OneOwner` counts
  such packets as lost).
* A device whose registration fails stays on the list of devices, and the model
  keeps it there.
* Fragments are matched by sender and id alone (`DatagramAssumption`).
* A window update from a TCP peer that acknowledges nothing new is ignored (the
  patient setting of `tcp_peer` keeps the peer's window open); a window limited
  under memory pressure is rounded down to a multiple of four (`WindowUnit`).
* The static listener pointer of TCP may dangle, or be null where it is read; where
  it is null the model sends a reset.
* `http_step()` prefers Basic whenever it was ever asked for, so that a server that
  refuses it and then asks for Digest is answered with Basic again.  No property asks
  for more than that the request ends.
* `prev_tcp_state` is described as kept for debug messages only, but decides when a
  passive connection is handed to the application; the model has it.
* When the bitmap of a BitTorrent peer cannot be allocated, `bt_create_peer()` returns
  without giving back the reference to the request, which can then never be freed
  (`leaked` in `PeerReferences`), nor the peer and its buffer.  `bt_step()` uses the
  null pointer untested, and `tcp_rx()` does not look at what `xfer_open_child()`
  returns, so that the connection stays open with nobody to read it.
* A BitTorrent peer whose socket cannot be opened is closed twice, after which the
  references of its request mean nothing (`corrupt` in `PeerReferences`); a piece is
  marked as received although its delivery to the recipient is commented out.
* A length prefix of a BitTorrent message that is cut by a segment boundary is lost
  (`BtFraming` speaks of streams that are "clean" of that).
* A timer restarted without delay from its own callback keeps later timers from
  being served (`CallbackTimeouts`).

## What is not modelled, and why

Text and bytes: URIs, option strings, headers, checksums, certificates and ciphers;
the layout of DHCP packets and the cached and fake packets made from them.  HTTPS,
FTP, the contents of DNS messages and the block protocols (iSCSI, AoE, SRP).  TCP options: timestamps are
echoed and decide nothing; MSS and window scale change numbers that are constants
here.  Hardware drivers, firmware and assembly, whose environment the repository
does not describe.  Infiniband and wireless, which are stacks of their own.
`PROJECT.json` lists each component with its reason.

## What could follow

1. An abstract stream that `TcpPeer` and `TcpNet` implement through a refinement
   mapping, and an abstract transfer that `Tftp` implements.
2. `Download` over `Tftp`, and over `TcpPeer` in place of its reduced connections.
3. DNS retries and aliases, whose results `Download` and `Tftp` choose freely.
4. Proofs: `AlwaysRetrying` and `AckTruthful` of `Tftp` for every file and number of
   sessions; `DeviceReferences` of `IpStack`; the stream properties of `TcpPeer` for
   every window and sequence space.

## Running

    tlc -workers 2 -config IpStack.cfg MCIpStack
    tlapm MemBlockProofs.tla

The runs take from seconds to about two minutes each; each of the three proof
modules takes a few minutes.
