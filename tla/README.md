# A TLA+ model of lazybsd

lazybsd runs the FreeBSD network stack in Linux user space on top of DPDK. This
directory holds TLA+ modules that model its own core (the glue between the stack
and DPDK, not the stack itself, which the build takes from FreeBSD), the TLC
configurations that check them, and TLAPS proofs. `PROJECT.json` lists the runs,
the mutants, the source lines behind every definition, the hazards and the
theorems.

## The system

A deployment is a number of processes, one per lcore, one thread each. Every
process has its own copy of the stack and goes round `main_loop`
(`src/lazybsd_dpdk.cc`): run the timers, drain the transmit table, serve the
dispatch ring and the receive queue, serve the control-message ring, call the
user's loop function. The processes share hugepage memory: mbuf pools, dispatch
rings, message rings. Inside a process nothing is concurrent, so locks, sleeps,
wakeups and epochs are empty; what interleaves there is callbacks (callout
handlers, the dispatcher, the user's loop), and between processes the shared
rings and pools.

| Component | State | Operations | Interacts with | What is hard | What makes it correct |
|---|---|---|---|---|---|
| Callout wheel (`bsd/lib/lazybsd_kern_timeout.c`) | bucket lists, `cc_softticks`, `cc_next`, `cc_curr`, callout flags | reset, stop, drain, deactivate, init, tick | every protocol of the stack; `rte_timer` through `lazybsd_hardclock` | handlers change the lists that `softclock` is scanning; `ticks` wraps; leftovers of multi-CPU code | a callout runs once, at its tick, never after a stop; the lists stay consistent; each tick's work ends |
| Zero-copy transmit (`lazybsd_dpdk_if_send`, `send_burst`, `src/lazybsd_memory.cc`) | transmit table, ring of parked chains | send, response, drain, burst | stack (`if_transmit`), NIC, dispatcher | the NIC reads the stack's memory later; bursts are taken in part; allocation fails | a chain has one owner and is freed after it was sent |
| Receive and dispatch (`process_packets`, `process_dispatch_ring`) | receive queues, dispatch rings, mbuf pool | receive, dispatch, copy, input | all processes, NIC, stack, transmit | hand-over between processes, full rings, empty pool, copies crossing | mbufs are conserved, order is kept, ARP reaches every stack |
| Control messages (`handle_msg`, `process_msg_ring`) | message pool, request and answer rings | request, handle, answer | tools in other processes | full answer ring, unknown types | a message is in one place, and is answered or recycled |
| Page pool (`stklist_*`, `lazybsd_mmap`) | stack of free pages, table of physical addresses | get, free, address check | kernel memory, transmit | exhaustion, bounds | a page has one owner; data is where its address says |
| Port and lcore set-up, RSS (`init_mem_pool`, `init_port_start`, `set_rss_table`, `lazybsd_rss_check`) | pools, queue lists, statics kept from port to port, redirection table | initialisation, check of a local port | configuration, NIC | several ports and bonds, uneven lcore lists | a flow hashes to the lcore that opened it; what is carried from port to port does no harm |
| Start-up (`bsd/lib/lazybsd_main.c`, `lazybsd_freebsd.c`) | SYSINIT table | sort, run, add | every subsystem | ties, additions while the table runs | every entry once, in order |
| Socket API (`bsd/lib/lazybsd_socket.c`, `lazybsd_kevent.c`) | descriptors, file references, converted addresses and buffers | the BSD socket calls | application, stack | partial failure, conversion in both directions | what is taken is given back; what is converted arrives as it was given |
| Virtual interface (`bsd/lib/lazybsd_veth.c`) | softc, ifnet, received chains, zero-copy chains | attach, detach, set up, input, free, write | host side, stack | failure half-way, chains freed mbuf by mbuf | a segment is freed once; a zero-copy buffer is not overrun; the addresses set are those configured |
| Route ioctl (`bsd/lib/lazybsd_route.c`) | message buffer, read lock, routing table (external) | add, change, delete, get | control messages, stack | error paths, replies longer than the request | lock and buffer are given back; the answer is that of the table |
| Kernel library stand-ins (`bsd/lib/lazybsd_patch.c`, `lazybsd_kern_subr.c` and others) | timers, rate windows, heap blocks, limits, uio cursors | time arithmetic, `malloc`, `uiomove`, limits, hash sizes | stack | wrap, zero, limits, allocation that fails | bounds and counts |
| Packet capture (`src/lazybsd_pcap.c`) | open file, its length, the file in turn | open, dump | receive, transmit | cut inside a segment, rotation | the files can be read |

Locks, sleep, interrupts, epochs, the vfs and crypto stubs, logging, formatted
output, configuration and command-line parsing are left out (see Not modelled). KNI is
not built (`LAZYBSD_KNI` is never defined).

The hazards, each at its line, are listed in `PROJECT.json`.

## Modules

### Callout, TimerService, CalloutProofs, MCCallout, MCMainLoop

`Callout` is the wheel. Its variables are the fields of `struct callout_cpu`
and `struct callout`, the locals of `softclock` that survive a handler call
(`curticks`, `scan`) and a program counter. A call of a client function is one
action, since nothing preempts it; `softclock` is cut at the points where control
leaves it (a handler or a drain function is running), because that is where
clients call in again:

| Code | Actions |
|---|---|
| `lazybsd_hardclock`, `callout_tick` | `lazybsd_hardclock`, `callout_tick` (one round of its loop) |
| `softclock`, `softclock_call_cc` | `softclock` (outer loop), `ScanPast`, `ScanDue` (up to the call of the handler), `HandlerReturn`, `DrainReturn` |
| `callout_reset_tick_on`, `callout_schedule` | `callout_reset_tick_on` |
| `_callout_stop_safe` | `_callout_stop_safe` (a callout armed without `C_DIRECT_EXEC` is looked for in entity 0 while `softclock` runs handlers in entity 1, so it is never seen running: `SeenRunning`), and `DrainSpin`, `Spin` for `CS_DRAIN` of a callout seen running |
| `callout_deactivate`, `callout_init` | the actions of those names |

Ticks are residues modulo `TickMod` (2^32 in the code), so wrap-around is part of
the model, and every initial value of the clock is allowed.

`TimerService` is what clients want of all this: a set of timers with a time left,
armed, disarmed, counted down by a tick that cannot pass while a timer is overdue,
and fired. `Callout!ImplementsTimers` says that the wheel implements it; the
mapping `left` computes the time left from `pending`, `c_time` and `ticks`, and
`running` is `cc_curr`. A handler that starts before or after the tick its timer was
set for, or while another one runs, is no step of `TimerService`.

`MCMainLoop` puts small instances of `Callout` and `MsgRing` side by side, two jobs that `main_loop`
comes back to on every turn: each behaviour is one of the first or of the second, under the
fairness of its module.

### TxPath, TxPathProofs, MCTxPath

The transmit table (`tx_mbufs`), the ring of parked chains (`nic_tx_ring`), the
set of live chains and the NIC's queue of descriptors it has not read (external: the
driver writes the descriptors of one packet after the other while they fit, and the NIC
reads them in order). `send_burst` is cut after every packet of `rte_eth_tx_burst` and
after every packet of its own loop, so that the NIC's progress interleaves
with the bookkeeping. Two constants switch on the two cases in which the code does
not keep the ownership rule: `Responses` and `AllocFails`.

### RxDispatch, RxDispatchProofs, MCRxDispatch

Several processes, each polling its ring and its receive queue in turn. A burst is
processed packet by packet, and the copies of an ARP packet queue by queue, so the
processes interleave between any two operations on shared memory. Histories record
which frames each stack was given or lost on the way. The dispatcher is the user's:
any answer is possible. A packet is one mbuf, because no scatter or LRO offload is
ever requested from the driver. What happens to a response after it was handed to
`send_single_packet` is TxPath's matter; here it is in `tx` until it is freed.

### MsgRing, MsgRingProofs, MCMsgRing, MCMainLoop

The pool of control messages, the request ring (`ring[0]`) and the answer rings of
every lcore. `process_msg_ring` takes a burst and `handle_msg` serves it message by
message, so tools interleave between any two messages. `handle_msg` sets the result
(what the handlers of the types do to the stack is left out), puts the message on
the ring of its type, and recycles it (`Recycle`) when that ring is full. The tools
are not in the repository; `tool_alloc`, `tool_send`, `tool_recv` and `tool_free`
are what the lcore's side expects of them, and a tool may stop at any point.
The constant `Unknown` lets a tool send a message with the type it was created with.

### SeqPlaces, DataLemmas

`SeqPlaces` says where a buffer is on a ring (`On`, `Once`), for `RxDispatch` and `MsgRing`.
`DataLemmas` holds the facts about data that several of the proofs need: induction and
recursion over numbers, sums over finite sets, division, concatenations, loops that go on
from a state to a later one, and what enqueueing, dequeueing and a burst do to the places of
buffers and to the order of the frames they carry (`Carried`, `Sorted`).

### SocketApi, LinuxCompat, Route, Api, ApiProofs, MCApi

`LinuxCompat` holds what is translated between a Linux application and the stack, as
functions: requests, options, errors, addresses and control messages. An address and a
buffer of control messages are memory, because the code converts them in place: the two
sides lay the same bytes out differently (a length and a family byte against a family of
two, a length of one word against one of two). A switch of the code is a table of cases
(`Switch`). The loops over a control buffer are recursive functions, one value for each turn
(`SendTurn`, `RecvTurn`, `WalkTurn`), whose state is the cursor and the buffers. What a side may put into a
buffer is `FromLinux` and `FromFreebsd`: an IP_TTL of the application is an int, an
IP_RECVTTL of the kernel a byte. Other lengths of these two are not produced by either side.

`SocketApi` has an action for every call of `lazybsd_socket.c` and `lazybsd_kevent.c`. A
call is one step, as nothing preempts it, and every step of it that can fail does; only
`kevent`, whose two callbacks walk the caller's lists batch by batch, is several steps. The
kernel behind the calls is external: lowest free descriptor, file references, options.
`lazybsd_fget` is included, because what it takes has to be given back.

`Route` is `lazybsd_rtioctl`, cut at its steps: parse and clean the message, fill in the
addresses, the four commands, the reply, `flush`, and `handle_route_msg`, through which a
tool calls it. An address or a mask is the set of its one bits out of `Bits`, so that
cleaning an address is an intersection and a mask need not be that of a prefix; sizes are
units of 8 bytes as `SA_SIZE` rounds. The table is external (`rib_action`, longest match).

`Api` puts them side by side: the parts share no state, so every behaviour stays in one.
`MCApi` has the instances.

### KernTime, KernSubr, PagePool, Startup, PortInit, Veth, Pcap, Kernel, KernelProofs, DeviceProofs, MCKernel

| Module | State | Actions |
|---|---|---|
| `KernTime` | an interval timer, the windows of `ratecheck` and `ppsratecheck`, the last `tvtohz` | `itimer_set`, `itimerdecr`, `ratecheck`, `ppsratecheck`, the clock; widths of int, long and tick counter are constants, and a second is `Hz` ticks of `Tick` units |
| `KernSubr` | a uio, heap blocks, credentials, the charge of socket buffers | `copyinuio`, `uiomove` piece by piece (`copyin` and `copyout` of this port cannot fail, so no piece is refused), `kmalloc`, `krealloc`, `kreallocf`, `kfree`, `crhold`, `crfree`, `chgsbsize`; hash sizes (doubling and halving) and the binary search of `groupmember` as recursive functions, a value for each round |
| `PagePool` | the stack of free pages, the owners | `kmem_malloc`, `kmem_free` through `lazybsd_mmap`, `lazybsd_munmap`; `lazybsd_chk_vma` and `lazybsd_mem_virt2phy` as functions |
| `Startup` | the table, the new set, the positions of the loops | `mi_startup` cut at every round of its sort and where a routine runs, `sysinit_add` from inside one (nothing in this build calls it) |
| `PortInit` | what is kept from port to port, what each device was set up with | `init_mem_pool`, `init_port_start` (one device), its failure, `check_all_ports_link_status`, `lazybsd_rss_check` |
| `Veth` | a received chain, a zero-copy chain, the softc | input segment by segment, the stack freeing mbufs in any order, `lazybsd_zc_mbuf_get` and `_write`, attach, registration, addresses, detach |
| `Pcap` | `g_pcap_fp`, `seq`, `g_flen`, the files | `lazybsd_enable_pcap`, `lazybsd_dump_packets` |

`Kernel` puts them side by side in the same way as `Api`, and `MCKernel` has the instances.
A frame of `Pcap` is the lengths of its segments, and a record holds the numbers of the bytes
that were written.

## Runs

| Run | Shows | Bounds |
|---|---|---|
| `wheel` | lists, cursor and flags stay consistent (`WheelInvariant`); no due callout is passed over (`NoneMissed`); only armed ones run; the refinement of `TimerService` | 3 callouts (one running, one that the scan is about to visit, one being moved), 2 buckets, 4 ticks (the clock wraps every other turn), delays 0 (rounded up to 1) and 2 (a turn of the wheel, and the longest the arithmetic allows), direct and not, self-drain |
| `tx_owner` | one owner per chain; no chain is freed before it was sent | 5 chains of 1, 2 and 3 segments, bursts of 2, rings of 4: enough for the ring to go round and for the NIC to be full |
| `tx_live` | no packet stays in the transmit table (when no mbuf is left for a packet, those before it leave the table by being forgotten: see `tx_nombuf`) | 2 chains, with failing allocation and responses |
| `tx_response`, `tx_nombuf` (violations) | see Findings | as `tx_owner` |
| `rx_rings` | mbufs conserved, order kept, no stack left out, what is on a ring reaches its stack | 2 processes, 3 mbufs, 2 frames of which one ARP, rings of 1, bursts of 2: rings and pool run full |
| `main_loop` | messages conserved, buffers restored, every request handled; every callout left alone is served, every tick's work ends | 2 lcores, 3 messages, 2 types, rings and bursts of 2: answer rings run full; 2 callouts, 2 buckets, 4 ticks |
| `msg_unknown` (violation) | see Findings | 1 lcore, 2 messages, unset types |
| `api` | the socket, message, `kevent` and route calls, each step failing in turn | 3 descriptors and 2 files (both can run out), up to 2 control messages sent and 3 received with data of 1, 4 and 16 bytes, batches of 2 and 3 kevents (a batch ends in the middle of the list), transfers around INT_MAX; addresses of 2 bits, up to 3 routes, messages of every kind and with wrong sizes, buffers that the reply does and does not fit |
| `api_errno` (violation) | see Findings | as `api`, the calls on files |
| `kernel` | the parts of `MCKernel` | timers of up to 2 seconds (of 6 units each) watched for 30 units, int and long so small that `tvtohz` meets both limits, a tick counter of 8 values; 3 vectors with lengths 0, 1, 3 and 8 (more than INT_MAX together); 3 blocks, 3 socket buffers against a limit of 5; 4 pages scattered by the host; 4 linked entries with equal keys and 3 sets to add; 3 ports of 3, 2 and 1 queues on 2 sockets, one a bond, with both key lengths and redirection tables that the queues do not divide; packets of 3 segments; zero-copy chains of 2 mbuf sizes; 8 captured packets over 3 files, so that files are overwritten |
| `page_check` (violation) | see Findings | the pages of `kernel` |

What the properties of `api` and `kernel` say:

- `FileRefs`: between calls no file has a reference but those of descriptors, and the
  descriptors open are those the application was given. `MessagesTranslated`: names and control
  messages survive the conversion both ways. `NumbersTranslated`: options, lengths and errors
  keep their meaning and stay distinct. `KeventInOrder`: batches continue where the one before
  ended.
- `RouteReleased`: lock and buffer are given back on every path. `RibCanonical`: a network is
  stored with its host bits off, once. `GetAnswer`: a look-up answers the longest or the exact
  match. `FailureKeepsTable`, `ReplyWhole`: an error leaves the table alone, with one exception
  that is stated, and a reply is whole.
- `NoDrift`, `RateLimited`, `AlgorithmsExact`, `BytesInOrder`, `HeapHeld`, `SbCharged`,
  `PagesConserved`, `DataWherePageIs`, `StartedOnce`, `FlowsDelivered`, `PortsConfigured`,
  `SegmentsOnce`, `AddressesSet`, `CapturesReadable`: see the comment at each. Exceptions that a
  property makes are part of its comment. `FlowsDelivered` says nothing of a port that was given 40
  bytes of key before a device asked for 52, unless `symmetric_rss` is on (`KeyStays`);
  `PortsConfigured` does not count the slaves of bonds, nor descriptors above RX_QUEUE_SIZE, when it
  compares pools with rings; `RateLimited` speaks of limiters that are not left alone until the tick
  counter has come round (`MaxAge`).

Deadlock is checked in every run but `kernel` and `page_check`, whose parts come to an end (a port is set
up, a packet freed). Symmetry is used in `wheel` only, which checks invariants and one
refinement without fairness.

Fairness. `Callout!Spec`: the main loop calls `rte_timer_manage` for ever, so the
clock ticks, and the lcore, inside `softclock`, goes on (this assumes that
handlers return). `TxPath!Spec`, `RxDispatch!Spec` and `MsgRing!Spec`: an lcore goes
round `main_loop` for ever. Nothing is assumed of clients, the NIC, the dispatcher,
the tools or the stack. The calls of `api` and `kernel` end in a bounded number of steps by
themselves, and nothing but safety is asked of them.

## Findings

- `tx_response`: `send_single_packet` does not set `bsd_m_table`, so the slot's old
  chain is parked, and later freed, a second time.
- `tx_nombuf`: a failed allocation resets the length of the table and leaks what
  was queued.
- `msg_unknown`: the answer to a message of type LAZYBSD_UNKNOWN (0, the type the
  pool gives it) goes to `ring[0]`, so the lcore handles it again on every turn.
- `page_check`: `lazybsd_chk_vma` answers 0 for the first byte of the page array, against the comment
  above it ("1: vma in fstack page table"), so data that starts there is taken for memory of the
  DPDK pool, and `lazybsd_if_send_onepkt` panics when it finds no mbuf for it.
- `api_errno`: a failed call stores the error in `lazybsd_errno`, not in `errno`, which the
  API's comments promise and the handlers of control messages read.

Noted while modelling, without a run of its own. Where a property would not hold because of
one of these, its comment names the exception.

- Callouts: `callout_drain` of a running direct callout, called by its handler, spins for ever
  (`Spin`). Which entity a running callout is looked up in depends on a flag of the callout
  (`lazybsd_kern_timeout.c:861`), so a callout armed without `C_DIRECT_EXEC` is never seen running.
  `callout_reset_sbt_on` is a stub.
- Transmit: `txring` has TX_QUEUE_SIZE places and a NIC whose ring is longer reads chains
  that were freed. `lazybsd_offload_set` (`lazybsd_memory.cc:311`, `:356`) asks for a TCP checksum
  where IP and UDP checksums are wanted, against the comment at `:334` and the same code in
  `lazybsd_dpdk.cc:2654`.
- Receive: when `lazybsd_mbuf_get` fails in the middle of a packet, the segments attached so
  far are freed twice. A dispatcher answer below -2 indexes `dispatch_ring` before its start.
- Sockets: `sendmsg` leaks its control buffer when the kernel refuses the message
  (`lazybsd_socket.c:1007`; the memory of the calls is not modelled); `accept` uses a null address
  pointer unchecked; `poll` and `kevent` ignore their timeouts; IP options without a
  table entry pass unchanged and may meet another of the kernel's; SOL_SOCKET is not
  converted as a level of control messages; errors outside the table pass unchanged; `route_ctl` converts 16
  bytes of an address, which cuts IPv6.
- Routes: the epoch is left at `flush` without having been entered on some paths; a message
  with a wrong length is sent back with it; RTM_DELETE may fail for want of memory
  after the route is gone; the reply to RTM_ADD and RTM_CHANGE may show an internal flag.
- Interface: virtual IPv6 addresses are set with `prefix_length`, and `vip_prefix_length` is
  unused; errors of `ifioctl` are positive and `ret < 0` never true; when the host side
  cannot register, the softc is freed with the interface attached (the process then exits).
- Ports: with keys of 40 and 52 bytes the check of local ports uses the last one; the mbuf pool of
  every socket but the first has the size computed for a reference pool, which is enough
  for the ports but does not count the slaves of a bond.
- Others: a window of `ppsratecheck`
  opened at tick 0 is not limited, nor one that is older than the counter is long; a capture file after the first has the length of one packet as
  its snaplen.

## Proofs

`CalloutProofs` (all callout sets, wheel sizes, int widths above 3 and delays):

- `WheelIsInvariant`, `NoCalloutMissed`: the inductive invariant is `TimelyWheel`, which is
  `WheelInvariant` with `NoneMissed`. That a due callout is not passed over rests on where the scan
  is (`ScanAhead`), which rests on `cc_next` being on its list (`NextOnList`, `CursorOnList`),
  on the lists being those of the pending callouts without duplicates (`WheelConsistent`),
  and on the phase of the tick (`SoftticksInStep`, `CurrWhileRunning`). The proof has
  one lemma per action and lemmas on what the list operations do to positions.
- `OnlyArmedRun`: a consequence of it.
- `WheelImplementsTimers`: every step of the wheel is a step of `TimerService` or
  leaves `left` unchanged, by the invariant.

`TxPathProofs`: `TxTypeCorrect` for all constants, and `TxOwnership`, from the
assumptions `~Responses` and `~AllocFails` (the two runs above show that both are
needed). The inductive invariant `TxInvariant` adds to `OneOwner` that the burst's
indices are in step and that an entry of the table stands for a chain and its
reference mbuf. `NotFreedBeforeSent` says that no chain is freed whose descriptors the NIC
has still to read, although the lcore never asks. It holds because the ring of parked
chains advances by a place for each descriptor: `NicInvariant` says how far behind the head
the chain of each unread descriptor lies, so that it is reused only when at least as many
descriptors were written after it as the ring has places. This needs a NIC queue no longer
than the ring (`NicSize <= TxSize`): TLC finds a chain freed too early without it, and in the
code it depends on what the driver makes of `nb_txd` (`lazybsd_dpdk.cc:715`).

`MsgRingProofs`: `MessagesConserved`, for all pools, lcores, types and ring sizes and
with unset types too. `MsgInvariant` is the type invariant and `OnePlace`, which says
of every message that it is somewhere, of every two places that they share none, and
of every ring that it repeats none; each part is needed to show the others. On it rest
`BuffersReturned` (a message in the pool has its own buffer, because nobody but the holder
of a message changes it) and `AnswersLeave` (with the types the lcores know no answer is
on a request ring; this is what `msg_unknown` refutes for the type 0).

`RxDispatchProofs`: `MbufsConserved`, for all numbers of processes, mbufs and frames, all
ring and burst sizes and any dispatcher. `RxInvariant` adds to `OneHolder` that an lcore
is inside `process_packets` exactly while its burst is not empty (`BurstInStep`): without
it a dequeue could overwrite a burst and lose what was in it. The proof classifies what
a step does to each mbuf (`Kept`, `NowFree`, `NowAt`), shows once that such steps keep
`OneHolder` (`MovesConserve`), and has one lemma for each way an mbuf changes hands.
`StacksInOrder`: the packets of a queue reach each stack in order. `InOrder` speaks of what a
stack was given; its inductive form `OrderInvariant` follows a frame through every place: each
place is sorted, what is in the ring is behind what is in the burst and that behind what
was given, and what is still on the NIC is behind all of it. That a frame takes one way
only (`OneWay`) and a copy is made of frames of the NIC only (`CopiedFromNic`) excludes
overtaking over another lcore. `ArpReachesAll` adds the copies that are still to come.

`DeviceProofs`:

- `PoolConserved` and `DataInItsPage`, for every number and size of pages and
  any placement of them. The inductive invariant `PoolInvariant` adds that a page is
  on the stack once and that the stack has room for every page that is out, so that a push,
  whose answer `lazybsd_munmap` ignores, never fails. That the physical address lies in the
  page of the data rests on pages being aligned and disjoint; `VmaHasPage` says that an address
  the check accepts has a page number inside the table, so that `lazybsd_mem_virt2phy` does not panic.
- `PortsAreConfigured` (`PortsConfigured`), for every list of ports, bonds and device limits.
  `DescInvariant`: the descriptor count kept from port to port exceeds the default only when
  a device before asked for it. `LinkInvariant` counts the looks at the links, so that the
  report comes before the wait ends. `MbufInvariant`: the size of a pool is a sum over all queues of
  all ports, of which the queues of one device are a part.
- `FlowsAreDelivered` (`FlowsDelivered`, with its exception). `KeyInvariant`, `DeviceKeys` and
  `TableInvariant` follow the key kept, the key of each device and the redirection tables through
  the ports (`KeyAt` is the key after the first n devices), `CheckInvariant` says that a check comes after
  the last of them. By induction over the bits of a packet, bit w of a Toeplitz hash is the parity of
  the number of places where the packet and the key, moved by w, are both 1 (`HashUpTo`). That is
  the hash of the device, and it is the same at mirrored places of the symmetric key.
- `CapturesAreReadable` (`CapturesReadable`). `PcapInvariant` says of each file which packets it
  holds (`Kept`), that the files in turn continue one another (`Chain`), that the length kept is
  that of the file in turn (`Lengths`), and which files are still empty (`Fresh`). A record is
  cut by induction over the segments.

`KernelProofs`, in which `PartsTogether` says that a behaviour of `Kernel` is one of each of its
parts:

- `TimersKeepTime` (`NoDrift`), for every clock above one hertz. `itimerdecr` corrects for what
  it overran by adding one interval, which is right only if an interval is at least a tick:
  `TimerInvariant` carries this from `itimerfix`. At one hertz a tick is a second and
  `itimerfix` makes a timeval whose microseconds are out of range, so the hypothesis is needed.
- `LimitersExact` (`RateLimited`): `RateInvariant` says that the time stored is that of the last
  yes, `PpsInvariant` that the age of a window is the difference of tick counters, also
  after a wrap, and that what was let through was counted.
- `MemoryInUse` (`HeapHeld`): by cases on the calls; a reallocation may move a block or not.
- `BuffersCharged` (`SbCharged`): a change of one buffer changes the sum over all buffers by as
  much (`ChargeOfOne`).
- `BytesArriveInOrder` (`BytesInOrder`): `UioPlaced` says where in the given vectors the
  cursor of `uiomove` is, so that the sum of the pieces before it is the place of the next byte
  and the sum of what is left is `uio_resid`. `ChainPlaced` is the same of the mbufs of a zero-copy
  buffer: those before the current one are full, those behind it empty.
- `AlgorithmsAreExact` (`AlgorithmsExact`): for `tvtohz` by arithmetic with both limits, for
  the hash sizes by induction on the rounds, and for `groupmember` by the invariant of the binary search
  (`Narrowed`: a group that is there is between the ends), which needs the groups sorted.
- `AddressesAreSet` (`AddressesSet`): `IfInvariant` carries what was configured to where it is set; the
  mask of a prefix is written byte by byte.
- `SegmentsFreedOnce` (`SegmentsOnce`): while a packet is wrapped its chain is a prefix of its
  segments, and when the stack frees mbufs in any order the ones left are distinct.
- `EachStartedOnce` (`StartedOnce`): `StartInvariant` has the loop invariant of the exchange
  sort (`RowsSorted`), that entries not checked off stay sorted while the table is run
  although checking off changes their keys (`RunSorted`), that what has run is checked off
  (`CheckedOff`), and that the table or its successor lists every entry (`AllListed`).

`ApiProofs`, in which `CallsTogether` says that a behaviour of `Api` is one of each of its parts:

- `RouteCallsRelease`, `RouteFailureKeeps`: `RouteInvariant` says at every step of
  `lazybsd_rtioctl` what is held, and that the table is the one the call found until the one
  step that changes it, after which only the answer to a deletion can still fail.
- `TableStaysCanonical` (`RibCanonical`), `GetAnswersRight` (`GetAnswer`), `RepliesAreWhole`
  (`ReplyWhole`): `AnswerInvariant` says at every step which addresses are filled in and cleaned
  (`Addresses`, `Cleansed`), that the route found is the one asked for (`AnswerFound`), that the
  message written is that route's (`AnswerWritten`), and how long it is against the buffers
  (`LengthsFit`, `DataReturned`).
- `FilesCounted` (`FileRefs`): the references of a file are the cardinality of the set of its
  descriptors, and a descriptor given out is the lowest free one.
- `KeventsInOrder` (`KeventInOrder`): `KeventInvariant` adds where the two lists stand, so that a
  batch continues where the one before ended.
- `NumbersKeepMeaning` (`NumbersTranslated`): no two cases of a switch have the same answer
  (`SwitchDistinct`) and no case has that of the default, so that what is set in the kernel
  is the image of what was asked for (`OptionInvariant`).
- `MessagesArrive` (`MessagesTranslated`): `NameInvariant` says that every name the kernel has is
  the bound address as the kernel lays it out, which holds because an address converted and
  converted back is unchanged (`AddressReturns`). For control messages, the messages of a buffer
  have places (`Places`) that translation keeps. The state of a loop (`SendState`, `RecvState`,
  `WalkState`) says that the messages before the cursor are translated and those behind it,
  in the same buffer, are as they were; on the way to the application every message grows
  from its byte to an int inside its own place. What follows for the whole buffer is `SendWhole`, `RecvWhole`
  and `WalkWhole`.

Facts that would need an induction over data are proved from `DataLemmas`. The library's induction
theorems take a predicate, which the provers cannot instantiate, so an induction is
stated with the set of numbers (or of subsets of a finite set) for which the claim holds
(`SetInduction`), a recursive function is shown to exist and to have the values of its
equation (`Recursion`, `SameRecursion`), and a loop that stops is followed from state to state
until it has (`Loop`, `LoopStates`). The modules proved about declare no RECURSIVE operator.

The assumptions on constants are those of the modules (sizes are positive, entries are
numbers or sequences of the right kind, a packet's segments are distinct); TLC evaluates them
in every run.

Only model-checked: liveness (`EveryCalloutServed`, `TickEnds`, `QueuedIsSent`,
`DispatchedArrives`, `RequestHandled`), which needs fairness and ENABLED, out of TLAPS's reach.
Every invariant that a passing run checks, and the refinement of `TimerService`, has a theorem.

## Not modelled

- KNI, the protocol filters, flow isolation and flow director: not built. They are driver
  calls and filters on packet bytes.
- The copying transmit path (`lazybsd_dpdk_if_send` after the return of the page-array build):
  unreachable, `CMakeLists.txt` always defines LAZYBSD_USE_PAGE_ARRAY. Offload flags and traffic counters of
  both paths, and vlan tags, have no effect on what is checked.
- Message types from `LAZYBSD_MSG_NUM` on, for which `handle_msg` has no answer ring.
- A failing `rte_eth_dev_adjust_nb_rx_tx_desc`: it is printed and the counts are left as they are
  (`lazybsd_dpdk.cc:717`); in `PortInit` it succeeds.
- Memory of the socket calls (names and control buffers that a call allocates and frees), and in
  `Route` which of two buffers is held: `update_rtm_from_rc` replaces the message buffer by a longer
  one in one step, and `RouteReleased` counts buffers.
- `lazybsd_rtioctl_old`: unused. Of `Route`, jails (`rtm_get_jailed`; nobody is jailed), embedded
  scopes of link-local addresses and multipath groups.
- The order of `lazybsd_dpdk_init` and `lazybsd_freebsd_init`, which nothing in the repository
  calls, and `proc0_init`, which assigns constants.
- Locks, sleep, interrupts, epochs, conditions: empty stand-ins. That they are
  empty is used everywhere: nothing inside a process is concurrent.
- vfs and crypto stubs, credentials and jails of `lazybsd_patch.c`: constant answers. The
  kernel environment: without a static environment every look-up fails.
- `kvprintf`, logging, parsing of configuration and command line: formatting and pure input.
- Thin wrappers of host calls (`lazybsd_host.c`).
- `adjust_timeout_calltodo`, statistics and sysctls of the callouts: without effect on the wheel
  in this build.

## Plan

1. Compositions: `TxPath` with `RxDispatch` for responses; `Callout` with `main_loop`.
2. Route: scopes of link-local addresses.

The project keeps to a dozen runs: small components share an MC module, and a run
of Findings gives way when a deeper question needs its place.
