# Verification of the inter-processor communication stack

This directory holds TLA+ models of the Qualcomm IPC router (QRTR) and of the
Haven transport under it, of G-Link channels, and of the votes for shared
resources (RPMH) with the interconnect voter that sends most of them; the TLC
configurations that check them on small instances; and proofs that TLAPS checks
for all instances.

The repository is a collection of kernel modules for one system-on-chip. The
part with the most protocol in it, and the least of it reachable by a test, is
the communication between the processors and virtual machines of the chip. That
is the theme of this project; QRTR, which every other client sits on, is its
core. G-Link carries QRTR and the rest between processors, and RPMH is how this
processor talks to the one that owns power and clocks.

## The system

    application        AF_QIPCRTR sockets                 qrtr.c
        |      \
        |       name service (one per processor)          ns.c
        |      /
    router: ports, nodes, flow control, forwarding        qrtr.c
        |
    endpoints: Haven rings, MHI, SMD/GLINK, tun           haven.c mhi.c smd.c tun.c
        |
    doorbells, message queues, resource manager           drivers/virt/haven
    G-Link channels                                       drivers/rpmsg

    interconnect voter, other drivers                     bcm-voter.c
        |
    RPMH: caches of votes, TCSs, their interrupt          rpmh.c rpmh-rsc.c

* **Router** (`net/qrtr/qrtr.c`). State: one `struct qrtr_node` per endpoint
  (endpoint pointer, handshake flags, receive queue, the flows to its ports), the
  tables of nodes and ports, the sockets. A packet goes from `qrtr_sendmsg`
  through `qrtr_node_enqueue` to the endpoint's `xmit`; an endpoint hands packets
  to `qrtr_endpoint_post`, which delivers data at once and leaves the rest to the
  node's worker.
* **Flow control** (the same file). The sender counts packets per destination
  port; the packet that reaches the low watermark carries `confirm_rx`; the
  receiver answers with RESUME_TX when the application has read it; at the high
  watermark senders sleep, or return and are notified.
* **Name service** (`net/qrtr/ns.c`). State: the servers it knows of every
  node, and the lookups of local observers. It talks to the name services of
  other processors (HELLO, NEW_SERVER, DEL_SERVER, DEL_CLIENT, BYE).
* **Haven transport** (`net/qrtr/haven.c`). Two byte rings in memory shared by
  two VMs, with a head, a tail and a word that asks to be told of room, and
  doorbells (`drivers/virt/haven/hh_dbl.c`) that carry no data.
* **G-Link** (`drivers/rpmsg/qcom_glink_native.c`). Named channels over one fifo
  in each direction. State: channel objects with a reference count, found through
  two tables (local and remote ids) and by name; commands (OPEN, OPEN_ACK, CLOSE,
  CLOSE_ACK) that the interrupt handler takes from the fifo and mostly leaves to
  a worker.
* **RPMH** (`drivers/soc/qcom/rpmh.c`, `rpmh-rsc.c`). Sleep and wake votes are
  cached and written to the controller (RSC) when the last CPU goes down; active
  votes go out at once through a trigger command set (TCS), of which there are a
  few, and the caller waits for its interrupt. The **interconnect voter**
  (`drivers/interconnect/qcom/bcm-voter.c`) sorts the resources that changed by
  clock domain and sends them as one batch of messages.

What is hard here: threads that race on a counter and a sleep; confirmations
that ride on packets that can fail; shared memory without locks; a handshake of
two name services that start in any order; notices that cross each other; an
interrupt handler that signals a request on the stack of a thread that may be
gone; references dropped at both ends of a channel at once; and endpoints that
vanish in the middle of all this. `PROJECT.json` lists these
places line by line under "hazards", with the properties that cover them, and
the parts of the repository that are not modelled under "components".

## Modules

| Module | Models | Lines of code |
| --- | --- | --- |
| `QrtrFlow` | flow control on one link, both processors | `qrtr.c` 445-684, 829-953, 1620-1830 |
| `MCQrtrFlow` | constants for TLC | |
| `QrtrFlowProofs` | proofs, and the arithmetic of one flow | |
| `QrtrWindowProofs` | proofs of the invariants that count packets | |
| `QrtrNs` | name services and the control path of the router | `ns.c`, `qrtr.c` 616-724, 1051-1400, 1552-1745 |
| `MCQrtrNs` | constants for TLC | |
| `QrtrNsProofs` | proofs | |
| `PacketChannel` | what the router expects of an endpoint | |
| `QrtrHaven` | one direction of the Haven transport | `haven.c` 93-480, `hh_dbl.c` |
| `MCQrtrHaven` | constants for TLC | |
| `QrtrHavenProofs` | proofs about indices, doorbells and data, and the refinement of `PacketChannel` | |
| `GlinkChannel` | opening and closing a channel, both processors | `qcom_glink_native.c` 276-601, 1253-1536, 1791-1992 |
| `MCGlinkChannel` | constants for TLC | |
| `GlinkChannelLemmas` | the inductive invariant, lemmas, and the steps of the side that opens | |
| `GlinkAnswerProofs` `GlinkChannelProofs` | the steps of the side that answers; the theorems | |
| `Rpmh` | votes, TCSs, interrupt, flush, with the voter | `rpmh.c`, `rpmh-rsc.c` 113-641, `bcm-voter.c` 43-371 |
| `MCRpmh` | constants for TLC | |
| `RpmhProofs` | proofs | |

Definitions named `Mutant` in their comment are plausible bugs. None is part of
a specification; each shows that a property can tell the bug from the code.

### QrtrFlow

Threads are at a step (`pc`) of `qrtr_sendmsg`; a step of the model is a critical
section of `qrtr_tx_lock`, a call of the transport, one packet of the worker, or
one part of `qrtr_recvmsg`. `TxWait` is one pass of the loop in `qrtr_tx_wait`,
its four outcomes the operators `TakeOverConfirm`, `CountPacket`, `AddWaiter`,
`StartWait`; the test of the wait condition (`WaitEvent`) is a step of its own.
`Faults` says what may go wrong: allocations, the transport (failing, or
reporting failure late although the packet gets through), timeouts, signals,
closed sockets, unregistration, a restarted name service, a lost RESUME_TX, a
full receive buffer. `Modes` says which calls are made: blocking ones, calls with
`MSG_DONTWAIT`, or both. `MAXCONFIRM` bounds redundant confirmations.

### QrtrNs

`l = <<n, m>>` is the node object that processor n has for its endpoint to m.
`chan[l]` holds the packets from n to m, those in m's `rx_queue` included: data
overtakes control packets there, as `qrtr_endpoint_post` lets it. Each
`ctrl_cmd_*` is an action of the worker, with everything it sends. `view` and
`clients` are what sockets have been told: they are not in the code, but every
update of them is a message the code sends. A service stands for service and
instance; a wildcard lookup is `AnySvc`. `Announcements` gives the servers that
answer a HELLO in any order; the code takes the ports in ascending order, which
is one of them.

Assumed: networks are close enough that nothing is forwarded; a transport that
is up delivers; an address is not reused by a new socket; an endpoint comes back
when the packets of its predecessor are worked off; allocations succeed.
The start of a name service is three steps (`NsInit`): the bind, which makes the
port known and takes back the handshakes of all nodes (`NsBind`); the broadcast
address (`NsAddress`); and the HELLO to everyone (`NsHello`). Its worker runs from
the bind on, so packets of the other processor are handled between them; without the
address a broadcast fails, and `ctrl_cmd_new_server` returns before it tells the
observers (`NsBroadcast`).
`Faults` adds three behaviours that the passing runs leave out: "replace" (a socket
offers another service on its port), "rx_queue" (an endpoint is unregistered
with packets in the node's receive queue) and "early" (a socket is used after the
bind of its name service and before its HELLO).

### QrtrHaven

The unit is the 32-bit word, to which every packet is padded. Every access to
shared memory is a step: `haven_tx_write` is the copy and then the head, the
reader's `qrtr_haven_read_new` and `_read_frag` are the peek, the copy, the
tail, the post and the look at `read_notify`. A word in the ring knows which
word of which packet it is, so that a torn, lost or repeated word shows.
`MAXPKT` is the buffer a packet is put together in, and the longest the reader
takes.
`Readers` is the doorbell's thread; the read at the end of `qrtr_haven_probe`
can be added. Without the fault "short" the first chunk of a packet
reaches its size field; the run `haven_short` shows why this has to be assumed.

`PacketChannel` is the abstract endpoint: packets are accepted and posted whole
and in order. `QrtrHaven` refines it with `accepted <- Len(sent)`
(`ChannelSpec`, and with fairness `ChannelFairSpec`).

### GlinkChannel

Two processors that both run this driver, and one channel name: channels of other
names share only the numbering of ids. `ch[s][c]` is a channel object, freed when
`refs` reaches zero; `lcids` and `rcids` are the two tables. A user thread
(`CreateEpt` to `DestroyEpt`) opens and closes the channel on the sides in
`Openers`. On the other side a driver is bound to the name, and opens its end
inside the worker when `qcom_glink_rx_open` registers the rpmsg device (`Probe`),
or a thread opens it later: `bound` is chosen in `Init`. `slow` is a processor so
late that the five seconds of `qcom_glink_create_remote` can pass, `slow_local` one so
late that those of `qcom_glink_create_local` can: `LocalTimeout` then drops the local
id and both references, without a CLOSE. `LocalWait` says when: never, only while the
OPEN of the other side has not been taken up ("unopened"), or ever. A step is a
critical section of `idr_lock` with the commands sent next to it, one command of
the interrupt handler, or one command of the worker up to where it blocks. The
handler's loop ends at a command it refuses, as in the code, and the fifo then
waits for another interrupt. What rpmsg core and driver core do when a device is
registered or unregistered is modelled from this driver's calls.

Assumed: a user does not open the name again before its close has ended,
or after its open has timed out (`Reopen`); both sides do not open at the same time; there is room in the
fifos, so the error path of `qcom_glink_send_open_req` is left out.

### Rpmh

A request is named by its thread and its place in the thread's batch; place 0 is
the heap request of `rpmh_write_async`. `live` and `compl` say which requests are
in memory that is still theirs and which have been completed; `req` is what
`tcs->req` holds, freed or not. Sending is a loop of `SendInvalidate` (only on an
RSC without active TCSs), `Claim` (the critical section of `drv->lock` up to the
read of IRQ_ENABLE) and `Arm` (from the write of IRQ_ENABLE to the trigger);
`TxDone`, `TxDisable`, `TxReclaim` and `TxFinish` are the handler, one TCS at a
time. `TcsListGen` is `tcs_list_gen`, and `Flush` is the whole of `rpmh_flush`:
the search for slots, the batches and the single votes, in the order of the two
lists. `Rscs` is the set of controllers of a run.

Left out: the time-outs of the waits (`rpmh_rsc_debug` stops the kernel with
`BUG_ON(busy)` if a TCS is still in use, and `rpmh_write_batch` does so in any case),
failed allocations, `rpmh_write_pdc_data`, the arithmetic of votes. A flush comes when no call is
under way, as `rpmh_flush` asks ("no other RPMH API would be executing").

## Runs

| Run | Checks | Shows |
| --- | --- | --- |
| `flow_window` | `TypeOK` `AtMostOneConfirm` `RxQueueBounded` | with blocking calls, a transport that fails and losses on the receiving side no flow gets a second confirmation, and the receive queue stays within the window (late reports of failure and failed allocations do add one, and are left to `flow_confirm` and `flow_wait`) |
| `flow_wait` | `PendingWithinHigh` `WaitersOnlyWhenPaused` `NoLostWakeup` | no race of sleep, timeout, signal, resume, unregistration leaves a sender behind |
| `flow_confirm` | `ConfirmNotLost` | failures of the sender's transport, late ones included, never lose it |
| `flow_live` | `SleeperWoken` `WaiterTold` | without faults every sleeper wakes and every waiter is told |
| `haven_ring` | `TypeOK` `NoOverrun` `StreamIntact` `RoomNotMissed` `DataNotMissed` `ChannelSpec` `ChannelFairSpec` `SendReturns` | every word arrives once and in order, no doorbell that matters is missed, and packets arrive and sends return without needing the ten-second timeout |
| `ns_registry` | `Converged` `GoneForgotten` `ServerFound` | when nothing is on its way tables agree and hold nothing that is gone; a server is found whatever starts first, and whatever reaches a name service while it starts |
| `ns_observer` | `TypeOK` `ViewExact` `NoGhostClients` `Converged` | what an open observer with a lookup was told is what the table says, at every moment; when nothing is on its way, a registered server counts no client that is gone |
| `glink_channel` | `TypeOK` `RefsExact` `CommandsKnown` `EndsAgree` `OpenCompletes` `CloseCompletes` | no reference is dropped twice or kept, also when opens time out, in `create_remote` or, before the OPEN of the other side is taken up, in `create_local`; the ends agree when nothing is on its way, unless `create_local` has timed out, which sends no CLOSE; opens end, and closes do without time-outs |
| `rpmh` | `TypeOK` `OneInflight` `NoStaleRequest` `WaitIsServed` `FlushedLatest` `CallReturns` | no completion goes to a request that is gone, no address is in flight twice, every call returns, and a clean cache means that the TCSs hold the latest votes |

Three runs end in a violation. Each shows the code doing something else than one
of its comments says (quoted in `PROJECT.json` under "findings"):

* `haven_short`: the size of a packet is read before it was written, when the
  first chunk is shorter than the header.
* `glink_timeout`: the CLOSE that is to undo a timed-out open makes the other end
  send an OPEN_ACK with id 0; the handler stops at it, and the CLOSE behind it is
  not handled: the channel stays allocated at both ends.
* `rpmh_bcm`: when the payload limit falls inside a clock domain, `tcs_list_gen`
  counts wrongly, and BCMs at the end of the list are not sent.

Twelve more behaviours of the code break a property. The passing runs leave them
out, and a change to a configuration shows each:

| Change | Breaks | Because |
| --- | --- | --- |
| `FlowLive.cfg`: `Faults = {"xmit"}` | `SleeperWoken` | `qrtr_tx_flow_failed` marks the flow, which its comment calls the way out of a stall, but does not wake the thread that already sleeps on it |
| `FlowLive.cfg`: `Sock = {sa, sb}`, `Home <- TwoWayHome`, `SockOf <- TwoWaySockOf`, `CHECK_DEADLOCK FALSE` | `SleeperWoken` | a sender sleeps with the socket lock its own reader needs to answer a confirmation |
| `FlowConfirm.cfg`: `Faults = {"rcvbuf"}`, or `"close"`, `"resume_xmit"`, `"ns_restart"` | `ConfirmNotLost` | a `confirm_rx` packet that the socket refuses is not answered, and a RESUME_TX that is lost is not repeated |
| `HavenShort.cfg`: `Faults = {}`, `Readers = {"irq", "probe"}` | `InOrder` | the read in probe and the doorbell's thread read the same words |
| `HavenRing.cfg`: `MAXPKT = 5` | `ChannelFairSpec` `SendReturns` | `qrtr_sendmsg` takes 65535 bytes, with padding and header more than `MAX_PKT_SZ`; the reader refuses such a packet, does not consume it and reads its length again |
| `NsObserver.cfg`: `Faults = {"replace"}`, `Service = {svc1, svc2}` | `ViewExact` | a second service on a port replaces the first without notice |
| `NsRegistry.cfg`: `Faults = {"rx_queue"}` | `GoneForgotten` | a BYE overtakes a NEW_SERVER in the receive queue, and the server stays |
| `NsRegistry.cfg`: `Faults = {"early"}` | `Converged` | a service offered between bind and HELLO is broadcast to nodes that have no HELLO yet and drop it, and the HELLO does not make up for it |
| `GlinkChannel.cfg`: `Reopen = TRUE` | `TypeOK` | an OPEN finds by name the channel that is still closing |
| `GlinkChannel.cfg`: `LocalWait = "ever"` | `RefsExact` | `create_local` that times out puts the reference that `rcids` has taken over |
| `Rpmh.cfg`: an RSC with `active` 0, `wake` 2, `sleep` 1, `CallReturns` alone | `CallReturns` | the handler changes IRQ_ENABLE without the lock that `tcs_write` holds, and takes back the bit it has just set: the TCS finishes without an interrupt |
| `Rpmh.cfg`: an RSC with `active` 2, `wake` 1, `sleep` 2 | `FlushedLatest` | the batch of wake votes does not fit, the one of sleep votes does, and `flush_batch` returns the result of the last |

### Bounds

* Flow control: two threads on two sockets of one processor sending to a third
  socket on the other. Two senders are what a race on a flow takes; the
  watermarks (1/2 and 2/5 in place of 5/10) leave packets on both sides of the
  confirmation. The number of packets is not bounded. `MAXCONFIRM` bounds the
  redundant confirmations of one flow, not the necessary one; it is 3 in
  `flow_confirm`, one more than a packet takes that carries the confirmation, is
  reported lost and arrives all the same. It is 0 in the other runs: there no
  packet is sent without a flow, and the allocation that fails in `flow_wait` is the
  one of a waiter's entry. The theorems below hold for every value.
  `flow_wait` and `flow_live` mix blocking calls and calls with `MSG_DONTWAIT`: who
  sleeps and who is told to try again is their subject. `flow_window` and
  `flow_confirm` have blocking calls only: at a flow that is not paused the two do
  the same, and at one that is paused a call that does not sleep leaves without a
  packet or a confirmation. In the passing
  safety runs the two threads, each with its socket, are symmetric.
* Haven: a ring of five words, one of them reserve, and packets of three and six
  words: one shorter and one longer than the ring, with every wrap-around; the
  size field is the second word. Four packets.
* Name service: two processors with two ports in `ns_observer` and one, the server,
  in `ns_registry`. `ns_observer` has three socket
  operations, so that a server can be offered, looked up or talked to and closed,
  and one unregistration: an end of the link goes and comes back. `ns_registry`,
  which also checks liveness, has two operations and two unregistrations, so that a
  link can go at both ends and come back; both processors have servers there, and
  one name service starts late.
* G-Link: three channel objects and ids per processor, so that a channel can be
  opened and closed three times, each time with the remains of the last at the
  other end; `glink_timeout` needs one.
* RPMH: one driver thread and the voter, an apps RSC with two active TCSs and a
  display RSC with none and one wake TCS, both in one run. Two active votes or
  commits, each of which can be a batch of two messages, meet at the TCSs with
  each other and with the handler; cached votes, flushes and solver mode are not
  bounded. Three BCMs in two clock domains make a batch whose first message ends
  with its domain; `rpmh_bcm` has two domains of two and a limit of three.

The Haven, name service, G-Link and RPMH runs have bounded operations and stop,
so they do not check for deadlock. The flow runs do, except `flow_window`, in
which a flow may stop for good.

### Fairness

* `QrtrFlow`: a thread in `sendmsg`, the transport, the workers and the reading
  application go on (weak); a transport that is tried again and again does not
  fail for ever (strong, on `Xmit`). Nobody has to send, time out or be signalled.
* `QrtrHaven`: sender, reader, doorbell interrupts, the retry work and the
  resource manager's population of capabilities go on (weak). No timeout.
* `QrtrNs`: of what needs no socket or driver (works that are queued, what transports
  deliver, the start of a late name service) something happens as long as there is
  any (`Background`, weak). It comes to an end by itself, so no more is needed. Endpoints need not register,
  sockets need not do anything.
* `GlinkChannel`: a call in progress, the interrupt and the worker go on (weak). A
  thread that opens what the other side has opened does so, and closes its end
  when the other side has closed; the opener need not open or close. Where a wait
  may expire it does so in the end, as five seconds do.
* `Rpmh`: a thread in a call and the handler go on (weak), and the RSC finishes
  what was triggered (weak: the hardware). Nobody has to vote, flush or change the
  solver mode. That a spinning sender gets its turn needs no strong fairness,
  because the number of votes is bounded.

## Proofs

`QrtrFlowProofs` holds for any processors joined in pairs, any sockets, any
finite set of threads, any watermarks 0 < LOW < HIGH, any `MAXCONFIRM`, blocking and
non-blocking calls and any faults:

* `TypeCorrect`: `TypeOK`.
* `PendingBounded`, `WaitersArePaused`, `NoWakeupIsLost`: the three invariants of
  `flow_wait`. They are conjuncts of `WaitInv`, which is inductive together with
  `Routed`: a thread that is sending is on the processor its flow starts from,
  and a RESUME_TX is only on its way to that processor, so that the step which
  resets a flow wakes the threads that sleep on it.
* `ConfirmSurvives`: `ConfirmNotLost`, under `ReceiverLossless` (no closed socket,
  full buffer, lost RESUME_TX or restarted name service; the table above shows
  that the assumption is needed). The induction is on `ConfirmNotLost` itself with
  `Calm` (sockets are open, handshakes done) and `Allocated` (a flow that counts
  exists): one step per action hands the confirmation on, from the thread to the
  packet, the queue, the reader, the RESUME_TX, or to `tx_failed`.

`QrtrWindowProofs` counts the packets of a flow, for the same constants, under
`SendsCounted`: flows are allocated and a failed transmission is not delivered
after all (either adds a confirmation, see `flow_confirm` and `flow_wait`).

* `OneConfirm`, `QueueBounded`: `AtMostOneConfirm` and `RxQueueBounded`, from
  `BoundInv`. For each flow it says that at most one confirmation is with a
  thread, a packet, the reader, a RESUME_TX or `tx_failed`, and none below the low
  watermark; and that the packets behind it, in the link and in the queue, are
  the ones counted since, but for one per sender that was overtaken between
  `qrtr_tx_wait` and the transport. The second part is needed because a RESUME_TX
  resets the count to zero with packets still unread. The end of
  `QrtrFlowProofs` shows that each thing that can happen to a packet (counted, sent,
  lost, queued, read, answered) keeps these bounds, as facts about two sequences and
  some numbers; this module applies them to the actions.

`QrtrHavenProofs` holds for every ring length, reserve and set of packet sizes,
assuming one reader and that a master's doorbell capability is there from the
start (`OneReader`). A master does not retry a doorbell, so without the second
part its data could wait unseen. `guestvm_loader.c` provides it: it populates
the capabilities when the peer VM is ready (line 146) and starts the VM after
that (line 210), except when the wait in between is interrupted, in which case
it starts the VM at once. What a master sends before its peer runs is left to
the read in the peer's probe and is outside these theorems.

* `RingNeverOverrun`: `NoOverrun`, from `IndexInv`: head and tail are indices of
  the ring, what the sender is about to write fits, and what the reader is about
  to consume is there. It is needed because both sides act on an old reading of
  the other's index: the room the sender saw and the data the reader saw can
  only have grown.
* `RoomIsNotMissed`, `DataIsNotMissed`: from `DoorInv` (who waits has asked to be
  told; a failed doorbell is scheduled again) with `IndexInv`.

Its second part is about the words in the ring, under `OneReader` and
`HeaderWhole` (the first chunk of a packet reaches its size field; `haven_short`
and the table above show that both are needed):

* `RingCarriesStream`, `PostedInOrder`, `TypesKept`: `StreamIntact`, `InOrder` and
  `TypeOK`.
* `ImplementsChannel`: `ChannelSpec`, the refinement of `PacketChannel`. The
  beginning of `qrtr_haven_send` is an accept, the step that hands a complete
  packet to `qrtr_endpoint_post` a post, every other step stutters.

They rest on `DataInv` with `IndexInv`: every unread word is a word of a sent
packet, in the place its index says (`WordsSent`); two unread words are as far
apart in the stream as in the ring (`Chained`, a relation between positions that
avoids induction along the ring); the reassembly buffer holds the beginning of
the packet that is read (`Buffered`), and the first unread word is the one after
it (`ReadsOn`). What is being copied on either side is in it as well, since both
sides copy before they move their index.

`QrtrNsProofs` holds for any nodes, any finite set of ports, any services and any
bounds on operations and unregistrations:

* `TablesTyped`: `TypeOK`, from `WireInv`, which also says what each kind of packet
  on a link or in a name service's queue can carry.
* `ObserversExact`: `ViewExact`, as long as no socket replaces its service
  (`NoReplace`) and none is used before its name service has said HELLO (`NoEarly`):
  without an address to broadcast to, a new server is entered and not told. `ViewInv`
  says it of every open socket and address: what was told is what is in the table and
  asked for by a lookup; every handler sends exactly the difference it makes.
* `GoneAreForgotten`: `GoneForgotten`, as long as no endpoint is unregistered with
  packets in its receive queue (`NoBacklog`). That nothing of a gone node is in the
  tables is true only when the queues are empty, so `GoneInv` is about the queue:
  the last thing in it about an address that is gone makes the name service forget
  it, or there is nothing in it and in the table. `LinkInv` adds that a node
  without an endpoint receives nothing.
* `NoGhosts`: `NoGhostClients`, under `NoBacklog`. `GhostInv` says of every client a
  server has counted what will remove it: the client is open and will tell this
  node when it closes (its `state` names the node or several, and the handshake is
  done), or its DEL_CLIENT is on its way, or a BYE of its node is; and data on its
  way without a DEL_CLIENT behind it is of a client that will tell. `ClientInv`
  says that only registered servers count clients, of other nodes, and `Untalked` that
  before the bind of its name service no socket has talked to another node, so that
  the handshakes the bind takes back are owed to nobody.

`RpmhProofs` holds for any RSCs, threads, lists of BCMs, TCS sizes and bounds:

* `RequestsAlive`: `NoStaleRequest`. The request a TCS in use or the handler
  points to is alive and not completed, and pointed to once.
* `WaitersServed`: `WaitIsServed`. What a call waits for is completed or on its
  way.

These two rest on one inductive invariant, `IInv`. Neither property is inductive: that
a batch may free its requests when it returns depends on which of them it has
sent, so `BatchInv` says that the requests of a batch that are pending or
completed are exactly the ones before its current message (all, when it waits);
`TcsInv` ties the TCSs to their phase (claimed, triggered, finished, with the
handler), and `ReqInv` says that requests are held once. A step of one thread
leaves the invariant of the others alone (`ThreadFrame` and the lemmas after it),
so each action is proved for the thread that takes it. Nothing is assumed of
`Message`, `Count` or the flush: the theorems hold whatever the voter sends.

* `NeverTwiceInflight`: `OneInflight`, for the same constants. `FlightInv` is
  inductive with `IInv`. `CleanInv` says that a TCS which is neither in use nor
  filled with cached votes has no command enabled: a thread that claims a TCS adds
  its commands to what is there, so commands left behind by a flush or by an earlier
  request would be sent again. On an RSC without active TCSs this rests on the
  invalidation before the claim, and on `slots` telling which wake TCSs were filled.
  `ClaimInv` says that what `check_for_req_inflight` has found holds until the
  commands are written. That a flush leaves the other TCSs clean is proved along its
  three recursive functions (`WriteAllGood`, `FlushBatchGood`, `FlushSinglesGood`),
  by an induction stated for a set of numbers (`SetInduction`).

`GlinkChannelProofs` holds for any number of pairs of processors and any bound on
channels, under `OneOpener`: one processor of a pair opens the channel, its waits in
`create_local` do not expire, and it waits for the channel to be gone before it opens
it again. Without the last two `RefsExact` or `TypeOK` fails (the table above); time-outs
of `create_local` before the OPEN of the other side is taken up are only model-checked,
and two sides that open at once are outside the model.

* `TypesHold`, `RefsAlwaysExact`, `EndsAlwaysAgree`, `CommandsAlwaysKnown`: the four
  invariants of `glink_channel`, whether `create_remote` times out or not and whether
  a driver or a thread answers.

They rest on one inductive invariant (`InvariantHolds`). None of the four is
inductive: whether a reference may be dropped when a command arrives depends on what
the other end has in its tables, and on what is in the fifo, left to the worker or in
the worker's hands. `Way` puts these three in one queue. `IdInv` then gives the life
of an id: in `lcids` of its owner from the OPEN on; its OPEN on the way or the id in
`rcids` of the peer, but not both; its CLOSE on the way once its owner has closed;
last its CLOSE_ACK, when the peer has forgotten it. `WayInv` gives the order of the
commands in the queue, each at most once; `ChanInv` counts the references of the one
channel that is alive; `OpenerInv`, `AnswerInv` and `PairInv` say where the threads
and workers of both ends can be at each point of that life. There is one lemma per
action and side: the steps of the side that opens are in `GlinkChannelLemmas`, those
of the other in `GlinkAnswerProofs` and `GlinkChannelProofs`.

Only model-checked, besides liveness and everything under fairness
(`ChannelFairSpec` included): `Converged` of `QrtrNs`, which needs an invariant on
what two handshaking name services have yet to send each other, across every
order of HELLOs, announcements and notices; `TypeOK` of `Rpmh`, where a message fits
a TCS only if no clock domain has more BCMs than a message can hold; and
`FlushedLatest` and `EveryBcmCommitted`, which do not hold for all sizes of TCSs and
lists (the table above, `rpmh_bcm`).

## Plan

1. `QrtrPorts`: ports, bind and rebind, ENETRESET and the references of sockets.
2. `QrtrNode`: lifetime of `struct qrtr_node`, forwarding between networks,
   DEL_PROC; faults of transports and receive buffers in `QrtrNs`.
3. The MHI transport (late completion, reset), as another implementation of
   `PacketChannel`, and a composition of `QrtrFlow` with a channel that fails.
4. `HavenMsgq` and `HavenRm` (`hh_msgq.c`, `hh_rm_core.c`): bounded queues,
   request and reply, lending.
5. G-Link: intents and data, the reset of the remote processor, and both sides
   opening a name at once; proofs with time-outs of `create_local`.
6. Proofs: `Converged` of `QrtrNs`, and `FlushedLatest` of `Rpmh` for TCSs that hold
   every cached vote.

## Not modelled

Wording and logging, wake-up sources, priorities, header versions (a packet's
type, ports and flags are what the models keep), memory sharing with a peer VM,
and the drivers listed as `not_modelled` in `PROJECT.json`, each with its reason:
hardware drivers whose state is registers and firmware, file systems, and
protocol layers that the plan reaches later.

Met in the modelled code, and without a property: `qrtr_node_enqueue` does not
mark the flow when the padding of a packet cannot be allocated (`qrtr.c` 662); a
reader that meets an invalid version in a header does not move on (`haven.c` 296;
only a sender other than this code, or the behaviour of `haven_short`, makes
one);
`rpmh_write_async` does not free its request when the send fails (`rpmh.c` 298);
an active vote on an RSC without active TCSs clears the sleep and wake TCSs and
does not set `dirty` (`rpmh-rsc.c` 198; the display driver, which owns such an
RSC, calls `rpmh_invalidate`, which sets it, before each of its flushes).
