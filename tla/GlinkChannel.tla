---------------------------- MODULE GlinkChannel ----------------------------
(***************************************************************************)
(* Opening and closing a G-Link channel (drivers/rpmsg/                    *)
(* qcom_glink_native.c), between two processors that both run this code.   *)
(*                                                                         *)
(* All channels of the model have one name: channels of other names only   *)
(* share the numbering of ids.  A user thread opens the channel with       *)
(* rpmsg_create_ept and closes it with rpmsg_destroy_ept; at the other end *)
(* a driver may be bound to the name, and opens its end when the OPEN      *)
(* command makes the rpmsg device.  The interrupt handler handles OPEN_ACK *)
(* at once and leaves the other commands to a worker.                      *)
(*                                                                         *)
(* A step is a critical section of idr_lock with the commands sent next to *)
(* it, one command of the interrupt handler, or one command of the worker  *)
(* up to where it blocks.  rpmsg core and driver core are modelled by what *)
(* this driver's calls make them do.                                       *)
(***************************************************************************)
EXTENDS Integers, Sequences, FiniteSets, FiniteSetsExt

CONSTANTS
    Side,     \* the two processors
    Peer,     \* Peer[s]: the other one
    Openers,  \* sides where a thread opens and closes the channel of its own accord
    Reopen,   \* it opens the name again without waiting for the close to end,
              \* or when its open has timed out
    LocalWait,\* when the waits of create_local may expire: "never", while the
              \* OPEN of the other side is not taken up ("unopened"), or "ever"
    MAXCH     \* bound: channel objects and local ids, per side

ASSUME GlinkChannelAssumption ==
    /\ Peer \in [Side -> Side] /\ \A s \in Side : Peer[s] # s /\ Peer[Peer[s]] = s
    /\ Openers \subseteq Side /\ Reopen \in BOOLEAN
    /\ LocalWait \in {"never", "unopened", "ever"} /\ MAXCH \in Nat

VARIABLES
    bound,   \* a driver for the name is registered; else a thread opens it later
    slow,    \* the 5 s of create_remote may pass before the OPEN_ACK
    slow_local, \* the waits of create_local may expire
    ch,      \* ch[s][c]: channel object c of side s
    nch,     \* objects allocated so far
    next_id, \* where idr_alloc_cyclic goes on
    lcids,   \* glink->lcids: local id -> channel
    rcids,   \* glink->rcids: remote id -> channel
    dev,     \* the rpmsg device of the name: the channel of its endpoint, 0 if none
    fifo,    \* commands on their way to a side
    irq,     \* its interrupt is raised
    handler, \* its interrupt handler is reading the fifo
    rx_queue,\* commands left to the worker
    upc, uch,\* the user thread: where it is, and its channel
    wpc, wch,\* the worker: where it is, the channel it is at
    wcmd,    \* the command it has taken
    unknown  \* commands that named no channel of the side that got them

config == <<bound, slow, slow_local>>
tables == <<ch, nch, next_id, lcids, rcids>>
wire   == <<fifo, irq>>
recv   == <<handler, rx_queue>>
user   == <<upc, uch>>
worker == <<wpc, wch, wcmd>>
vars == <<config, tables, dev, wire, recv, user, worker, unknown>>

Id == 1 .. MAXCH
NoCmd == [cmd |-> "none", id |-> 0]
Cmd(c, i) == [cmd |-> c, id |-> i]
NewChannel == [refs |-> 1, lcid |-> 0, rcid |-> 0, open_ack |-> FALSE,
               open_req |-> FALSE, rpdev |-> FALSE, cb |-> FALSE]
Unused == [NewChannel EXCEPT !.refs = 0]

\* The fields, the two id tables and the queues keep their types, and no
\* reference count goes below zero.
TypeOK ==
    /\ ch \in [Side -> [Id -> [refs : 0 .. 3, lcid : 0 .. MAXCH, rcid : 0 .. MAXCH,
                               open_ack : BOOLEAN, open_req : BOOLEAN,
                               rpdev : BOOLEAN, cb : BOOLEAN]]]
    /\ nch \in [Side -> 0 .. MAXCH] /\ next_id \in [Side -> 1 .. MAXCH + 1]
    /\ \A s \in Side : /\ DOMAIN lcids[s] \subseteq Id /\ DOMAIN rcids[s] \subseteq Id
                       /\ dev[s] \in 0 .. MAXCH
    /\ upc \in [Side -> {"idle", "local", "remote", "wait_local", "wait_remote", "open",
                      "failed"}]
    /\ wpc \in [Side -> {"idle", "insert", "create", "probe", "wait"}]

Init ==
    /\ bound \in [Side -> BOOLEAN] /\ \A s \in Openers : ~bound[s]
    /\ slow \in BOOLEAN
    /\ slow_local \in IF LocalWait = "never" THEN {FALSE} ELSE BOOLEAN
    /\ ch = [s \in Side |-> [c \in Id |-> Unused]]
    /\ nch = [s \in Side |-> 0] /\ next_id = [s \in Side |-> 1]
    /\ lcids = [s \in Side |-> <<>>] /\ rcids = [s \in Side |-> <<>>]
    /\ dev = [s \in Side |-> 0]
    /\ fifo = [s \in Side |-> <<>>] /\ irq = [s \in Side |-> FALSE]
    /\ handler = [s \in Side |-> FALSE] /\ rx_queue = [s \in Side |-> <<>>]
    /\ upc = [s \in Side |-> "idle"] /\ uch = [s \in Side |-> 0]
    /\ wpc = [s \in Side |-> "idle"] /\ wch = [s \in Side |-> 0]
    /\ wcmd = [s \in Side |-> NoCmd]
    /\ unknown = {}

-----------------------------------------------------------------------------

Insert(f, i, c) == [j \in DOMAIN f \union {i} |-> IF j = i THEN c ELSE f[j]]
Remove(f, i) == [j \in DOMAIN f \ {i} |-> f[j]]
\* idr_for_each_entry with strcmp: the channel of the lowest id, 0 if none.
Find(f) == IF DOMAIN f = {} THEN 0 ELSE f[Min(DOMAIN f)]

Send(s, cmds) ==
    /\ fifo' = [fifo EXCEPT ![Peer[s]] = @ \o cmds]
    /\ irq' = [irq EXCEPT ![Peer[s]] = TRUE]

\* kref_put: at zero the object is freed.
Put(chan) == IF chan.refs = 1 THEN Unused ELSE [chan EXCEPT !.refs = @ - 1]

\* Mutant: no reference is taken for lcids.
OpenReqNoGet(s, c, chan) ==
    /\ ch' = [ch EXCEPT ![s][c] = [chan EXCEPT !.lcid = next_id[s]]]
    /\ lcids' = [lcids EXCEPT ![s] = Insert(@, next_id[s], c)]
    /\ next_id' = [next_id EXCEPT ![s] = @ + 1]

\* qcom_glink_send_open_req on object chan, put at c: a reference and a new
\* local id.  The caller sends the OPEN.
OpenReq(s, c, chan) ==
    /\ ch' = [ch EXCEPT ![s][c] = [chan EXCEPT !.refs = @ + 1, !.lcid = next_id[s]]]
    /\ lcids' = [lcids EXCEPT ![s] = Insert(@, next_id[s], c)]
    /\ next_id' = [next_id EXCEPT ![s] = @ + 1]
Open(s) == Cmd("OPEN", next_id[s])
OpenAck(s, c) == Cmd("OPEN_ACK", ch[s][c].rcid)
Close(s, c) == Cmd("CLOSE", ch[s][c].lcid)

-----------------------------------------------------------------------------
(* The user thread. *)

\* An opener waits for the channel it closed to be gone before it opens the
\* name again.  Where no driver is bound a thread opens a channel the other side
\* has opened, once.  With Reopen neither waits, and an open that has timed
\* out is tried again.
MayOpen(s) ==
    /\ upc[s] = "idle" \/ (Reopen /\ upc[s] = "failed")
    /\ next_id[s] <= MAXCH
    /\ IF s \in Openers THEN nch[s] < MAXCH /\ (Reopen \/ DOMAIN lcids[s] \union DOMAIN rcids[s] = {})
       ELSE ~bound[s] /\ DOMAIN rcids[s] # {} /\ (Reopen \/ uch[s] # Find(rcids[s]))

\* qcom_glink_create_ept looks the name up in rcids.
CreateEpt(s) ==
    /\ MayOpen(s)
    /\ uch' = [uch EXCEPT ![s] = Find(rcids[s])]
    /\ upc' = [upc EXCEPT ![s] = IF Find(rcids[s]) = 0 THEN "local" ELSE "remote"]
    /\ UNCHANGED <<config, tables, dev, wire, recv, worker, unknown>>

\* qcom_glink_create_local: a new channel and its OPEN.
CreateLocal(s) ==
    /\ upc[s] = "local" /\ nch[s] < MAXCH
    /\ nch' = [nch EXCEPT ![s] = @ + 1]
    /\ OpenReq(s, nch'[s], NewChannel)
    /\ Send(s, <<Open(s)>>)
    /\ uch' = [uch EXCEPT ![s] = nch'[s]]
    /\ upc' = [upc EXCEPT ![s] = "wait_local"]
    /\ UNCHANGED <<config, rcids, dev, recv, worker, unknown>>

\* Both completions are done: it acknowledges and sets the callback.
LocalDone(s) ==
    /\ upc[s] = "wait_local"
    /\ ch[s][uch[s]].open_ack /\ ch[s][uch[s]].open_req
    /\ Send(s, <<OpenAck(s, uch[s])>>)
    /\ ch' = [ch EXCEPT ![s][uch[s]].cb = TRUE]
    /\ upc' = [upc EXCEPT ![s] = "open"]
    /\ UNCHANGED <<config, nch, next_id, lcids, rcids, dev, recv, uch, worker, unknown>>

\* One of the two waits times out: the local id is released without a CLOSE, and
\* both references are put, that of qcom_glink_send_open_req and that of
\* qcom_glink_alloc_channel.  "unopened" leaves out the channels that rx_open
\* has found, which rcids holds or is about to hold.
LocalTimeout(s) ==
    /\ LocalWait # "never" /\ slow_local /\ upc[s] = "wait_local"
    /\ LET c == uch[s]
       IN /\ ~(ch[s][c].open_ack /\ ch[s][c].open_req)
          /\ LocalWait = "unopened" =>
                ~ch[s][c].open_req /\ ~(wpc[s] = "insert" /\ wch[s] = c)
          /\ lcids' = [lcids EXCEPT ![s] = Remove(@, ch[s][c].lcid)]
          /\ ch' = [ch EXCEPT ![s][c] = Put(Put(@))]
    /\ upc' = [upc EXCEPT ![s] = "failed"]
    /\ UNCHANGED <<config, nch, next_id, rcids, dev, wire, recv, uch, worker, unknown>>

\* qcom_glink_create_remote, by a user thread: acknowledge the OPEN of the
\* other side, send an OPEN, wait for its OPEN_ACK.
CreateRemote(s) ==
    /\ upc[s] = "remote"
    /\ OpenReq(s, uch[s], ch[s][uch[s]])
    /\ Send(s, <<OpenAck(s, uch[s]), Open(s)>>)
    /\ upc' = [upc EXCEPT ![s] = "wait_remote"]
    /\ UNCHANGED <<config, nch, rcids, dev, recv, uch, worker, unknown>>

RemoteDone(s) ==
    /\ upc[s] = "wait_remote" /\ ch[s][uch[s]].open_ack
    /\ ch' = [ch EXCEPT ![s][uch[s]].cb = TRUE]
    /\ upc' = [upc EXCEPT ![s] = "open"]
    /\ UNCHANGED <<config, nch, next_id, lcids, rcids, dev, wire, recv, uch, worker, unknown>>

\* The wait times out: close_link undoes the OPEN_ACK with a CLOSE.
RemoteTimeout(s) ==
    /\ slow /\ upc[s] = "wait_remote" /\ ~ch[s][uch[s]].open_ack
    /\ Send(s, <<Close(s, uch[s])>>)
    /\ upc' = [upc EXCEPT ![s] = "idle"]
    /\ UNCHANGED <<config, tables, dev, recv, uch, worker, unknown>>

\* qcom_glink_destroy_ept
DestroyEpt(s) ==
    /\ upc[s] = "open"
    /\ IF ch[s][uch[s]].cb THEN Send(s, <<Close(s, uch[s])>>) ELSE UNCHANGED wire
    /\ ch' = [ch EXCEPT ![s][uch[s]].cb = FALSE]
    /\ upc' = [upc EXCEPT ![s] = "idle"]
    /\ UNCHANGED <<config, nch, next_id, lcids, rcids, dev, recv, uch, worker, unknown>>

-----------------------------------------------------------------------------
(* The interrupt handler. *)

\* Mutant: one command per interrupt.
InterruptOnce(s) ==
    /\ (irq[s] \/ handler[s]) /\ fifo[s] # <<>>
    /\ LET m == Head(fifo[s])
           bad == m.cmd = "OPEN_ACK" /\ m.id \notin DOMAIN lcids[s]
       IN /\ ch' = IF m.cmd = "OPEN_ACK" /\ ~bad
                   THEN [ch EXCEPT ![s][lcids[s][m.id]].open_ack = TRUE] ELSE ch
          /\ rx_queue' = IF m.cmd = "OPEN_ACK" THEN rx_queue
                         ELSE [rx_queue EXCEPT ![s] = Append(@, m)]
          /\ handler' = [handler EXCEPT ![s] = FALSE]
          /\ unknown' = IF bad THEN unknown \union {m.cmd} ELSE unknown
    /\ fifo' = [fifo EXCEPT ![s] = Tail(@)]
    /\ irq' = IF handler[s] THEN irq ELSE [irq EXCEPT ![s] = FALSE]
    /\ UNCHANGED <<config, nch, next_id, lcids, rcids, dev, user, worker>>

\* One command of qcom_glink_native_intr.  The loop ends at an OPEN_ACK that
\* names no channel (-EINVAL), the rest of the fifo waiting for the next
\* interrupt.
Interrupt(s) ==
    /\ (irq[s] \/ handler[s]) /\ fifo[s] # <<>>
    /\ LET m == Head(fifo[s])
           bad == m.cmd = "OPEN_ACK" /\ m.id \notin DOMAIN lcids[s]
       IN /\ ch' = IF m.cmd = "OPEN_ACK" /\ ~bad
                   THEN [ch EXCEPT ![s][lcids[s][m.id]].open_ack = TRUE] ELSE ch
          /\ rx_queue' = IF m.cmd = "OPEN_ACK" THEN rx_queue
                         ELSE [rx_queue EXCEPT ![s] = Append(@, m)]
          /\ handler' = [handler EXCEPT ![s] = ~bad]
          /\ unknown' = IF bad THEN unknown \union {m.cmd} ELSE unknown
    /\ fifo' = [fifo EXCEPT ![s] = Tail(@)]
    /\ irq' = IF handler[s] THEN irq ELSE [irq EXCEPT ![s] = FALSE]
    /\ UNCHANGED <<config, nch, next_id, lcids, rcids, dev, user, worker>>

InterruptEnd(s) ==
    /\ (irq[s] \/ handler[s]) /\ fifo[s] = <<>>
    /\ irq' = IF handler[s] THEN irq ELSE [irq EXCEPT ![s] = FALSE]
    /\ handler' = [handler EXCEPT ![s] = FALSE]
    /\ UNCHANGED <<config, tables, dev, fifo, rx_queue, user, worker, unknown>>

-----------------------------------------------------------------------------
(* The worker, qcom_glink_work: one command at a time. *)

Taken(s, c) ==
    /\ wpc[s] = "idle" /\ rx_queue[s] # <<>> /\ Head(rx_queue[s]).cmd = c
    /\ rx_queue' = [rx_queue EXCEPT ![s] = Tail(@)]

\* qcom_glink_rx_open looks the name up in lcids, and makes a channel if it is
\* not there.
RxOpen(s) ==
    /\ Taken(s, "OPEN")
    /\ wcmd' = [wcmd EXCEPT ![s] = Head(rx_queue[s])]
    /\ IF Find(lcids[s]) # 0
       THEN /\ wch' = [wch EXCEPT ![s] = Find(lcids[s])]
            /\ UNCHANGED <<ch, nch>>
       ELSE /\ nch[s] < MAXCH
            /\ nch' = [nch EXCEPT ![s] = @ + 1]
            /\ ch' = [ch EXCEPT ![s][nch'[s]] = NewChannel]
            /\ wch' = [wch EXCEPT ![s] = nch'[s]]
    /\ wpc' = [wpc EXCEPT ![s] = IF Find(lcids[s]) # 0 THEN "insert" ELSE "create"]
    /\ UNCHANGED <<config, next_id, lcids, rcids, dev, wire, handler, user, unknown>>

WorkerIdle(s) ==
    /\ wpc' = [wpc EXCEPT ![s] = "idle"]
    /\ wch' = [wch EXCEPT ![s] = 0]
    /\ wcmd' = [wcmd EXCEPT ![s] = NoCmd]

\* ... then enters it in rcids and completes open_req.  A new channel gets an
\* rpmsg device, which a bound driver probes at once; registering fails when
\* there is a device of the name.
RxOpenInsert(s) ==
    /\ wpc[s] \in {"insert", "create"}
    /\ LET c == wch[s]
           r == wcmd[s].id
           new == wpc[s] = "create"
           taken == r \in DOMAIN rcids[s]
           fails == taken \/ (new /\ dev[s] # 0)
       IN /\ rcids' = IF fails THEN rcids ELSE [rcids EXCEPT ![s] = Insert(@, r, c)]
          /\ ch' = IF fails THEN (IF new THEN [ch EXCEPT ![s][c] = Put(@)] ELSE ch)
                   ELSE [ch EXCEPT ![s][c].rcid = r, ![s][c].open_req = TRUE,
                                   ![s][c].rpdev = @ \/ new]
          /\ dev' = IF new /\ ~fails THEN [dev EXCEPT ![s] = c] ELSE dev
          /\ IF new /\ ~fails /\ bound[s]
             THEN /\ wpc' = [wpc EXCEPT ![s] = "probe"]
                  /\ UNCHANGED <<wch, wcmd>>
             ELSE WorkerIdle(s)
    /\ UNCHANGED <<config, nch, next_id, lcids, wire, recv, user, unknown>>

\* The probe calls create_ept for the name, so create_remote, and blocks the
\* worker until the OPEN_ACK.
Probe(s) ==
    /\ wpc[s] = "probe" /\ next_id[s] <= MAXCH
    /\ LET c == Find(rcids[s])
       IN /\ OpenReq(s, c, ch[s][c])
          /\ Send(s, <<OpenAck(s, c), Open(s)>>)
          /\ wch' = [wch EXCEPT ![s] = c]
    /\ wpc' = [wpc EXCEPT ![s] = "wait"]
    /\ UNCHANGED <<config, nch, rcids, dev, recv, user, wcmd, unknown>>

ProbeDone(s) ==
    /\ wpc[s] = "wait" /\ ch[s][wch[s]].open_ack
    /\ ch' = [ch EXCEPT ![s][wch[s]].cb = TRUE]
    /\ dev' = [dev EXCEPT ![s] = wch[s]]
    /\ WorkerIdle(s)
    /\ UNCHANGED <<config, nch, next_id, lcids, rcids, wire, recv, user, unknown>>

\* The same time-out; the driver is not bound, the device stays.
ProbeTimeout(s) ==
    /\ slow /\ wpc[s] = "wait" /\ ~ch[s][wch[s]].open_ack
    /\ Send(s, <<Close(s, wch[s])>>)
    /\ WorkerIdle(s)
    /\ UNCHANGED <<config, tables, dev, recv, user, unknown>>

\* Mutant: a CLOSE is sent for an endpoint that is not open.
EndpointAnyway(s, c) == dev[s] # 0 /\ bound[s] /\ ch[s][c].rpdev

\* rpmsg_unregister_device: the device goes, and a driver bound to it destroys
\* its endpoint (destroy_ept).  What happens to the channel of the endpoint,
\* and the CLOSE it sends.
EndpointChannel(s, c) == dev[s] # 0 /\ bound[s] /\ ch[s][c].rpdev /\ ch[s][dev[s]].cb
DropDevice(s, c) ==
    IF EndpointChannel(s, c) THEN [ch EXCEPT ![s][dev[s]].cb = FALSE, ![s][c].rpdev = FALSE]
    ELSE [ch EXCEPT ![s][c].rpdev = FALSE]

\* Mutant: no CLOSE for the channel of a bound driver.
DropCmdsNone(s, c) == <<>>

DropCmds(s, c) == IF EndpointChannel(s, c) THEN <<Close(s, dev[s])>> ELSE <<>>

\* The same from rx_close_ack, which has cleared the local id of the channel.
AckDropCmds(s, c) ==
    IF EndpointChannel(s, c)
    THEN <<IF dev[s] = c THEN Cmd("CLOSE", 0) ELSE Close(s, dev[s])>> ELSE <<>>

\* Mutant: no CLOSE_ACK.
RxCloseSilent(s) ==
    /\ Taken(s, "CLOSE")
    /\ LET r == Head(rx_queue[s]).id
           c == rcids[s][r]
       IN IF r \notin DOMAIN rcids[s]
          THEN /\ unknown' = unknown \union {"CLOSE"}
               /\ UNCHANGED <<ch, rcids, dev, wire>>
          ELSE /\ Send(s, DropCmds(s, c))
               /\ rcids' = [rcids EXCEPT ![s] = Remove(@, ch[s][c].rcid)]
               /\ ch' = [ch EXCEPT ![s] =
                          [DropDevice(s, c)[s] EXCEPT ![c] = Put([@ EXCEPT !.rcid = 0])]]
               /\ dev' = IF ch[s][c].rpdev THEN [dev EXCEPT ![s] = 0] ELSE dev
               /\ UNCHANGED unknown
    /\ UNCHANGED <<config, nch, next_id, lcids, handler, user, worker>>

\* qcom_glink_rx_close: the device is dropped, CLOSE_ACK sent, the remote id and
\* its reference released.
RxClose(s) ==
    /\ Taken(s, "CLOSE")
    /\ LET r == Head(rx_queue[s]).id
           c == rcids[s][r]
       IN IF r \notin DOMAIN rcids[s]
          THEN /\ unknown' = unknown \union {"CLOSE"}
               /\ UNCHANGED <<ch, rcids, dev, wire>>
          ELSE /\ Send(s, DropCmds(s, c) \o <<Cmd("CLOSE_ACK", ch[s][c].rcid)>>)
               /\ rcids' = [rcids EXCEPT ![s] = Remove(@, ch[s][c].rcid)]
               /\ ch' = [ch EXCEPT ![s] =
                          [DropDevice(s, c)[s] EXCEPT ![c] = Put([@ EXCEPT !.rcid = 0])]]
               /\ dev' = IF ch[s][c].rpdev THEN [dev EXCEPT ![s] = 0] ELSE dev
               /\ UNCHANGED unknown
    /\ UNCHANGED <<config, nch, next_id, lcids, handler, user, worker>>

\* Mutant: the reference of lcids is kept.
RxCloseAckNoPut(s) ==
    /\ Taken(s, "CLOSE_ACK")
    /\ LET l == Head(rx_queue[s]).id
           c == lcids[s][l]
       IN IF l \notin DOMAIN lcids[s]
          THEN /\ unknown' = unknown \union {"CLOSE_ACK"}
               /\ UNCHANGED <<ch, lcids, dev, wire>>
          ELSE /\ IF AckDropCmds(s, c) # <<>> THEN Send(s, AckDropCmds(s, c)) ELSE UNCHANGED wire
               /\ lcids' = [lcids EXCEPT ![s] = Remove(@, ch[s][c].lcid)]
               /\ ch' = [ch EXCEPT ![s] =
                          [DropDevice(s, c)[s] EXCEPT ![c] = [@ EXCEPT !.lcid = 0]]]
               /\ dev' = IF ch[s][c].rpdev THEN [dev EXCEPT ![s] = 0] ELSE dev
               /\ UNCHANGED unknown
    /\ UNCHANGED <<config, nch, next_id, rcids, handler, user, worker>>

\* qcom_glink_rx_close_ack: the same for the local id, which is taken from the
\* channel found, not from the command.
RxCloseAck(s) ==
    /\ Taken(s, "CLOSE_ACK")
    /\ LET l == Head(rx_queue[s]).id
           c == lcids[s][l]
       IN IF l \notin DOMAIN lcids[s]
          THEN /\ unknown' = unknown \union {"CLOSE_ACK"}
               /\ UNCHANGED <<ch, lcids, dev, wire>>
          ELSE /\ IF AckDropCmds(s, c) # <<>> THEN Send(s, AckDropCmds(s, c)) ELSE UNCHANGED wire
               /\ lcids' = [lcids EXCEPT ![s] = Remove(@, ch[s][c].lcid)]
               /\ ch' = [ch EXCEPT ![s] =
                          [DropDevice(s, c)[s] EXCEPT ![c] = Put([@ EXCEPT !.lcid = 0])]]
               /\ dev' = IF ch[s][c].rpdev THEN [dev EXCEPT ![s] = 0] ELSE dev
               /\ UNCHANGED unknown
    /\ UNCHANGED <<config, nch, next_id, rcids, handler, user, worker>>

UserStep(s) == CreateLocal(s) \/ LocalDone(s) \/ CreateRemote(s) \/ RemoteDone(s)
WorkerStep(s) ==
    \/ RxOpen(s) \/ RxOpenInsert(s) \/ Probe(s) \/ ProbeDone(s)
    \/ RxClose(s) \/ RxCloseAck(s)
Timeout(s) == LocalTimeout(s) \/ RemoteTimeout(s) \/ ProbeTimeout(s)

Next ==
    \E s \in Side : \/ CreateEpt(s) \/ UserStep(s) \/ DestroyEpt(s)
                    \/ Interrupt(s) \/ InterruptEnd(s) \/ WorkerStep(s) \/ Timeout(s)

Spec == Init /\ [][Next]_vars

\* A call in progress, the interrupt and the worker run on.  A thread that is no
\* opener opens what the other side has opened, and closes what it has shut;
\* an opener need not open, nor close.  A wait that may expire does, in the end.
Fairness ==
    \A s \in Side :
        /\ WF_vars(UserStep(s)) /\ WF_vars(Interrupt(s)) /\ WF_vars(WorkerStep(s))
        /\ WF_vars(Timeout(s))
        /\ WF_vars(s \notin Openers /\ CreateEpt(s))
        /\ WF_vars(s \notin Openers /\ DOMAIN rcids[s] = {} /\ DestroyEpt(s))
FairSpec == Spec /\ Fairness

-----------------------------------------------------------------------------
(* Properties. *)

Entries(f, c) == Cardinality({i \in DOMAIN f : f[i] = c})
\* The reference of qcom_glink_alloc_channel until rcids takes it over.
Making(s, c) ==
    \/ upc[s] = "wait_local" /\ uch[s] = c /\ ~ch[s][c].open_req
    \/ wpc[s] = "create" /\ wch[s] = c

\* The reference count of a channel is the number of ways it can be reached: its
\* entries in lcids and rcids, and the call that has made it and not entered it
\* in rcids yet.  So no kref_put frees a channel the tables still hold, and
\* nothing out of reach stays allocated.
RefsExact ==
    \A s \in Side, c \in Id :
        ch[s][c].refs = Entries(lcids[s], c) + Entries(rcids[s], c)
                        + (IF Making(s, c) THEN 1 ELSE 0)

\* Every CLOSE and CLOSE_ACK names a channel of the side that gets it: the WARNs
\* of qcom_glink_rx_close and qcom_glink_rx_close_ack never fire.  So does every
\* OPEN_ACK, unless an open has timed out.
CommandsKnown == unknown \subseteq (IF slow \/ slow_local THEN {"OPEN_ACK"} ELSE {})

Quiet ==
    \A s \in Side : fifo[s] = <<>> /\ rx_queue[s] = <<>> /\ wpc[s] \notin {"insert", "create"}

\* When no command is on its way the ends agree: the local ids of one are the
\* remote ids of the other, for channels that name each other; and when no
\* thread or driver has the channel both ends have freed everything.  An open
\* that times out in create_remote is undone; one that times out in create_local
\* sends no CLOSE, and is left out.
EndsAgree ==
    Quiet /\ ~slow_local => \A s \in Side :
        LET t == Peer[s]
        IN /\ DOMAIN lcids[s] = DOMAIN rcids[t]
           /\ \A i \in DOMAIN lcids[s] : ch[s][lcids[s][i]].rcid = ch[t][rcids[t][i]].lcid
           /\ (upc[s] = "idle" /\ upc[t] = "idle") => DOMAIN lcids[s] = {}

\* An open that is begun succeeds, whatever times out at the other end:
\* create_local gets both its completions, unless its own waits expire first.
OpenCompletes ==
    \A s \in Openers : upc[s] = "wait_local" ~>
        upc[s] = "open" \/ (slow_local /\ upc[s] = "failed")

\* A channel the opener closes is closed and freed at both ends, unless it is
\* opened again, when no open times out.
Released == \A s \in Side, c \in Id : ch[s][c] = Unused
CloseCompletes ==
    \A s \in Openers : (~slow /\ ~slow_local /\ upc[s] = "idle") ~> (upc[s] # "idle" \/ Released)

\* The same when an open may time out, as the comment of qcom_glink_create_remote
\* has it: the CLOSE that undoes the OPEN_ACK, and the CLOSE of the other side,
\* release the channel.
TimeoutUndone == \A s \in Openers : upc[s] = "idle" ~> (upc[s] # "idle" \/ Released)
=============================================================================
