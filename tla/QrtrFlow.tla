------------------------------ MODULE QrtrFlow ------------------------------
(***************************************************************************)
(* Transmit flow control of the Qualcomm IPC router (net/qrtr/qrtr.c).     *)
(*                                                                         *)
(* Two processors are joined by one link.  Each reaches the other through  *)
(* one struct qrtr_node, whose endpoint is ep.  Threads send DATA packets  *)
(* from their local socket to sockets of the other processor.  The sender  *)
(* counts the packets of a flow (one per destination socket) in pending;   *)
(* the packet that takes the count to LOW carries confirm_rx, and when the *)
(* receiving application has read that packet its processor answers with   *)
(* RESUME_TX, which sets the count back to 0.  At HIGH senders wait.       *)
(*                                                                         *)
(* A step is what the code does between two points where another thread    *)
(* can run: a critical section of qrtr_tx_lock, a call of the transport,   *)
(* one packet of the receive worker.  A packet is its type, the flow it    *)
(* belongs to and its confirm_rx flag; in a socket queue only the flag is  *)
(* left.  The unread RESUME_TX notices of a socket count as one.           *)
(***************************************************************************)
EXTENDS Naturals, Sequences, FiniteSets

CONSTANTS
    Node,    \* processors, each running this code
    Peer,    \* Peer[n]: the processor at the other end of n's link
    Sock,    \* AF_QIPCRTR sockets
    Home,    \* Home[s]: the processor socket s lives on
    Thread,  \* threads that call sendmsg
    SockOf,  \* SockOf[t]: the socket thread t sends from
    Modes,   \* how calls are made: TRUE when they will not sleep (MSG_DONTWAIT)
    HIGH,    \* QRTR_TX_FLOW_HIGH
    LOW,     \* QRTR_TX_FLOW_LOW
    Faults,  \* what may go wrong, a subset of FaultKinds
    MAXCONFIRM \* bound: confirmations under way on a flow, past which a
               \* redundant one is not added

FaultKinds == {"alloc", "xmit", "late", "timeout", "signal", "close",
               "unregister", "ns_restart", "resume_xmit", "rcvbuf"}

ASSUME FlowAssumption ==
    /\ Peer \in [Node -> Node]
    /\ \A n \in Node : Peer[n] # n /\ Peer[Peer[n]] = n
    /\ Home \in [Sock -> Node]
    /\ IsFiniteSet(Thread) /\ SockOf \in [Thread -> Sock]
    /\ Modes \subseteq BOOLEAN
    /\ LOW \in Nat /\ HIGH \in Nat /\ 0 < LOW /\ LOW < HIGH
    /\ Faults \subseteq FaultKinds
    /\ MAXCONFIRM \in Nat

VARIABLES
    ep,        \* the endpoint of the node: "up", "closing" (NULL), "gone" (NULL, waiters woken)
    hello,     \* node->hello_sent # 0
    open,      \* sockets not yet released
    flow,      \* flows (by destination socket) that have been allocated
    pending,   \* flow->pending
    tx_failed, \* flow->tx_failed
    waiters,   \* flow->waiters: sockets told -EAGAIN, to be told when to retry
    pc,        \* where a thread is in qrtr_sendmsg
    dst,       \* its destination
    nowait,    \* it will not sleep (ret = 0 in qrtr_tx_wait)
    confirm,   \* the confirm_rx it got from qrtr_tx_wait
    locked,    \* sockets whose lock a sending thread holds
    link,      \* packets the transport carries to a processor
    rx_queue,  \* RESUME_TX packets waiting for the node's receive worker
    sk_queue,  \* receive queue of a socket: the confirm_rx flags of its packets
    rcv,       \* the packet qrtr_recvmsg has dequeued and not finished with
    told       \* sockets with an unread local RESUME_TX, sent to a former waiter

sendVars == <<pc, dst, nowait, confirm, locked>>
flowVars == <<flow, pending, tx_failed, waiters>>
rcvVars  == <<sk_queue, rcv, told>>
nodeVars == <<ep, hello, open>>
vars == <<nodeVars, flowVars, sendVars, link, rx_queue, rcvVars>>

\* Only DATA asks for a confirmation.
Packet == {m \in [type : {"DATA", "RESUME_TX"}, port : Sock, confirm_rx : BOOLEAN] :
              m.confirm_rx => m.type = "DATA"}
PCs == {"idle", "loop", "check", "asleep", "xmit", "failed"}

Data(p, c) == [type |-> "DATA", port |-> p, confirm_rx |-> c]
ResumeTx(p) == [type |-> "RESUME_TX", port |-> p, confirm_rx |-> FALSE]

\* The processor a thread runs on: the one whose node object it uses.
At(t) == Home[SockOf[t]]

\* The fields of qrtr_node, its flows and the sockets keep their types: no
\* count of qrtr_tx_wait goes negative, no queue holds a foreign packet.
TypeOK ==
    /\ ep \in [Node -> {"up", "closing", "gone"}]
    /\ hello \in [Node -> BOOLEAN]
    /\ open \in SUBSET Sock
    /\ flow \in SUBSET Sock
    /\ pending \in [Sock -> Nat]
    /\ tx_failed \in [Sock -> BOOLEAN]
    /\ waiters \in [Sock -> SUBSET Sock]
    /\ pc \in [Thread -> PCs]
    /\ dst \in [Thread -> Sock]
    /\ nowait \in [Thread -> BOOLEAN]
    /\ confirm \in [Thread -> BOOLEAN]
    /\ locked \in SUBSET Sock
    /\ link \in [Node -> Seq(Packet)]
    /\ rx_queue \in [Node -> Seq(Sock)]
    /\ sk_queue \in [Sock -> Seq(BOOLEAN)]
    /\ rcv \in [Sock -> {"none", "plain", "confirm"}]
    /\ told \in SUBSET Sock

\* The link is up, both sides have said hello and nothing has been sent.
Init ==
    /\ ep = [n \in Node |-> "up"]
    /\ hello = [n \in Node |-> TRUE]
    /\ open = Sock
    /\ flow = {}
    /\ pending = [p \in Sock |-> 0]
    /\ tx_failed = [p \in Sock |-> FALSE]
    /\ waiters = [p \in Sock |-> {}]
    /\ pc = [t \in Thread |-> "idle"]
    /\ dst = SockOf
    /\ nowait = [t \in Thread |-> FALSE]
    /\ confirm = [t \in Thread |-> FALSE]
    /\ locked = {}
    /\ link = [n \in Node |-> <<>>]
    /\ rx_queue = [n \in Node |-> <<>>]
    /\ sk_queue = [s \in Sock |-> <<>>]
    /\ rcv = [s \in Sock |-> "none"]
    /\ told = {}

-----------------------------------------------------------------------------
(* The confirmations of a flow *)

\* The flow p is at the processor its senders run on.
Origin(p) == Peer[Home[p]]

\* A confirmation is under way from the moment qrtr_tx_wait asks for it: with
\* a sender about to transmit it or to report that it could not, as tx_failed,
\* in a packet on its way or in the receiving socket, or as the RESUME_TX that
\* answers it.
Count(seq, e) == Cardinality({i \in DOMAIN seq : seq[i] = e})
ConfirmsCarried(p) ==
    (IF tx_failed[p] THEN 1 ELSE 0)
    + Cardinality({t \in Thread : pc[t] \in {"xmit", "failed"} /\ confirm[t] /\ dst[t] = p})
    + Count(link[Home[p]], Data(p, TRUE))
    + Count(sk_queue[p], TRUE)
    + (IF rcv[p] = "confirm" THEN 1 ELSE 0)
    + Count(link[Origin(p)], ResumeTx(p))
    + Count(rx_queue[Origin(p)], p)

\* A packet sent without a flow, or one delivered although it was reported
\* lost, adds a redundant confirmation.  The model adds none past MAXCONFIRM.
Room(p) == ConfirmsCarried(p) < MAXCONFIRM

-----------------------------------------------------------------------------
(* Sending: qrtr_sendmsg, qrtr_node_enqueue, qrtr_tx_wait *)

Goto(t, l) == pc' = [pc EXCEPT ![t] = l]
Stay(t, l) == Goto(t, l) /\ UNCHANGED <<dst, nowait, confirm, locked>>

\* qrtr_sendmsg returns: release_sock, and the locals are gone.
Return(t) ==
    /\ Goto(t, "idle")
    /\ locked' = locked \ {SockOf[t]}
    /\ dst' = [dst EXCEPT ![t] = SockOf[t]]
    /\ nowait' = [nowait EXCEPT ![t] = FALSE]
    /\ confirm' = [confirm EXCEPT ![t] = FALSE]

\* qrtr_sendmsg takes the socket lock, which it holds until it returns, and
\* qrtr_tx_wait looks the flow up or allocates it.  Without a flow the packet
\* goes out with confirm_rx set.
SendMsg(t, p, w) ==
    /\ pc[t] = "idle"
    /\ SockOf[t] \in open \ locked
    /\ Home[p] = Peer[At(t)]
    /\ hello[At(t)]
    /\ locked' = locked \cup {SockOf[t]}
    /\ dst' = [dst EXCEPT ![t] = p]
    /\ nowait' = [nowait EXCEPT ![t] = w]
    /\ \/ /\ flow' = flow \cup {p}
          /\ Goto(t, "loop")
          /\ UNCHANGED confirm
       \/ /\ "alloc" \in Faults /\ p \notin flow /\ Room(p)
          /\ confirm' = [confirm EXCEPT ![t] = TRUE]
          /\ Goto(t, "xmit")
          /\ UNCHANGED flow
    /\ UNCHANGED <<nodeVars, pending, tx_failed, waiters, link, rx_queue, rcvVars>>

\* One pass of the loop of qrtr_tx_wait, under qrtr_tx_lock: a failed confirm
\* is repeated, a packet is counted, a caller that will not sleep is listed
\* as a waiter (or not, when the entry cannot be allocated), or sleeps.
TakeOverConfirm(t, p) ==
    /\ tx_failed[p]
    /\ tx_failed' = [tx_failed EXCEPT ![p] = FALSE]
    /\ confirm' = [confirm EXCEPT ![t] = TRUE]
    /\ Goto(t, "xmit")
    /\ UNCHANGED <<pending, waiters, dst, nowait, locked>>

\* Mutant: the low watermark is taken for a threshold.
CountPacketEveryLow(t, p) ==
    /\ ~tx_failed[p] /\ pending[p] < HIGH
    /\ pending' = [pending EXCEPT ![p] = @ + 1]
    /\ confirm' = [confirm EXCEPT ![t] = (pending'[p] >= LOW)]
    /\ Goto(t, "xmit")
    /\ UNCHANGED <<tx_failed, waiters, dst, nowait, locked>>

\* Mutant: off by one at the high watermark.
CountPacketPastHigh(t, p) ==
    /\ ~tx_failed[p] /\ pending[p] <= HIGH
    /\ pending' = [pending EXCEPT ![p] = @ + 1]
    /\ confirm' = [confirm EXCEPT ![t] = (pending'[p] = LOW)]
    /\ Goto(t, "xmit")
    /\ UNCHANGED <<tx_failed, waiters, dst, nowait, locked>>

CountPacket(t, p) ==
    /\ ~tx_failed[p] /\ pending[p] < HIGH
    /\ pending' = [pending EXCEPT ![p] = @ + 1]
    /\ confirm' = [confirm EXCEPT ![t] = (pending'[p] = LOW)]
    /\ Goto(t, "xmit")
    /\ UNCHANGED <<tx_failed, waiters, dst, nowait, locked>>

AddWaiter(t, p) ==
    /\ ~tx_failed[p] /\ pending[p] >= HIGH /\ nowait[t]
    /\ \/ waiters' = [waiters EXCEPT ![p] = @ \cup {SockOf[t]}]
       \/ "alloc" \in Faults /\ UNCHANGED waiters
    /\ Return(t)
    /\ UNCHANGED <<pending, tx_failed>>

StartWait(t, p) ==
    /\ ~tx_failed[p] /\ pending[p] >= HIGH /\ ~nowait[t]
    /\ Stay(t, "check")
    /\ UNCHANGED <<pending, tx_failed, waiters>>

TxWait(t) ==
    /\ pc[t] = "loop"
    /\ \/ TakeOverConfirm(t, dst[t])
       \/ CountPacket(t, dst[t])
       \/ AddWaiter(t, dst[t])
       \/ StartWait(t, dst[t])
    /\ UNCHANGED <<nodeVars, flow, link, rx_queue, rcvVars>>

\* The condition of wait_event_interruptible_timeout, read without the lock.
WakeCondition(t) ==
    \/ ep[At(t)] # "up"
    \/ tx_failed[dst[t]]
    \/ pending[dst[t]] < HIGH

\* After the wait: -EPIPE when the endpoint is gone, else once more round the
\* loop.
LeaveWait(t) == IF ep[At(t)] # "up" THEN Return(t) ELSE Stay(t, "loop")

\* Mutant: the waiter sleeps without testing the condition again.
WaitEventBlind(t) ==
    /\ pc[t] = "check"
    /\ Stay(t, "asleep")
    /\ UNCHANGED <<nodeVars, flowVars, link, rx_queue, rcvVars>>

\* The waiter, already on the wait queue, evaluates the condition and sleeps
\* if it is false.
WaitEvent(t) ==
    /\ pc[t] = "check"
    /\ IF WakeCondition(t) THEN LeaveWait(t) ELSE Stay(t, "asleep")
    /\ UNCHANGED <<nodeVars, flowVars, link, rx_queue, rcvVars>>

\* The send timeout expires.  With the condition still false ret becomes 0
\* and the loop is passed once more without sleeping.
WaitTimeout(t) ==
    /\ "timeout" \in Faults /\ pc[t] = "asleep"
    /\ IF WakeCondition(t)
       THEN LeaveWait(t)
       ELSE /\ Goto(t, "loop")
            /\ nowait' = [nowait EXCEPT ![t] = TRUE]
            /\ UNCHANGED <<dst, confirm, locked>>
    /\ UNCHANGED <<nodeVars, flowVars, link, rx_queue, rcvVars>>

\* A signal ends the wait with an error unless the condition holds by now.
WaitSignal(t) ==
    /\ "signal" \in Faults /\ pc[t] = "asleep"
    /\ IF WakeCondition(t) THEN LeaveWait(t) ELSE Return(t)
    /\ UNCHANGED <<nodeVars, flowVars, link, rx_queue, rcvVars>>

\* The tail of qrtr_node_enqueue, under ep_lock.  Without an endpoint the
\* packet is freed and the call succeeds.
Queue(t) == link' = [link EXCEPT ![Peer[At(t)]] = Append(@, Data(dst[t], confirm[t]))]

Xmit(t) ==
    /\ pc[t] = "xmit"
    /\ IF ep[At(t)] = "up" THEN Queue(t) ELSE UNCHANGED link
    /\ Return(t)
    /\ UNCHANGED <<nodeVars, flowVars, rx_queue, rcvVars>>

\* The transport reports an error.  It may deliver the packet all the same,
\* as the MHI transport does when it times out on the completion (the fault
\* "late").
XmitFails(t) ==
    /\ pc[t] = "xmit" /\ ep[At(t)] = "up"
    /\ \/ "xmit" \in Faults /\ UNCHANGED link
       \/ "late" \in Faults /\ (confirm[t] => Room(dst[t])) /\ Queue(t)
    /\ IF confirm[t] THEN Stay(t, "failed") ELSE Return(t)
    /\ UNCHANGED <<nodeVars, flowVars, rx_queue, rcvVars>>

\* Mutant: the failure is not recorded.
TxFlowFailedForgotten(t) ==
    /\ pc[t] = "failed"
    /\ Return(t)
    /\ UNCHANGED <<nodeVars, flowVars, link, rx_queue, rcvVars>>

\* qrtr_tx_flow_failed: under qrtr_tx_lock, without waking anybody.
TxFlowFailed(t) ==
    /\ pc[t] = "failed"
    /\ tx_failed' = [tx_failed EXCEPT ![dst[t]] = @ \/ dst[t] \in flow]
    /\ Return(t)
    /\ UNCHANGED <<nodeVars, flow, pending, waiters, link, rx_queue, rcvVars>>
-----------------------------------------------------------------------------
(* Receiving: qrtr_endpoint_post, qrtr_node_rx_work, qrtr_recvmsg *)

\* qrtr_endpoint_post: DATA goes to the socket at once and is freed when the
\* port is gone or sock_queue_rcv_skb refuses it (the fault "rcvbuf");
\* RESUME_TX goes to the worker.
EndpointPost(n) ==
    /\ link[n] # <<>> /\ ep[n] = "up"
    /\ LET pkt == Head(link[n])
       IN \/ /\ pkt.type = "DATA" /\ pkt.port \in open
             /\ sk_queue' = [sk_queue EXCEPT ![pkt.port] = Append(@, pkt.confirm_rx)]
             /\ UNCHANGED rx_queue
          \/ /\ pkt.type = "DATA"
             /\ pkt.port \notin open \/ "rcvbuf" \in Faults
             /\ UNCHANGED <<sk_queue, rx_queue>>
          \/ /\ pkt.type = "RESUME_TX"
             /\ rx_queue' = [rx_queue EXCEPT ![n] = Append(@, pkt.port)]
             /\ UNCHANGED sk_queue
    /\ link' = [link EXCEPT ![n] = Tail(@)]
    /\ UNCHANGED <<nodeVars, flowVars, sendVars, rcv, told>>

\* Mutant: the sleepers are not woken.
WokenNobody(n) == pc

\* Every sleeper on node->resume_tx, whatever its flow.
Woken(n) == [t \in Thread |-> IF pc[t] = "asleep" /\ At(t) = n
                              THEN "check" ELSE pc[t]]

\* Mutant: the notices are sent but the list of waiters is kept.
NotifyWaitersKept(p) ==
    /\ told' = told \cup (waiters[p] \cap open)
    /\ UNCHANGED waiters

\* Mutant: the list of waiters is dropped without notices.
NotifyWaitersSilent(p) ==
    /\ waiters' = [waiters EXCEPT ![p] = {}]
    /\ UNCHANGED told

\* Each waiter is taken off the list and sent a RESUME_TX of its own, which is
\* lost when it cannot be allocated or queued.
NotifyWaiters(p) ==
    /\ waiters' = [waiters EXCEPT ![p] = {}]
    /\ \E lost \in SUBSET waiters[p] :
          /\ lost = {} \/ Faults \cap {"alloc", "rcvbuf"} # {}
          /\ told' = told \cup ((waiters[p] \cap open) \ lost)

\* Mutant: the receiver gives back a window of credit.
ResetPendingByWindow(p) == pending' = [pending EXCEPT ![p] = @ - HIGH]

ResetPending(p) == pending' = [pending EXCEPT ![p] = 0]

\* qrtr_node_rx_work handing one RESUME_TX to qrtr_tx_resume, under
\* qrtr_tx_lock.
TxResume(n) ==
    /\ rx_queue[n] # <<>>
    /\ LET p == Head(rx_queue[n])
       IN IF p \in flow
          THEN ResetPending(p) /\ pc' = Woken(n) /\ NotifyWaiters(p)
          ELSE UNCHANGED <<pending, pc, waiters, told>>
    /\ rx_queue' = [rx_queue EXCEPT ![n] = Tail(@)]
    /\ UNCHANGED <<nodeVars, flow, tx_failed, dst, nowait, confirm, locked, link,
                   sk_queue, rcv>>

\* qrtr_recvmsg: skb_recv_datagram takes the packet without the socket lock ...
RecvDequeue(s) ==
    /\ s \in open /\ rcv[s] = "none" /\ sk_queue[s] # <<>>
    /\ rcv' = [rcv EXCEPT ![s] = IF Head(sk_queue[s]) THEN "confirm" ELSE "plain"]
    /\ sk_queue' = [sk_queue EXCEPT ![s] = Tail(@)]
    /\ UNCHANGED <<nodeVars, flowVars, sendVars, link, rx_queue, told>>

\* ... and then, with the lock, copies it out and answers a confirm_rx.
\* qrtr_node_enqueue refuses the answer before hello, frees it without an
\* endpoint, and the transport may fail; the caller ignores the result.
RecvMsg(s) ==
    /\ rcv[s] # "none" /\ s \notin locked
    /\ rcv' = [rcv EXCEPT ![s] = "none"]
    /\ \/ /\ rcv[s] = "confirm" /\ hello[Home[s]] /\ ep[Home[s]] = "up"
          /\ link' = [link EXCEPT ![Peer[Home[s]]] = Append(@, ResumeTx(s))]
       \/ /\ \/ rcv[s] = "plain"
             \/ ~hello[Home[s]]
             \/ ep[Home[s]] # "up"
             \/ "resume_xmit" \in Faults
          /\ UNCHANGED link
    /\ UNCHANGED <<nodeVars, flowVars, sendVars, rx_queue, sk_queue, told>>

\* qrtr_recvmsg of the RESUME_TX a former waiter was sent.
RecvResume(s) ==
    /\ s \in told /\ s \in open \ locked
    /\ told' = told \ {s}
    /\ UNCHANGED <<nodeVars, flowVars, sendVars, link, rx_queue, sk_queue, rcv>>

-----------------------------------------------------------------------------
(* What happens to the node and to sockets meanwhile *)

\* qrtr_endpoint_unregister clears node->ep, the transport being gone ...
Unregister(n) ==
    /\ "unregister" \in Faults /\ ep[n] = "up"
    /\ ep' = [ep EXCEPT ![n] = "closing"]
    /\ link' = [link EXCEPT ![n] = <<>>]
    /\ UNCHANGED <<hello, open, flowVars, sendVars, rx_queue, rcvVars>>

\* ... and later wakes all transmitters.
UnregisterWake(n) ==
    /\ ep[n] = "closing"
    /\ ep' = [ep EXCEPT ![n] = "gone"]
    /\ pc' = Woken(n)
    /\ UNCHANGED <<hello, open, flowVars, dst, nowait, confirm, locked, link,
                   rx_queue, rcvVars>>

\* A new name service binds the control port: __qrtr_bind clears hello_sent
\* until the next HELLO goes out (qrtr_hello_work, or the broadcast of the
\* name service).
CtrlPortBind(n) ==
    /\ "ns_restart" \in Faults /\ hello[n]
    /\ hello' = [hello EXCEPT ![n] = FALSE]
    /\ UNCHANGED <<ep, open, flowVars, sendVars, link, rx_queue, rcvVars>>

SayHello(n) ==
    /\ ~hello[n]
    /\ hello' = [hello EXCEPT ![n] = TRUE]
    /\ UNCHANGED <<ep, open, flowVars, sendVars, link, rx_queue, rcvVars>>

\* qrtr_release: the port is removed and the receive queue purged.
Release(s) ==
    /\ "close" \in Faults /\ s \in open \ locked /\ rcv[s] = "none"
    /\ open' = open \ {s}
    /\ sk_queue' = [sk_queue EXCEPT ![s] = <<>>]
    /\ told' = told \ {s}
    /\ UNCHANGED <<ep, hello, flowVars, sendVars, link, rx_queue, rcv>>

Next ==
    \/ \E t \in Thread :
          \/ \E p \in Sock, w \in Modes : SendMsg(t, p, w)
          \/ TxWait(t) \/ WaitEvent(t) \/ WaitTimeout(t) \/ WaitSignal(t)
          \/ Xmit(t) \/ XmitFails(t) \/ TxFlowFailed(t)
    \/ \E n \in Node :
          \/ EndpointPost(n) \/ TxResume(n)
          \/ Unregister(n) \/ UnregisterWake(n) \/ CtrlPortBind(n) \/ SayHello(n)
    \/ \E s \in Sock : RecvDequeue(s) \/ RecvMsg(s) \/ RecvResume(s) \/ Release(s)

Spec == Init /\ [][Next]_vars

\* A thread inside sendmsg, the transport, the receive worker and a reading
\* application keep running, and a transport that is tried again and again
\* does not fail for ever; nobody has to send.
Fairness ==
    /\ \A t \in Thread : WF_vars(TxWait(t) \/ WaitEvent(t) \/ TxFlowFailed(t))
                         /\ SF_vars(Xmit(t))
    /\ \A n \in Node : WF_vars(EndpointPost(n)) /\ WF_vars(TxResume(n))
                       /\ WF_vars(UnregisterWake(n)) /\ WF_vars(SayHello(n))
    /\ \A s \in Sock : WF_vars(RecvDequeue(s)) /\ WF_vars(RecvMsg(s))

FairSpec == Spec /\ Fairness

-----------------------------------------------------------------------------
(* Properties *)

\* Some confirmation of flow p is under way.
Has(seq, e) == \E i \in 1..Len(seq) : seq[i] = e
ConfirmCarried(p) ==
    \/ tx_failed[p]
    \/ \E t \in Thread : pc[t] \in {"xmit", "failed"} /\ confirm[t] /\ dst[t] = p
    \/ Has(link[Home[p]], Data(p, TRUE))
    \/ Has(sk_queue[p], TRUE)
    \/ rcv[p] = "confirm"
    \/ Has(link[Origin(p)], ResumeTx(p))
    \/ Has(rx_queue[Origin(p)], p)

LinkUp(p) == ep[Home[p]] = "up" /\ ep[Origin(p)] = "up"

\* However many threads send, the packets counted against a flow never pass
\* the high watermark of qrtr_tx_wait.
PendingWithinHigh == \A p \in Sock : pending[p] <= HIGH

\* While the link is up, a flow past the low watermark always has a confirm_rx
\* or its RESUME_TX under way, so a flow that stops at HIGH can be resumed:
\* qrtr_tx_wait sets the flag, qrtr_tx_flow_failed preserves it when a
\* transmission fails, qrtr_recvmsg answers it.
ConfirmNotLost == \A p \in Sock : LinkUp(p) /\ pending[p] >= LOW => ConfirmCarried(p)

\* Sockets that were told -EAGAIN are on a flow that is paused, whose resume
\* will notify them: none is left behind by a qrtr_tx_resume it raced with.
WaitersOnlyWhenPaused == \A p \in Sock : waiters[p] # {} => pending[p] = HIGH

\* No wake-up is lost between the test of the wait condition and the sleep:
\* whoever sleeps in qrtr_tx_wait waits for a flow that is still paused, on a
\* node whose unregistration has not yet woken its transmitters.
NoLostWakeup ==
    \A t \in Thread : pc[t] = "asleep" => pending[dst[t]] = HIGH /\ ep[At(t)] # "gone"

\* What flow control is for: the packets queued on a receiving socket are
\* bounded by one window, the part of the previous one behind its confirm_rx,
\* and one packet for every sender that was overtaken between qrtr_tx_wait and
\* the transport.
RxWindow == HIGH + (HIGH - LOW) + (Cardinality(Thread) - 1)
RxQueueBounded == \A p \in Sock : Len(sk_queue[p]) <= RxWindow

\* A flow never has two confirmations under way, and none below the low
\* watermark, whatever is lost: a second RESUME_TX would reset the count of
\* packets still queued and let the sender overrun the receiver.
AtMostOneConfirm ==
    \A p \in Sock : LinkUp(p) =>
        ConfirmsCarried(p) <= IF pending[p] >= LOW THEN 1 ELSE 0

\* A sender asleep in qrtr_tx_wait is woken in the end.
SleeperWoken == \A t \in Thread : pc[t] = "asleep" ~> pc[t] # "asleep"

\* A socket that was told -EAGAIN is told when it may retry.
WaiterTold ==
    \A s \in Sock : \A p \in {q \in Sock : Origin(q) = Home[s]} :
        s \in waiters[p] ~> s \in told

=============================================================================
