--------------------------- MODULE QrtrFlowProofs ---------------------------
(***************************************************************************)
(* Proofs about QrtrFlow, for any number of processors, sockets and        *)
(* threads, any watermarks 0 < LOW < HIGH and any set of faults, and the   *)
(* arithmetic of one flow that QrtrWindowProofs rests on.                  *)
(***************************************************************************)
EXTENDS QrtrFlow, Integers, TLAPS

-----------------------------------------------------------------------------
(* What is used of the assumptions on the constants *)

\* A thread sends from a socket.
LEMMA SockOfType == \A t \in Thread : SockOf[t] \in Sock
  BY FlowAssumption

\* A socket, its senders and a thread are on processors joined by the link.
LEMMA PlaceType ==
    /\ \A s \in Sock : Home[s] \in Node /\ Origin(s) \in Node
    /\ \A t \in Thread : At(t) \in Node /\ Peer[At(t)] \in Node
    /\ \A n \in Node : Peer[n] \in Node /\ Peer[n] # n /\ Peer[Peer[n]] = n
  BY FlowAssumption DEF Origin, At

\* The watermarks of qrtr_tx_wait are ordered.
LEMMA Watermarks == LOW \in Nat /\ HIGH \in Nat /\ 0 < LOW /\ LOW < HIGH
  BY FlowAssumption

\* A packet put at the end of a queue keeps the queue's type.
LEMMA AppendType == ASSUME NEW S, NEW q \in Seq(S), NEW x \in S PROVE Append(q, x) \in Seq(S)
  OBVIOUS

\* The packet at the head of a queue, and the queue without it.
LEMMA HeadType ==
    ASSUME NEW S, NEW q \in Seq(S), q # <<>> PROVE Head(q) \in S /\ Tail(q) \in Seq(S)
  OBVIOUS

-----------------------------------------------------------------------------
(* Type correctness *)

\* The state of QrtrFlow keeps its types: in particular the counters
\* qrtr_tx_wait increments and qrtr_tx_resume resets stay natural numbers.
THEOREM TypeCorrect == Spec => []TypeOK
<1>1. Init => TypeOK
  BY FlowAssumption DEF Init, TypeOK, PCs
<1>2. TypeOK /\ [Next]_vars => TypeOK'
  <2> SUFFICES ASSUME TypeOK, [Next]_vars PROVE TypeOK'
    OBVIOUS
  <2> USE SockOfType DEF nodeVars, flowVars, sendVars, rcvVars, PCs, Goto, Stay, Return
  <2>1. ASSUME NEW t \in Thread, NEW p \in Sock, NEW w \in Modes, SendMsg(t, p, w)
        PROVE  TypeOK'
    <3>1. w \in BOOLEAN
      BY FlowAssumption
    <3>2. QED
      BY Zenon, <2>1, <3>1 DEF TypeOK, SendMsg
  <2>2. ASSUME NEW t \in Thread, TxWait(t) PROVE TypeOK'
    <3>1. CASE TakeOverConfirm(t, dst[t])
      BY <2>2, <3>1 DEF TypeOK, TxWait, TakeOverConfirm
    <3>2. CASE CountPacket(t, dst[t])
      BY <2>2, <3>2 DEF TypeOK, TxWait, CountPacket
    <3>3. CASE AddWaiter(t, dst[t])
      <4>1. waiters' \in [Sock -> SUBSET Sock]
        <5>1. [waiters EXCEPT ![dst[t]] = @ \cup {SockOf[t]}] \in [Sock -> SUBSET Sock]
          BY SMTT(30) DEF TypeOK
        <5>2. QED
          BY Zenon, <3>3, <5>1 DEF TypeOK, AddWaiter
      <4>2. QED
        BY <2>2, <3>3, <4>1 DEF TypeOK, TxWait, AddWaiter
    <3>4. CASE StartWait(t, dst[t])
      BY <2>2, <3>4 DEF TypeOK, TxWait, StartWait
    <3>5. QED
      BY <2>2, <3>1, <3>2, <3>3, <3>4 DEF TxWait
  <2>3. ASSUME NEW t \in Thread, WaitEvent(t) PROVE TypeOK'
    BY ZenonT(40), <2>3 DEF TypeOK, WaitEvent, LeaveWait
  <2>4. ASSUME NEW t \in Thread, WaitTimeout(t) PROVE TypeOK'
    BY ZenonT(40), <2>4 DEF TypeOK, WaitTimeout, LeaveWait
  <2>5. ASSUME NEW t \in Thread, WaitSignal(t) PROVE TypeOK'
    BY ZenonT(40), <2>5 DEF TypeOK, WaitSignal, LeaveWait
  <2>6. ASSUME NEW t \in Thread, Xmit(t) \/ XmitFails(t) PROVE TypeOK'
    <3>1. Data(dst[t], confirm[t]) \in Packet
      BY DEF TypeOK, Packet, Data
    <3>2. \A n \in Node : Append(link[n], Data(dst[t], confirm[t])) \in Seq(Packet)
      BY <3>1 DEF TypeOK
    <3> DEFINE q == [link EXCEPT ![Peer[At(t)]] = Append(@, Data(dst[t], confirm[t]))]
    <3>a. q \in [Node -> Seq(Packet)]
      BY Zenon, <3>2 DEF TypeOK
    <3>3. link' \in [Node -> Seq(Packet)]
      BY Zenon, <2>6, <3>a DEF TypeOK, Xmit, XmitFails, Queue
    <3>4. QED
      BY Zenon, <2>6, <3>3 DEF TypeOK, Xmit, XmitFails
  <2>7. ASSUME NEW t \in Thread, TxFlowFailed(t) PROVE TypeOK'
    BY <2>7 DEF TypeOK, TxFlowFailed
  <2>8. ASSUME NEW n \in Node, EndpointPost(n) PROVE TypeOK'
    <3>1. Head(link[n]) \in Packet
      BY <2>8 DEF TypeOK, EndpointPost
    <3>2. /\ Head(link[n]).port \in Sock
          /\ Head(link[n]).confirm_rx \in BOOLEAN
      BY <3>1 DEF Packet
    <3>3. /\ Tail(link[n]) \in Seq(Packet)
          /\ Append(rx_queue[n], Head(link[n]).port) \in Seq(Sock)
          /\ Append(sk_queue[Head(link[n]).port], Head(link[n]).confirm_rx) \in Seq(BOOLEAN)
      <4>1. /\ link[n] \in Seq(Packet) /\ link[n] # <<>> /\ rx_queue[n] \in Seq(Sock)
            /\ sk_queue[Head(link[n]).port] \in Seq(BOOLEAN)
        BY Zenon, <2>8, <3>2 DEF TypeOK, EndpointPost
      <4>2. QED
        BY Zenon, <3>2, <4>1, AppendType, HeadType
    <3>4. link' \in [Node -> Seq(Packet)]
      BY <2>8, <3>3 DEF TypeOK, EndpointPost
    <3>5. rx_queue' \in [Node -> Seq(Sock)]
      BY Zenon, <2>8, <3>3 DEF TypeOK, EndpointPost
    <3>6. sk_queue' \in [Sock -> Seq(BOOLEAN)]
      BY Zenon, <2>8, <3>2, <3>3 DEF TypeOK, EndpointPost
    <3>7. QED
      BY Zenon, <2>8, <3>4, <3>5, <3>6 DEF TypeOK, EndpointPost
  <2>9. ASSUME NEW n \in Node, TxResume(n) PROVE TypeOK'
    <3>1. /\ Head(rx_queue[n]) \in Sock
          /\ Tail(rx_queue[n]) \in Seq(Sock)
      BY <2>9 DEF TypeOK, TxResume
    <3>2. rx_queue' \in [Node -> Seq(Sock)]
      BY <2>9, <3>1 DEF TypeOK, TxResume
    <3>3. pending' \in [Sock -> Nat]
      <4>1. [pending EXCEPT ![Head(rx_queue[n])] = 0] \in [Sock -> Nat]
        BY <3>1 DEF TypeOK
      <4>2. QED
        BY Zenon, <2>9, <4>1 DEF TypeOK, TxResume, ResetPending
    <3>a. pc' \in [Thread -> PCs]
      BY <2>9 DEF TypeOK, TxResume, Woken
    <3>4. waiters' \in [Sock -> SUBSET Sock] /\ told' \in SUBSET Sock
      BY Zenon, <2>9, <3>1 DEF TypeOK, TxResume, NotifyWaiters
    <3>5. QED
      BY Zenon, <2>9, <3>2, <3>3, <3>a, <3>4 DEF TypeOK, TxResume
  <2>10. ASSUME NEW n \in Node,
                Unregister(n) \/ UnregisterWake(n) \/ CtrlPortBind(n) \/ SayHello(n)
         PROVE  TypeOK'
    <3>1. ep' \in [Node -> {"up", "closing", "gone"}] /\ hello' \in [Node -> BOOLEAN]
      BY Zenon, <2>10 DEF TypeOK, Unregister, UnregisterWake, CtrlPortBind, SayHello
    <3>2. <<>> \in Seq(Packet)
      OBVIOUS
    <3>3. link' \in [Node -> Seq(Packet)]
      BY Zenon, <2>10, <3>2 DEF TypeOK, Unregister, UnregisterWake, CtrlPortBind, SayHello
    <3>4. pc' \in [Thread -> PCs]
      BY <2>10 DEF TypeOK, Unregister, UnregisterWake, CtrlPortBind, SayHello, Woken
    <3>5. QED
      BY <2>10, <3>1, <3>3, <3>4
      DEF TypeOK, Unregister, UnregisterWake, CtrlPortBind, SayHello
  <2>11. ASSUME NEW s \in Sock, RecvMsg(s) PROVE TypeOK'
    <3>1. ResumeTx(s) \in Packet
      BY DEF Packet, ResumeTx
    <3>2. \A n \in Node : Append(link[n], ResumeTx(s)) \in Seq(Packet)
      BY <3>1 DEF TypeOK
    <3> DEFINE q == [link EXCEPT ![Peer[Home[s]]] = Append(@, ResumeTx(s))]
    <3>a. q \in [Node -> Seq(Packet)]
      BY Zenon, <3>2 DEF TypeOK
    <3>3. link' \in [Node -> Seq(Packet)]
      BY Zenon, <2>11, <3>a DEF TypeOK, RecvMsg
    <3>4. QED
      BY <2>11, <3>3 DEF TypeOK, RecvMsg
  <2>12. ASSUME NEW s \in Sock, RecvDequeue(s) \/ RecvResume(s) \/ Release(s)
         PROVE  TypeOK'
    <3>1. <<>> \in Seq(BOOLEAN)
      OBVIOUS
    <3>2. sk_queue[s] # <<>> => Tail(sk_queue[s]) \in Seq(BOOLEAN)
      BY DEF TypeOK
    <3>3. sk_queue' \in [Sock -> Seq(BOOLEAN)]
      <4>1. \/ sk_queue' = sk_queue
            \/ sk_queue[s] # <<>> /\ sk_queue' = [sk_queue EXCEPT ![s] = Tail(sk_queue[s])]
            \/ sk_queue' = [sk_queue EXCEPT ![s] = <<>>]
        BY Zenon, <2>12 DEF RecvDequeue, RecvResume, Release
      <4>2. sk_queue \in [Sock -> Seq(BOOLEAN)]
        BY Zenon DEF TypeOK
      <4>3. QED
        BY ZenonT(40), <3>1, <3>2, <4>1, <4>2
    <3>4. rcv' \in [Sock -> {"none", "plain", "confirm"}]
      BY ZenonT(40), <2>12 DEF TypeOK, RecvDequeue, RecvResume, Release
    <3>5. QED
      BY ZenonT(40), <2>12, <3>3, <3>4 DEF TypeOK, RecvDequeue, RecvResume, Release
  <2>13. CASE UNCHANGED vars
    BY <2>13 DEF TypeOK, vars
  <2>14. QED
    BY <2>1, <2>2, <2>3, <2>4, <2>5, <2>6, <2>7, <2>8, <2>9, <2>10, <2>11,
       <2>12, <2>13 DEF Next
<1>3. QED
  BY <1>1, <1>2, PTL DEF Spec

-----------------------------------------------------------------------------
(* Packets and threads are where their flow is *)

FlowsOf(n) == {p \in Sock : Origin(p) = n}
LinkTo(n) == {m \in Packet : /\ m.type = "RESUME_TX" => Origin(m.port) = n
                             /\ m.type = "DATA" => Home[m.port] = n}

Routed ==
    /\ \A t \in Thread : pc[t] # "idle" => Origin(dst[t]) = At(t)
    /\ \A n \in Node : link[n] \in Seq(LinkTo(n)) /\ rx_queue[n] \in Seq(FlowsOf(n))

\* No step puts a packet, a sleeper or a confirmation with the wrong flow.
LEMMA RoutedStep == TypeOK /\ Routed /\ [Next]_vars => Routed'
<1> SUFFICES ASSUME TypeOK, Routed, [Next]_vars PROVE Routed'
  OBVIOUS
<1> USE DEF nodeVars, flowVars, sendVars, rcvVars, Goto, Stay, Return
<1> DEFINE Threads == \A t \in Thread : pc[t] # "idle" => Origin(dst[t]) = At(t)
           Links == \A n \in Node : link[n] \in Seq(LinkTo(n)) /\ rx_queue[n] \in Seq(FlowsOf(n))
<1>0. Threads /\ Links
  BY DEF Routed
<1>a. ASSUME Threads', Links' PROVE Routed'
  BY <1>a DEF Routed
<1>b. ASSUME pc' = pc, dst' = dst PROVE Threads'
  BY <1>b, <1>0 DEF Origin, At
<1>c. ASSUME link' = link, rx_queue' = rx_queue PROVE Links'
  BY Zenon, <1>c, <1>0 DEF LinkTo, FlowsOf, Origin
<1>1. ASSUME NEW t \in Thread, NEW p \in Sock, NEW w \in Modes, SendMsg(t, p, w)
      PROVE  Routed'
  <2>1. Origin(p) = At(t)
    BY <1>1, PlaceType DEF SendMsg, Origin
  <2>2. Threads'
    BY <1>1, <1>0, <2>1 DEF SendMsg, TypeOK, Origin, At
  <2>3. Links'
    BY <1>1, <1>c DEF SendMsg
  <2>4. QED
    BY <1>a, <2>2, <2>3
<1>2. ASSUME NEW t \in Thread, TxWait(t) PROVE Routed'
  <2>1. Threads'
    BY <1>2, <1>0 DEF TypeOK, TxWait, TakeOverConfirm, CountPacket, AddWaiter, StartWait, Origin, At
  <2>2. Links'
    BY <1>2, <1>c DEF TxWait
  <2>3. QED
    BY <1>a, <2>1, <2>2
<1>3. ASSUME NEW t \in Thread, WaitEvent(t) \/ WaitTimeout(t) \/ WaitSignal(t) \/ TxFlowFailed(t)
      PROVE  Routed'
  <2>1. Threads'
    BY ZenonT(60), <1>3, <1>0 DEF TypeOK, WaitEvent, WaitTimeout, WaitSignal, TxFlowFailed, LeaveWait, Origin, At
  <2>2. Links'
    BY Zenon, <1>3, <1>c DEF WaitEvent, WaitTimeout, WaitSignal, TxFlowFailed
  <2>3. QED
    BY <1>a, <2>1, <2>2
<1>4. ASSUME NEW t \in Thread, Xmit(t) \/ XmitFails(t) PROVE Routed'
  <2>1. Threads'
    BY <1>4, <1>0, ZenonT(60) DEF TypeOK, Xmit, XmitFails, Origin, At
  <2>2. Data(dst[t], confirm[t]) \in LinkTo(Peer[At(t)])
    <3>1. Data(dst[t], confirm[t]) \in Packet
      BY DEF TypeOK, Data, Packet
    <3>2. dst[t] \in Sock /\ Origin(dst[t]) = At(t)
      BY <1>4, <1>0 DEF TypeOK, Xmit, XmitFails
    <3>3. Home[dst[t]] = Peer[At(t)]
      BY <3>2, PlaceType DEF Origin
    <3>4. QED
      BY <3>1, <3>3 DEF Data, LinkTo
  <2>3. Append(link[Peer[At(t)]], Data(dst[t], confirm[t])) \in Seq(LinkTo(Peer[At(t)]))
    <3>1. link[Peer[At(t)]] \in Seq(LinkTo(Peer[At(t)]))
      BY <1>0, PlaceType
    <3>2. QED
      BY Zenon, <2>2, <3>1, AppendType
  <2>4. \A n \in Node : link'[n] \in Seq(LinkTo(n))
    BY Zenon, <1>4, <1>0, <2>3 DEF TypeOK, Xmit, XmitFails, Queue
  <2>5. Links'
    BY Zenon, <1>4, <1>0, <2>4 DEF Xmit, XmitFails, LinkTo, FlowsOf, Origin
  <2>6. QED
    BY <1>a, <2>1, <2>5
<1>5. ASSUME NEW n \in Node, EndpointPost(n) PROVE Routed'
  <2>1. Head(link[n]) \in LinkTo(n) /\ Tail(link[n]) \in Seq(LinkTo(n))
    <3>1. link[n] # <<>> /\ link[n] \in Seq(LinkTo(n))
      BY Zenon, <1>5, <1>0 DEF EndpointPost
    <3>2. QED
      BY <3>1
  <2>2. Head(link[n]).type = "RESUME_TX"
          => Append(rx_queue[n], Head(link[n]).port) \in Seq(FlowsOf(n))
    <3>1. Head(link[n]).type = "RESUME_TX" => Head(link[n]).port \in FlowsOf(n)
      BY <2>1 DEF LinkTo, FlowsOf, Packet
    <3>2. QED
      BY <1>0, <3>1
  <2>3. \A k \in Node : link'[k] \in Seq(LinkTo(k))
    BY <1>5, <1>0, <2>1 DEF TypeOK, EndpointPost
  <2>4. \A k \in Node : rx_queue'[k] \in Seq(FlowsOf(k))
    BY Zenon, <1>5, <1>0, <2>2 DEF TypeOK, EndpointPost
  <2>5. Links'
    BY <2>3, <2>4 DEF LinkTo, FlowsOf, Origin
  <2>6. QED
    BY Zenon, <1>5, <1>a, <1>b, <2>5 DEF EndpointPost
<1>6. ASSUME NEW n \in Node, TxResume(n) PROVE Routed'
  <2>1. Threads'
    BY <1>6, <1>0 DEF TypeOK, TxResume, Woken, Origin, At
  <2>2. Tail(rx_queue[n]) \in Seq(FlowsOf(n))
    BY <1>6, <1>0 DEF TxResume
  <2>3. \A k \in Node : rx_queue'[k] \in Seq(FlowsOf(k))
    BY <1>6, <1>0, <2>2 DEF TypeOK, TxResume
  <2>4. Links'
    BY Zenon, <1>6, <1>0, <2>3 DEF TxResume, LinkTo, FlowsOf, Origin
  <2>5. QED
    BY <1>a, <2>1, <2>4
<1>7. ASSUME NEW n \in Node,
             Unregister(n) \/ UnregisterWake(n) \/ CtrlPortBind(n) \/ SayHello(n)
      PROVE  Routed'
  <2>1. Threads'
    BY Zenon, <1>7, <1>0 DEF TypeOK, Unregister, UnregisterWake, CtrlPortBind, SayHello, Woken, Origin, At
  <2>2. <<>> \in Seq(LinkTo(n))
    OBVIOUS
  <2>3. \A k \in Node : link'[k] \in Seq(LinkTo(k))
    BY Zenon, <1>7, <1>0, <2>2 DEF TypeOK, Unregister, UnregisterWake, CtrlPortBind, SayHello
  <2>4. Links'
    BY Zenon, <1>7, <1>0, <2>3 DEF Unregister, UnregisterWake, CtrlPortBind, SayHello,
                            LinkTo, FlowsOf, Origin
  <2>5. QED
    BY <1>a, <2>1, <2>4
<1>8. ASSUME NEW s \in Sock, RecvMsg(s) PROVE Routed'
  <2>1. ResumeTx(s) \in LinkTo(Origin(s))
    BY DEF LinkTo, ResumeTx, Packet
  <2>2. Append(link[Origin(s)], ResumeTx(s)) \in Seq(LinkTo(Origin(s)))
    <3>1. link[Origin(s)] \in Seq(LinkTo(Origin(s)))
      BY <1>0, PlaceType
    <3>2. QED
      BY <2>1, <3>1
  <2>3. \A k \in Node : link'[k] \in Seq(LinkTo(k))
    BY Zenon, <1>8, <1>0, <2>2 DEF TypeOK, RecvMsg, Origin
  <2>4. Links'
    BY Zenon, <1>8, <1>0, <2>3 DEF RecvMsg, LinkTo, FlowsOf, Origin
  <2>5. QED
    BY <1>8, <1>a, <1>b, <2>4 DEF RecvMsg
<1>9. ASSUME NEW s \in Sock, RecvDequeue(s) \/ RecvResume(s) \/ Release(s) PROVE Routed'
  BY Zenon, <1>9, <1>a, <1>b, <1>c DEF RecvDequeue, RecvResume, Release
<1>10. CASE UNCHANGED vars
  BY <1>10, <1>a, <1>b, <1>c DEF vars
<1>11. QED
  BY <1>1, <1>2, <1>3, <1>4, <1>5, <1>6, <1>7, <1>8, <1>9, <1>10 DEF Next

\* Packets stay on the link that leads to their flow's end.
LEMMA RoutedInvariant == Spec => []Routed
<1>1. Init => Routed
  <2> SUFFICES ASSUME Init PROVE Routed
    OBVIOUS
  <2>1. \A n \in Node : <<>> \in Seq(LinkTo(n)) /\ <<>> \in Seq(FlowsOf(n))
    OBVIOUS
  <2>2. QED
    BY <2>1 DEF Init, Routed
<1>2. QED
  BY <1>1, RoutedStep, TypeCorrect, PTL DEF Spec

-----------------------------------------------------------------------------
(* Nobody waits for a flow that is not paused *)

WaitInv == PendingWithinHigh /\ WaitersOnlyWhenPaused /\ NoLostWakeup

\* Every action, those of a racing qrtr_tx_resume and unregistration
\* included, keeps what senders, waiters and sleepers know about a flow.
LEMMA WaitStep == TypeOK /\ Routed /\ WaitInv /\ [Next]_vars => WaitInv'
<1> SUFFICES ASSUME TypeOK, Routed, WaitInv, [Next]_vars PROVE WaitInv'
  OBVIOUS
<1> USE DEF nodeVars, flowVars, sendVars, rcvVars, Goto, Stay, Return, WaitInv,
            PendingWithinHigh, WaitersOnlyWhenPaused
<1>1. ASSUME NEW t \in Thread, NEW p \in Sock, NEW w \in Modes, SendMsg(t, p, w)
      PROVE  WaitInv'
  BY <1>1, ZenonT(60) DEF SendMsg, TypeOK, NoLostWakeup, At
<1>2. ASSUME NEW t \in Thread, TxWait(t) PROVE WaitInv'
  <2>0. dst[t] \in Sock /\ pending[dst[t]] \in Nat /\ pending[dst[t]] <= HIGH
    BY DEF TypeOK
  <2>1. CASE TakeOverConfirm(t, dst[t])
    BY Zenon, <1>2, <2>1 DEF TypeOK, TxWait, TakeOverConfirm, NoLostWakeup, At
  <2>2. CASE CountPacket(t, dst[t])
    \* nobody can be waiting on a flow below HIGH
    <3>1. PendingWithinHigh'
      BY <2>0, <2>2, Watermarks DEF TypeOK, CountPacket
    <3>2. WaitersOnlyWhenPaused'
      BY <2>0, <2>2, Watermarks DEF TypeOK, CountPacket
    <3>3. NoLostWakeup'
      <4> SUFFICES ASSUME NEW u \in Thread, pc'[u] = "asleep"
                   PROVE  pending'[dst'[u]] = HIGH /\ ep'[At(u)] # "gone"
        BY DEF NoLostWakeup, At
      <4>1. pc[u] = "asleep" /\ dst' = dst /\ ep' = ep
        BY <1>2, <2>2 DEF TypeOK, TxWait, CountPacket
      <4>2. pending[dst[u]] = HIGH /\ ep[At(u)] # "gone" /\ dst[u] \in Sock
        BY <4>1 DEF NoLostWakeup, TypeOK
      <4>3. dst[u] # dst[t]
        BY <2>0, <2>2, <4>2, Watermarks DEF CountPacket
      <4>4. pending'[dst[u]] = pending[dst[u]]
        BY <2>2, <4>2, <4>3 DEF TypeOK, CountPacket
      <4>5. QED
        BY <4>1, <4>2, <4>4
    <3>4. QED
      BY <3>1, <3>2, <3>3
  <2>3. CASE AddWaiter(t, dst[t])
    <3>1. pending[dst[t]] = HIGH
      BY <2>0, <2>3, Watermarks, SMTT(30) DEF AddWaiter
    <3>2. PendingWithinHigh' /\ WaitersOnlyWhenPaused'
      BY Zenon, <2>3, <3>1 DEF TypeOK, AddWaiter
    <3>3. NoLostWakeup'
      BY Zenon, <1>2, <2>3 DEF TypeOK, TxWait, AddWaiter, NoLostWakeup, At
    <3>4. QED
      BY <3>2, <3>3
  <2>4. CASE StartWait(t, dst[t])
    BY Zenon, <1>2, <2>4 DEF TypeOK, TxWait, StartWait, NoLostWakeup, At
  <2>5. QED
    BY Zenon, <1>2, <2>1, <2>2, <2>3, <2>4 DEF TxWait
<1>3. ASSUME NEW t \in Thread, WaitEvent(t) PROVE WaitInv'
  <2>1. ~WakeCondition(t) => pending[dst[t]] = HIGH /\ ep[At(t)] # "gone"
    <3>1. dst[t] \in Sock /\ pending[dst[t]] \in Nat /\ pending[dst[t]] <= HIGH
      BY DEF TypeOK
    <3>2. QED
      BY <3>1, Watermarks DEF WakeCondition
  <2>2. NoLostWakeup'
    BY <1>3, <2>1, SMTT(90) DEF TypeOK, WaitEvent, LeaveWait, NoLostWakeup, At
  <2>3. QED
    BY Zenon, <1>3, <2>2 DEF WaitEvent
<1>4. ASSUME NEW t \in Thread,
             WaitTimeout(t) \/ WaitSignal(t) \/ Xmit(t) \/ XmitFails(t) \/ TxFlowFailed(t)
      PROVE  WaitInv'
  <2>1. UNCHANGED <<pending, waiters, ep>>
    BY Zenon, <1>4 DEF WaitTimeout, WaitSignal, Xmit, XmitFails, TxFlowFailed
  <2>2. NoLostWakeup'
    BY <1>4, <2>1, ZenonT(60) DEF TypeOK, WaitTimeout, WaitSignal, Xmit, XmitFails, TxFlowFailed,
                      LeaveWait, NoLostWakeup, At
  <2>3. QED
    BY <2>1, <2>2
<1>5. ASSUME NEW n \in Node, TxResume(n) PROVE WaitInv'
  <2> DEFINE p == Head(rx_queue[n])
  <2>1. p \in Sock /\ Origin(p) = n
    <3>1. p \in FlowsOf(n)
      BY <1>5 DEF Routed, TxResume
    <3>2. QED
      BY <3>1 DEF FlowsOf
  <2>2. CASE p \notin flow
    BY <1>5, <2>2 DEF TxResume, NoLostWakeup, At
  <2>3. CASE p \in flow
    <3>1. /\ pending' = [pending EXCEPT ![p] = 0]
          /\ waiters' = [waiters EXCEPT ![p] = {}]
          /\ pc' = Woken(n)
          /\ UNCHANGED <<dst, ep>>
      BY <1>5, <2>3 DEF TxResume, ResetPending, NotifyWaiters
    <3>2. PendingWithinHigh' /\ WaitersOnlyWhenPaused'
      BY <2>1, <3>1, Watermarks DEF TypeOK
    <3>3. ASSUME NEW t \in Thread, pc'[t] = "asleep"
          PROVE  pending'[dst'[t]] = HIGH /\ ep'[At(t)] # "gone"
      \* a sleeper that was not woken is not at n, so not on flow p
      <4>1. pc[t] = "asleep" /\ At(t) # n
        BY <3>1, <3>3 DEF TypeOK, Woken
      <4>2. dst[t] # p
        BY <2>1, <4>1 DEF Routed
      <4>3. QED
        BY <3>1, <4>1, <4>2 DEF TypeOK, NoLostWakeup
    <3>4. QED
      BY <3>2, <3>3 DEF NoLostWakeup, At
  <2>4. QED
    BY <2>2, <2>3
<1>6. ASSUME NEW n \in Node, UnregisterWake(n) PROVE WaitInv'
  <2>1. NoLostWakeup'
    BY <1>6 DEF TypeOK, UnregisterWake, Woken, NoLostWakeup, At
  <2>2. QED
    BY <1>6, <2>1 DEF UnregisterWake
<1>7. ASSUME NEW n \in Node, Unregister(n) PROVE WaitInv'
  BY <1>7 DEF TypeOK, Unregister, NoLostWakeup, At
<1>8. ASSUME NEW n \in Node, EndpointPost(n) \/ CtrlPortBind(n) \/ SayHello(n) PROVE WaitInv'
  BY Zenon, <1>8 DEF EndpointPost, CtrlPortBind, SayHello, NoLostWakeup, At
<1>9. ASSUME NEW s \in Sock, RecvDequeue(s) \/ RecvMsg(s) \/ RecvResume(s) \/ Release(s)
      PROVE  WaitInv'
  BY Zenon, <1>9 DEF RecvDequeue, RecvMsg, RecvResume, Release, NoLostWakeup, At
<1>10. CASE UNCHANGED vars
  BY Zenon, <1>10 DEF vars, NoLostWakeup, At
<1>11. QED
  BY Zenon, <1>1, <1>2, <1>3, <1>4, <1>5, <1>6, <1>7, <1>8, <1>9, <1>10 DEF Next

\* WaitInv is an invariant of flow control.
LEMMA WaitInvariant == Spec => []WaitInv
<1>1. Init => WaitInv
  BY Watermarks DEF Init, WaitInv, PendingWithinHigh, WaitersOnlyWhenPaused, NoLostWakeup
<1>2. QED
  BY <1>1, WaitStep, TypeCorrect, RoutedInvariant, PTL DEF Spec

\* However many threads race through qrtr_tx_wait, flow->pending never passes
\* QRTR_TX_FLOW_HIGH.
THEOREM PendingBounded == Spec => []PendingWithinHigh
<1>1. WaitInv => PendingWithinHigh
  BY DEF WaitInv
<1>2. QED
  BY <1>1, WaitInvariant, PTL

\* A socket is on the list of waiters of a flow only while the flow is paused:
\* qrtr_tx_resume leaves nobody behind.
THEOREM WaitersArePaused == Spec => []WaitersOnlyWhenPaused
<1>1. WaitInv => WaitersOnlyWhenPaused
  BY DEF WaitInv
<1>2. QED
  BY <1>1, WaitInvariant, PTL

\* A thread asleep in qrtr_tx_wait has not missed the wake-up of a
\* qrtr_tx_resume or of an unregistration.
THEOREM NoWakeupIsLost == Spec => []NoLostWakeup
<1>1. WaitInv => NoLostWakeup
  BY DEF WaitInv
<1>2. QED
  BY <1>1, WaitInvariant, PTL

-----------------------------------------------------------------------------
(* The confirmation of a flow is not lost *)

\* A packet that is queued last leaves the others in the queue.
LEMMA HasAppend ==
    ASSUME NEW S, NEW q \in Seq(S), NEW x \in S, NEW e, Has(q, e)
    PROVE  Has(Append(q, x), e)
<1>1. PICK i \in 1..Len(q) : q[i] = e
  BY Zenon DEF Has
<1>2. i \in 1..Len(Append(q, x)) /\ Append(q, x)[i] = q[i]
  BY SMTT(30)
<1>3. QED
  BY Zenon, <1>1, <1>2 DEF Has

\* A packet that is queued is in the queue.
LEMMA HasLast ==
    ASSUME NEW S, NEW q \in Seq(S), NEW x \in S
    PROVE  Has(Append(q, x), x)
<1>1. /\ Len(q) + 1 \in 1..Len(Append(q, x))
      /\ Append(q, x)[Len(q) + 1] = x
  OBVIOUS
<1>2. QED
  BY <1>1 DEF Has

\* Taking the first packet off a queue leaves every other one.
LEMMA HasTail ==
    ASSUME NEW S, NEW q \in Seq(S), q # <<>>, NEW e, Has(q, e), Head(q) # e
    PROVE  Has(Tail(q), e)
<1>1. PICK i \in 1..Len(q) : q[i] = e
  BY DEF Has
<1>2. i # 1
  BY <1>1
<1>3. i - 1 \in 1..Len(Tail(q)) /\ Tail(q)[i - 1] = e
  BY <1>1, <1>2
<1>4. QED
  BY <1>3 DEF Has

\* Nothing goes wrong on the receiving side: sockets stay open and accept
\* their packets, the name service is not restarted and RESUME_TX goes out.
ReceiverLossless == Faults \cap {"close", "ns_restart", "resume_xmit", "rcvbuf"} = {}

Calm == open = Sock /\ \A n \in Node : hello[n] = TRUE
Allocated ==
    /\ \A p \in Sock : pending[p] # 0 => p \in flow
    /\ \A t \in Thread : pc[t] \in {"loop", "check", "asleep"} => dst[t] \in flow

\* Without faults of the receiving side a socket stays open and the handshake
\* stays done.
LEMMA CalmStep == ReceiverLossless /\ TypeOK /\ Calm /\ [Next]_vars => Calm'
  BY Zenon DEF ReceiverLossless, TypeOK, Calm, Next, vars, nodeVars, flowVars, sendVars, rcvVars,
         SendMsg, TxWait, WaitEvent, WaitTimeout, WaitSignal, Xmit, XmitFails, TxFlowFailed,
         EndpointPost, TxResume, Unregister, UnregisterWake, CtrlPortBind, SayHello,
         RecvDequeue, RecvMsg, RecvResume, Release

\* A flow that counts packets has been allocated by qrtr_tx_wait.
LEMMA AllocatedStep == TypeOK /\ Allocated /\ [Next]_vars => Allocated'
<1> SUFFICES ASSUME TypeOK, Allocated, [Next]_vars PROVE Allocated'
  OBVIOUS
<1> USE DEF nodeVars, flowVars, sendVars, rcvVars, Goto, Stay, Return, Allocated
<1>1. ASSUME NEW t \in Thread, NEW p \in Sock, NEW w \in Modes, SendMsg(t, p, w)
      PROVE  Allocated'
  <2>1. /\ dst' = [dst EXCEPT ![t] = p] /\ pending' = pending
        /\ \/ flow' = flow \cup {p} /\ pc' = [pc EXCEPT ![t] = "loop"]
           \/ flow' = flow /\ pc' = [pc EXCEPT ![t] = "xmit"]
    BY Zenon, <1>1 DEF SendMsg
  <2>2. dst'[t] = p /\ \A u \in Thread : u # t => dst'[u] = dst[u] /\ pc'[u] = pc[u]
    BY Zenon, <2>1 DEF TypeOK
  <2>3. (pc'[t] = "loop" /\ p \in flow') \/ pc'[t] = "xmit"
    BY Zenon, <2>1 DEF TypeOK
  <2>4. \A q \in flow : q \in flow'
    BY Zenon, <2>1
  <2>5. \A q \in Sock : pending'[q] # 0 => q \in flow'
    BY Zenon, <2>1, <2>4
  <2>6. ASSUME NEW u \in Thread, pc'[u] \in {"loop", "check", "asleep"} PROVE dst'[u] \in flow'
    <3>1. CASE u = t
      BY <2>2, <2>3, <2>6, <3>1
    <3>2. CASE u # t
      BY Zenon, <2>2, <2>4, <2>6, <3>2
    <3>3. QED
      BY Zenon, <3>1, <3>2
  <2>7. QED
    BY Zenon, <2>5, <2>6
<1>2. ASSUME NEW t \in Thread, TxWait(t) PROVE Allocated'
  <2>1. flow' = flow /\ dst[t] \in flow /\ dst[t] \in Sock
    BY <1>2 DEF TypeOK, TxWait
  <2>2. CASE CountPacket(t, dst[t])
    BY <2>1, <2>2 DEF TypeOK, CountPacket
  <2>3. CASE TakeOverConfirm(t, dst[t]) \/ AddWaiter(t, dst[t]) \/ StartWait(t, dst[t])
    <3>1. pending' = pending
      BY <2>3 DEF TakeOverConfirm, AddWaiter, StartWait
    <3>2. \A u \in Thread :
            \/ u # t /\ pc'[u] = pc[u] /\ dst'[u] = dst[u]
            \/ u = t /\ (pc'[u] \in {"xmit", "idle"} \/ dst'[u] = dst[u])
      BY <2>3 DEF TypeOK, TakeOverConfirm, AddWaiter, StartWait
    <3>3. QED
      BY <2>1, <3>1, <3>2
  <2>4. QED
    BY Zenon, <1>2, <2>2, <2>3 DEF TxWait
<1>3. ASSUME NEW t \in Thread, WaitEvent(t) \/ WaitTimeout(t) \/ WaitSignal(t)
      PROVE  Allocated'
  BY <1>3 DEF TypeOK, WaitEvent, WaitTimeout, WaitSignal, LeaveWait
<1>4. ASSUME NEW t \in Thread, Xmit(t) \/ XmitFails(t) \/ TxFlowFailed(t) PROVE Allocated'
  BY <1>4, ZenonT(60) DEF TypeOK, Xmit, XmitFails, TxFlowFailed
<1>5. ASSUME NEW n \in Node, TxResume(n) PROVE Allocated'
  BY <1>5 DEF TypeOK, TxResume, ResetPending, Woken
<1>6. ASSUME NEW n \in Node, UnregisterWake(n) PROVE Allocated'
  BY <1>6 DEF TypeOK, UnregisterWake, Woken
<1>7. ASSUME NEW n \in Node, EndpointPost(n) \/ Unregister(n) \/ CtrlPortBind(n) \/ SayHello(n)
      PROVE  Allocated'
  BY Zenon, <1>7 DEF EndpointPost, Unregister, CtrlPortBind, SayHello
<1>8. ASSUME NEW s \in Sock, RecvDequeue(s) \/ RecvMsg(s) \/ RecvResume(s) \/ Release(s)
      PROVE  Allocated'
  BY Zenon, <1>8 DEF RecvDequeue, RecvMsg, RecvResume, Release
<1>9. CASE UNCHANGED vars
  BY Zenon, <1>9 DEF vars
<1>10. QED
  BY Zenon, <1>1, <1>2, <1>3, <1>4, <1>5, <1>6, <1>7, <1>8, <1>9 DEF Next

\* The places a confirmation can be, grouped by the steps that move it.
Sending(p) == \E t \in Thread : pc[t] \in {"xmit", "failed"} /\ confirm[t] /\ dst[t] = p
OnLink(p) == Has(link[Home[p]], Data(p, TRUE)) \/ Has(link[Origin(p)], ResumeTx(p))
Arrived(p) == Has(sk_queue[p], TRUE) \/ rcv[p] = "confirm" \/ Has(rx_queue[Origin(p)], p)

\* No step of a sender, the link or the receiver drops the confirmation of a
\* flow past the low watermark.
LEMMA ConfirmStep ==
    ReceiverLossless /\ TypeOK /\ Routed /\ Calm /\ Allocated /\ ConfirmNotLost /\ [Next]_vars
        => ConfirmNotLost'
<1> SUFFICES ASSUME ReceiverLossless, TypeOK, Routed, Calm, Allocated, ConfirmNotLost,
                    [Next]_vars, NEW p \in Sock, LinkUp(p)', pending'[p] >= LOW
             PROVE  ConfirmCarried(p)'
  BY DEF ConfirmNotLost
<1> USE DEF nodeVars, flowVars, sendVars, rcvVars
<1>0. /\ ConfirmCarried(p) <=> tx_failed[p] \/ Sending(p) \/ OnLink(p) \/ Arrived(p)
      /\ ConfirmCarried(p)' <=> tx_failed'[p] \/ Sending(p)' \/ OnLink(p)' \/ Arrived(p)'
  BY Zenon DEF ConfirmCarried, Sending, OnLink, Arrived
<1>a. ASSUME LinkUp(p), pending[p] >= LOW
      PROVE  tx_failed[p] \/ Sending(p) \/ OnLink(p) \/ Arrived(p)
  BY Zenon, <1>0, <1>a DEF ConfirmNotLost
<1>b. ASSUME link' = link PROVE OnLink(p)' <=> OnLink(p)
  BY <1>b DEF OnLink, Origin, Data, ResumeTx
<1>c. ASSUME sk_queue' = sk_queue, rcv' = rcv, rx_queue' = rx_queue
      PROVE  Arrived(p)' <=> Arrived(p)
  BY <1>c DEF Arrived, Origin
<1>d. ASSUME pc' = pc, confirm' = confirm, dst' = dst PROVE Sending(p)' <=> Sending(p)
  BY <1>d DEF Sending
<1>e. ASSUME ep' = ep PROVE LinkUp(p)
  BY <1>e DEF LinkUp, Origin
<1>f. pending[p] >= LOW => p \in flow
  BY Watermarks DEF Allocated, TypeOK
<1>1. ASSUME NEW t \in Thread, NEW d \in Sock, NEW w \in Modes, SendMsg(t, d, w)
      PROVE  ConfirmCarried(p)'
  <2>1. Sending(p) => Sending(p)'
    BY Zenon, <1>1 DEF TypeOK, SendMsg, Goto, Sending
  <2>2. QED
    BY Zenon, <1>1, <1>0, <1>a, <1>b, <1>c, <1>e, <2>1 DEF SendMsg
<1>2. ASSUME NEW t \in Thread, TxWait(t) PROVE ConfirmCarried(p)'
  <2>1. Sending(p) => Sending(p)'
    BY <1>2, ZenonT(60) DEF TypeOK, TxWait, TakeOverConfirm, CountPacket, AddWaiter, StartWait,
                Goto, Stay, Return, Sending
  <2>2. (OnLink(p)' <=> OnLink(p)) /\ (Arrived(p)' <=> Arrived(p)) /\ LinkUp(p)
    BY Zenon, <1>2, <1>b, <1>c, <1>e DEF TxWait
  <2>3. CASE TakeOverConfirm(t, dst[t])
    <3>1. dst[t] = p => Sending(p)'
      BY <2>3 DEF TypeOK, TakeOverConfirm, Goto, Sending
    <3>2. dst[t] # p => tx_failed'[p] = tx_failed[p]
      BY Zenon, <2>3 DEF TypeOK, TakeOverConfirm
    <3>3. pending' = pending
      BY <2>3 DEF TakeOverConfirm
    <3>4. QED
      BY Zenon, <1>0, <1>a, <2>1, <2>2, <3>1, <3>2, <3>3
  <2>4. CASE CountPacket(t, dst[t])
    <3>1. pending'[p] = LOW /\ dst[t] = p => Sending(p)'
      BY Zenon, <2>4 DEF TypeOK, CountPacket, Goto, Sending
    <3>2. pending'[p] # LOW \/ dst[t] # p => pending[p] >= LOW
      BY <2>4, Watermarks DEF TypeOK, CountPacket
    <3>3. tx_failed' = tx_failed
      BY Zenon, <2>4 DEF CountPacket
    <3>4. QED
      BY Zenon, <1>0, <1>a, <2>1, <2>2, <3>1, <3>2, <3>3
  <2>5. CASE AddWaiter(t, dst[t]) \/ StartWait(t, dst[t])
    BY Zenon, <1>0, <1>a, <2>1, <2>2, <2>5 DEF AddWaiter, StartWait
  <2>6. QED
    BY Zenon, <1>2, <2>3, <2>4, <2>5 DEF TxWait
<1>3. ASSUME NEW t \in Thread, WaitEvent(t) \/ WaitTimeout(t) \/ WaitSignal(t)
      PROVE  ConfirmCarried(p)'
  <2>1. Sending(p) => Sending(p)'
    BY Zenon, <1>3 DEF TypeOK, WaitEvent, WaitTimeout, WaitSignal, LeaveWait, Goto, Stay, Return, Sending
  <2>2. QED
    BY Zenon, <1>3, <1>0, <1>a, <1>b, <1>c, <1>e, <2>1 DEF WaitEvent, WaitTimeout, WaitSignal
<1>4. ASSUME NEW t \in Thread, Xmit(t) \/ XmitFails(t) PROVE ConfirmCarried(p)'
  <2>1. LinkUp(p) /\ pending[p] >= LOW /\ (Arrived(p)' <=> Arrived(p)) /\ tx_failed' = tx_failed
    BY Zenon, <1>4, <1>c, <1>e DEF Xmit, XmitFails
  <2> DEFINE m == Data(dst[t], confirm[t])
  <2>2. m \in Packet /\ \A n \in Node : link[n] \in Seq(Packet)
    BY Zenon DEF TypeOK, Data, Packet
  <2>3. OnLink(p) => OnLink(p)'
    <3>1. \A n \in Node : link'[n] = link[n] \/ link'[n] = Append(link[n], m)
      BY Zenon, <1>4 DEF TypeOK, Xmit, XmitFails, Queue
    <3>2. \A n \in Node, e \in Packet : Has(link[n], e) => Has(link'[n], e)
      BY Zenon, <2>2, <3>1, HasAppend
    <3>3. Data(p, TRUE) \in Packet /\ ResumeTx(p) \in Packet
      BY DEF Data, ResumeTx, Packet
    <3>4. QED
      BY Zenon, <3>2, <3>3, PlaceType DEF OnLink, Origin, Data, ResumeTx
  <2>4. Sending(p) => Sending(p)' \/ OnLink(p)'
    <3> SUFFICES ASSUME NEW u \in Thread, pc[u] \in {"xmit", "failed"}, confirm[u], dst[u] = p
                 PROVE  Sending(p)' \/ OnLink(p)'
      BY Zenon DEF Sending
    <3>1. CASE u # t
      BY <1>4, <3>1 DEF TypeOK, Xmit, XmitFails, Goto, Stay, Return, Sending
    <3>2. CASE u = t /\ XmitFails(t)
      BY <3>2 DEF TypeOK, XmitFails, Goto, Stay, Return, Sending
    <3>3. CASE u = t /\ Xmit(t)
      <4>1. Origin(p) = At(t) /\ Home[p] = Peer[At(t)]
        BY Zenon, <3>3, PlaceType DEF Routed, Xmit, Origin
      <4>2. ep[At(t)] = "up"
        BY <2>1, <4>1 DEF LinkUp
      <4>3. m = Data(p, TRUE)
        BY <3>3 DEF TypeOK
      <4>4. link'[Home[p]] = Append(link[Home[p]], Data(p, TRUE))
        <5>1. link' = [link EXCEPT ![Home[p]] = Append(link[Home[p]], Data(p, TRUE))]
          BY Zenon, <3>3, <4>1, <4>2, <4>3 DEF Xmit, Queue
        <5>2. QED
          BY Zenon, <5>1, PlaceType DEF TypeOK
      <4>5. Has(link'[Home[p]], Data(p, TRUE))
        BY Zenon, <2>2, <4>3, <4>4, HasLast, PlaceType
      <4>6. QED
        BY Zenon, <4>5 DEF OnLink, Data
    <3>4. QED
      BY Zenon, <1>4, <3>1, <3>2, <3>3
  <2>5. QED
    BY Zenon, <1>0, <1>a, <2>1, <2>3, <2>4
<1>5. ASSUME NEW t \in Thread, TxFlowFailed(t) PROVE ConfirmCarried(p)'
  <2>1. LinkUp(p) /\ pending[p] >= LOW
        /\ (Arrived(p)' <=> Arrived(p)) /\ (OnLink(p)' <=> OnLink(p))
    BY Zenon, <1>5, <1>b, <1>c, <1>e DEF TxFlowFailed
  <2>2. tx_failed[p] => tx_failed'[p]
    BY <1>5 DEF TypeOK, TxFlowFailed
  <2>3. Sending(p) => Sending(p)' \/ tx_failed'[p]
    BY <1>5, <1>f, <2>1 DEF TypeOK, TxFlowFailed, Goto, Return, Sending
  <2>4. QED
    BY Zenon, <1>0, <1>a, <2>1, <2>2, <2>3
<1>6. ASSUME NEW n \in Node, EndpointPost(n) PROVE ConfirmCarried(p)'
  <2>1. LinkUp(p) /\ pending[p] >= LOW /\ (Sending(p)' <=> Sending(p)) /\ tx_failed' = tx_failed
    BY Zenon, <1>6, <1>d, <1>e DEF EndpointPost
  <2> DEFINE m == Head(link[n])
  <2>2. m \in Packet /\ link[n] # <<>> /\ \A k \in Node : link[k] \in Seq(Packet)
    <3>1. link[n] # <<>> /\ \A k \in Node : link[k] \in Seq(Packet)
      BY Zenon, <1>6 DEF TypeOK, EndpointPost
    <3>2. QED
      BY Zenon, <3>1, HeadType
  <2>3. link' = [link EXCEPT ![n] = Tail(link[n])]
    BY Zenon, <1>6 DEF EndpointPost
  <2>4. \A k \in Node, e \in Packet : Has(link[k], e) => Has(link'[k], e) \/ (k = n /\ e = m)
    BY <2>2, <2>3, HasTail DEF TypeOK
  <2>5. Arrived(p) => Arrived(p)'
    <3>1. Has(sk_queue[p], TRUE) => Has(sk_queue'[p], TRUE)
      <4>1. sk_queue'[p] = sk_queue[p]
              \/ sk_queue'[p] = Append(sk_queue[p], m.confirm_rx)
        BY Zenon, <1>6 DEF TypeOK, EndpointPost
      <4>2. sk_queue[p] \in Seq(BOOLEAN) /\ m.confirm_rx \in BOOLEAN
        BY <2>2 DEF TypeOK, Packet
      <4>3. QED
        BY Zenon, <4>1, <4>2, HasAppend
    <3>2. Has(rx_queue[Origin(p)], p) => Has(rx_queue'[Origin(p)], p)
      <4>1. rx_queue'[Origin(p)] = rx_queue[Origin(p)]
              \/ rx_queue'[Origin(p)] = Append(rx_queue[Origin(p)], m.port)
        <5>1. \A k \in Node : rx_queue'[k] = rx_queue[k]
                               \/ rx_queue'[k] = Append(rx_queue[k], m.port)
          BY Zenon, <1>6 DEF TypeOK, EndpointPost
        <5>2. QED
          BY Zenon, <5>1, PlaceType
      <4>2. rx_queue[Origin(p)] \in Seq(Sock) /\ m.port \in Sock
        BY Zenon, <2>2, PlaceType DEF TypeOK, Packet
      <4>3. QED
        BY Zenon, <4>1, <4>2, HasAppend
    <3>3. rcv' = rcv
      BY Zenon, <1>6 DEF EndpointPost
    <3>4. QED
      BY Zenon, <3>1, <3>2, <3>3 DEF Arrived, Origin
  <2>6. OnLink(p) => OnLink(p)' \/ m = Data(p, TRUE) \/ (m = ResumeTx(p) /\ n = Origin(p))
    <3>1. Data(p, TRUE) \in Packet /\ ResumeTx(p) \in Packet
      BY DEF Data, ResumeTx, Packet
    <3>2. QED
      BY <2>4, <3>1, PlaceType DEF OnLink, Origin, Data, ResumeTx
  <2>7. m = Data(p, TRUE) => Arrived(p)'
    <3> SUFFICES ASSUME m = Data(p, TRUE) PROVE Arrived(p)'
      OBVIOUS
    <3>1. m.type = "DATA" /\ m.port = p /\ m.confirm_rx = TRUE
      BY DEF Data
    <3>2. "rcvbuf" \notin Faults /\ open = Sock
      BY DEF ReceiverLossless, Calm
    <3>3. sk_queue' = [sk_queue EXCEPT ![p] = Append(@, TRUE)]
      BY Zenon, <1>6, <3>1, <3>2 DEF EndpointPost
    <3>4. sk_queue[p] \in Seq(BOOLEAN) /\ sk_queue'[p] = Append(sk_queue[p], TRUE)
      BY Zenon, <3>3 DEF TypeOK
    <3>5. Has(sk_queue'[p], TRUE)
      BY Zenon, <3>4, HasLast
    <3>6. QED
      BY Zenon, <3>5 DEF Arrived
  <2>8. m = ResumeTx(p) /\ n = Origin(p) => Arrived(p)'
    <3> SUFFICES ASSUME m = ResumeTx(p), n = Origin(p) PROVE Arrived(p)'
      OBVIOUS
    <3>1. m.type = "RESUME_TX" /\ m.port = p
      BY DEF ResumeTx
    <3>2. rx_queue' = [rx_queue EXCEPT ![n] = Append(@, p)]
      BY Zenon, <1>6, <3>1 DEF EndpointPost
    <3>3. rx_queue[n] \in Seq(Sock) /\ rx_queue'[n] = Append(rx_queue[n], p)
      BY <3>2 DEF TypeOK
    <3>4. Has(rx_queue'[n], p)
      BY <3>3, HasLast
    <3>5. QED
      BY <3>4 DEF Arrived, Origin
  <2>9. QED
    BY Zenon, <1>0, <1>a, <2>1, <2>5, <2>6, <2>7, <2>8
<1>7. ASSUME NEW n \in Node, TxResume(n) PROVE ConfirmCarried(p)'
  <2> DEFINE q == Head(rx_queue[n])
  <2>1. LinkUp(p) /\ (OnLink(p)' <=> OnLink(p)) /\ tx_failed' = tx_failed
    BY <1>7, <1>b, <1>e DEF TxResume
  <2>2. Sending(p) => Sending(p)'
    BY <1>7 DEF TypeOK, TxResume, Woken, Sending
  <2>3. rx_queue[n] \in Seq(Sock) /\ rx_queue[n] # <<>> /\ q \in Sock
    BY <1>7 DEF TypeOK, TxResume
  \* the RESUME_TX of p itself would have reset the count
  <2>4. q # p /\ pending[p] >= LOW
    <3>1. q \in flow => pending' = [pending EXCEPT ![q] = 0]
      BY <1>7 DEF TxResume, ResetPending
    <3>2. q \notin flow => pending' = pending
      BY <1>7 DEF TxResume
    <3>3. QED
      <4>1. q \in flow => q # p
        BY <3>1, Watermarks DEF TypeOK
      <4>2. pending'[p] = pending[p]
        BY <3>1, <3>2, <4>1 DEF TypeOK
      <4>3. QED
        BY <1>f, <4>1, <4>2
  <2>5. Arrived(p) => Arrived(p)'
    <3>1. rx_queue' = [rx_queue EXCEPT ![n] = Tail(rx_queue[n])]
          /\ sk_queue' = sk_queue /\ rcv' = rcv
      BY <1>7 DEF TxResume
    <3>2. \A k \in Node : Has(rx_queue[k], p) => Has(rx_queue'[k], p)
      BY <2>3, <2>4, <3>1, HasTail DEF TypeOK
    <3>3. QED
      BY Zenon, <3>1, <3>2, PlaceType DEF Arrived, Origin
  <2>6. QED
    BY Zenon, <1>0, <1>a, <2>1, <2>2, <2>4, <2>5
<1>8. ASSUME NEW n \in Node, Unregister(n) \/ UnregisterWake(n) PROVE ConfirmCarried(p)'
  <2>1. n # Home[p] /\ n # Origin(p) /\ LinkUp(p)
    <3>1. \E e \in {"closing", "gone"} : ep' = [ep EXCEPT ![n] = e]
      BY Zenon, <1>8 DEF Unregister, UnregisterWake
    <3>2. ep'[n] # "up" /\ \A k \in Node : k # n => ep'[k] = ep[k]
      BY <3>1 DEF TypeOK
    <3>3. QED
      BY Zenon, <3>2, PlaceType DEF LinkUp, Origin
  <2>2. OnLink(p) => OnLink(p)'
    <3>1. link' = link \/ link' = [link EXCEPT ![n] = << >>]
      BY Zenon, <1>8 DEF Unregister, UnregisterWake
    <3>2. link'[Home[p]] = link[Home[p]] /\ link'[Origin(p)] = link[Origin(p)]
      BY Zenon, <2>1, <3>1, PlaceType DEF TypeOK
    <3>3. QED
      BY Zenon, <3>2 DEF OnLink, Origin
  <2>3. Sending(p) => Sending(p)'
    BY <1>8 DEF TypeOK, Unregister, UnregisterWake, Woken, Sending
  <2>4. QED
    BY Zenon, <1>8, <1>0, <1>a, <1>c, <2>1, <2>2, <2>3 DEF Unregister, UnregisterWake
<1>9. ASSUME NEW n \in Node, CtrlPortBind(n) \/ SayHello(n) PROVE ConfirmCarried(p)'
  BY Zenon, <1>9, <1>0, <1>a, <1>b, <1>c, <1>d, <1>e DEF CtrlPortBind, SayHello
<1>10. ASSUME NEW s \in Sock, RecvDequeue(s) PROVE ConfirmCarried(p)'
  <2>1. sk_queue[s] \in Seq(BOOLEAN) /\ sk_queue[s] # <<>>
        /\ sk_queue' = [sk_queue EXCEPT ![s] = Tail(sk_queue[s])]
        /\ rx_queue' = rx_queue
    BY Zenon, <1>10 DEF TypeOK, RecvDequeue
  <2>2. Arrived(p) => Arrived(p)'
    <3>1. CASE s # p
      BY Zenon, <1>10, <2>1, <3>1 DEF TypeOK, RecvDequeue, Arrived, Origin
    <3>2. CASE s = p /\ Head(sk_queue[s]) = TRUE
      BY Zenon, <1>10, <3>2 DEF TypeOK, RecvDequeue, Arrived
    <3>3. CASE s = p /\ Head(sk_queue[s]) # TRUE
      <4>1. Has(sk_queue[p], TRUE) => Has(Tail(sk_queue[p]), TRUE)
        BY Zenon, <2>1, <3>3, HasTail
      <4>2. sk_queue'[p] = Tail(sk_queue[p]) /\ rcv[p] = "none"
        BY Zenon, <1>10, <2>1, <3>3 DEF TypeOK, RecvDequeue
      <4>3. QED
        BY Zenon, <2>1, <4>1, <4>2 DEF Arrived, Origin
    <3>4. QED
      BY Zenon, <3>1, <3>2, <3>3
  <2>3. QED
    BY Zenon, <1>10, <1>0, <1>a, <1>b, <1>d, <1>e, <2>2 DEF RecvDequeue
<1>11. ASSUME NEW s \in Sock, RecvMsg(s) PROVE ConfirmCarried(p)'
  <2>1. LinkUp(p) /\ pending[p] >= LOW /\ (Sending(p)' <=> Sending(p)) /\ tx_failed' = tx_failed
    BY Zenon, <1>11, <1>d, <1>e DEF RecvMsg
  <2>2. ResumeTx(s) \in Packet /\ \A n \in Node : link[n] \in Seq(Packet)
    BY Zenon DEF TypeOK, ResumeTx, Packet
  <2>3. OnLink(p) => OnLink(p)'
    <3>1. \A n \in Node : link'[n] = link[n] \/ link'[n] = Append(link[n], ResumeTx(s))
      BY <1>11, ZenonT(60) DEF TypeOK, RecvMsg
    <3>2. \A n \in Node, e \in Packet : Has(link[n], e) => Has(link'[n], e)
      BY Zenon, <2>2, <3>1, HasAppend
    <3>3. Data(p, TRUE) \in Packet /\ ResumeTx(p) \in Packet
      BY DEF Data, ResumeTx, Packet
    <3>4. QED
      BY Zenon, <3>2, <3>3, PlaceType DEF OnLink, Origin, Data, ResumeTx
  <2>4. CASE s = p /\ rcv[p] = "confirm"
    <3>1. "resume_xmit" \notin Faults /\ hello[Home[p]] = TRUE
      BY PlaceType DEF ReceiverLossless, Calm
    <3>2. ep[Home[p]] = "up"
      BY <2>1 DEF LinkUp
    <3>3. link' = [link EXCEPT ![Origin(p)] = Append(@, ResumeTx(p))]
      BY Zenon, <1>11, <2>4, <3>1, <3>2 DEF RecvMsg, Origin
    <3>4. Origin(p) \in Node /\ link'[Origin(p)] = Append(link[Origin(p)], ResumeTx(p))
      BY Zenon, <3>3, PlaceType DEF TypeOK
    <3>5. Has(link'[Origin(p)], ResumeTx(p))
      BY Zenon, <2>2, <2>4, <3>4, HasLast
    <3>6. QED
      BY Zenon, <1>0, <3>5 DEF OnLink, Origin, ResumeTx
  <2>5. CASE ~(s = p /\ rcv[p] = "confirm")
    <3>1. Arrived(p) => Arrived(p)'
      BY Zenon, <1>11, <2>5 DEF TypeOK, RecvMsg, Arrived, Origin
    <3>2. QED
      BY Zenon, <1>0, <1>a, <2>1, <2>3, <3>1
  <2>6. QED
    BY <2>4, <2>5
<1>12. ASSUME NEW s \in Sock, RecvResume(s) PROVE ConfirmCarried(p)'
  BY Zenon, <1>12, <1>0, <1>a, <1>b, <1>c, <1>d, <1>e DEF RecvResume
<1>13. ASSUME NEW s \in Sock, Release(s) PROVE FALSE
  BY Zenon, <1>13 DEF Release, ReceiverLossless
<1>14. CASE UNCHANGED vars
  BY Zenon, <1>14, <1>0, <1>a, <1>b, <1>c, <1>d, <1>e DEF vars
<1>15. QED
  BY <1>1, <1>2, <1>3, <1>4, <1>5, <1>6, <1>7, <1>8, <1>9, <1>10, <1>11, <1>12,
     <1>13, <1>14 DEF Next

\* As long as nothing is lost on the receiving side, whatever the sender's
\* transport, allocations, timeouts and signals do, a flow past the low
\* watermark whose link is up always has a confirmation under way: the
\* tx_failed work-around of qrtr_tx_flow_failed is sufficient.
THEOREM ConfirmSurvives == ASSUME ReceiverLossless PROVE Spec => []ConfirmNotLost
<1>1. Init => Calm /\ Allocated /\ ConfirmNotLost
  BY Watermarks DEF Init, Calm, Allocated, ConfirmNotLost
<1>2. Calm /\ Allocated /\ ConfirmNotLost /\ TypeOK /\ Routed /\ [Next]_vars
        => (Calm /\ Allocated /\ ConfirmNotLost)'
  BY CalmStep, AllocatedStep, ConfirmStep
<1>3. QED
  BY <1>1, <1>2, TypeCorrect, RoutedInvariant, PTL DEF Spec

-----------------------------------------------------------------------------
(* Finite sets: the facts of the library that are needed below and in        *)
(* QrtrWindowProofs, which sees nothing else of it.                          *)

LOCAL FST == INSTANCE FiniteSetTheorems

\* The library speaks of the same finite sets and the same sizes.
LEMMA SameSets ==
    /\ \A S : FST!IsFiniteSet(S) <=> IsFiniteSet(S)
    /\ \A S : FST!Cardinality(S) = Cardinality(S)
<1>1. \A S : FST!IsFiniteSet(S) <=> IsFiniteSet(S)
  BY DEF IsFiniteSet, FST!IsFiniteSet
<1>2. \A S : FST!Cardinality(S) = Cardinality(S)
  BY DEF Cardinality, FST!Cardinality
<1>3. QED
  BY <1>1, <1>2

\* The size of a finite set is a number, and 0 for the empty one only.
LEMMA SizeType ==
    /\ \A S : IsFiniteSet(S) => Cardinality(S) \in Nat /\ (Cardinality(S) = 0 <=> S = {})
    /\ Cardinality({}) = 0
BY SameSets, FST!FS_CardinalityType, FST!FS_EmptySet

\* A subset of a finite set is finite and no larger.
LEMMA SizeSubset ==
    ASSUME NEW S, IsFiniteSet(S), NEW T \in SUBSET S
    PROVE  IsFiniteSet(T) /\ Cardinality(T) <= Cardinality(S)
BY SameSets, FST!FS_Subset

\* The numbers up to n are finitely many.
LEMMA FiniteInterval == \A n \in Nat : IsFiniteSet(1 .. n)
BY SameSets, FST!FS_Interval

\* One element more.
LEMMA SizeAdd ==
    ASSUME NEW S, IsFiniteSet(S), NEW x
    PROVE  Cardinality(S \cup {x}) = IF x \in S THEN Cardinality(S) ELSE Cardinality(S) + 1
BY SameSets, FST!FS_AddElement

\* One element less.
LEMMA SizeRemove ==
    ASSUME NEW S, IsFiniteSet(S), NEW x
    PROVE  Cardinality(S \ {x}) = IF x \in S THEN Cardinality(S) - 1 ELSE Cardinality(S)
BY SameSets, FST!FS_RemoveElement

\* Sets that a function maps one to one onto each other have the same size.
LEMMA SizeMapped ==
    ASSUME NEW S, IsFiniteSet(S), NEW T, NEW f \in [S -> T],
           \A x, y \in S : f[x] = f[y] => x = y, \A z \in T : \E x \in S : f[x] = z
    PROVE  Cardinality(T) = Cardinality(S)
<1>1. f \in FST!Bijection(S, T)
  BY DEF FST!Bijection, FST!Injection, FST!Surjection, FST!IsInjective
<1>2. FST!ExistsBijection(S, T)
  BY <1>1, Zenon DEF FST!ExistsBijection
<1>3. QED
  BY <1>2, SameSets, FST!FS_Bijection

-----------------------------------------------------------------------------
(* Counting the elements of a queue *)

\* How many elements of q after position i are in S.
Positions(q, i, S) == {j \in DOMAIN q : i < j /\ q[j] \in S}
After(q, i, S) == Cardinality(Positions(q, i, S))

\* The positions of a queue are finitely many.
LEMMA PositionsFinite ==
    ASSUME NEW T, NEW q \in Seq(T), NEW i \in Nat, NEW S
    PROVE  IsFiniteSet(Positions(q, i, S)) /\ After(q, i, S) \in Nat
<1>1. Positions(q, i, S) \in SUBSET (1..Len(q)) /\ Len(q) \in Nat
  BY DEF Positions
<1>2. IsFiniteSet(1..Len(q))
  BY <1>1, FiniteInterval
<1>3. IsFiniteSet(Positions(q, i, S))
  BY <1>1, <1>2, SizeSubset
<1>4. QED
  BY <1>3, SizeType DEF After

\* An element put at the end counts once, for every position before it.
LEMMA AfterAppend ==
    ASSUME NEW T, NEW q \in Seq(T), NEW x \in T, NEW i \in Nat, i <= Len(q), NEW S
    PROVE  After(Append(q, x), i, S) = After(q, i, S) + (IF x \in S THEN 1 ELSE 0)
<1> DEFINE P == Positions(q, i, S)
<1>0. IsFiniteSet(P) /\ Cardinality(P) \in Nat
  BY PositionsFinite DEF After
<1>1. Len(q) + 1 \notin P
  BY DEF Positions
<1>2. CASE x \in S
  <2>1. Positions(Append(q, x), i, S) = P \cup {Len(q) + 1}
    BY <1>2 DEF Positions
  <2>2. QED
    BY Zenon, <1>0, <1>1, <1>2, <2>1, SizeAdd DEF After
<1>3. CASE x \notin S
  <2>1. Positions(Append(q, x), i, S) = P
    BY <1>3 DEF Positions
  <2>2. QED
    BY <1>0, <1>3, <2>1 DEF After
<1>4. QED
  BY <1>2, <1>3

\* Nothing of an empty queue counts.
LEMMA AfterEmpty == \A i, S : After(<< >>, i, S) = 0
<1>1. \A i, S : Positions(<< >>, i, S) = {}
  BY DEF Positions
<1>2. QED
  BY <1>1, SizeType DEF After

\* The first element counts once, for position 0 only.
LEMMA AfterHead ==
    ASSUME NEW T, NEW q \in Seq(T), q # << >>, NEW S
    PROVE  After(q, 0, S) = After(q, 1, S) + (IF Head(q) \in S THEN 1 ELSE 0)
<1> DEFINE P == Positions(q, 1, S)
<1>0. IsFiniteSet(P) /\ Cardinality(P) \in Nat
  BY PositionsFinite DEF After
<1>1. 1 \notin P /\ Head(q) = q[1] /\ 1 \in DOMAIN q
  BY DEF Positions
<1>2. CASE Head(q) \in S
  <2>1. Positions(q, 0, S) = P \cup {1}
    BY <1>1, <1>2 DEF Positions
  <2>2. QED
    BY <1>0, <1>1, <1>2, <2>1, SizeAdd DEF After
<1>3. CASE Head(q) \notin S
  <2>1. Positions(q, 0, S) = P
    BY <1>1, <1>3 DEF Positions
  <2>2. QED
    BY <1>0, <1>3, <2>1 DEF After
<1>4. QED
  BY <1>2, <1>3

\* Taking the first element off shifts the positions.
LEMMA AfterTail ==
    ASSUME NEW T, NEW q \in Seq(T), q # << >>, NEW i \in Nat, NEW S
    PROVE  After(Tail(q), i, S) = After(q, i + 1, S)
<1> DEFINE A == Positions(Tail(q), i, S)
           B == Positions(q, i + 1, S)
           f == [j \in A |-> j + 1]
<1>1. Len(Tail(q)) = Len(q) - 1 /\ \A j \in 1..(Len(q) - 1) : Tail(q)[j] = q[j + 1]
  OBVIOUS
<1>2. \A j \in A : j \in Nat /\ j + 1 \in B
  BY <1>1 DEF Positions
<1>3. \A k \in B : k - 1 \in A /\ k \in Nat
  BY <1>1 DEF Positions
<1>4. f \in [A -> B] /\ \A x, y \in A : f[x] = f[y] => x = y
  BY <1>2
<1>5. \A k \in B : \E x \in A : f[x] = k
  <2> SUFFICES ASSUME NEW k \in B PROVE \E x \in A : f[x] = k
    OBVIOUS
  <2>1. k - 1 \in A /\ f[k - 1] = k
    BY <1>3
  <2>2. QED
    BY <2>1
<1>6. IsFiniteSet(A)
  <2>1. Tail(q) \in Seq(T)
    OBVIOUS
  <2>2. QED
    BY Zenon, <2>1, PositionsFinite
<1>7. Cardinality(B) = Cardinality(A)
  <2> HIDE DEF A, B, f
  <2>1. QED
    BY <1>4, <1>5, <1>6, SizeMapped
<1>8. QED
  BY <1>7 DEF After

\* A queue with an element of S after position i counts it.
LEMMA AfterPositive ==
    ASSUME NEW T, NEW q \in Seq(T), NEW i \in Nat, NEW S,
           NEW j \in DOMAIN q, i < j, q[j] \in S
    PROVE  After(q, i, S) >= 1
<1>1. Positions(q, i, S) # {}
  BY DEF Positions
<1>2. After(q, i, S) # 0
  BY <1>1, PositionsFinite, SizeType DEF After
<1>3. QED
  BY <1>2, PositionsFinite

-----------------------------------------------------------------------------
(* The bounds of one flow *)

Flag(b) == IF b THEN 1 ELSE 0
AskOf(p) == {Data(p, TRUE)}
Asked == {TRUE}
DataOf(p) == {Data(p, b) : b \in BOOLEAN}

\* n packets are counted, f is the tx_failed flag, c of the x senders past
\* qrtr_tx_wait carry a confirm_rx, q is the link and s the socket queue the
\* packets take, and a confirmations have been read.  There is one
\* confirmation at most.  The packets behind it, and so those behind the last
\* one to be read, were counted after it, but for one per overtaken sender.
Slack(n) == n + Cardinality(Thread) - 1 - LOW
OnWay(q, p) == After(q, 0, DataOf(p))
Behind(q, p, b) == \A i \in DOMAIN q : q[i] \in AskOf(p) => After(q, i, DataOf(p)) <= b
BehindIn(s, b) == \A i \in DOMAIN s : s[i] = TRUE => Len(s) - i <= b
Confirms(q, s, p) == After(q, 0, AskOf(p)) + After(s, 0, Asked)

Within(k, n, f, c, x, d, z, v, a) ==
    /\ f + c + v + a <= (IF n >= LOW THEN 1 ELSE 0)
    /\ f + x + d + z <= k + HIGH
    /\ a >= 1 => x + d + z <= k

Bounded(p, n, f, c, x, q, s, a) ==
    /\ Within(Slack(n), n, f, c, x, OnWay(q, p), Len(s), Confirms(q, s, p), a)
    /\ Behind(q, p, Slack(n) - x)
    /\ BehindIn(s, Slack(n) - x - OnWay(q, p))

\* The limits and what is counted are numbers.
LEMMA CountTypes ==
    /\ Cardinality(Thread) \in Nat /\ LOW \in Nat /\ HIGH \in Nat /\ 0 < LOW /\ LOW < HIGH
    /\ \A n \in Nat : Slack(n) \in Int /\ Slack(n + 1) = Slack(n) + 1
<1>1. Cardinality(Thread) \in Nat
  BY FlowAssumption, SizeType
<1>2. QED
  BY <1>1, FlowAssumption DEF Slack

\* So are the numbers that bound a flow.
LEMMA AfterTypes ==
    ASSUME NEW q \in Seq(Packet), NEW s \in Seq(BOOLEAN), NEW p
    PROVE  OnWay(q, p) \in Nat /\ Confirms(q, s, p) \in Nat /\ Len(s) \in Nat
  BY PositionsFinite DEF OnWay, Confirms

\* A bound on what is behind a confirmation may be raised.
LEMMA BehindRaise ==
    ASSUME NEW q \in Seq(Packet), NEW s \in Seq(BOOLEAN), NEW p,
           NEW b \in Int, NEW d \in Int, b <= d
    PROVE  (Behind(q, p, b) => Behind(q, p, d)) /\ (BehindIn(s, b) => BehindIn(s, d))
<1>1. \A i \in DOMAIN q : After(q, i, DataOf(p)) \in Nat
  <2>1. DOMAIN q \subseteq Nat
    OBVIOUS
  <2>2. QED
    BY <2>1, PositionsFinite
<1>2. ASSUME Behind(q, p, b), NEW i \in DOMAIN q, q[i] \in AskOf(p)
      PROVE  After(q, i, DataOf(p)) <= d
  <2>1. After(q, i, DataOf(p)) <= b
    BY <1>2 DEF Behind
  <2>2. \A y \in Nat : y <= b => y <= d
    OBVIOUS
  <2>3. QED
    BY <1>1, <2>1, <2>2
<1>3. BehindIn(s, b) => BehindIn(s, d)
  BY DEF BehindIn
<1>4. QED
  BY <1>2, <1>3 DEF Behind

\* Without a confirmation in them, the queues bound nothing.
LEMMA NoConfirmIn ==
    ASSUME NEW q \in Seq(Packet), NEW s \in Seq(BOOLEAN), NEW p,
           Confirms(q, s, p) = 0, NEW b
    PROVE  Behind(q, p, b) /\ BehindIn(s, b)
<1>0. After(q, 0, AskOf(p)) = 0 /\ After(s, 0, Asked) = 0
  BY PositionsFinite DEF Confirms
<1>1. ASSUME NEW i \in DOMAIN q, q[i] \in AskOf(p) PROVE FALSE
  <2>1. 0 < i /\ q[i] \in AskOf(p)
    BY <1>1 DEF AskOf
  <2>2. After(q, 0, AskOf(p)) >= 1
    BY <2>1, AfterPositive
  <2>3. QED
    BY <1>0, <2>2
<1>2. ASSUME NEW i \in DOMAIN s, s[i] = TRUE PROVE FALSE
  <2>1. 0 < i /\ s[i] \in Asked
    BY <1>2 DEF Asked
  <2>2. After(s, 0, Asked) >= 1
    BY <2>1, AfterPositive
  <2>3. QED
    BY <1>0, <2>2
<1>3. QED
  BY Zenon, <1>1, <1>2 DEF Behind, BehindIn

\* qrtr_tx_wait counts a packet and asks for a confirmation at LOW.
LEMMA Counted ==
    ASSUME NEW p, NEW n \in Nat, NEW c \in Nat, NEW x \in Nat, NEW a \in Nat,
           NEW q \in Seq(Packet), NEW s \in Seq(BOOLEAN),
           Bounded(p, n, 0, c, x, q, s, a)
    PROVE  Bounded(p, n + 1, 0, c + Flag(n + 1 = LOW), x + 1, q, s, a)
<1>0. LOW \in Nat /\ HIGH \in Nat /\ Slack(n) \in Int /\ Slack(n + 1) = Slack(n) + 1
  BY CountTypes
<1>1. \A k \in Int, d, z, v \in Nat :
         Within(k, n, 0, c, x, d, z, v, a)
         => Within(k + 1, n + 1, 0, c + Flag(n + 1 = LOW), x + 1, d, z, v, a)
  BY <1>0 DEF Within, Flag
<1>2. Slack(n + 1) - (x + 1) = Slack(n) - x
  BY <1>0
<1>3. Within(Slack(n) + 1, n + 1, 0, c + Flag(n + 1 = LOW), x + 1, OnWay(q, p), Len(s),
             Confirms(q, s, p), a)
  BY Zenon, <1>0, <1>1, AfterTypes DEF Bounded
<1>4. QED
  BY Zenon, <1>0, <1>2, <1>3 DEF Bounded

\* A sender takes over the confirmation of a failed one: it was the only one.
LEMMA TakenOver ==
    ASSUME NEW p, NEW n \in Nat, NEW c \in Nat, NEW x \in Nat, NEW a \in Nat,
           NEW q \in Seq(Packet), NEW s \in Seq(BOOLEAN),
           Bounded(p, n, 1, c, x, q, s, a)
    PROVE  Bounded(p, n, 0, c + 1, x + 1, q, s, a)
<1>0. LOW \in Nat /\ HIGH \in Nat /\ Slack(n) \in Int
  BY CountTypes
<1>1. \A k \in Int, d, z, v \in Nat :
         Within(k, n, 1, c, x, d, z, v, a)
         => Within(k, n, 0, c + 1, x + 1, d, z, v, a) /\ v = 0
  BY <1>0 DEF Within
<1>2. Confirms(q, s, p) = 0
  BY <1>0, <1>1, AfterTypes DEF Bounded
<1>3. \A b : Behind(q, p, b) /\ BehindIn(s, b)
  BY <1>2, NoConfirmIn
<1>4. QED
  BY <1>0, <1>1, <1>3, AfterTypes DEF Bounded

\* Senders, packets or answers are gone: nothing is further behind than before.
LEMMA Lost ==
    ASSUME NEW p, NEW n \in Nat, NEW f \in Nat, NEW c \in Nat, NEW x \in Nat, NEW a \in Nat,
           NEW q \in Seq(Packet), NEW s \in Seq(BOOLEAN),
           Bounded(p, n, f, c, x, q, s, a)
    PROVE  \A g, e, y, b \in Nat : g + e <= f + c /\ y <= x /\ g + y <= f + x /\ b <= a
              => Bounded(p, n, g, e, y, q, s, b)
<1> SUFFICES ASSUME NEW g \in Nat, NEW e \in Nat, NEW y \in Nat, NEW b \in Nat,
                    g + e <= f + c, y <= x, g + y <= f + x, b <= a
             PROVE  Bounded(p, n, g, e, y, q, s, b)
  OBVIOUS
<1>0. LOW \in Nat /\ HIGH \in Nat /\ Slack(n) \in Int
  BY CountTypes
<1>1. \A k \in Int, d, z, v \in Nat :
         Within(k, n, f, c, x, d, z, v, a) => Within(k, n, g, e, y, d, z, v, b)
  BY <1>0 DEF Within
<1>2. \A k \in Int, d \in Nat : k - x \in Int /\ k - y \in Int /\ k - x <= k - y
         /\ k - x - d \in Int /\ k - y - d \in Int /\ k - x - d <= k - y - d
  OBVIOUS
<1>3. Behind(q, p, Slack(n) - y) /\ BehindIn(s, Slack(n) - y - OnWay(q, p))
  BY Zenon, <1>0, <1>2, AfterTypes, BehindRaise DEF Bounded
<1>4. QED
  BY Zenon, <1>0, <1>1, <1>3, AfterTypes DEF Bounded

\* A packet put on the link: what it adds to the counts of flow p.
LEMMA OnAppend ==
    ASSUME NEW q \in Seq(Packet), NEW s \in Seq(BOOLEAN), NEW p, NEW m \in Packet
    PROVE  /\ OnWay(Append(q, m), p) = OnWay(q, p) + Flag(m \in DataOf(p))
           /\ Confirms(Append(q, m), s, p) = Confirms(q, s, p) + Flag(m \in AskOf(p))
<1>1. 0 \in Nat /\ 0 <= Len(q)
  OBVIOUS
<1>2. /\ After(Append(q, m), 0, DataOf(p)) = After(q, 0, DataOf(p)) + Flag(m \in DataOf(p))
      /\ After(Append(q, m), 0, AskOf(p)) = After(q, 0, AskOf(p)) + Flag(m \in AskOf(p))
  BY <1>1, AfterAppend DEF Flag
<1>3. After(q, 0, AskOf(p)) \in Nat /\ After(s, 0, Asked) \in Nat
  BY PositionsFinite
<1>4. \A u, v, w \in Nat : (u + w) + v = (u + v) + w
  OBVIOUS
<1>5. Flag(m \in AskOf(p)) \in Nat
  BY DEF Flag
<1>6. QED
  BY <1>2, <1>3, <1>4, <1>5 DEF OnWay, Confirms

\* The packet taken off the link: what the counts of flow p lose.
LEMMA OnTail ==
    ASSUME NEW q \in Seq(Packet), q # << >>, NEW s \in Seq(BOOLEAN), NEW p
    PROVE  /\ OnWay(q, p) = OnWay(Tail(q), p) + Flag(Head(q) \in DataOf(p))
           /\ Confirms(q, s, p) = Confirms(Tail(q), s, p) + Flag(Head(q) \in AskOf(p))
<1>1. Tail(q) \in Seq(Packet) /\ 0 \in Nat /\ 0 + 1 = 1
  OBVIOUS
<1>2. \A S : /\ After(q, 0, S) = After(q, 1, S) + Flag(Head(q) \in S)
             /\ After(Tail(q), 0, S) = After(q, 1, S)
  BY <1>1, AfterHead, AfterTail DEF Flag
<1>3. After(Tail(q), 0, AskOf(p)) \in Nat /\ After(s, 0, Asked) \in Nat
  BY Zenon, <1>1, PositionsFinite
<1>4. \A u, v, w \in Nat : (u + w) + v = (u + v) + w
  OBVIOUS
<1>5. Flag(Head(q) \in AskOf(p)) \in Nat
  BY DEF Flag
<1>6. QED
  BY <1>2, <1>3, <1>4, <1>5 DEF OnWay, Confirms

\* What is behind a confirmation when a packet is put on the link.
LEMMA BehindAppend ==
    ASSUME NEW q \in Seq(Packet), NEW p, NEW m \in Packet, NEW b \in Int, NEW d \in Int,
           Behind(q, p, b), b + Flag(m \in DataOf(p)) <= d, m \in AskOf(p) => 0 <= d
    PROVE  Behind(Append(q, m), p, d)
<1> SUFFICES ASSUME NEW i \in DOMAIN Append(q, m), Append(q, m)[i] \in AskOf(p)
             PROVE  After(Append(q, m), i, DataOf(p)) <= d
  BY DEF Behind
<1>1. CASE i = Len(q) + 1
  <2>1. Positions(Append(q, m), i, DataOf(p)) = {}
    BY <1>1 DEF Positions
  <2>2. After(Append(q, m), i, DataOf(p)) = 0
    BY <2>1, SizeType DEF After
  <2>3. m \in AskOf(p)
    BY <1>1
  <2>4. QED
    BY <2>2, <2>3
<1>2. CASE i \in DOMAIN q
  <2>1. i \in Nat /\ i <= Len(q) /\ q[i] \in AskOf(p)
    BY <1>2
  <2>2. After(Append(q, m), i, DataOf(p)) = After(q, i, DataOf(p)) + Flag(m \in DataOf(p))
    BY <2>1, AfterAppend DEF Flag
  <2>3. After(q, i, DataOf(p)) <= b /\ After(q, i, DataOf(p)) \in Nat
    BY <1>2, <2>1, PositionsFinite DEF Behind
  <2>4. \A u, w \in Nat : u <= b /\ b + w <= d => u + w <= d
    OBVIOUS
  <2>5. Flag(m \in DataOf(p)) \in Nat
    BY DEF Flag
  <2>6. QED
    BY <2>2, <2>3, <2>4, <2>5
<1>3. QED
  BY <1>1, <1>2

\* What is behind a confirmation when a packet is taken off the link.
LEMMA BehindTail ==
    ASSUME NEW q \in Seq(Packet), q # << >>, NEW p, NEW b \in Int, Behind(q, p, b)
    PROVE  /\ Behind(Tail(q), p, b)
           /\ Head(q) \in AskOf(p) => OnWay(Tail(q), p) <= b
<1>1. \A i \in Nat : After(Tail(q), i, DataOf(p)) = After(q, i + 1, DataOf(p))
  BY AfterTail
<1>2. ASSUME NEW i \in DOMAIN Tail(q), Tail(q)[i] \in AskOf(p)
      PROVE  After(Tail(q), i, DataOf(p)) <= b
  <2>1. i \in Nat /\ i + 1 \in DOMAIN q /\ q[i + 1] \in AskOf(p)
    BY <1>2
  <2>2. QED
    BY <1>1, <2>1 DEF Behind
<1>3. ASSUME Head(q) \in AskOf(p) PROVE OnWay(Tail(q), p) <= b
  <2>1. 1 \in DOMAIN q /\ q[1] \in AskOf(p) /\ 0 + 1 = 1 /\ 0 \in Nat
    BY <1>3
  <2>2. QED
    BY <1>1, <2>1 DEF Behind, OnWay
<1>4. QED
  BY <1>2, <1>3 DEF Behind

\* Which packets belong to a flow and which ask for a confirmation.
LEMMA PacketKinds ==
    ASSUME NEW p \in Sock, NEW b \in BOOLEAN
    PROVE  /\ Data(p, b) \in Packet /\ ResumeTx(p) \in Packet
           /\ \A r \in Sock : Data(p, b) \in DataOf(r) <=> r = p
           /\ \A r \in Sock : Data(p, b) \in AskOf(r) <=> r = p /\ b
           /\ \A r \in Sock : ResumeTx(p) \notin DataOf(r) /\ ResumeTx(p) \notin AskOf(r)
<1>1. Data(p, b) \in Packet /\ ResumeTx(p) \in Packet
  BY DEF Data, ResumeTx, Packet
<1>2. \A r \in Sock, d \in BOOLEAN : Data(p, b) = Data(r, d) <=> r = p /\ d = b
  BY DEF Data
<1>3. \A r \in Sock, d \in BOOLEAN : ResumeTx(p) # Data(r, d)
  BY DEF Data, ResumeTx
<1>4. QED
  BY Zenon, <1>1, <1>2, <1>3 DEF DataOf, AskOf

\* A sender puts its packet on the link.  One that asks for a confirmation has
\* nothing behind it but the packets of the other senders.
LEMMA Sent ==
    ASSUME NEW p \in Sock, NEW n \in Nat, NEW f \in Nat, NEW c \in Nat, NEW x \in Nat, NEW a \in Nat,
           NEW q \in Seq(Packet), NEW s \in Seq(BOOLEAN),
           Bounded(p, n, f, c, x, q, s, a),
           NEW b \in BOOLEAN, Flag(b) <= c, 1 <= x, x <= Cardinality(Thread)
    PROVE  Bounded(p, n, f, c - Flag(b), x - 1, Append(q, Data(p, b)), s, a)
<1>0. /\ Cardinality(Thread) \in Nat /\ LOW \in Nat /\ HIGH \in Nat /\ Slack(n) \in Int
      /\ Slack(n) = n + Cardinality(Thread) - 1 - LOW
  BY CountTypes DEF Slack
<1> DEFINE m == Data(p, b)
           y == x - 1
           e == c - Flag(b)
<1>1. /\ m \in Packet /\ m \in DataOf(p) /\ (m \in AskOf(p) <=> b) /\ y \in Nat /\ e \in Nat
      /\ Flag(b) \in Nat
  <2>1. m \in Packet /\ m \in DataOf(p) /\ (m \in AskOf(p) <=> b)
    BY Zenon, PacketKinds
  <2>2. Flag(b) \in Nat
    BY DEF Flag
  <2>3. y \in Nat /\ e \in Nat
    BY <2>2
  <2>4. QED
    BY <2>1, <2>2, <2>3
<1> HIDE DEF m
<1>2. /\ OnWay(Append(q, m), p) = OnWay(q, p) + 1
      /\ Confirms(Append(q, m), s, p) = Confirms(q, s, p) + Flag(b)
  <2>1. Flag(m \in DataOf(p)) = 1 /\ Flag(m \in AskOf(p)) = Flag(b)
    BY <1>1 DEF Flag
  <2>2. QED
    BY <1>1, <2>1, OnAppend
<1>3. \A k \in Int, d, z, v, w \in Nat : w <= c /\ Within(k, n, f, c, x, d, z, v, a)
         => Within(k, n, f, c - w, x - 1, d + 1, z, v + w, a)
  BY <1>0 DEF Within
<1>4. b => LOW <= n
  <2>1. \A k \in Int, d, z, v \in Nat : 1 <= c /\ Within(k, n, f, c, x, d, z, v, a) => LOW <= n
    BY <1>0 DEF Within
  <2>2. b => 1 <= c
    BY DEF Flag
  <2>3. QED
    BY Zenon, <1>0, <2>1, <2>2, AfterTypes DEF Bounded
<1>5. Behind(Append(q, m), p, Slack(n) - y)
  <2>0. \A k \in Int : k - x \in Int /\ k - (x - 1) \in Int /\ (k - x) + 1 <= k - (x - 1)
    OBVIOUS
  <2>1. Slack(n) - x \in Int /\ Slack(n) - y \in Int /\ (Slack(n) - x) + 1 <= Slack(n) - y
    BY Zenon, <1>0, <2>0
  <2>2. m \in AskOf(p) => 0 <= Slack(n) - y
    <3>1. \A l, z \in Nat : l <= n /\ x <= z => 0 <= (n + z - 1 - l) - (x - 1)
      OBVIOUS
    <3>2. LOW <= n => 0 <= Slack(n) - y
      BY Zenon, <1>0, <3>1
    <3>3. QED
      BY Zenon, <1>1, <1>4, <3>2
  <2>3. Flag(m \in DataOf(p)) = 1
    BY Zenon, <1>1 DEF Flag
  <2>4. QED
    BY Zenon, <1>1, <2>1, <2>2, <2>3, BehindAppend DEF Bounded
<1>6. \A k \in Int, d \in Nat : k - x - d = k - (x - 1) - (d + 1)
  OBVIOUS
<1>7. BehindIn(s, Slack(n) - y - OnWay(Append(q, m), p))
  <2>1. OnWay(q, p) \in Nat
    BY AfterTypes
  <2>2. Slack(n) - x - OnWay(q, p) = Slack(n) - (x - 1) - (OnWay(q, p) + 1)
    BY Zenon, <1>0, <1>6, <2>1
  <2>3. QED
    BY Zenon, <1>2, <2>2 DEF Bounded
<1>8. Within(Slack(n), n, f, e, y, OnWay(Append(q, m), p), Len(s), Confirms(Append(q, m), s, p), a)
  <2>1. OnWay(q, p) \in Nat /\ Len(s) \in Nat /\ Confirms(q, s, p) \in Nat
    BY AfterTypes
  <2>2. Flag(b) \in Nat /\ Flag(b) <= c
    BY Zenon, <1>1
  <2>3. Within(Slack(n), n, f, c - Flag(b), x - 1, OnWay(q, p) + 1, Len(s),
               Confirms(q, s, p) + Flag(b), a)
    BY Zenon, <1>0, <1>3, <2>1, <2>2 DEF Bounded
  <2>4. QED
    BY Zenon, <1>2, <2>3
<1>9. QED
  BY Zenon, <1>5, <1>7, <1>8 DEF Bounded, m

\* A packet that is not of the flow is put on the link.
LEMMA OtherSent ==
    ASSUME NEW p \in Sock, NEW n \in Nat, NEW f \in Nat, NEW c \in Nat, NEW x \in Nat, NEW a \in Nat,
           NEW q \in Seq(Packet), NEW s \in Seq(BOOLEAN),
           Bounded(p, n, f, c, x, q, s, a),
           NEW m \in Packet, m \notin DataOf(p), m \notin AskOf(p)
    PROVE  Bounded(p, n, f, c, x, Append(q, m), s, a)
<1>0. Slack(n) \in Int
  BY CountTypes
<1>1. OnWay(Append(q, m), p) = OnWay(q, p) /\ Confirms(Append(q, m), s, p) = Confirms(q, s, p)
  <2>1. Flag(m \in DataOf(p)) = 0 /\ Flag(m \in AskOf(p)) = 0
    BY DEF Flag
  <2>2. QED
    BY <2>1, OnAppend, AfterTypes
<1>2. Behind(Append(q, m), p, Slack(n) - x)
  <2>1. Slack(n) - x \in Int /\ (Slack(n) - x) + 0 <= Slack(n) - x
    BY <1>0
  <2>2. Flag(m \in DataOf(p)) = 0
    BY DEF Flag
  <2>3. QED
    BY Zenon, <2>1, <2>2, BehindAppend DEF Bounded
<1>3. QED
  BY <1>1, <1>2 DEF Bounded

\* The packet at the head of the link is gone.
LEMMA Dropped ==
    ASSUME NEW p \in Sock, NEW n \in Nat, NEW f \in Nat, NEW c \in Nat, NEW x \in Nat, NEW a \in Nat,
           NEW q \in Seq(Packet), q # << >>, NEW s \in Seq(BOOLEAN),
           Bounded(p, n, f, c, x, q, s, a)
    PROVE  Bounded(p, n, f, c, x, Tail(q), s, a)
<1>0. LOW \in Nat /\ HIGH \in Nat /\ Slack(n) \in Int /\ Tail(q) \in Seq(Packet)
  BY CountTypes
<1> DEFINE g == Flag(Head(q) \in DataOf(p))
           h == Flag(Head(q) \in AskOf(p))
<1>1. g \in Nat /\ h \in Nat
  BY DEF Flag
<1> HIDE DEF g, h
<1>2. OnWay(q, p) = OnWay(Tail(q), p) + g /\ Confirms(q, s, p) = Confirms(Tail(q), s, p) + h
  BY OnTail DEF g, h
<1>3. \A k \in Int, d, z, v, u, w \in Nat :
         Within(k, n, f, c, x, d + u, z, v + w, a) => Within(k, n, f, c, x, d, z, v, a)
  BY <1>0 DEF Within
<1>4. \A k \in Int, d, u \in Nat :
         k - x \in Int /\ k - x - (d + u) \in Int /\ k - x - d \in Int /\ k - x - (d + u) <= k - x - d
  OBVIOUS
<1>5. OnWay(Tail(q), p) \in Nat /\ Confirms(Tail(q), s, p) \in Nat /\ Len(s) \in Nat
  BY Zenon, <1>0, AfterTypes
<1>6. Within(Slack(n), n, f, c, x, OnWay(Tail(q), p), Len(s), Confirms(Tail(q), s, p), a)
  <2>1. Within(Slack(n), n, f, c, x, OnWay(Tail(q), p) + g, Len(s), Confirms(Tail(q), s, p) + h, a)
    BY Zenon, <1>2 DEF Bounded
  <2>2. QED
    BY Zenon, <1>0, <1>1, <1>3, <1>5, <2>1
<1>7. Behind(Tail(q), p, Slack(n) - x)
  BY <1>0, <1>4, <1>5, BehindTail DEF Bounded
<1>8. BehindIn(s, Slack(n) - x - OnWay(Tail(q), p))
  BY Zenon, <1>0, <1>1, <1>2, <1>4, <1>5, BehindRaise DEF Bounded
<1>9. QED
  BY <1>6, <1>7, <1>8 DEF Bounded

\* A flag put into, or taken from, the queue of the socket.
LEMMA OnQueue ==
    ASSUME NEW q \in Seq(Packet), NEW s \in Seq(BOOLEAN), NEW p, NEW b \in BOOLEAN
    PROVE  /\ Confirms(q, Append(s, b), p) = Confirms(q, s, p) + Flag(b)
           /\ s # << >> => Confirms(q, s, p) = Confirms(q, Tail(s), p) + Flag(Head(s))
<1>0. 0 \in Nat /\ 0 <= Len(s) /\ 0 + 1 = 1 /\ (s # << >> => Tail(s) \in Seq(BOOLEAN) /\ Head(s) \in BOOLEAN)
  OBVIOUS
<1>1. \A v \in BOOLEAN : Flag(v \in Asked) = Flag(v) /\ Flag(v) \in Nat
  BY Zenon DEF Flag, Asked
<1>2. After(Append(s, b), 0, Asked) = After(s, 0, Asked) + Flag(b)
  BY <1>0, <1>1, AfterAppend DEF Flag
<1>3. ASSUME s # << >> PROVE After(s, 0, Asked) = After(Tail(s), 0, Asked) + Flag(Head(s))
  <2>1. After(s, 0, Asked) = After(s, 1, Asked) + Flag(Head(s) \in Asked)
    BY <1>3, AfterHead DEF Flag
  <2>2. After(Tail(s), 0, Asked) = After(s, 1, Asked)
    BY <1>0, <1>3, AfterTail
  <2>3. QED
    BY Zenon, <1>0, <1>1, <1>3, <2>1, <2>2
<1>4. \A u, v, w \in Nat : u + (v + w) = (u + v) + w
  OBVIOUS
<1>5. After(q, 0, AskOf(p)) \in Nat /\ After(s, 0, Asked) \in Nat
      /\ (s # << >> => After(Tail(s), 0, Asked) \in Nat)
  BY Zenon, <1>0, PositionsFinite
<1>6. Confirms(q, Append(s, b), p) = Confirms(q, s, p) + Flag(b)
  <2>1. After(q, 0, AskOf(p)) + (After(s, 0, Asked) + Flag(b))
          = (After(q, 0, AskOf(p)) + After(s, 0, Asked)) + Flag(b)
    BY ZenonT(40), <1>1, <1>4, <1>5
  <2>2. QED
    BY Zenon, <1>2, <2>1 DEF Confirms
<1>7. s # << >> => Confirms(q, s, p) = Confirms(q, Tail(s), p) + Flag(Head(s))
  <2> SUFFICES ASSUME s # << >> PROVE Confirms(q, s, p) = Confirms(q, Tail(s), p) + Flag(Head(s))
    OBVIOUS
  <2>0. Flag(Head(s)) \in Nat /\ After(Tail(s), 0, Asked) \in Nat
    BY Zenon, <1>0, <1>1, <1>5
  <2>1. After(q, 0, AskOf(p)) + (After(Tail(s), 0, Asked) + Flag(Head(s)))
          = (After(q, 0, AskOf(p)) + After(Tail(s), 0, Asked)) + Flag(Head(s))
    BY Zenon, <1>4, <1>5, <2>0
  <2>2. QED
    BY Zenon, <1>3, <2>1 DEF Confirms
<1>8. QED
  BY Zenon, <1>6, <1>7

\* The packet at the head of the link goes to the socket it is for.
LEMMA Delivered ==
    ASSUME NEW p \in Sock, NEW n \in Nat, NEW f \in Nat, NEW c \in Nat, NEW x \in Nat, NEW a \in Nat,
           NEW q \in Seq(Packet), q # << >>, NEW s \in Seq(BOOLEAN),
           Bounded(p, n, f, c, x, q, s, a), NEW b \in BOOLEAN, Head(q) = Data(p, b)
    PROVE  Bounded(p, n, f, c, x, Tail(q), Append(s, b), a)
<1> DEFINE r == Tail(q)
           t == Append(s, b)
<1>0. LOW \in Nat /\ HIGH \in Nat /\ Slack(n) \in Int /\ r \in Seq(Packet) /\ t \in Seq(BOOLEAN)
  BY CountTypes
<1>1. /\ OnWay(r, p) \in Nat /\ Len(s) \in Nat /\ Confirms(r, s, p) \in Nat
      /\ Len(t) = Len(s) + 1
  <2>1. Len(t) = Len(s) + 1
    OBVIOUS
  <2>2. QED
    BY Zenon, <1>0, <2>1, AfterTypes
<1>a. Head(q) \in DataOf(p) /\ (Head(q) \in AskOf(p) <=> b)
  <2>1. Data(p, b) \in DataOf(p) /\ (Data(p, b) \in AskOf(p) <=> b)
    BY Zenon, PacketKinds
  <2>2. QED
    BY Zenon, <2>1
<1>2. Flag(b) \in Nat /\ Flag(Head(q) \in DataOf(p)) = 1 /\ Flag(Head(q) \in AskOf(p)) = Flag(b)
  BY <1>a DEF Flag
<1>3. OnWay(q, p) = OnWay(r, p) + 1 /\ Confirms(q, s, p) = Confirms(r, s, p) + Flag(b)
  BY <1>2, OnTail
<1>4. Confirms(r, t, p) = Confirms(r, s, p) + Flag(b)
  BY Zenon, <1>0, OnQueue
<1> HIDE DEF r, t
<1>5. \A k \in Int, d, z, v \in Nat :
         Within(k, n, f, c, x, d + 1, z, v, a) => Within(k, n, f, c, x, d, z + 1, v, a)
  BY <1>0 DEF Within
<1>6. Confirms(q, s, p) \in Nat
  BY AfterTypes
<1>7. Within(Slack(n), n, f, c, x, OnWay(r, p), Len(t), Confirms(r, t, p), a)
  <2>1. Within(Slack(n), n, f, c, x, OnWay(r, p) + 1, Len(s), Confirms(q, s, p), a)
    BY Zenon, <1>3 DEF Bounded
  <2>2. Within(Slack(n), n, f, c, x, OnWay(r, p), Len(s) + 1, Confirms(q, s, p), a)
    BY Zenon, <1>0, <1>1, <1>5, <1>6, <2>1
  <2>3. QED
    BY Zenon, <1>1, <1>3, <1>4, <2>2
<1>8. /\ Behind(r, p, Slack(n) - x)
      /\ b => OnWay(r, p) <= Slack(n) - x
  <2>1. \A k \in Int : k - x \in Int
    OBVIOUS
  <2>2. b => Head(q) \in AskOf(p)
    BY Zenon, <1>a
  <2>3. Slack(n) - x \in Int /\ Behind(q, p, Slack(n) - x)
    BY Zenon, <1>0, <2>1 DEF Bounded
  <2>4. QED
    BY <2>2, <2>3, BehindTail DEF r
<1>9. BehindIn(t, Slack(n) - x - OnWay(r, p))
  <2> SUFFICES ASSUME NEW i \in DOMAIN t, t[i] = TRUE
               PROVE  Len(t) - i <= Slack(n) - x - OnWay(r, p)
    BY Zenon DEF BehindIn
  <2>1. CASE i = Len(s) + 1
    <3>1. b
      BY <2>1 DEF t
    <3>2. OnWay(r, p) <= Slack(n) - x
      BY <1>8, <3>1
    <3>3. \A k \in Int, d \in Nat : d <= k - x => 0 <= k - x - d
      OBVIOUS
    <3>4. Len(t) - i = 0
      BY <1>1, <2>1
    <3>5. QED
      BY Zenon, <1>0, <1>1, <3>2, <3>3, <3>4
  <2>2. CASE i \in DOMAIN s
    <3>1. i \in Nat /\ s[i] = TRUE
      BY <2>2 DEF t
    <3>2. Len(s) - i <= Slack(n) - x - OnWay(q, p)
      BY Zenon, <2>2, <3>1 DEF Bounded, BehindIn
    <3>3. \A k \in Int, d, z, j \in Nat : z - j <= k - x - (d + 1) => (z + 1) - j <= k - x - d
      OBVIOUS
    <3>4. QED
      BY Zenon, <1>0, <1>1, <1>3, <3>1, <3>2, <3>3
  <2>3. i = Len(s) + 1 \/ i \in DOMAIN s
    BY DEF t
  <2>4. QED
    BY <2>1, <2>2, <2>3
<1>10. QED
  BY Zenon, <1>7, <1>8, <1>9 DEF Bounded, r, t

\* qrtr_recvmsg takes a packet; one that asks for a confirmation has all that
\* is still queued behind it.
LEMMA Taken ==
    ASSUME NEW p \in Sock, NEW n \in Nat, NEW f \in Nat, NEW c \in Nat, NEW x \in Nat, NEW a \in Nat,
           NEW q \in Seq(Packet), NEW s \in Seq(BOOLEAN), s # << >>,
           Bounded(p, n, f, c, x, q, s, a)
    PROVE  Bounded(p, n, f, c, x, q, Tail(s), a + Flag(Head(s)))
<1> DEFINE t == Tail(s)
           h == Flag(Head(s))
<1>0. LOW \in Nat /\ HIGH \in Nat /\ Slack(n) \in Int
  BY CountTypes
<1>1. t \in Seq(BOOLEAN) /\ Len(s) = Len(t) + 1 /\ Len(t) \in Nat /\ Head(s) \in BOOLEAN
  OBVIOUS
<1>2. h \in {0, 1} /\ (h = 1 => Head(s) = TRUE)
  <2>1. \A v \in BOOLEAN : Flag(v) \in {0, 1} /\ (Flag(v) = 1 => v = TRUE)
    BY DEF Flag
  <2>2. QED
    BY Zenon, <1>1, <2>1
<1>3. Confirms(q, s, p) = Confirms(q, t, p) + h
  <2>1. TRUE \in BOOLEAN
    OBVIOUS
  <2>2. QED
    BY Zenon, <2>1, OnQueue
<1>4. OnWay(q, p) \in Nat /\ Confirms(q, t, p) \in Nat
  BY Zenon, <1>1, AfterTypes
<1>5. h = 1 => Len(s) - 1 <= Slack(n) - x - OnWay(q, p)
  <2>0. 1 \in DOMAIN s /\ s[1] = Head(s)
    OBVIOUS
  <2>1. h = 1 => 1 \in DOMAIN s /\ s[1] = TRUE
    BY Zenon, <1>2, <2>0
  <2>2. BehindIn(s, Slack(n) - x - OnWay(q, p))
    BY Zenon DEF Bounded
  <2>3. QED
    BY Zenon, <2>1, <2>2 DEF BehindIn
<1>6. BehindIn(t, Slack(n) - x - OnWay(q, p))
  <2> SUFFICES ASSUME NEW i \in DOMAIN t, t[i] = TRUE
               PROVE  Len(t) - i <= Slack(n) - x - OnWay(q, p)
    BY Zenon DEF BehindIn
  <2>1. i + 1 \in DOMAIN s /\ s[i + 1] = TRUE /\ Len(t) - i = Len(s) - (i + 1)
    BY <1>1
  <2>2. QED
    BY Zenon, <2>1 DEF Bounded, BehindIn
<1> HIDE DEF t, h
<1>7. \A k \in Int, d, z, v \in Nat, w \in {0, 1} :
         /\ Within(k, n, f, c, x, d, z + 1, v + w, a)
         /\ w = 1 => (z + 1) - 1 <= k - x - d
         => Within(k, n, f, c, x, d, z, v, a + w)
  BY <1>0 DEF Within
<1>8. Within(Slack(n), n, f, c, x, OnWay(q, p), Len(t), Confirms(q, t, p), a + h)
  <2>1. Within(Slack(n), n, f, c, x, OnWay(q, p), Len(t) + 1, Confirms(q, t, p) + h, a)
    BY Zenon, <1>1, <1>3 DEF Bounded
  <2>2. h = 1 => (Len(t) + 1) - 1 <= Slack(n) - x - OnWay(q, p)
    BY Zenon, <1>1, <1>5
  <2>3. QED
    BY Zenon, <1>0, <1>1, <1>2, <1>4, <1>7, <2>1, <2>2
<1>9. QED
  BY Zenon, <1>6, <1>8 DEF Bounded, t, h

\* qrtr_tx_resume starts a new window: what is still on its way is what was
\* behind the confirmation.
LEMMA Resumed ==
    ASSUME NEW p \in Sock, NEW n \in Nat, NEW f \in Nat, NEW c \in Nat, NEW x \in Nat, NEW a \in Nat,
           NEW q \in Seq(Packet), NEW s \in Seq(BOOLEAN),
           Bounded(p, n, f, c, x, q, s, a), 1 <= a, n <= HIGH
    PROVE  Bounded(p, 0, f, c, x, q, s, a - 1)
<1>0. LOW \in Nat /\ 0 < LOW /\ HIGH \in Nat /\ Slack(n) \in Int /\ Slack(0) = Slack(n) - n
  <2>1. LOW \in Nat /\ 0 < LOW /\ HIGH \in Nat /\ Slack(n) \in Int /\ Cardinality(Thread) \in Nat
    BY CountTypes
  <2>2. \A z \in Nat : 0 + z - 1 - LOW = (n + z - 1 - LOW) - n
    BY <2>1
  <2>3. QED
    BY Zenon, <2>1, <2>2 DEF Slack
<1>1. \A k \in Int, d, z, v \in Nat : Within(k, n, f, c, x, d, z, v, a)
         => Within(k - n, 0, f, c, x, d, z, v, a - 1) /\ v = 0
  BY <1>0 DEF Within
<1>2. OnWay(q, p) \in Nat /\ Confirms(q, s, p) \in Nat /\ Len(s) \in Nat
  BY AfterTypes
<1>3. /\ Within(Slack(n) - n, 0, f, c, x, OnWay(q, p), Len(s), Confirms(q, s, p), a - 1)
      /\ Confirms(q, s, p) = 0
  <2>1. Within(Slack(n), n, f, c, x, OnWay(q, p), Len(s), Confirms(q, s, p), a)
    BY Zenon DEF Bounded
  <2>2. QED
    BY <1>0, <1>1, <1>2, <2>1
<1>4. \A b : Behind(q, p, b) /\ BehindIn(s, b)
  BY <1>3, NoConfirmIn
<1>5. QED
  BY Zenon, <1>0, <1>3, <1>4 DEF Bounded

\* The queue of the socket is purged, or the link cleared.
LEMMA Cleared ==
    ASSUME NEW p \in Sock, NEW n \in Nat, NEW f \in Nat, NEW c \in Nat, NEW x \in Nat, NEW a \in Nat,
           NEW q \in Seq(Packet), NEW s \in Seq(BOOLEAN),
           Bounded(p, n, f, c, x, q, s, a)
    PROVE  Bounded(p, n, f, c, x, q, << >>, a) /\ Bounded(p, n, f, c, x, << >>, s, a)
<1>0. LOW \in Nat /\ HIGH \in Nat /\ Slack(n) \in Int /\ << >> \in Seq(Packet) /\ << >> \in Seq(BOOLEAN)
      /\ Len(<< >>) = 0
  BY CountTypes
<1>1. /\ OnWay(q, p) \in Nat /\ Len(s) \in Nat
      /\ After(q, 0, AskOf(p)) \in Nat /\ After(s, 0, Asked) \in Nat
  BY <1>0, AfterTypes, PositionsFinite
<1>2. /\ Confirms(q, s, p) = After(q, 0, AskOf(p)) + After(s, 0, Asked)
      /\ Confirms(q, << >>, p) = After(q, 0, AskOf(p)) + 0
      /\ Confirms(<< >>, s, p) = 0 + After(s, 0, Asked)
      /\ OnWay(<< >>, p) = 0
  BY Zenon, AfterEmpty DEF Confirms, OnWay
<1>3. \A k \in Int, d, z, v, w \in Nat : Within(k, n, f, c, x, d, z, v + w, a)
         => Within(k, n, f, c, x, d, 0, v + 0, a) /\ Within(k, n, f, c, x, 0, z, 0 + w, a)
  BY <1>0 DEF Within
<1>4. \A k \in Int, d \in Nat : k - x - d \in Int /\ k - x - 0 \in Int /\ k - x - d <= k - x - 0
  OBVIOUS
<1>5. BehindIn(s, Slack(n) - x - OnWay(<< >>, p))
  <2>1. BehindIn(s, Slack(n) - x - OnWay(q, p))
    BY Zenon DEF Bounded
  <2>2. /\ Slack(n) - x - OnWay(q, p) \in Int /\ Slack(n) - x - 0 \in Int
        /\ Slack(n) - x - OnWay(q, p) <= Slack(n) - x - 0
    BY Zenon, <1>0, <1>1, <1>4
  <2>3. QED
    BY Zenon, <1>2, <2>1, <2>2, BehindRaise
<1>6. (\A b : BehindIn(<< >>, b)) /\ Behind(<< >>, p, Slack(n) - x)
  BY DEF BehindIn, Behind
<1>7. /\ Within(Slack(n), n, f, c, x, OnWay(q, p), 0, Confirms(q, << >>, p), a)
      /\ Within(Slack(n), n, f, c, x, 0, Len(s), Confirms(<< >>, s, p), a)
  <2>1. Within(Slack(n), n, f, c, x, OnWay(q, p), Len(s), After(q, 0, AskOf(p)) + After(s, 0, Asked), a)
    BY Zenon, <1>2 DEF Bounded
  <2>2. /\ Within(Slack(n), n, f, c, x, OnWay(q, p), 0, After(q, 0, AskOf(p)) + 0, a)
        /\ Within(Slack(n), n, f, c, x, 0, Len(s), 0 + After(s, 0, Asked), a)
    BY Zenon, <1>0, <1>1, <1>3, <2>1
  <2>3. QED
    BY Zenon, <1>2, <2>2
<1>8. QED
  BY Zenon, <1>0, <1>2, <1>5, <1>6, <1>7 DEF Bounded
=============================================================================
