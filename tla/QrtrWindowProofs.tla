-------------------------- MODULE QrtrWindowProofs --------------------------
(***************************************************************************)
(* Proofs about QrtrFlow that count packets: a flow has one confirmation   *)
(* under way, and the queue of the receiving socket is bounded.            *)
(***************************************************************************)
EXTENDS QrtrFlowProofs

-----------------------------------------------------------------------------
(* The bounds as a state predicate *)

Senders(p) == {t \in Thread : pc[t] \in {"xmit", "failed"} /\ dst[t] = p}
Asking(p) == {t \in Thread : pc[t] \in {"xmit", "failed"} /\ confirm[t] /\ dst[t] = p}

ResumeOf(p) == {ResumeTx(p)}
Only(p) == {p}
Reading(p) == IF rcv[p] = "confirm" THEN 1 ELSE 0
Returning(p) == After(link[Origin(p)], 0, ResumeOf(p))
Reported(p) == After(rx_queue[Origin(p)], 0, Only(p))
Answers(p) == Reading(p) + Returning(p) + Reported(p)
Failed(p) == IF tx_failed[p] THEN 1 ELSE 0

FlowBounded(p) ==
    Bounded(p, pending[p], Failed(p), Cardinality(Asking(p)), Cardinality(Senders(p)),
            link[Home[p]], sk_queue[p], Answers(p))

FailedAsked == \A t \in Thread : pc[t] = "failed" => confirm[t]
BoundInv == FailedAsked /\ \A p \in Sock : FlowBounded(p)

\* The arguments of FlowBounded have their types.
LEMMA FlowTypes ==
    ASSUME TypeOK, NEW p \in Sock
    PROVE  /\ pending[p] \in Nat /\ Failed(p) \in Nat
           /\ link[Home[p]] \in Seq(Packet) /\ link[Origin(p)] \in Seq(Packet)
           /\ rx_queue[Origin(p)] \in Seq(Sock) /\ sk_queue[p] \in Seq(BOOLEAN)
           /\ Reading(p) \in Nat /\ Returning(p) \in Nat /\ Reported(p) \in Nat
           /\ Answers(p) \in Nat
<1>1. /\ pending[p] \in Nat
      /\ link[Home[p]] \in Seq(Packet) /\ link[Origin(p)] \in Seq(Packet)
      /\ rx_queue[Origin(p)] \in Seq(Sock) /\ sk_queue[p] \in Seq(BOOLEAN)
  BY PlaceType DEF TypeOK
<1>2. Failed(p) \in Nat /\ Reading(p) \in Nat
  BY DEF Failed, Reading
<1>3. Returning(p) \in Nat /\ Reported(p) \in Nat
  BY <1>1, PositionsFinite DEF Returning, Reported
<1>4. Answers(p) \in Nat
  BY <1>2, <1>3 DEF Answers
<1>5. QED
  BY <1>1, <1>2, <1>3, <1>4

\* The senders of a flow are threads, those that ask among them.
LEMMA SenderTypes ==
    ASSUME NEW p
    PROVE  /\ IsFiniteSet(Senders(p)) /\ IsFiniteSet(Asking(p))
           /\ Cardinality(Senders(p)) \in Nat /\ Cardinality(Asking(p)) \in Nat
           /\ Cardinality(Senders(p)) <= Cardinality(Thread)
<1>1. IsFiniteSet(Thread)
  BY FlowAssumption
<1>2. Senders(p) \in SUBSET Thread /\ Asking(p) \in SUBSET Thread
  BY DEF Senders, Asking
<1>3. IsFiniteSet(Senders(p)) /\ IsFiniteSet(Asking(p)) /\ Cardinality(Senders(p)) <= Cardinality(Thread)
  BY <1>1, <1>2, SizeSubset
<1>4. QED
  BY <1>3, SizeType

\* A set that differs from another in one element at most.
LEMMA OneElement ==
    ASSUME NEW S, IsFiniteSet(S), NEW T, NEW t, T \ {t} = S \ {t}
    PROVE  /\ t \notin S /\ t \notin T => Cardinality(T) = Cardinality(S)
           /\ t \in S /\ t \in T => Cardinality(T) = Cardinality(S)
           /\ t \in S /\ t \notin T => Cardinality(S) >= 1 /\ Cardinality(T) = Cardinality(S) - 1
           /\ t \notin S /\ t \in T => Cardinality(T) = Cardinality(S) + 1
<1>1. Cardinality(S) \in Nat
  BY SizeType
<1>2. CASE (t \in S /\ t \in T) \/ (t \notin S /\ t \notin T)
  <2>1. S = T
    BY <1>2
  <2>2. QED
    BY <1>2, <2>1
<1>3. CASE t \in S /\ t \notin T
  <2>1. T = S \ {t} /\ S # {}
    BY <1>3
  <2>2. Cardinality(T) = Cardinality(S) - 1
    BY <1>3, <2>1, SizeRemove
  <2>3. Cardinality(S) # 0
    BY <2>1, SizeType
  <2>4. QED
    BY <1>1, <1>3, <2>2, <2>3
<1>4. CASE t \notin S /\ t \in T
  <2>1. T = S \cup {t}
    BY <1>4
  <2>2. QED
    BY <1>4, <2>1, SizeAdd
<1>5. QED
  BY <1>2, <1>3, <1>4

\* A step of one thread moves no other into or out of the senders of a flow.
LEMMA OneThread ==
    ASSUME NEW t \in Thread, NEW p,
           \A u \in Thread : u # t => pc'[u] = pc[u] /\ dst'[u] = dst[u] /\ confirm'[u] = confirm[u]
    PROVE  /\ Senders(p)' \ {t} = Senders(p) \ {t}
           /\ Asking(p)' \ {t} = Asking(p) \ {t}
  BY DEF Senders, Asking

\* A flow none of whose parts has changed keeps its bounds.
LEMMA FlowFrame ==
    ASSUME NEW p \in Sock, FlowBounded(p),
           pending'[p] = pending[p], tx_failed'[p] = tx_failed[p],
           Cardinality(Asking(p)') = Cardinality(Asking(p)),
           Cardinality(Senders(p)') = Cardinality(Senders(p)),
           link'[Home[p]] = link[Home[p]], sk_queue'[p] = sk_queue[p],
           Answers(p)' = Answers(p)
    PROVE  FlowBounded(p)'
  BY Zenon DEF FlowBounded, Failed

\* So does one whose senders stay where they are, whatever they wait for.
LEMMA AnswersFrame ==
    ASSUME NEW p \in Sock, rcv'[p] = rcv[p],
           link'[Origin(p)] = link[Origin(p)], rx_queue'[Origin(p)] = rx_queue[Origin(p)]
    PROVE  Answers(p)' = Answers(p)
  BY Zenon DEF Answers, Reading, Returning, Reported, Origin

-----------------------------------------------------------------------------
(* Every step keeps the bounds of every flow *)

\* What the packets, the sockets and the answers of all flows depend on.
queueVars == <<link, rx_queue, sk_queue, rcv>>

\* A thread that neither gets past qrtr_tx_wait nor leaves the transport.
LEMMA QuietThread ==
    ASSUME BoundInv, NEW t \in Thread, NEW p \in Sock,
           \A u \in Thread : u # t => pc'[u] = pc[u] /\ dst'[u] = dst[u] /\ confirm'[u] = confirm[u],
           pc[t] \notin {"xmit", "failed"}, pc'[t] \notin {"xmit", "failed"},
           UNCHANGED <<pending, tx_failed>>, UNCHANGED queueVars
    PROVE  FlowBounded(p)'
<1>1. t \notin Senders(p) /\ t \notin Asking(p) /\ t \notin Senders(p)' /\ t \notin Asking(p)'
  BY Zenon DEF Senders, Asking
<1>2. Cardinality(Asking(p)') = Cardinality(Asking(p)) /\ Cardinality(Senders(p)') = Cardinality(Senders(p))
  BY <1>1, OneThread, OneElement, SenderTypes
<1>3. QED
  BY Zenon, <1>2, FlowFrame, AnswersFrame DEF BoundInv, queueVars

\* The steps of qrtr_sendmsg up to the transport, but for the two that take a
\* packet past qrtr_tx_wait.
LEMMA WaitSteps ==
    ASSUME TypeOK, BoundInv, "alloc" \notin Faults, NEW t \in Thread, NEW p \in Sock,
           \/ \E r \in Sock, w \in Modes : SendMsg(t, r, w)
           \/ TxWait(t) /\ (AddWaiter(t, dst[t]) \/ StartWait(t, dst[t]))
           \/ WaitEvent(t) \/ WaitTimeout(t) \/ WaitSignal(t)
    PROVE  FlowBounded(p)'
<1> USE DEF nodeVars, flowVars, sendVars, rcvVars, Goto, Stay, Return, queueVars
<1>1. CASE \E r \in Sock, w \in Modes : SendMsg(t, r, w)
  <2> PICK r \in Sock, w \in Modes : SendMsg(t, r, w)
    BY <1>1
  <2>1. /\ \A u \in Thread : u # t => pc'[u] = pc[u] /\ dst'[u] = dst[u] /\ confirm'[u] = confirm[u]
        /\ pc[t] = "idle" /\ pc'[t] = "loop"
        /\ UNCHANGED <<pending, tx_failed, link, rx_queue, sk_queue, rcv>>
    BY Zenon DEF SendMsg, TypeOK
  <2>2. QED
    BY Zenon, <2>1, QuietThread
<1>2. CASE TxWait(t) /\ (AddWaiter(t, dst[t]) \/ StartWait(t, dst[t]))
  <2>1. /\ \A u \in Thread : u # t => pc'[u] = pc[u] /\ dst'[u] = dst[u] /\ confirm'[u] = confirm[u]
        /\ pc[t] = "loop" /\ pc'[t] \in {"idle", "check"}
        /\ UNCHANGED <<pending, tx_failed, link, rx_queue, sk_queue, rcv>>
    BY Zenon, <1>2 DEF TxWait, AddWaiter, StartWait, TypeOK
  <2>2. QED
    BY Zenon, <2>1, QuietThread
<1>3. CASE WaitEvent(t) \/ WaitTimeout(t) \/ WaitSignal(t)
  <2>1. /\ \A u \in Thread : u # t => pc'[u] = pc[u] /\ dst'[u] = dst[u] /\ confirm'[u] = confirm[u]
        /\ pc[t] \in {"check", "asleep"} /\ pc'[t] \in {"idle", "loop", "asleep"}
        /\ UNCHANGED <<pending, tx_failed, link, rx_queue, sk_queue, rcv>>
    BY ZenonT(60), <1>3 DEF WaitEvent, WaitTimeout, WaitSignal, LeaveWait, TypeOK
  <2>2. QED
    BY Zenon, <2>1, QuietThread
<1>4. QED
  BY <1>1, <1>2, <1>3

\* The two that do: the flow of the thread has one more sender.
LEMMA PassSteps ==
    ASSUME TypeOK, BoundInv, NEW t \in Thread, NEW p \in Sock, TxWait(t),
           TakeOverConfirm(t, dst[t]) \/ CountPacket(t, dst[t])
    PROVE  FlowBounded(p)'
<1> USE DEF nodeVars, flowVars, sendVars, rcvVars, Goto, Stay, Return
<1>1. /\ \A u \in Thread : u # t => pc'[u] = pc[u] /\ dst'[u] = dst[u] /\ confirm'[u] = confirm[u]
      /\ pc[t] = "loop" /\ pc'[t] = "xmit" /\ dst' = dst /\ dst[t] \in Sock
      /\ UNCHANGED <<link, rx_queue, sk_queue, rcv>>
  <2>1. /\ pc[t] = "loop" /\ pc' = [pc EXCEPT ![t] = "xmit"] /\ dst' = dst
        /\ \E b : confirm' = [confirm EXCEPT ![t] = b]
        /\ UNCHANGED <<link, rx_queue, sk_queue, rcv>>
    BY Zenon DEF TxWait, TakeOverConfirm, CountPacket
  <2>2. dst[t] \in Sock /\ pc'[t] = "xmit" /\ \A u \in Thread : u # t => pc'[u] = pc[u]
    BY Zenon, <2>1 DEF TypeOK
  <2>3. \A u \in Thread : u # t => confirm'[u] = confirm[u]
    BY Zenon, <2>1 DEF TypeOK
  <2>4. QED
    BY Zenon, <2>1, <2>2, <2>3
<1>2. t \notin Senders(p) /\ t \notin Asking(p)
  BY <1>1 DEF Senders, Asking
<1>3. Answers(p)' = Answers(p)
  BY Zenon, <1>1, AnswersFrame
<1>4. CASE p # dst[t]
  <2>1. t \notin Senders(p)' /\ t \notin Asking(p)'
    BY <1>1, <1>4 DEF Senders, Asking
  <2>2. Cardinality(Asking(p)') = Cardinality(Asking(p)) /\ Cardinality(Senders(p)') = Cardinality(Senders(p))
    BY <1>1, <1>2, <2>1, OneThread, OneElement, SenderTypes
  <2>3. pending'[p] = pending[p] /\ tx_failed'[p] = tx_failed[p]
    BY <1>1, <1>4 DEF TakeOverConfirm, CountPacket, TypeOK
  <2>4. QED
    BY Zenon, <1>1, <1>3, <2>2, <2>3, FlowFrame DEF BoundInv
<1>5. CASE p = dst[t]
  <2>1. t \in Senders(p)' /\ (t \in Asking(p)' <=> confirm'[t])
    BY Zenon, <1>1, <1>5 DEF Senders, Asking
  <2>2. Cardinality(Senders(p)') = Cardinality(Senders(p)) + 1
    BY <1>1, <1>2, <2>1, OneThread, OneElement, SenderTypes
  <2>3. Cardinality(Asking(p)') = Cardinality(Asking(p)) + Flag(t \in Asking(p)')
    <3>1. Cardinality(Asking(p)) \in Nat
      BY SenderTypes
    <3>2. t \notin Asking(p)' => Cardinality(Asking(p)') = Cardinality(Asking(p))
      BY <1>1, <1>2, OneThread, OneElement, SenderTypes
    <3>3. t \in Asking(p)' => Cardinality(Asking(p)') = Cardinality(Asking(p)) + 1
      BY <1>1, <1>2, OneThread, OneElement, SenderTypes
    <3>4. QED
      BY <3>1, <3>2, <3>3 DEF Flag
  <2>4. CASE TakeOverConfirm(t, dst[t])
    <3>1. Failed(p) = 1 /\ Failed(p)' = 0 /\ pending' = pending /\ confirm'[t] = TRUE
      BY <1>5, <2>4 DEF TakeOverConfirm, Failed, TypeOK
    <3>2. Cardinality(Asking(p)') = Cardinality(Asking(p)) + 1
      BY Zenon, <2>1, <2>3, <3>1 DEF Flag
    <3>3. Bounded(p, pending[p], 1, Cardinality(Asking(p)), Cardinality(Senders(p)),
                  link[Home[p]], sk_queue[p], Answers(p))
      BY Zenon, <3>1 DEF BoundInv, FlowBounded
    <3>4. Bounded(p, pending[p], 0, Cardinality(Asking(p)) + 1, Cardinality(Senders(p)) + 1,
                  link[Home[p]], sk_queue[p], Answers(p))
      BY Zenon, <3>3, TakenOver, FlowTypes, SenderTypes
    <3>5. QED
      BY Zenon, <1>1, <1>3, <2>2, <3>1, <3>2, <3>4 DEF FlowBounded
  <2>5. CASE CountPacket(t, dst[t])
    <3>1. /\ Failed(p) = 0 /\ Failed(p)' = 0 /\ pending'[p] = pending[p] + 1
          /\ confirm'[t] = (pending[p] + 1 = LOW)
      BY <1>5, <2>5 DEF CountPacket, Failed, TypeOK
    <3>2. Flag(t \in Asking(p)') = Flag(pending[p] + 1 = LOW)
      BY Zenon, <2>1, <3>1 DEF Flag
    <3>3. Bounded(p, pending[p], 0, Cardinality(Asking(p)), Cardinality(Senders(p)),
                  link[Home[p]], sk_queue[p], Answers(p))
      BY Zenon, <3>1 DEF BoundInv, FlowBounded
    <3>4. Bounded(p, pending[p] + 1, 0, Cardinality(Asking(p)) + Flag(pending[p] + 1 = LOW),
                  Cardinality(Senders(p)) + 1, link[Home[p]], sk_queue[p], Answers(p))
      BY Zenon, <3>3, Counted, FlowTypes, SenderTypes
    <3>5. QED
      BY Zenon, <1>1, <1>3, <2>2, <2>3, <3>1, <3>2, <3>4 DEF FlowBounded
  <2>6. QED
    BY <2>4, <2>5
<1>6. QED
  BY <1>4, <1>5

\* A packet that answers nothing for p does not change p's answers.
LEMMA AnswersSend ==
    ASSUME TypeOK, NEW p \in Sock, NEW n \in Node, NEW m \in Packet, m \notin ResumeOf(p),
           link' = [link EXCEPT ![n] = Append(@, m)], rcv'[p] = rcv[p], rx_queue' = rx_queue
    PROVE  Answers(p)' = Answers(p)
<1>1. Origin(p) \in Node /\ link[Origin(p)] \in Seq(Packet) /\ Returning(p) \in Nat
  BY FlowTypes, PlaceType
<1>2. Returning(p)' = Returning(p)
  <2>1. CASE Origin(p) = n
    <3>1. link'[Origin(p)] = Append(link[Origin(p)], m)
      BY <1>1, <2>1 DEF TypeOK
    <3>2. 0 \in Nat /\ 0 <= Len(link[Origin(p)])
      BY <1>1
    <3>3. After(Append(link[Origin(p)], m), 0, ResumeOf(p)) = After(link[Origin(p)], 0, ResumeOf(p)) + 0
      BY <1>1, <3>2, AfterAppend
    <3>4. \A z \in Nat : z + 0 = z
      OBVIOUS
    <3>5. After(Append(link[Origin(p)], m), 0, ResumeOf(p)) = After(link[Origin(p)], 0, ResumeOf(p))
      BY Zenon, <1>1, <3>3, <3>4 DEF Returning
    <3>6. QED
      BY Zenon, <3>1, <3>5 DEF Returning, Origin
  <2>2. CASE Origin(p) # n
    <3>1. link'[Origin(p)] = link[Origin(p)]
      BY <1>1, <2>2 DEF TypeOK
    <3>2. QED
      BY Zenon, <3>1 DEF Returning, Origin
  <2>3. QED
    BY <2>1, <2>2
<1>3. QED
  BY Zenon, <1>2 DEF Answers, Reading, Reported, Origin

\* A flow whose thread t leaves the transport without its packet.
LEMMA LostSend ==
    ASSUME TypeOK, BoundInv, NEW t \in Thread, NEW p \in Sock,
           \A u \in Thread : u # t => pc'[u] = pc[u] /\ dst'[u] = dst[u] /\ confirm'[u] = confirm[u],
           pc'[t] = "idle", UNCHANGED <<pending, tx_failed>>, UNCHANGED queueVars
    PROVE  FlowBounded(p)'
<1>1. t \notin Senders(p)' /\ t \notin Asking(p)'
  BY Zenon DEF Senders, Asking
<1>2. /\ Cardinality(Asking(p)') \in Nat /\ Cardinality(Senders(p)') \in Nat
      /\ Cardinality(Asking(p)') <= Cardinality(Asking(p))
      /\ Cardinality(Senders(p)') <= Cardinality(Senders(p))
  <2>1. /\ \/ Cardinality(Asking(p)') = Cardinality(Asking(p))
           \/ Cardinality(Asking(p)) >= 1 /\ Cardinality(Asking(p)') = Cardinality(Asking(p)) - 1
        /\ \/ Cardinality(Senders(p)') = Cardinality(Senders(p))
           \/ Cardinality(Senders(p)) >= 1 /\ Cardinality(Senders(p)') = Cardinality(Senders(p)) - 1
    BY <1>1, OneThread, OneElement, SenderTypes
  <2>2. \A y \in Nat : \A z : z = y \/ (y >= 1 /\ z = y - 1) => z \in Nat /\ z <= y
    OBVIOUS
  <2>3. Cardinality(Asking(p)) \in Nat /\ Cardinality(Senders(p)) \in Nat
    BY SenderTypes
  <2>4. QED
    BY Zenon, <2>1, <2>2, <2>3
<1>3. Answers(p)' = Answers(p) /\ Failed(p)' = Failed(p)
  BY Zenon, AnswersFrame DEF queueVars, Failed
<1>4. Bounded(p, pending[p], Failed(p), Cardinality(Asking(p)'), Cardinality(Senders(p)'),
              link[Home[p]], sk_queue[p], Answers(p))
  <2>1. Cardinality(Asking(p)) \in Nat /\ Cardinality(Senders(p)) \in Nat
    BY SenderTypes
  <2>2. pending[p] \in Nat /\ Failed(p) \in Nat /\ Answers(p) \in Nat
        /\ link[Home[p]] \in Seq(Packet) /\ sk_queue[p] \in Seq(BOOLEAN)
    BY FlowTypes
  <2>3. Bounded(p, pending[p], Failed(p), Cardinality(Asking(p)), Cardinality(Senders(p)),
                link[Home[p]], sk_queue[p], Answers(p))
    BY Zenon DEF BoundInv, FlowBounded
  <2>4. /\ Failed(p) + Cardinality(Asking(p)') <= Failed(p) + Cardinality(Asking(p))
        /\ Failed(p) + Cardinality(Senders(p)') <= Failed(p) + Cardinality(Senders(p))
        /\ Answers(p) <= Answers(p)
    BY <1>2, <2>1, <2>2
  <2>5. QED
    BY Zenon, <1>2, <2>1, <2>2, <2>3, <2>4, Lost
<1>5. QED
  BY Zenon, <1>3, <1>4 DEF FlowBounded, queueVars

\* The transport takes the packet of a thread, or frees it without an endpoint.
LEMMA XmitStep ==
    ASSUME TypeOK, Routed, BoundInv, NEW t \in Thread, NEW p \in Sock, Xmit(t)
    PROVE  FlowBounded(p)'
<1> USE DEF nodeVars, flowVars, sendVars, rcvVars, Goto, Stay, Return
<1>1. /\ \A u \in Thread : u # t => pc'[u] = pc[u] /\ dst'[u] = dst[u] /\ confirm'[u] = confirm[u]
      /\ pc[t] = "xmit" /\ pc'[t] = "idle" /\ dst[t] \in Sock /\ confirm[t] \in BOOLEAN
      /\ UNCHANGED <<pending, tx_failed, rx_queue, sk_queue, rcv>>
  BY Zenon DEF Xmit, TypeOK
<1>2. CASE ep[At(t)] # "up"
  BY Zenon, <1>1, <1>2, LostSend DEF Xmit, queueVars
<1>3. CASE ep[At(t)] = "up"
  <2> DEFINE m == Data(dst[t], confirm[t])
             n == Peer[At(t)]
  <2>1. link' = [link EXCEPT ![n] = Append(@, m)]
    BY <1>3 DEF Xmit, Queue
  <2>2. /\ m \in Packet /\ m \notin ResumeOf(p) /\ n \in Node
        /\ p # dst[t] => m \notin DataOf(p) /\ m \notin AskOf(p)
    <3>1. m \in Packet /\ (p # dst[t] => m \notin DataOf(p) /\ m \notin AskOf(p))
      BY Zenon, <1>1, PacketKinds
    <3>2. m \notin ResumeOf(p)
      BY DEF ResumeOf, ResumeTx, Data
    <3>3. n \in Node
      BY PlaceType
    <3>4. QED
      BY Zenon, <3>1, <3>2, <3>3
  <2>3. Answers(p)' = Answers(p) /\ Failed(p)' = Failed(p)
    BY Zenon, <1>1, <2>1, <2>2, AnswersSend DEF Failed
  <2>4. /\ Cardinality(Asking(p)) \in Nat /\ Cardinality(Senders(p)) \in Nat
        /\ Cardinality(Senders(p)) <= Cardinality(Thread)
        /\ pending[p] \in Nat /\ Failed(p) \in Nat /\ Answers(p) \in Nat
        /\ link[Home[p]] \in Seq(Packet) /\ sk_queue[p] \in Seq(BOOLEAN) /\ Home[p] \in Node
    BY FlowTypes, SenderTypes, PlaceType
  <2>5. Bounded(p, pending[p], Failed(p), Cardinality(Asking(p)), Cardinality(Senders(p)),
                link[Home[p]], sk_queue[p], Answers(p))
    BY Zenon DEF BoundInv, FlowBounded
  <2>6. t \notin Senders(p)' /\ t \notin Asking(p)'
    BY <1>1 DEF Senders, Asking
  <2>7. CASE p # dst[t]
    <3>1. t \notin Senders(p) /\ t \notin Asking(p)
      BY <2>7 DEF Senders, Asking
    <3>2. Cardinality(Asking(p)') = Cardinality(Asking(p)) /\ Cardinality(Senders(p)') = Cardinality(Senders(p))
      BY <1>1, <2>6, <3>1, OneThread, OneElement, SenderTypes
    <3>3. CASE Home[p] = n
      <4>1. link'[Home[p]] = Append(link[Home[p]], m)
        BY Zenon, <2>1, <2>2, <3>3 DEF TypeOK
      <4>2. Bounded(p, pending[p], Failed(p), Cardinality(Asking(p)), Cardinality(Senders(p)),
                    Append(link[Home[p]], m), sk_queue[p], Answers(p))
        BY Zenon, <2>2, <2>4, <2>5, <2>7, OtherSent
      <4>3. QED
        BY Zenon, <1>1, <2>3, <3>2, <4>1, <4>2 DEF FlowBounded
    <3>4. CASE Home[p] # n
      <4>1. link'[Home[p]] = link[Home[p]]
        BY <2>1, <2>4, <3>4 DEF TypeOK
      <4>2. QED
        BY Zenon, <1>1, <2>3, <2>5, <3>2, <4>1 DEF FlowBounded
    <3>5. QED
      BY <3>3, <3>4
  <2>8. CASE p = dst[t]
    <3>1. Home[p] = n
      BY <1>1, <2>8, PlaceType DEF Routed, Origin
    <3>2. link'[Home[p]] = Append(link[Home[p]], Data(p, confirm[t]))
      BY <2>1, <2>2, <2>8, <3>1 DEF TypeOK
    <3>3. t \in Senders(p) /\ (t \in Asking(p) <=> confirm[t])
      BY Zenon, <1>1, <2>8 DEF Senders, Asking
    <3>4. Cardinality(Senders(p)) >= 1 /\ Cardinality(Senders(p)') = Cardinality(Senders(p)) - 1
      BY <1>1, <2>6, <3>3, OneThread, OneElement, SenderTypes
    <3>5. /\ Flag(t \in Asking(p)) <= Cardinality(Asking(p))
          /\ Cardinality(Asking(p)') = Cardinality(Asking(p)) - Flag(t \in Asking(p))
      <4>1. t \notin Asking(p) => Cardinality(Asking(p)') = Cardinality(Asking(p))
        BY <1>1, <2>6, OneThread, OneElement, SenderTypes
      <4>2. t \in Asking(p) => Cardinality(Asking(p)) >= 1 /\ Cardinality(Asking(p)') = Cardinality(Asking(p)) - 1
        BY <1>1, <2>6, OneThread, OneElement, SenderTypes
      <4>3. QED
        BY <2>4, <4>1, <4>2 DEF Flag
    <3>6. Flag(t \in Asking(p)) = Flag(confirm[t])
      BY Zenon, <3>3 DEF Flag
    <3>7. 1 <= Cardinality(Senders(p))
      BY <2>4, <3>4
    <3>8. Bounded(p, pending[p], Failed(p), Cardinality(Asking(p)) - Flag(confirm[t]),
                  Cardinality(Senders(p)) - 1, Append(link[Home[p]], Data(p, confirm[t])),
                  sk_queue[p], Answers(p))
      BY Zenon, <1>1, <2>4, <2>5, <3>5, <3>6, <3>7, Sent
    <3>9. QED
      BY Zenon, <1>1, <2>3, <3>2, <3>4, <3>5, <3>6, <3>8 DEF FlowBounded
  <2>9. QED
    BY <2>7, <2>8
<1>4. QED
  BY <1>2, <1>3

\* The transport reports an error and has not taken the packet.
LEMMA XmitFailsStep ==
    ASSUME TypeOK, BoundInv, "late" \notin Faults, NEW t \in Thread, NEW p \in Sock, XmitFails(t)
    PROVE  FlowBounded(p)'
<1> USE DEF nodeVars, flowVars, sendVars, rcvVars, Goto, Stay, Return, queueVars
<1>1. pc[t] = "xmit" /\ UNCHANGED <<pending, tx_failed, link, rx_queue, sk_queue, rcv>>
  BY Zenon DEF XmitFails
<1>2. CASE ~confirm[t]
  <2>1. /\ \A u \in Thread : u # t => pc'[u] = pc[u] /\ dst'[u] = dst[u] /\ confirm'[u] = confirm[u]
        /\ pc'[t] = "idle"
    BY Zenon, <1>2 DEF XmitFails, TypeOK
  <2>2. QED
    BY Zenon, <1>1, <2>1, LostSend
<1>3. CASE confirm[t]
  <2>1. \A u \in Thread : /\ u # t => pc'[u] = pc[u]
                          /\ u = t => pc'[u] = "failed"
                          /\ dst' = dst /\ confirm' = confirm
    BY Zenon, <1>3 DEF XmitFails, TypeOK
  <2>2. Senders(p)' = Senders(p) /\ Asking(p)' = Asking(p)
    BY <1>1, <2>1 DEF Senders, Asking
  <2>3. QED
    BY Zenon, <1>1, <2>2, FlowFrame, AnswersFrame DEF BoundInv
<1>4. QED
  BY <1>2, <1>3

\* The confirmation of a sender that failed is left in tx_failed.
LEMMA TxFlowFailedStep ==
    ASSUME TypeOK, BoundInv, NEW t \in Thread, NEW p \in Sock, TxFlowFailed(t)
    PROVE  FlowBounded(p)'
<1> USE DEF nodeVars, flowVars, sendVars, rcvVars, Goto, Stay, Return
<1>1. /\ \A u \in Thread : u # t => pc'[u] = pc[u] /\ dst'[u] = dst[u] /\ confirm'[u] = confirm[u]
      /\ pc[t] = "failed" /\ pc'[t] = "idle" /\ confirm[t] /\ dst[t] \in Sock
      /\ UNCHANGED <<pending, link, rx_queue, sk_queue, rcv>>
  BY Zenon DEF TxFlowFailed, TypeOK, BoundInv, FailedAsked
<1>2. t \notin Senders(p)' /\ t \notin Asking(p)'
  BY <1>1 DEF Senders, Asking
<1>3. Answers(p)' = Answers(p)
  BY Zenon, <1>1, AnswersFrame
<1>4. CASE p # dst[t]
  <2>1. t \notin Senders(p) /\ t \notin Asking(p)
    BY <1>4 DEF Senders, Asking
  <2>2. Cardinality(Asking(p)') = Cardinality(Asking(p)) /\ Cardinality(Senders(p)') = Cardinality(Senders(p))
    BY <1>1, <1>2, <2>1, OneThread, OneElement, SenderTypes
  <2>3. tx_failed'[p] = tx_failed[p]
    BY <1>1, <1>4 DEF TxFlowFailed, TypeOK
  <2>4. QED
    BY Zenon, <1>1, <1>3, <2>2, <2>3, FlowFrame DEF BoundInv
<1>5. CASE p = dst[t]
  <2>1. t \in Senders(p) /\ t \in Asking(p)
    BY Zenon, <1>1, <1>5 DEF Senders, Asking
  <2>2. /\ Cardinality(Asking(p)) >= 1 /\ Cardinality(Asking(p)') = Cardinality(Asking(p)) - 1
        /\ Cardinality(Senders(p)) >= 1 /\ Cardinality(Senders(p)') = Cardinality(Senders(p)) - 1
    BY <1>1, <1>2, <2>1, OneThread, OneElement, SenderTypes
  <2>3. Failed(p)' \in {0, 1}
    BY DEF Failed
  <2>4. Cardinality(Asking(p)) \in Nat /\ Cardinality(Senders(p)) \in Nat
    BY SenderTypes
  <2>5. pending[p] \in Nat /\ Failed(p) \in Nat /\ Answers(p) \in Nat
        /\ link[Home[p]] \in Seq(Packet) /\ sk_queue[p] \in Seq(BOOLEAN)
    BY FlowTypes
  <2>6. \A f, c, x, a \in Nat, g \in {0, 1} : c >= 1 /\ x >= 1
           => /\ g \in Nat /\ c - 1 \in Nat /\ x - 1 \in Nat /\ g + (c - 1) <= f + c
              /\ x - 1 <= x /\ g + (x - 1) <= f + x /\ a <= a
    OBVIOUS
  <2>7. \A g, e, y, b \in Nat :
          /\ g + e <= Failed(p) + Cardinality(Asking(p)) /\ y <= Cardinality(Senders(p))
          /\ g + y <= Failed(p) + Cardinality(Senders(p)) /\ b <= Answers(p)
          => Bounded(p, pending[p], g, e, y, link[Home[p]], sk_queue[p], b)
    BY Zenon, <2>4, <2>5, Lost DEF BoundInv, FlowBounded
  <2>8. LET g == Failed(p)'
            c == Cardinality(Asking(p))
            x == Cardinality(Senders(p))
        IN /\ g \in Nat /\ c - 1 \in Nat /\ x - 1 \in Nat /\ g + (c - 1) <= Failed(p) + c
           /\ x - 1 <= x /\ g + (x - 1) <= Failed(p) + x /\ Answers(p) <= Answers(p)
    BY Zenon, <2>2, <2>3, <2>4, <2>5, <2>6
  <2>9. Bounded(p, pending[p], Failed(p)', Cardinality(Asking(p)) - 1, Cardinality(Senders(p)) - 1,
                link[Home[p]], sk_queue[p], Answers(p))
    BY Zenon, <2>5, <2>7, <2>8
  <2>10. QED
    BY Zenon, <1>1, <1>3, <2>2, <2>9 DEF FlowBounded
<1>6. QED
  BY <1>4, <1>5

\* A packet on the link is DATA of a socket or the RESUME_TX of a flow.
LEMMA PacketForms ==
    ASSUME NEW m \in Packet
    PROVE  /\ m.port \in Sock /\ m.confirm_rx \in BOOLEAN
           /\ m.type = "DATA" => m = Data(m.port, m.confirm_rx)
           /\ m.type = "DATA" => \A p \in Sock : m \notin ResumeOf(p)
           /\ m.type = "RESUME_TX" => \A p \in Sock : m \in ResumeOf(p) <=> m.port = p
<1>1. m \in [type : {"DATA", "RESUME_TX"}, port : Sock, confirm_rx : BOOLEAN]
      /\ (m.confirm_rx => m.type = "DATA")
  BY DEF Packet
<1>2. m.port \in Sock /\ m.confirm_rx \in BOOLEAN
  BY <1>1
<1>3. m = [type |-> m.type, port |-> m.port, confirm_rx |-> m.confirm_rx]
  BY <1>1
<1>4. m.type = "DATA" => m = Data(m.port, m.confirm_rx)
  BY <1>3 DEF Data
<1>5. m.type = "DATA" => \A p \in Sock : m # ResumeTx(p)
  BY DEF ResumeTx
<1>6. m.type = "RESUME_TX" => m.confirm_rx = FALSE
  BY <1>1, <1>2
<1>7. m.type = "RESUME_TX" => m = ResumeTx(m.port)
  BY <1>3, <1>6 DEF ResumeTx
<1>8. \A p \in Sock : m = ResumeTx(p) => m.port = p
  BY DEF ResumeTx
<1>9. QED
  BY Zenon, <1>2, <1>4, <1>5, <1>7, <1>8 DEF ResumeOf

\* A RESUME_TX that arrives is the same answer as before.
LEMMA PostAnswers ==
    ASSUME TypeOK, NEW n \in Node, NEW p \in Sock, EndpointPost(n)
    PROVE  Answers(p)' = Answers(p)
<1> USE DEF nodeVars, flowVars, sendVars, rcvVars
<1> DEFINE m == Head(link[n])
<1>0. link[n] # << >> /\ link[n] \in Seq(Packet) /\ rx_queue[n] \in Seq(Sock) /\ rcv' = rcv
  BY Zenon DEF EndpointPost, TypeOK
<1>1. m \in Packet /\ m.port \in Sock /\ Origin(p) \in Node /\ Tail(link[n]) \in Seq(Packet)
  BY <1>0, PacketForms, PlaceType
<1>2. CASE Origin(p) # n
  <2>1. link'[Origin(p)] = link[Origin(p)] /\ rx_queue'[Origin(p)] = rx_queue[Origin(p)]
    BY Zenon, <1>1, <1>2 DEF EndpointPost, TypeOK
  <2>2. QED
    BY Zenon, <1>0, <2>1, AnswersFrame
<1>3. CASE Origin(p) = n
  <2> DEFINE g == IF m \in ResumeOf(p) THEN 1 ELSE 0
  <2>1. link'[n] = Tail(link[n])
    BY Zenon DEF EndpointPost, TypeOK
  <2>2. After(link[n], 0, ResumeOf(p)) = After(Tail(link[n]), 0, ResumeOf(p)) + g
    <3>1. After(link[n], 0, ResumeOf(p)) = After(link[n], 1, ResumeOf(p)) + g
      BY <1>0, AfterHead
    <3>2. After(Tail(link[n]), 0, ResumeOf(p)) = After(link[n], 1, ResumeOf(p))
      <4>1. 0 \in Nat /\ 0 + 1 = 1
        OBVIOUS
      <4>2. QED
        BY <1>0, <4>1, AfterTail
    <3>3. QED
      BY <3>1, <3>2
  <2>3. After(rx_queue'[n], 0, Only(p)) = After(rx_queue[n], 0, Only(p)) + g
    <3>0. After(rx_queue[n], 0, Only(p)) \in Nat /\ 0 \in Nat /\ 0 <= Len(rx_queue[n])
      BY <1>0, PositionsFinite
    <3>1. CASE m.type = "DATA"
      <4>1. rx_queue' = rx_queue /\ g = 0
        BY Zenon, <1>1, <3>1, PacketForms DEF EndpointPost
      <4>2. QED
        BY <3>0, <4>1
    <3>2. CASE m.type = "RESUME_TX"
      <4>1. rx_queue'[n] = Append(rx_queue[n], m.port)
        BY Zenon, <3>2 DEF EndpointPost, TypeOK
      <4>2. m.port \in Only(p) <=> m \in ResumeOf(p)
        BY <1>1, <3>2, PacketForms DEF Only
      <4>3. After(Append(rx_queue[n], m.port), 0, Only(p))
              = After(rx_queue[n], 0, Only(p)) + (IF m.port \in Only(p) THEN 1 ELSE 0)
        BY <1>0, <1>1, <3>0, AfterAppend
      <4>4. QED
        BY <4>1, <4>2, <4>3
    <3>3. m.type \in {"DATA", "RESUME_TX"}
      BY <1>1 DEF Packet
    <3>4. QED
      BY <3>1, <3>2, <3>3
  <2>4. g \in Nat /\ After(Tail(link[n]), 0, ResumeOf(p)) \in Nat /\ After(rx_queue[n], 0, Only(p)) \in Nat
        /\ Reading(p) \in Nat
    BY Zenon, <1>0, <1>1, PositionsFinite DEF Reading
  <2> HIDE DEF g
  <2>5. \A r, u, v, w \in Nat : r + u + (v + w) = r + (u + w) + v
    OBVIOUS
  <2>6. Reading(p)' = Reading(p) /\ Origin(p)' = n
    BY Zenon, <1>0, <1>3 DEF Reading, Origin
  <2>7. Answers(p)' = Reading(p) + After(Tail(link[n]), 0, ResumeOf(p)) + (After(rx_queue[n], 0, Only(p)) + g)
    BY Zenon, <2>1, <2>3, <2>6 DEF Answers, Returning, Reported
  <2>8. Answers(p) = Reading(p) + (After(Tail(link[n]), 0, ResumeOf(p)) + g) + After(rx_queue[n], 0, Only(p))
    BY Zenon, <1>3, <2>2 DEF Answers, Returning, Reported
  <2>9. Reading(p) + After(Tail(link[n]), 0, ResumeOf(p)) + (After(rx_queue[n], 0, Only(p)) + g)
          = Reading(p) + (After(Tail(link[n]), 0, ResumeOf(p)) + g) + After(rx_queue[n], 0, Only(p))
    BY <2>4, <2>5
  <2>10. QED
    BY Zenon, <2>7, <2>8, <2>9
<1>4. QED
  BY <1>2, <1>3

\* qrtr_endpoint_post hands on or frees one packet.
LEMMA PostStep ==
    ASSUME TypeOK, Routed, BoundInv, NEW n \in Node, NEW p \in Sock, EndpointPost(n)
    PROVE  FlowBounded(p)'
<1> USE DEF nodeVars, flowVars, sendVars, rcvVars
<1> DEFINE m == Head(link[n])
<1>0. /\ link[n] # << >> /\ link[n] \in Seq(Packet)
      /\ UNCHANGED <<pending, tx_failed, pc, dst, confirm>>
  BY Zenon DEF EndpointPost, TypeOK
<1>1. m \in Packet /\ m.port \in Sock /\ m.confirm_rx \in BOOLEAN /\ Home[p] \in Node
  <2>1. \A S : \A q \in Seq(S) : q # << >> => Head(q) \in S
    OBVIOUS
  <2>2. m \in Packet
    BY Zenon, <1>0, <2>1
  <2>3. QED
    BY Zenon, <2>2, PacketForms, PlaceType
<1>2. Senders(p)' = Senders(p) /\ Asking(p)' = Asking(p) /\ Failed(p)' = Failed(p)
      /\ Answers(p)' = Answers(p)
  <2>1. Answers(p)' = Answers(p)
    BY Zenon, PostAnswers
  <2>2. QED
    BY Zenon, <1>0, <2>1 DEF Senders, Asking, Failed
<1>3. /\ Cardinality(Asking(p)) \in Nat /\ Cardinality(Senders(p)) \in Nat
      /\ pending[p] \in Nat /\ Failed(p) \in Nat /\ Answers(p) \in Nat
      /\ link[Home[p]] \in Seq(Packet) /\ sk_queue[p] \in Seq(BOOLEAN)
  BY FlowTypes, SenderTypes
<1>4. Bounded(p, pending[p], Failed(p), Cardinality(Asking(p)), Cardinality(Senders(p)),
              link[Home[p]], sk_queue[p], Answers(p))
  BY Zenon DEF BoundInv, FlowBounded
<1>5. CASE Home[p] # n /\ sk_queue'[p] = sk_queue[p]
  <2>1. link'[Home[p]] = link[Home[p]]
    BY Zenon, <1>1, <1>5 DEF EndpointPost, TypeOK
  <2>2. QED
    BY Zenon, <1>0, <1>2, <1>4, <1>5, <2>1 DEF FlowBounded
<1>6. CASE Home[p] = n /\ sk_queue'[p] = sk_queue[p]
  <2>1. link'[Home[p]] = Tail(link[Home[p]]) /\ link[Home[p]] # << >>
    BY Zenon, <1>0, <1>6 DEF EndpointPost, TypeOK
  <2>2. Bounded(p, pending[p], Failed(p), Cardinality(Asking(p)), Cardinality(Senders(p)),
                Tail(link[Home[p]]), sk_queue[p], Answers(p))
    BY Zenon, <1>3, <1>4, <2>1, Dropped
  <2>3. QED
    BY Zenon, <1>0, <1>2, <1>6, <2>1, <2>2 DEF FlowBounded
<1>7. CASE sk_queue'[p] # sk_queue[p]
  <2>1. m.type = "DATA" /\ m.port = p /\ sk_queue'[p] = Append(sk_queue[p], m.confirm_rx)
    <3>1. \/ sk_queue' = sk_queue
          \/ /\ m.type = "DATA"
             /\ sk_queue' = [sk_queue EXCEPT ![m.port] = Append(sk_queue[m.port], m.confirm_rx)]
      BY Zenon DEF EndpointPost
    <3>2. m.port = p
      BY Zenon, <1>1, <1>7, <3>1 DEF TypeOK
    <3>3. QED
      BY Zenon, <1>1, <1>7, <3>1, <3>2 DEF TypeOK
  <2>2. CASE Home[p] = n
    <3>1. link'[Home[p]] = Tail(link[Home[p]]) /\ link[Home[p]] # << >>
      BY Zenon, <1>0, <2>2 DEF EndpointPost, TypeOK
    <3>2. Head(link[Home[p]]) = Data(p, m.confirm_rx)
      BY Zenon, <1>1, <2>1, <2>2, PacketForms
    <3>3. Bounded(p, pending[p], Failed(p), Cardinality(Asking(p)), Cardinality(Senders(p)),
                  Tail(link[Home[p]]), Append(sk_queue[p], m.confirm_rx), Answers(p))
      BY Zenon, <1>1, <1>3, <1>4, <3>1, <3>2, Delivered
    <3>4. QED
      BY Zenon, <1>0, <1>2, <2>1, <3>1, <3>3 DEF FlowBounded
  <2>3. Home[p] = n
    <3>1. link[n] \in Seq(LinkTo(n))
      BY Zenon DEF Routed
    <3>2. m \in LinkTo(n)
      BY <1>0, <3>1
    <3>3. QED
      BY Zenon, <2>1, <3>2 DEF LinkTo
  <2>4. QED
    BY <2>2, <2>3
<1>8. QED
  BY <1>5, <1>6, <1>7

\* The number of answers when the worker takes a RESUME_TX.
LEMMA ResumeAnswers ==
    ASSUME TypeOK, Routed, NEW n \in Node, NEW p \in Sock, TxResume(n)
    PROVE  /\ p # Head(rx_queue[n]) => Answers(p)' = Answers(p)
           /\ p = Head(rx_queue[n]) => 1 <= Answers(p) /\ Answers(p)' = Answers(p) - 1
<1> DEFINE h == Head(rx_queue[n])
<1>0. /\ rx_queue[n] # << >> /\ rx_queue[n] \in Seq(Sock) /\ rx_queue[n] \in Seq(FlowsOf(n))
      /\ UNCHANGED <<link, rcv>> /\ rx_queue' = [rx_queue EXCEPT ![n] = Tail(@)]
  BY DEF TxResume, TypeOK, Routed
<1>1. h \in Sock /\ Origin(h) = n /\ Origin(p) \in Node /\ Tail(rx_queue[n]) \in Seq(Sock)
  <2>1. h \in FlowsOf(n) /\ Tail(rx_queue[n]) \in Seq(Sock)
    BY <1>0
  <2>2. QED
    BY Zenon, <2>1, PlaceType DEF FlowsOf
<1>2. Reading(p)' = Reading(p) /\ Returning(p)' = Returning(p) /\ Reading(p) \in Nat
      /\ Returning(p) \in Nat /\ Reported(p) \in Nat
  BY <1>0, FlowTypes DEF Reading, Returning, Origin
<1>3. CASE Origin(p) # n
  <2>1. rx_queue'[Origin(p)] = rx_queue[Origin(p)]
    BY <1>0, <1>1, <1>3 DEF TypeOK
  <2>2. p # h
    BY <1>1, <1>3
  <2>3. QED
    BY Zenon, <1>0, <2>1, <2>2, AnswersFrame
<1>4. CASE Origin(p) = n
  <2> DEFINE g == IF h \in Only(p) THEN 1 ELSE 0
  <2>1. rx_queue'[n] = Tail(rx_queue[n])
    BY <1>0 DEF TypeOK
  <2>2. After(rx_queue[n], 0, Only(p)) = After(Tail(rx_queue[n]), 0, Only(p)) + g
    <3>1. After(rx_queue[n], 0, Only(p)) = After(rx_queue[n], 1, Only(p)) + g
      BY <1>0, AfterHead
    <3>2. 0 \in Nat /\ 0 + 1 = 1
      OBVIOUS
    <3>3. After(Tail(rx_queue[n]), 0, Only(p)) = After(rx_queue[n], 1, Only(p))
      BY <1>0, <3>2, AfterTail
    <3>4. QED
      BY <3>1, <3>3
  <2>3. After(Tail(rx_queue[n]), 0, Only(p)) \in Nat
    BY Zenon, <1>1, PositionsFinite
  <2>4. g = IF p = h THEN 1 ELSE 0
    BY DEF Only
  <2> HIDE DEF g
  <2>5. Answers(p)' = Reading(p) + Returning(p) + After(Tail(rx_queue[n]), 0, Only(p))
    BY Zenon, <1>2, <1>4, <2>1 DEF Answers, Reported, Origin
  <2>6. Answers(p) = Reading(p) + Returning(p) + (After(Tail(rx_queue[n]), 0, Only(p)) + g)
    BY Zenon, <1>4, <2>2 DEF Answers, Reported
  <2>7. \A r, u, v \in Nat : /\ r + u + v = r + u + (v + 0)
                            /\ 1 <= r + u + (v + 1) /\ r + u + v = (r + u + (v + 1)) - 1
    OBVIOUS
  <2>8. CASE p = h
    <3>1. g = 1
      BY <2>4, <2>8
    <3>2. Answers(p) = Reading(p) + Returning(p) + (After(Tail(rx_queue[n]), 0, Only(p)) + 1)
      BY Zenon, <2>6, <3>1
    <3>3. QED
      BY <1>2, <2>3, <2>5, <2>7, <2>8, <3>2
  <2>9. CASE p # h
    <3>1. g = 0
      BY <2>4, <2>9
    <3>2. QED
      BY Zenon, <1>2, <2>3, <2>5, <2>6, <2>7, <2>9, <3>1
  <2>10. QED
    BY <2>8, <2>9
<1>5. QED
  BY <1>3, <1>4

\* qrtr_tx_resume resets one flow and leaves the others alone.
LEMMA ResumeStep ==
    ASSUME TypeOK, Routed, PendingWithinHigh, BoundInv, NEW n \in Node, NEW p \in Sock, TxResume(n)
    PROVE  FlowBounded(p)'
<1> DEFINE h == Head(rx_queue[n])
<1> USE DEF nodeVars, flowVars, sendVars, rcvVars
<1>1. /\ h \in flow => pending' = [pending EXCEPT ![h] = 0] /\ pc' = Woken(n)
      /\ h \notin flow => pending' = pending /\ pc' = pc
      /\ UNCHANGED <<tx_failed, dst, confirm, link, sk_queue>>
  BY Zenon DEF TxResume, ResetPending
<1>2. Senders(p)' = Senders(p) /\ Asking(p)' = Asking(p) /\ Failed(p)' = Failed(p)
  <2>1. \A t \in Thread : pc'[t] \in {"xmit", "failed"} <=> pc[t] \in {"xmit", "failed"}
    BY <1>1 DEF Woken
  <2>2. QED
    BY Zenon, <1>1, <2>1 DEF Senders, Asking, Failed
<1>3. /\ Cardinality(Asking(p)) \in Nat /\ Cardinality(Senders(p)) \in Nat
      /\ pending[p] \in Nat /\ Failed(p) \in Nat /\ Answers(p) \in Nat
      /\ link[Home[p]] \in Seq(Packet) /\ sk_queue[p] \in Seq(BOOLEAN)
  BY FlowTypes, SenderTypes
<1>4. Bounded(p, pending[p], Failed(p), Cardinality(Asking(p)), Cardinality(Senders(p)),
              link[Home[p]], sk_queue[p], Answers(p))
  BY Zenon DEF BoundInv, FlowBounded
<1>5. CASE p # h
  <2>1. Answers(p)' = Answers(p)
    BY Zenon, <1>5, ResumeAnswers
  <2>2. pending'[p] = pending[p]
    BY <1>1, <1>5 DEF TypeOK
  <2>3. QED
    BY Zenon, <1>1, <1>2, <1>4, <2>1, <2>2 DEF FlowBounded
<1>6. CASE p = h
  <2>1. 1 <= Answers(p) /\ Answers(p)' = Answers(p) - 1
    BY Zenon, <1>6, ResumeAnswers
  <2>2. CASE h \in flow
    <3>1. pending'[p] = 0
      BY <1>1, <1>6, <2>2 DEF TypeOK
    <3>2. pending[p] <= HIGH
      BY DEF PendingWithinHigh
    <3>3. Bounded(p, 0, Failed(p), Cardinality(Asking(p)), Cardinality(Senders(p)),
                  link[Home[p]], sk_queue[p], Answers(p) - 1)
      BY Zenon, <1>3, <1>4, <2>1, <3>2, Resumed
    <3>4. QED
      BY Zenon, <1>1, <1>2, <2>1, <3>1, <3>3 DEF FlowBounded
  <2>3. CASE h \notin flow
    <3>1. \A g, e, y, b \in Nat :
            /\ g + e <= Failed(p) + Cardinality(Asking(p)) /\ y <= Cardinality(Senders(p))
            /\ g + y <= Failed(p) + Cardinality(Senders(p)) /\ b <= Answers(p)
            => Bounded(p, pending[p], g, e, y, link[Home[p]], sk_queue[p], b)
      BY Zenon, <1>3, <1>4, Lost
    <3>2. \A f, c, x, a \in Nat : 1 <= a => a - 1 \in Nat /\ f + c <= f + c /\ x <= x /\ f + x <= f + x
                                          /\ a - 1 <= a
      OBVIOUS
    <3>3. Bounded(p, pending[p], Failed(p), Cardinality(Asking(p)), Cardinality(Senders(p)),
                  link[Home[p]], sk_queue[p], Answers(p) - 1)
      BY Zenon, <1>3, <2>1, <3>1, <3>2
    <3>4. QED
      BY Zenon, <1>1, <1>2, <2>1, <2>3, <3>3 DEF FlowBounded
  <2>4. QED
    BY <2>2, <2>3
<1>7. QED
  BY <1>5, <1>6

\* qrtr_recvmsg takes a packet off the queue of its socket.
LEMMA DequeueStep ==
    ASSUME TypeOK, BoundInv, NEW s \in Sock, NEW p \in Sock, RecvDequeue(s)
    PROVE  FlowBounded(p)'
<1> USE DEF nodeVars, flowVars, sendVars, rcvVars
<1>1. /\ UNCHANGED <<pending, tx_failed, pc, dst, confirm, link, rx_queue>>
      /\ rcv[s] = "none" /\ sk_queue[s] # << >>
      /\ rcv' = [rcv EXCEPT ![s] = IF Head(sk_queue[s]) THEN "confirm" ELSE "plain"]
      /\ sk_queue' = [sk_queue EXCEPT ![s] = Tail(@)]
  BY Zenon DEF RecvDequeue
<1>2. Senders(p)' = Senders(p) /\ Asking(p)' = Asking(p) /\ Failed(p)' = Failed(p)
  BY Zenon, <1>1 DEF Senders, Asking, Failed
<1>3. /\ Cardinality(Asking(p)) \in Nat /\ Cardinality(Senders(p)) \in Nat
      /\ pending[p] \in Nat /\ Failed(p) \in Nat /\ Answers(p) \in Nat
      /\ link[Home[p]] \in Seq(Packet) /\ sk_queue[p] \in Seq(BOOLEAN)
      /\ Returning(p) \in Nat /\ Reported(p) \in Nat
  BY FlowTypes, SenderTypes
<1>4. Bounded(p, pending[p], Failed(p), Cardinality(Asking(p)), Cardinality(Senders(p)),
              link[Home[p]], sk_queue[p], Answers(p))
  BY Zenon DEF BoundInv, FlowBounded
<1>5. CASE p # s
  <2>1. rcv'[p] = rcv[p] /\ sk_queue'[p] = sk_queue[p]
    BY Zenon, <1>1, <1>5 DEF TypeOK
  <2>2. Answers(p)' = Answers(p)
    BY Zenon, <1>1, <2>1, AnswersFrame
  <2>3. QED
    BY Zenon, <1>1, <1>2, <1>4, <2>1, <2>2 DEF FlowBounded
<1>6. CASE p = s
  <2>1. sk_queue'[p] = Tail(sk_queue[p]) /\ sk_queue[p] # << >>
    BY Zenon, <1>1, <1>6 DEF TypeOK
  <2>2. Reading(p) = 0 /\ Reading(p)' = Flag(Head(sk_queue[p]))
    <3>1. rcv'[p] = IF Head(sk_queue[p]) THEN "confirm" ELSE "plain"
      BY Zenon, <1>1, <1>6 DEF TypeOK
    <3>2. Reading(p) = 0
      BY Zenon, <1>1, <1>6 DEF Reading
    <3>3. CASE Head(sk_queue[p])
      <4>1. rcv'[p] = "confirm"
        BY Zenon, <3>1, <3>3
      <4>2. Reading(p)' = 1
        BY Zenon, <4>1 DEF Reading
      <4>3. Flag(Head(sk_queue[p])) = 1
        BY Zenon, <3>3 DEF Flag
      <4>4. QED
        BY Zenon, <3>2, <4>2, <4>3
    <3>4. CASE ~Head(sk_queue[p])
      <4>1. rcv'[p] = "plain"
        BY Zenon, <3>1, <3>4
      <4>2. Reading(p)' = 0
        BY Zenon, <4>1 DEF Reading
      <4>3. Flag(Head(sk_queue[p])) = 0
        BY Zenon, <3>4 DEF Flag
      <4>4. QED
        BY Zenon, <3>2, <4>2, <4>3
    <3>5. QED
      BY Zenon, <3>3, <3>4
  <2>3. Flag(Head(sk_queue[p])) \in Nat
    BY Zenon DEF Flag
  <2>4. \A g, u, v \in Nat : g + u + v = (0 + u + v) + g
    OBVIOUS
  <2>5. Answers(p)' = Flag(Head(sk_queue[p])) + Returning(p) + Reported(p)
    BY Zenon, <1>1, <2>2 DEF Answers, Returning, Reported, Origin
  <2>6. Answers(p) = 0 + Returning(p) + Reported(p)
    BY Zenon, <2>2 DEF Answers
  <2>7. Answers(p)' = Answers(p) + Flag(Head(sk_queue[p]))
    <3>1. Flag(Head(sk_queue[p])) + Returning(p) + Reported(p)
            = (0 + Returning(p) + Reported(p)) + Flag(Head(sk_queue[p]))
      BY ZenonT(40), <1>3, <2>3, <2>4
    <3>2. QED
      BY Zenon, <2>5, <2>6, <3>1
  <2>8. Bounded(p, pending[p], Failed(p), Cardinality(Asking(p)), Cardinality(Senders(p)),
                link[Home[p]], Tail(sk_queue[p]), Answers(p) + Flag(Head(sk_queue[p])))
    BY Zenon, <1>3, <1>4, <2>1, Taken
  <2>9. QED
    BY Zenon, <1>1, <1>2, <2>1, <2>7, <2>8 DEF FlowBounded
<1>7. QED
  BY <1>5, <1>6

\* qrtr_recvmsg answers the packet it has read, or fails to.
LEMMA RecvStep ==
    ASSUME TypeOK, BoundInv, NEW s \in Sock, NEW p \in Sock, RecvMsg(s)
    PROVE  FlowBounded(p)'
<1> USE DEF nodeVars, flowVars, sendVars, rcvVars
<1>1. /\ UNCHANGED <<pending, tx_failed, pc, dst, confirm, sk_queue, rx_queue>>
      /\ rcv' = [rcv EXCEPT ![s] = "none"]
  BY Zenon DEF RecvMsg
<1>2. Senders(p)' = Senders(p) /\ Asking(p)' = Asking(p) /\ Failed(p)' = Failed(p)
  BY Zenon, <1>1 DEF Senders, Asking, Failed
<1>3. /\ Cardinality(Asking(p)) \in Nat /\ Cardinality(Senders(p)) \in Nat
      /\ pending[p] \in Nat /\ Failed(p) \in Nat /\ Answers(p) \in Nat
      /\ link[Home[p]] \in Seq(Packet) /\ link[Origin(p)] \in Seq(Packet) /\ sk_queue[p] \in Seq(BOOLEAN)
      /\ Reading(p) \in Nat /\ Returning(p) \in Nat /\ Reported(p) \in Nat
  BY FlowTypes, SenderTypes
<1>4. Bounded(p, pending[p], Failed(p), Cardinality(Asking(p)), Cardinality(Senders(p)),
              link[Home[p]], sk_queue[p], Answers(p))
  BY Zenon DEF BoundInv, FlowBounded
<1>5. /\ Home[p] \in Node /\ Origin(p) \in Node /\ Origin(s) \in Node /\ Home[p] # Origin(p)
      /\ ResumeTx(s) \in Packet /\ ResumeTx(s) \notin DataOf(p) /\ ResumeTx(s) \notin AskOf(p)
  <2>1. Home[p] \in Node /\ Origin(p) \in Node /\ Origin(s) \in Node /\ Home[p] # Origin(p)
    BY PlaceType DEF Origin
  <2>2. TRUE \in BOOLEAN
    OBVIOUS
  <2>3. ResumeTx(s) \in Packet /\ ResumeTx(s) \notin DataOf(p) /\ ResumeTx(s) \notin AskOf(p)
    BY Zenon, <2>2, PacketKinds
  <2>4. QED
    BY <2>1, <2>3
<1>6. CASE link' = link
  <2>1. Returning(p)' = Returning(p) /\ Reported(p)' = Reported(p) /\ Reading(p)' \in Nat
        /\ Reading(p)' <= Reading(p)
    <3>1. rcv'[p] \in {"none", rcv[p]}
      BY <1>1 DEF TypeOK
    <3>2. Reading(p)' \in Nat /\ Reading(p)' <= Reading(p)
      BY <3>1 DEF Reading
    <3>3. QED
      BY Zenon, <1>1, <1>6, <3>2 DEF Returning, Reported, Origin
  <2>2. Answers(p)' \in Nat /\ Answers(p)' <= Answers(p)
    <3>1. \A y, z, u, v \in Nat : y <= z => y + u + v \in Nat /\ y + u + v <= z + u + v
      OBVIOUS
    <3>2. QED
      BY Zenon, <1>3, <2>1, <3>1 DEF Answers
  <2>3. \A g, e, y, b \in Nat :
          /\ g + e <= Failed(p) + Cardinality(Asking(p)) /\ y <= Cardinality(Senders(p))
          /\ g + y <= Failed(p) + Cardinality(Senders(p)) /\ b <= Answers(p)
          => Bounded(p, pending[p], g, e, y, link[Home[p]], sk_queue[p], b)
    BY Zenon, <1>3, <1>4, Lost
  <2>4. \A f, c, x \in Nat : f + c <= f + c /\ x <= x /\ f + x <= f + x
    OBVIOUS
  <2>5. Bounded(p, pending[p], Failed(p), Cardinality(Asking(p)), Cardinality(Senders(p)),
                link[Home[p]], sk_queue[p], Answers(p)')
    BY Zenon, <1>3, <2>2, <2>3, <2>4
  <2>6. QED
    BY Zenon, <1>1, <1>2, <1>6, <2>5 DEF FlowBounded
<1>7. CASE rcv[s] = "confirm" /\ link' = [link EXCEPT ![Origin(s)] = Append(@, ResumeTx(s))]
  <2>1. Answers(p)' = Answers(p)
    <3>1. CASE p # s
      <4>1. ResumeTx(s) \notin ResumeOf(p)
        BY <3>1 DEF ResumeOf, ResumeTx
      <4>2. rcv'[p] = rcv[p]
        BY <1>1, <3>1 DEF TypeOK
      <4>3. QED
        BY Zenon, <1>1, <1>5, <1>7, <4>1, <4>2, AnswersSend
    <3>2. CASE p = s
      <4>1. Reading(p) = 1 /\ Reading(p)' = 0
        BY <1>1, <1>7, <3>2 DEF TypeOK, Reading
      <4>2. link'[Origin(p)] = Append(link[Origin(p)], ResumeTx(p))
        BY <1>5, <1>7, <3>2 DEF TypeOK
      <4>3. ResumeTx(p) \in ResumeOf(p) /\ 0 \in Nat /\ 0 <= Len(link[Origin(p)])
        <5>1. ResumeTx(p) \in ResumeOf(p)
          BY Zenon DEF ResumeOf
        <5>2. \A q \in Seq(Packet) : 0 \in Nat /\ 0 <= Len(q)
          OBVIOUS
        <5>3. QED
          BY Zenon, <1>3, <5>1, <5>2
      <4>4. After(Append(link[Origin(p)], ResumeTx(p)), 0, ResumeOf(p)) = Returning(p) + 1
        <5>1. ResumeTx(p) \in Packet
          BY Zenon, <1>5, <3>2
        <5>2. After(Append(link[Origin(p)], ResumeTx(p)), 0, ResumeOf(p))
                = After(link[Origin(p)], 0, ResumeOf(p)) + (IF ResumeTx(p) \in ResumeOf(p) THEN 1 ELSE 0)
          <6>1. \A q \in Seq(Packet) : \A x \in Packet : \A S :
                  0 <= Len(q) => After(Append(q, x), 0, S) = After(q, 0, S) + (IF x \in S THEN 1 ELSE 0)
            BY AfterAppend
          <6>2. QED
            BY Zenon, <1>3, <4>3, <5>1, <6>1
        <5>3. QED
          BY Zenon, <4>3, <5>2 DEF Returning
      <4>5. Answers(p)' = 0 + (Returning(p) + 1) + Reported(p)
        BY Zenon, <1>1, <4>1, <4>2, <4>4 DEF Answers, Returning, Reported, Origin
      <4>6. Answers(p) = 1 + Returning(p) + Reported(p)
        BY Zenon, <4>1 DEF Answers
      <4>7. \A u, v \in Nat : 0 + (u + 1) + v = 1 + u + v
        OBVIOUS
      <4>8. QED
        BY Zenon, <1>3, <4>5, <4>6, <4>7
    <3>3. QED
      BY <3>1, <3>2
  <2>2. CASE Home[p] = Origin(s)
    <3>1. link'[Home[p]] = Append(link[Home[p]], ResumeTx(s))
      BY <1>5, <1>7, <2>2 DEF TypeOK
    <3>2. Bounded(p, pending[p], Failed(p), Cardinality(Asking(p)), Cardinality(Senders(p)),
                  Append(link[Home[p]], ResumeTx(s)), sk_queue[p], Answers(p))
      BY Zenon, <1>3, <1>4, <1>5, OtherSent
    <3>3. QED
      BY Zenon, <1>1, <1>2, <2>1, <3>1, <3>2 DEF FlowBounded
  <2>3. CASE Home[p] # Origin(s)
    <3>1. link'[Home[p]] = link[Home[p]]
      BY <1>5, <1>7, <2>3 DEF TypeOK
    <3>2. QED
      BY Zenon, <1>1, <1>2, <1>4, <2>1, <3>1 DEF FlowBounded
  <2>4. QED
    BY <2>2, <2>3
<1>8. QED
  BY Zenon, <1>6, <1>7 DEF RecvMsg, Origin

\* Waking sleepers, hellos and the RESUME_TX given to a waiter carry no
\* confirmation.
LEMMA QuietSteps ==
    ASSUME TypeOK, BoundInv, NEW p \in Sock,
           \/ \E n \in Node : UnregisterWake(n) \/ CtrlPortBind(n) \/ SayHello(n)
           \/ \E s \in Sock : RecvResume(s)
           \/ UNCHANGED vars
    PROVE  FlowBounded(p)'
<1> USE DEF nodeVars, flowVars, sendVars, rcvVars
<1>1. UNCHANGED <<pending, tx_failed, dst, confirm, link, rx_queue, sk_queue, rcv>>
  BY Zenon DEF UnregisterWake, CtrlPortBind, SayHello, RecvResume, vars
<1>2. \A t \in Thread : pc'[t] \in {"xmit", "failed"} <=> pc[t] \in {"xmit", "failed"}
  <2>1. CASE UNCHANGED pc
    BY Zenon, <2>1
  <2>2. ASSUME NEW n \in Node, UnregisterWake(n) 
        PROVE  \A t \in Thread : pc'[t] \in {"xmit", "failed"} <=> pc[t] \in {"xmit", "failed"}
    BY <2>2 DEF UnregisterWake, Woken
  <2>3. QED
    BY Zenon, <2>1, <2>2 DEF CtrlPortBind, SayHello, RecvResume, vars
<1>3. Senders(p)' = Senders(p) /\ Asking(p)' = Asking(p)
  BY Zenon, <1>1, <1>2 DEF Senders, Asking
<1>4. Answers(p)' = Answers(p)
  BY Zenon, <1>1, AnswersFrame
<1>5. QED
  BY Zenon, <1>1, <1>3, <1>4, FlowFrame DEF BoundInv

\* qrtr_endpoint_unregister drops what the link carries.
LEMMA UnregisterStep ==
    ASSUME TypeOK, BoundInv, NEW n \in Node, NEW p \in Sock, Unregister(n)
    PROVE  FlowBounded(p)'
<1> USE DEF nodeVars, flowVars, sendVars, rcvVars
<1>1. /\ UNCHANGED <<pending, tx_failed, pc, dst, confirm, rx_queue, sk_queue, rcv>>
      /\ link' = [link EXCEPT ![n] = << >>]
  BY Zenon DEF Unregister
<1>2. Senders(p)' = Senders(p) /\ Asking(p)' = Asking(p) /\ Failed(p)' = Failed(p)
  BY Zenon, <1>1 DEF Senders, Asking, Failed
<1>3. /\ Cardinality(Asking(p)) \in Nat /\ Cardinality(Senders(p)) \in Nat
      /\ pending[p] \in Nat /\ Failed(p) \in Nat /\ Answers(p) \in Nat
      /\ link[Home[p]] \in Seq(Packet) /\ sk_queue[p] \in Seq(BOOLEAN)
      /\ Reading(p) \in Nat /\ Returning(p) \in Nat /\ Reported(p) \in Nat
  BY FlowTypes, SenderTypes
<1>4. Bounded(p, pending[p], Failed(p), Cardinality(Asking(p)), Cardinality(Senders(p)),
              link[Home[p]], sk_queue[p], Answers(p))
  BY Zenon DEF BoundInv, FlowBounded
<1>5. Home[p] \in Node /\ Origin(p) \in Node /\ Home[p] # Origin(p)
  BY PlaceType DEF Origin
<1>6. Answers(p)' \in Nat /\ Answers(p)' <= Answers(p)
  <2>1. Returning(p)' \in {0, Returning(p)}
    <3>1. link'[Origin(p)] \in {<< >>, link[Origin(p)]}
      BY <1>1, <1>5 DEF TypeOK
    <3>2. QED
      BY Zenon, <3>1, AfterEmpty DEF Returning, Origin
  <2>2. Returning(p)' \in Nat /\ Returning(p)' <= Returning(p)
    BY <1>3, <2>1
  <2>3. \A r, u, w, v \in Nat : w <= u => r + w + v \in Nat /\ r + w + v <= r + u + v
    OBVIOUS
  <2>4. Answers(p)' = Reading(p) + Returning(p)' + Reported(p)
    BY Zenon, <1>1 DEF Answers, Reading, Reported, Origin
  <2>5. QED
    BY Zenon, <1>3, <2>2, <2>3, <2>4 DEF Answers
<1>7. Bounded(p, pending[p], Failed(p), Cardinality(Asking(p)), Cardinality(Senders(p)),
              link[Home[p]], sk_queue[p], Answers(p)')
  <2>1. \A g, e, y, b \in Nat :
          /\ g + e <= Failed(p) + Cardinality(Asking(p)) /\ y <= Cardinality(Senders(p))
          /\ g + y <= Failed(p) + Cardinality(Senders(p)) /\ b <= Answers(p)
          => Bounded(p, pending[p], g, e, y, link[Home[p]], sk_queue[p], b)
    BY Zenon, <1>3, <1>4, Lost
  <2>2. \A f, c, x \in Nat : f + c <= f + c /\ x <= x /\ f + x <= f + x
    OBVIOUS
  <2>3. QED
    BY Zenon, <1>3, <1>6, <2>1, <2>2
<1>8. link'[Home[p]] \in {<< >>, link[Home[p]]}
  BY <1>1, <1>5 DEF TypeOK
<1>9. Bounded(p, pending[p], Failed(p), Cardinality(Asking(p)), Cardinality(Senders(p)),
              << >>, sk_queue[p], Answers(p)')
  BY Zenon, <1>3, <1>6, <1>7, Cleared
<1>10. QED
  BY Zenon, <1>1, <1>2, <1>7, <1>8, <1>9 DEF FlowBounded

\* qrtr_release purges the receive queue of its socket.
LEMMA ReleaseStep ==
    ASSUME TypeOK, BoundInv, NEW s \in Sock, NEW p \in Sock, Release(s)
    PROVE  FlowBounded(p)'
<1> USE DEF nodeVars, flowVars, sendVars, rcvVars
<1>1. /\ UNCHANGED <<pending, tx_failed, pc, dst, confirm, rx_queue, link, rcv>>
      /\ sk_queue' = [sk_queue EXCEPT ![s] = << >>]
  BY Zenon DEF Release
<1>2. Senders(p)' = Senders(p) /\ Asking(p)' = Asking(p) /\ Failed(p)' = Failed(p)
  BY Zenon, <1>1 DEF Senders, Asking, Failed
<1>3. /\ Cardinality(Asking(p)) \in Nat /\ Cardinality(Senders(p)) \in Nat
      /\ pending[p] \in Nat /\ Failed(p) \in Nat /\ Answers(p) \in Nat
      /\ link[Home[p]] \in Seq(Packet) /\ sk_queue[p] \in Seq(BOOLEAN)
  BY FlowTypes, SenderTypes
<1>4. Bounded(p, pending[p], Failed(p), Cardinality(Asking(p)), Cardinality(Senders(p)),
              link[Home[p]], sk_queue[p], Answers(p))
  BY Zenon DEF BoundInv, FlowBounded
<1>5. Answers(p)' = Answers(p)
  BY Zenon, <1>1, AnswersFrame
<1>6. sk_queue'[p] \in {<< >>, sk_queue[p]}
  BY <1>1 DEF TypeOK
<1>7. Bounded(p, pending[p], Failed(p), Cardinality(Asking(p)), Cardinality(Senders(p)),
              link[Home[p]], << >>, Answers(p))
  BY Zenon, <1>3, <1>4, Cleared
<1>8. QED
  BY Zenon, <1>1, <1>2, <1>4, <1>5, <1>6, <1>7 DEF FlowBounded

\* Only a sender of a packet that asks for a confirmation reports a failure.
LEMMA FailedAskedStep == TypeOK /\ FailedAsked /\ [Next]_vars => FailedAsked'
<1> SUFFICES ASSUME TypeOK, FailedAsked, [Next]_vars PROVE FailedAsked'
  OBVIOUS
<1> USE DEF nodeVars, flowVars, sendVars, rcvVars, Goto, Stay, Return, FailedAsked
<1>1. ASSUME NEW t \in Thread, NEW p \in Sock, NEW w \in Modes, SendMsg(t, p, w) PROVE FailedAsked'
  BY Zenon, <1>1 DEF SendMsg, TypeOK
<1>2. ASSUME NEW t \in Thread, TxWait(t) PROVE FailedAsked'
  <2>1. pc'[t] # "failed"
    BY Zenon, <1>2 DEF TxWait, TypeOK, AddWaiter, StartWait, TakeOverConfirm, CountPacket
  <2>2. \A u \in Thread : u # t => pc'[u] = pc[u]
    BY Zenon, <1>2 DEF TxWait, TypeOK, AddWaiter, StartWait, TakeOverConfirm, CountPacket
  <2>3. \A u \in Thread : u # t => confirm'[u] = confirm[u]
    <3>1. \/ UNCHANGED confirm
          \/ \E b : confirm' = [confirm EXCEPT ![t] = b]
      BY Zenon, <1>2 DEF TxWait, AddWaiter, StartWait, TakeOverConfirm, CountPacket
    <3>2. QED
      BY Zenon, <3>1 DEF TypeOK
  <2>4. QED
    BY Zenon, <2>1, <2>2, <2>3
<1>3. ASSUME NEW t \in Thread, WaitEvent(t) \/ WaitTimeout(t) \/ WaitSignal(t) PROVE FailedAsked'
  <2>1. \/ \E l \in {"loop", "asleep"} : pc' = [pc EXCEPT ![t] = l] /\ confirm' = confirm
        \/ pc' = [pc EXCEPT ![t] = "idle"] /\ confirm' = [confirm EXCEPT ![t] = FALSE]
    BY Zenon, <1>3 DEF WaitEvent, WaitTimeout, WaitSignal, LeaveWait
  <2>2. pc'[t] # "failed" /\ \A u \in Thread : u # t => pc'[u] = pc[u]
    <3>1. \E l \in {"loop", "asleep", "idle"} : pc' = [pc EXCEPT ![t] = l]
      BY Zenon, <2>1
    <3>2. QED
      BY <3>1 DEF TypeOK
  <2>3. \A u \in Thread : u # t => confirm'[u] = confirm[u]
    BY Zenon, <2>1 DEF TypeOK
  <2>4. QED
    BY Zenon, <2>2, <2>3
<1>4. ASSUME NEW t \in Thread, Xmit(t) \/ TxFlowFailed(t) PROVE FailedAsked'
  <2>1. confirm' = [confirm EXCEPT ![t] = FALSE] /\ pc' = [pc EXCEPT ![t] = "idle"]
    BY Zenon, <1>4 DEF Xmit, TxFlowFailed
  <2>2. pc'[t] # "failed" /\ \A u \in Thread : u # t => pc'[u] = pc[u]
    BY <2>1 DEF TypeOK
  <2>3. \A u \in Thread : u # t => confirm'[u] = confirm[u]
    BY Zenon, <2>1 DEF TypeOK
  <2>4. QED
    BY Zenon, <2>2, <2>3
<1>5. ASSUME NEW t \in Thread, XmitFails(t) PROVE FailedAsked'
  <2>1. CASE confirm[t]
    <3>1. confirm' = confirm /\ pc' = [pc EXCEPT ![t] = "failed"]
      BY Zenon, <1>5, <2>1 DEF XmitFails
    <3>2. \A u \in Thread : u # t => pc'[u] = pc[u]
      BY Zenon, <3>1 DEF TypeOK
    <3>3. QED
      BY Zenon, <2>1, <3>1, <3>2
  <2>2. CASE ~confirm[t]
    <3>1. confirm' = [confirm EXCEPT ![t] = FALSE] /\ pc' = [pc EXCEPT ![t] = "idle"]
      BY Zenon, <1>5, <2>2 DEF XmitFails
    <3>2. pc'[t] # "failed" /\ \A u \in Thread : u # t => pc'[u] = pc[u]
      BY <3>1 DEF TypeOK
    <3>3. \A u \in Thread : u # t => confirm'[u] = confirm[u]
      BY Zenon, <3>1 DEF TypeOK
    <3>4. QED
      BY Zenon, <3>2, <3>3
  <2>3. QED
    BY Zenon, <2>1, <2>2
<1>6. ASSUME NEW n \in Node, EndpointPost(n) \/ Unregister(n) \/ CtrlPortBind(n) \/ SayHello(n)
      PROVE  FailedAsked'
  BY Zenon, <1>6 DEF EndpointPost, Unregister, CtrlPortBind, SayHello
<1>7. ASSUME NEW n \in Node, TxResume(n) \/ UnregisterWake(n) PROVE FailedAsked'
  BY Zenon, <1>7 DEF TxResume, UnregisterWake, Woken, TypeOK
<1>8. ASSUME NEW s \in Sock, RecvDequeue(s) \/ RecvMsg(s) \/ RecvResume(s) \/ Release(s)
      PROVE  FailedAsked'
  BY Zenon, <1>8 DEF RecvDequeue, RecvMsg, RecvResume, Release
<1>9. CASE UNCHANGED vars
  BY Zenon, <1>9 DEF vars
<1>10. QED
  BY Zenon, <1>1, <1>2, <1>3, <1>4, <1>5, <1>6, <1>7, <1>8, <1>9 DEF Next

-----------------------------------------------------------------------------
(* The theorems *)

\* A flow is allocated for every destination, and a packet whose transmission
\* failed is not delivered all the same.
SendsCounted == Faults \cap {"alloc", "late"} = {}

\* Nothing is under way before the first packet.
LEMMA BoundInit == Init => BoundInv
<1> SUFFICES ASSUME Init PROVE BoundInv
  OBVIOUS
<1>1. FailedAsked
  BY DEF Init, FailedAsked
<1>2. ASSUME NEW p \in Sock PROVE FlowBounded(p)
  <2>1. Home[p] \in Node /\ Origin(p) \in Node
    BY PlaceType
  <2>2. /\ pending[p] = 0 /\ Failed(p) = 0 /\ Reading(p) = 0
        /\ link[Home[p]] = << >> /\ sk_queue[p] = << >>
        /\ link[Origin(p)] = << >> /\ rx_queue[Origin(p)] = << >>
    BY <2>1 DEF Init, Failed, Reading
  <2>3. Senders(p) = {} /\ Asking(p) = {}
    BY DEF Init, Senders, Asking
  <2>4. Cardinality(Senders(p)) = 0 /\ Cardinality(Asking(p)) = 0
    BY <2>3, SizeType
  <2>5. Returning(p) = 0 /\ Reported(p) = 0
    BY Zenon, <2>2, AfterEmpty DEF Returning, Reported
  <2>6. Answers(p) = 0
    BY <2>2, <2>5 DEF Answers
  <2>7. OnWay(<< >>, p) = 0 /\ Confirms(<< >>, << >>, p) = 0 + 0 /\ Len(<< >>) = 0
    BY AfterEmpty DEF OnWay, Confirms
  <2>8. Within(Slack(0), 0, 0, 0, 0, 0, 0, 0 + 0, 0)
    <3>1. Cardinality(Thread) \in Nat /\ LOW \in Nat /\ HIGH \in Nat /\ 0 < LOW /\ LOW < HIGH
      BY CountTypes
    <3>2. QED
      BY <3>1 DEF Within, Slack
  <2>9. DOMAIN << >> = {}
    OBVIOUS
  <2>10. Behind(<< >>, p, Slack(0) - 0) /\ BehindIn(<< >>, Slack(0) - 0 - 0)
    BY Zenon, <2>9 DEF Behind, BehindIn
  <2>11. Bounded(p, 0, 0, 0, 0, << >>, << >>, 0)
    BY Zenon, <2>7, <2>8, <2>10 DEF Bounded
  <2>12. QED
    BY Zenon, <2>2, <2>4, <2>6, <2>11 DEF FlowBounded
<1>3. QED
  BY Zenon, <1>1, <1>2 DEF BoundInv

\* Every step keeps the bounds of every flow.
LEMMA BoundStep ==
    ASSUME SendsCounted
    PROVE  TypeOK /\ Routed /\ PendingWithinHigh /\ BoundInv /\ [Next]_vars => BoundInv'
<1> SUFFICES ASSUME TypeOK, Routed, PendingWithinHigh, BoundInv, [Next]_vars
             PROVE  BoundInv'
  OBVIOUS
<1>1. "alloc" \notin Faults /\ "late" \notin Faults
  BY DEF SendsCounted
<1>2. FailedAsked'
  BY Zenon, FailedAskedStep DEF BoundInv
<1>3. ASSUME NEW p \in Sock PROVE FlowBounded(p)'
  <2>1. ASSUME NEW t \in Thread, NEW r \in Sock, NEW w \in Modes, SendMsg(t, r, w)
        PROVE  FlowBounded(p)'
    BY Zenon, <1>1, <2>1, WaitSteps
  <2>2. ASSUME NEW t \in Thread, TxWait(t) PROVE FlowBounded(p)'
    BY Zenon, <1>1, <2>2, WaitSteps, PassSteps DEF TxWait
  <2>3. ASSUME NEW t \in Thread, WaitEvent(t) \/ WaitTimeout(t) \/ WaitSignal(t)
        PROVE  FlowBounded(p)'
    BY Zenon, <1>1, <2>3, WaitSteps
  <2>4. ASSUME NEW t \in Thread, Xmit(t) \/ XmitFails(t) \/ TxFlowFailed(t)
        PROVE  FlowBounded(p)'
    BY Zenon, <1>1, <2>4, XmitStep, XmitFailsStep, TxFlowFailedStep
  <2>5. ASSUME NEW n \in Node, EndpointPost(n) \/ TxResume(n) \/ Unregister(n)
        PROVE  FlowBounded(p)'
    BY Zenon, <2>5, PostStep, ResumeStep, UnregisterStep
  <2>6. ASSUME NEW s \in Sock, RecvDequeue(s) \/ RecvMsg(s) \/ Release(s)
        PROVE  FlowBounded(p)'
    BY Zenon, <2>6, DequeueStep, RecvStep, ReleaseStep
  <2>7. QED
    BY Zenon, <2>1, <2>2, <2>3, <2>4, <2>5, <2>6, QuietSteps DEF Next
<1>4. QED
  BY Zenon, <1>2, <1>3 DEF BoundInv

LEMMA BoundInvariant == ASSUME SendsCounted PROVE Spec => []BoundInv
<1>1. TypeOK /\ Routed /\ PendingWithinHigh /\ BoundInv /\ [Next]_vars => BoundInv'
  BY Zenon, BoundStep
<1>2. QED
  BY <1>1, BoundInit, TypeCorrect, RoutedInvariant, PendingBounded, PTL DEF Spec

\* What ConfirmsCarried counts in a queue.
LEMMA CountIsAfter ==
    ASSUME NEW T, NEW q \in Seq(T), NEW e
    PROVE  Count(q, e) = After(q, 0, {e})
<1>1. {i \in DOMAIN q : q[i] = e} = Positions(q, 0, {e})
  <2>1. \A i \in DOMAIN q : 0 < i
    OBVIOUS
  <2>2. QED
    BY Zenon, <2>1 DEF Positions
<1>2. QED
  BY Zenon, <1>1 DEF Count, After

\* Whatever packets, answers, sockets and links are lost, and however senders
\* and readers interleave, a flow has at most one confirmation under way, and
\* none before LOW packets are counted: the RESUME_TX that resets pending
\* answers the only confirm_rx that was asked for.
THEOREM OneConfirm == ASSUME SendsCounted PROVE Spec => []AtMostOneConfirm
<1>1. TypeOK /\ BoundInv => AtMostOneConfirm
  <2> SUFFICES ASSUME TypeOK, BoundInv, NEW p \in Sock
               PROVE  ConfirmsCarried(p) <= IF pending[p] >= LOW THEN 1 ELSE 0
    BY Zenon DEF AtMostOneConfirm
  <2> DEFINE L == After(link[Home[p]], 0, AskOf(p))
             Q == After(sk_queue[p], 0, Asked)
             C == Cardinality(Asking(p))
  <2>1. /\ Failed(p) \in Nat /\ Reading(p) \in Nat /\ Returning(p) \in Nat /\ Reported(p) \in Nat
        /\ C \in Nat /\ link[Home[p]] \in Seq(Packet) /\ link[Origin(p)] \in Seq(Packet)
        /\ rx_queue[Origin(p)] \in Seq(Sock) /\ sk_queue[p] \in Seq(BOOLEAN)
    BY Zenon, FlowTypes, SenderTypes
  <2>2. L \in Nat /\ Q \in Nat
    BY Zenon, <2>1, PositionsFinite
  <2>3. /\ Count(link[Home[p]], Data(p, TRUE)) = L /\ Count(sk_queue[p], TRUE) = Q
        /\ Count(link[Origin(p)], ResumeTx(p)) = Returning(p)
        /\ Count(rx_queue[Origin(p)], p) = Reported(p)
    BY Zenon, <2>1, CountIsAfter DEF AskOf, Asked, Returning, Reported, ResumeOf, Only
  <2>4. ConfirmsCarried(p) = Failed(p) + C + L + Q + Reading(p) + Returning(p) + Reported(p)
    BY Zenon, <2>3 DEF ConfirmsCarried, Failed, Asking, Reading
  <2>5. Failed(p) + C + (L + Q) + (Reading(p) + Returning(p) + Reported(p))
          <= IF pending[p] >= LOW THEN 1 ELSE 0
    BY Zenon DEF BoundInv, FlowBounded, Bounded, Within, Confirms, Answers
  <2> HIDE DEF L, Q, C
  <2>6. Failed(p) + C + L + Q + Reading(p) + Returning(p) + Reported(p)
          = Failed(p) + C + (L + Q) + (Reading(p) + Returning(p) + Reported(p))
    <3> DEFINE f == Failed(p)
               r == Reading(p)
               a == Returning(p)
               b == Reported(p)
    <3>1. f \in Nat /\ C \in Nat /\ r \in Nat /\ a \in Nat /\ b \in Nat
      BY Zenon, <2>1
    <3> HIDE DEF f, r, a, b
    <3>2. f + C + L + Q + r + a + b = f + C + (L + Q) + (r + a + b)
      BY <2>2, <3>1
    <3>3. QED
      BY Zenon, <3>2 DEF f, r, a, b
  <2>7. ConfirmsCarried(p) = Failed(p) + C + (L + Q) + (Reading(p) + Returning(p) + Reported(p))
    BY Zenon, <2>4, <2>6
  <2>8. QED
    BY Zenon, <2>5, <2>7
<1>2. QED
  BY <1>1, TypeCorrect, BoundInvariant, PTL

\* The packets waiting on a receiving socket stay within the window that
\* qrtr_tx_wait is to enforce: HIGH packets, those of the window before that
\* were behind its confirm_rx, and one for every sender that others overtook.
THEOREM QueueBounded == ASSUME SendsCounted PROVE Spec => []RxQueueBounded
<1>1. TypeOK /\ PendingWithinHigh /\ BoundInv => RxQueueBounded
  <2> SUFFICES ASSUME TypeOK, PendingWithinHigh, BoundInv, NEW p \in Sock
               PROVE  Len(sk_queue[p]) <= RxWindow
    BY Zenon DEF RxQueueBounded
  <2> DEFINE x == Cardinality(Senders(p))
             d == OnWay(link[Home[p]], p)
             z == Len(sk_queue[p])
             T == Cardinality(Thread)
  <2>1. /\ Failed(p) \in Nat /\ pending[p] \in Nat /\ x \in Nat
        /\ link[Home[p]] \in Seq(Packet) /\ sk_queue[p] \in Seq(BOOLEAN)
    BY Zenon, FlowTypes, SenderTypes
  <2>2. d \in Nat /\ z \in Nat
    <3>1. \A q \in Seq(BOOLEAN) : Len(q) \in Nat
      OBVIOUS
    <3>2. QED
      BY Zenon, <2>1, <3>1, PositionsFinite DEF OnWay
  <2>3. T \in Nat /\ LOW \in Nat /\ HIGH \in Nat
    BY CountTypes
  <2>4. pending[p] <= HIGH
    BY DEF PendingWithinHigh
  <2>5. Failed(p) + x + d + z <= (pending[p] + T - 1 - LOW) + HIGH
    BY Zenon DEF BoundInv, FlowBounded, Bounded, Within, Slack
  <2> HIDE DEF x, d, z, T
  <2>6. z <= HIGH + (HIGH - LOW) + (T - 1)
    <3> DEFINE f == Failed(p)
               c == pending[p]
    <3>1. /\ f \in Nat /\ c \in Nat /\ x \in Nat /\ d \in Nat /\ z \in Nat
          /\ c <= HIGH /\ f + x + d + z <= (c + T - 1 - LOW) + HIGH
      BY Zenon, <2>1, <2>2, <2>4, <2>5
    <3> HIDE DEF f, c
    <3>2. QED
      BY <2>3, <3>1
  <2>7. QED
    BY Zenon, <2>6 DEF z, T, RxWindow
<1>2. QED
  BY <1>1, TypeCorrect, PendingBounded, BoundInvariant, PTL
=============================================================================
