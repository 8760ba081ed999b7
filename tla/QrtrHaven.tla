------------------------------ MODULE QrtrHaven ------------------------------
(***************************************************************************)
(* net/qrtr/haven.c: the transport between two virtual machines.  Each     *)
(* direction is a byte ring in shared memory with a head that the sending  *)
(* VM moves, a tail that the receiving VM moves, and a word read_notify in *)
(* which the sender asks to be told of room.  Doorbells (hh_dbl.c) carry   *)
(* no data: they make the other VM look.                                   *)
(*                                                                         *)
(* The module is one direction.  The unit is the 32-bit word, to which     *)
(* qrtr_node_enqueue pads every packet.  Both mappings of the ring are     *)
(* device memory (devm_ioremap_nocache), whose accesses keep program       *)
(* order: each access to a shared word is a step.                          *)
(***************************************************************************)
EXTENDS Naturals, Sequences

CONSTANTS
  LENGTH,       \* FIFO_SIZE, in words
  RESERVE,      \* FIFO_FULL_RESERVE, in words
  SIZEAT,       \* the index, from 0, of the size field in a packet
  Sizes,        \* the packet lengths that occur
  MAXPKT,       \* MAX_PKT_SZ, in words: the buffer packets are assembled in
  Readers,      \* who runs qrtr_haven_read: "irq" the doorbell's thread,
                \* "probe" the one call at the end of qrtr_haven_probe
  Master,       \* the ends ("tx", "rx") whose VM has qcom,master set
  Ready,        \* the ends whose doorbell capability is there from the start
  Faults,       \* "timeout": the ten-second wait for room may run out;
                \* "short": a first chunk may end before the size field
  MAXSEND       \* bound: packets sent

End == {"tx", "rx"}

HavenAssumption ==
  /\ LENGTH \in Nat /\ RESERVE \in 1..(LENGTH - 1)
  /\ SIZEAT \in 0..(LENGTH - 1)
  /\ Sizes \subseteq Nat /\ \A n \in Sizes : n > SIZEAT
  /\ Readers \subseteq {"irq", "probe"} /\ "irq" \in Readers
  /\ Master \subseteq End /\ Ready \subseteq End
  /\ MAXPKT \in Nat /\ MAXSEND \in Nat

ASSUME HavenAssumption

VARIABLES
  head, tail, notify, fifo,     \* the shared memory
  irq,          \* irq[e]: the doorbell interrupt of end e is pending
  cap,          \* cap[e]: the doorbell capability of end e is populated
  retry,        \* retry[e]: qdev->work of end e is scheduled
  sent,         \* the lengths of the packets qrtr_haven_send was given
  spc,          \* the step of qrtr_haven_send
  offset, chunk,                \* its locals
  rpc,          \* rpc[r]: the step of reader r in qrtr_haven_read
  pkt_len, rx_avail,            \* its locals
  ring_len, ring_offset, ring_buf,      \* qdev->ring: the packet being
                                        \* reassembled
  posted        \* the packets given to qrtr_endpoint_post

shared == <<head, tail, notify, fifo>>
doorbells == <<irq, cap, retry>>
sender == <<sent, spc, offset, chunk>>
ring == <<ring_len, ring_offset, ring_buf>>
reader == <<rpc, pkt_len, rx_avail, ring, posted>>
vars == <<shared, doorbells, sender, reader>>

Invalid == 0      \* a length qrtr_haven_read_new refuses
Garbage == 0      \* a posted buffer that is no packet that was sent

Slot == 0..(LENGTH - 1)

\* Word at, from 1, of packet pkt; size is what its size field says.
Word == [pkt : Nat, at : Nat, size : Nat]
Blank == [pkt |-> 0, at |-> 0, size |-> 0]
WordOf(pkt, at) == [pkt |-> pkt, at |-> at, size |-> sent[pkt]]
PacketWords(pkt) == [at \in 1..sent[pkt] |-> WordOf(pkt, at)]

Init ==
  /\ head = 0 /\ tail = 0 /\ notify = FALSE
  /\ fifo = [i \in Slot |-> Blank]
  /\ irq = [e \in End |-> FALSE]
  /\ cap = [e \in End |-> e \in Ready]
  /\ retry = [e \in End |-> FALSE]
  /\ sent = <<>> /\ spc = "idle" /\ offset = 0 /\ chunk = 0
  /\ rpc = [r \in Readers |-> IF r = "probe" THEN "loop" ELSE "idle"]
  /\ pkt_len = [r \in Readers |-> 0]
  /\ rx_avail = [r \in Readers |-> 0]
  /\ ring_len = 0 /\ ring_offset = 0
  /\ ring_buf = [i \in 1..MAXPKT |-> Blank]
  /\ posted = <<>>

-----------------------------------------------------------------------------
(* The ring. *)

\* haven_rx_avail
RxAvail == IF head < tail THEN LENGTH - tail + head ELSE head - tail

\* Mutant: a full ring is not told from an empty one.
TxAvailNoReserve == IF tail <= head THEN LENGTH - head + tail ELSE tail - head

\* haven_tx_avail
TxAvail ==
  LET avail == IF tail <= head THEN LENGTH - head + tail ELSE tail - head
  IN IF avail < RESERVE THEN 0 ELSE avail - RESERVE

\* The slot n words after index i.
Wrap(i, n) == IF i + n >= LENGTH THEN i + n - LENGTH ELSE i + n

\* haven_rx_peak: the first count words after the tail.
Peak(count) == [i \in 1..count |-> fifo[Wrap(tail, i - 1)]]

-----------------------------------------------------------------------------
(* Doorbells. *)

Other(e) == IF e = "tx" THEN "rx" ELSE "tx"

\* Mutant: a doorbell that could not be rung is forgotten.
KickNoRetry(e) ==
  /\ irq' = [irq EXCEPT ![Other(e)] = @ \/ cap[e]]
  /\ UNCHANGED <<cap, retry>>

\* qrtr_haven_kick by end e: hh_dbl_send with HH_DBL_NONBLOCK fails while the
\* capability is missing, and then only a VM that is not the master retries.
Kick(e) ==
  /\ irq' = [irq EXCEPT ![Other(e)] = @ \/ cap[e]]
  /\ retry' = [retry EXCEPT ![e] = @ \/ (~cap[e] /\ e \notin Master)]
  /\ UNCHANGED cap

\* qrtr_haven_retry_work: hh_dbl_send without HH_DBL_NONBLOCK waits for the
\* capability.
RetryWork(e) ==
  /\ retry[e] /\ cap[e]
  /\ retry' = [retry EXCEPT ![e] = FALSE]
  /\ irq' = [irq EXCEPT ![Other(e)] = TRUE]
  /\ UNCHANGED <<cap, shared, sender, reader>>

\* hh_dbl_populate_cap_info, called by the resource manager.
PopulateCap(e) ==
  /\ ~cap[e]
  /\ cap' = [cap EXCEPT ![e] = TRUE]
  /\ UNCHANGED <<irq, retry, shared, sender, reader>>

-----------------------------------------------------------------------------
(* qrtr_haven_send. *)

left_size == sent[Len(sent)] - offset

Send(n) ==
  /\ spc = "idle" /\ Len(sent) < MAXSEND
  /\ sent' = Append(sent, n)
  /\ offset' = 0 /\ spc' = "loop"
  /\ UNCHANGED <<chunk, shared, doorbells, reader>>

\* The head of the loop with room in the ring.  Unless "short" may happen, a
\* packet's first chunk reaches its size field.
SendChunk ==
  /\ spc = "loop" /\ left_size > 0 /\ TxAvail > 0
  /\ chunk' = IF TxAvail < left_size THEN TxAvail ELSE left_size
  /\ "short" \in Faults \/ offset + chunk' > SIZEAT
  /\ spc' = "write"
  /\ UNCHANGED <<sent, offset, shared, doorbells, reader>>

SendNoRoom ==
  /\ spc = "loop" /\ left_size > 0 /\ TxAvail = 0
  /\ spc' = "notify"
  /\ UNCHANGED <<sent, offset, chunk, shared, doorbells, reader>>

\* Mutant: the part of the chunk beyond the end of the ring is not copied.
TxWriteNoWrap ==
  /\ spc = "write"
  /\ fifo' = [s \in Slot |->
       IF s \in head..(head + chunk - 1)
         THEN WordOf(Len(sent), offset + s - head + 1) ELSE fifo[s]]
  /\ spc' = "publish"
  /\ UNCHANGED <<head, tail, notify, sent, offset, chunk, doorbells, reader>>

\* haven_tx_write: the copy, then the head.
TxWrite ==
  /\ spc = "write"
  /\ fifo' = [s \in Slot |->
       LET i == IF s < head THEN s + LENGTH - head ELSE s - head
       IN IF i < chunk
            THEN WordOf(Len(sent), offset + i + 1) ELSE fifo[s]]
  /\ spc' = "publish"
  /\ UNCHANGED <<head, tail, notify, sent, offset, chunk, doorbells, reader>>

TxPublish ==
  /\ spc = "publish"
  /\ head' = Wrap(head, chunk)
  /\ offset' = offset + chunk /\ chunk' = 0
  /\ spc' = "kick"
  /\ UNCHANGED <<tail, notify, fifo, sent, doorbells, reader>>

\* Mutant: the doorbell is rung once per packet.
SendKickAtEnd ==
  /\ spc = "kick"
  /\ IF left_size = 0 THEN Kick("tx") ELSE UNCHANGED doorbells
  /\ spc' = "loop"
  /\ UNCHANGED <<sent, offset, chunk, shared, reader>>

SendKick ==
  /\ spc = "kick"
  /\ Kick("tx")
  /\ spc' = "loop"
  /\ UNCHANGED <<sent, offset, chunk, shared, reader>>

\* haven_wait_for_tx_avail: the flag first, then the test of wait_event.
SetTxNotify ==
  /\ spc = "notify"
  /\ notify' = TRUE /\ spc' = "wait"
  /\ UNCHANGED <<head, tail, fifo, sent, offset, chunk, doorbells, reader>>

\* Mutant: the sender sleeps without a look at the ring.
WaitTxAvailBlind ==
  /\ spc = "wait"
  /\ spc' = "asleep"
  /\ UNCHANGED <<sent, offset, chunk, shared, doorbells, reader>>

WaitTxAvail ==
  /\ spc = "wait"
  /\ spc' = IF TxAvail > 0 THEN "loop" ELSE "asleep"
  /\ UNCHANGED <<sent, offset, chunk, shared, doorbells, reader>>

WaitTimeout ==
  /\ spc = "asleep" /\ "timeout" \in Faults
  /\ spc' = "loop"
  /\ UNCHANGED <<sent, offset, chunk, shared, doorbells, reader>>

\* The end of qrtr_haven_send: haven_clr_tx_notify.
SendDone ==
  /\ spc = "loop" /\ left_size = 0
  /\ notify' = FALSE /\ spc' = "idle"
  /\ UNCHANGED <<head, tail, fifo, sent, offset, chunk, doorbells, reader>>

\* The doorbell at the sending VM: qrtr_haven_read wakes the sender, which
\* looks at the ring again.
TxDoorbell ==
  /\ irq["tx"]
  /\ irq' = [irq EXCEPT !["tx"] = FALSE]
  /\ spc' = IF spc = "asleep" THEN "wait" ELSE spc
  /\ UNCHANGED <<cap, retry, sent, offset, chunk, shared, reader>>

-----------------------------------------------------------------------------
(* qrtr_haven_read. *)

\* The doorbell's interrupt is threaded and one-shot: one that arrives while
\* the thread runs makes it run again.
RxDoorbell ==
  /\ irq["rx"] /\ rpc["irq"] = "idle"
  /\ irq' = [irq EXCEPT !["rx"] = FALSE]
  /\ rpc' = [rpc EXCEPT !["irq"] = "loop"]
  /\ UNCHANGED <<cap, retry, pkt_len, rx_avail, ring, posted, shared, sender>>

\* The while condition, and the choice between the two ways to read.
ReadLoop(r) ==
  /\ rpc[r] = "loop"
  /\ IF RxAvail = 0
       THEN rpc' = [rpc EXCEPT ![r] = "idle"]
       ELSE IF ring_offset > 0
         THEN rpc' = [rpc EXCEPT ![r] = "copy"]
         ELSE rpc' = [rpc EXCEPT ![r] = "peek"]
  /\ UNCHANGED <<pkt_len, rx_avail, ring, posted, shared, doorbells, sender>>

\* qrtr_peek_pkt_size of the words after the tail, whether or not the sender
\* has written them: a size field that is not there yet reads as anything.
PeekSizes ==
  LET first == fifo[tail]
      size == fifo[Wrap(tail, SIZEAT)]
  IN IF first.pkt = size.pkt /\ size.at = first.at + SIZEAT /\ first.at = 1
       THEN {size.size} ELSE Sizes \cup {Invalid}

\* qrtr_haven_read_new returns when the size is not that of a packet or is
\* more than its buffer holds.
PeekHeader(r) ==
  /\ rpc[r] = "peek"
  /\ \E n \in PeekSizes :
       IF n = Invalid \/ n > MAXPKT
         THEN /\ rpc' = [rpc EXCEPT ![r] = "kick"]
              /\ UNCHANGED pkt_len
         ELSE /\ rpc' = [rpc EXCEPT ![r] = "copy"]
              /\ pkt_len' = [pkt_len EXCEPT ![r] = n]
  /\ UNCHANGED <<rx_avail, ring, posted, shared, doorbells, sender>>

\* qrtr_haven_read_new works on a packet of pkt_len words from the start of
\* the buffer, qrtr_haven_read_frag, whose pkt_len is 0, on the one in ring.
Total(r) == IF pkt_len[r] = 0 THEN ring_len ELSE pkt_len[r]
Base(r) == IF pkt_len[r] = 0 THEN ring_offset ELSE 0

\* What there is of the packet is copied into the ring buffer.
ReadCopy(r) ==
  /\ rpc[r] = "copy"
  /\ LET n == IF RxAvail + Base(r) > Total(r) THEN Total(r) - Base(r)
              ELSE RxAvail
     IN /\ rx_avail' = [rx_avail EXCEPT ![r] = n]
        /\ ring_buf' = [i \in DOMAIN ring_buf |->
             IF i \in (Base(r) + 1)..(Base(r) + n)
               THEN Peak(n)[i - Base(r)] ELSE ring_buf[i]]
  /\ rpc' = [rpc EXCEPT ![r] = "advance"]
  /\ UNCHANGED <<pkt_len, ring_len, ring_offset, posted, shared, doorbells,
                 sender>>

\* Mutant: the tail runs past the end of the ring.
ReadAdvanceNoWrap(r) ==
  /\ rpc[r] = "advance"
  /\ tail' = tail + rx_avail[r]
  /\ rpc' = [rpc EXCEPT ![r] = "post"]
  /\ UNCHANGED <<head, notify, fifo, pkt_len, rx_avail, ring, posted,
                 doorbells, sender>>

\* haven_rx_advance
ReadAdvance(r) ==
  /\ rpc[r] = "advance"
  /\ tail' = Wrap(tail, rx_avail[r])
  /\ rpc' = [rpc EXCEPT ![r] = "post"]
  /\ UNCHANGED <<head, notify, fifo, pkt_len, rx_avail, ring, posted,
                 doorbells, sender>>

\* The packet a buffer is a copy of.
PacketOf(buf) ==
  IF \E p \in 1..Len(sent) : buf = PacketWords(p)
    THEN CHOOSE p \in 1..Len(sent) : buf = PacketWords(p) ELSE Garbage

\* Mutant: the state of a reassembled packet is not reset.
ReadPostKeepsOffset(r) ==
  /\ rpc[r] = "post"
  /\ LET got == Base(r) + rx_avail[r]
     IN IF got = Total(r)
          THEN /\ posted' = Append(posted, PacketOf(SubSeq(ring_buf, 1, got)))
               /\ UNCHANGED <<ring_len, ring_offset>>
          ELSE /\ ring_len' = Total(r) /\ ring_offset' = got
               /\ UNCHANGED posted
  /\ pkt_len' = [pkt_len EXCEPT ![r] = 0]
  /\ rx_avail' = [rx_avail EXCEPT ![r] = 0]
  /\ rpc' = [rpc EXCEPT ![r] = "kick"]
  /\ UNCHANGED <<ring_buf, shared, doorbells, sender>>

\* The buffer is posted when the packet is complete and otherwise kept for
\* the next fragment.
ReadPost(r) ==
  /\ rpc[r] = "post"
  /\ LET got == Base(r) + rx_avail[r]
         frag == pkt_len[r] = 0
     IN IF got = Total(r)
          THEN /\ posted' = Append(posted, PacketOf(SubSeq(ring_buf, 1, got)))
               /\ IF frag THEN ring_len' = 0 /\ ring_offset' = 0
                  ELSE UNCHANGED <<ring_len, ring_offset>>
          ELSE /\ ring_len' = Total(r) /\ ring_offset' = got
               /\ UNCHANGED posted
  /\ pkt_len' = [pkt_len EXCEPT ![r] = 0]
  /\ rx_avail' = [rx_avail EXCEPT ![r] = 0]
  /\ rpc' = [rpc EXCEPT ![r] = "kick"]
  /\ UNCHANGED <<ring_buf, shared, doorbells, sender>>

\* Mutant: room is reported once per packet.
ReadKickAtEnd(r) ==
  /\ rpc[r] = "kick"
  /\ IF notify /\ ring_offset = 0 THEN Kick("rx") ELSE UNCHANGED doorbells
  /\ rpc' = [rpc EXCEPT ![r] = "loop"]
  /\ UNCHANGED <<pkt_len, rx_avail, ring, posted, shared, sender>>

\* haven_get_read_notify and the doorbell back to the sender.
ReadKick(r) ==
  /\ rpc[r] = "kick"
  /\ IF notify THEN Kick("rx") ELSE UNCHANGED doorbells
  /\ rpc' = [rpc EXCEPT ![r] = "loop"]
  /\ UNCHANGED <<pkt_len, rx_avail, ring, posted, shared, sender>>

-----------------------------------------------------------------------------

Sender ==
  \/ SendChunk \/ SendNoRoom \/ TxWrite \/ TxPublish \/ SendKick
  \/ SetTxNotify \/ WaitTxAvail \/ SendDone

Read(r) ==
  \/ ReadLoop(r) \/ PeekHeader(r) \/ ReadCopy(r)
  \/ ReadAdvance(r) \/ ReadPost(r) \/ ReadKick(r)

Next ==
  \/ \E n \in Sizes : Send(n)
  \/ Sender \/ WaitTimeout \/ TxDoorbell \/ RxDoorbell
  \/ \E r \in Readers : Read(r)
  \/ \E e \in End : RetryWork(e) \/ PopulateCap(e)

Spec == Init /\ [][Next]_vars

\* The doorbell's thread, the work queue and a sender that can run are
\* scheduled; the resource manager populates every capability.
Fairness ==
  /\ WF_vars(Sender)
  /\ WF_vars(TxDoorbell)
  /\ WF_vars(RxDoorbell)
  /\ \A r \in Readers : WF_vars(Read(r))
  /\ \A e \in End : WF_vars(RetryWork(e)) /\ WF_vars(PopulateCap(e))

FairSpec == Spec /\ Fairness

-----------------------------------------------------------------------------
(* Properties. *)

\* Head and tail stay indices of the ring, and what qrtr_haven_read takes for
\* a packet's length is the length of some packet that was sent.
TypeOK ==
  /\ head \in Slot /\ tail \in Slot /\ notify \in BOOLEAN
  /\ fifo \in [Slot -> Word]
  /\ irq \in [End -> BOOLEAN] /\ cap \in [End -> BOOLEAN]
  /\ retry \in [End -> BOOLEAN]
  /\ sent \in Seq(Sizes) /\ Len(sent) <= MAXSEND
  /\ spc \in {"idle", "loop", "write", "publish", "kick", "notify", "wait",
              "asleep"}
  /\ offset \in Nat /\ chunk \in 0..LENGTH
  /\ rpc \in [Readers -> {"idle", "loop", "peek", "copy", "advance", "post",
                         "kick"}]
  /\ pkt_len \in [Readers -> Sizes \cup {Invalid}]
  /\ rx_avail \in [Readers -> 0..LENGTH]
  /\ ring_len \in Sizes \cup {0} /\ ring_offset \in Nat
  /\ ring_buf \in [1..MAXPKT -> Word]
  /\ posted \in Seq(0..MAXSEND)

\* What the sender is about to copy and what is still unread leave the
\* reserve free: haven_tx_avail was read before the copy and the reader has
\* moved since, but only away from the words being written.
NoOverrun ==
  RxAvail + (IF spc \in {"write", "publish"} THEN chunk ELSE 0)
    <= LENGTH - RESERVE

\* Packet and index of unread word i, from 0, and after the last one those of
\* the word that qrtr_haven_send publishes next.
PktAt(i) == IF i < RxAvail THEN fifo[Wrap(tail, i)].pkt ELSE Len(sent)
WordAt(i) == IF i < RxAvail THEN fifo[Wrap(tail, i)].at ELSE offset + 1

\* Going n words on from word a of packet p leads to word b of packet q.
Leads(p, a, n, q, b) ==
  \/ q = p /\ b = a + n
  \/ q > p /\ a + n > sent[p] /\ (a + n = sent[p] + 1 => q = p + 1 /\ b = 1)

\* The packet being received, and how much of it has left the ring.
ReadPkt == Len(posted) + 1
ReadOff == IF rpc["irq"] = "post" THEN Base("irq") + rx_avail["irq"]
           ELSE ring_offset

\* The packets posted, the words in the reassembly buffer and those in the
\* ring are together what qrtr_haven_send has published: each word is one of a
\* packet, each is followed by the next up to where the sender goes on, and
\* the first one goes on where the reader stopped.  Nothing is overwritten
\* before it is read, lost, or read twice, through wrap-around, partial chunks
\* and a full ring.
StreamIntact ==
  /\ \A i \in 0..(RxAvail - 1) :
       /\ PktAt(i) \in 1..Len(sent) /\ WordAt(i) \in 1..sent[PktAt(i)]
       /\ fifo[Wrap(tail, i)] = WordOf(PktAt(i), WordAt(i))
  /\ \A i, j \in 0..RxAvail :
       i < j => Leads(PktAt(i), WordAt(i), j - i, PktAt(j), WordAt(j))
  /\ \A i \in 1..ReadOff : ring_buf[i] = WordOf(ReadPkt, i)
  /\ \/ PktAt(0) = ReadPkt /\ WordAt(0) = ReadOff + 1
     \/ /\ ReadPkt <= Len(sent) /\ ReadOff = sent[ReadPkt]
        /\ PktAt(0) = ReadPkt + 1 /\ WordAt(0) = 1
     \/ /\ RxAvail = 0 /\ (sent # <<>> => left_size = 0)
        /\ ReadPkt = Len(sent) + 1 /\ ReadOff = 0

\* Every buffer given to qrtr_endpoint_post is one packet, whole, and they
\* come in the order in which qrtr_haven_send was called.
InOrder == posted = [i \in 1..Len(posted) |-> i] /\ Len(posted) <= Len(sent)

\* The direction implements the channel that the router expects.
Channel == INSTANCE PacketChannel WITH accepted <- Len(sent)
ChannelSpec == Channel!Spec
ChannelFairSpec == Channel!FairSpec

\* A sender asleep although the ring has room is about to be woken: its
\* doorbell rings, is scheduled to ring, or a reader has still to look at
\* read_notify.  This holds without the ten-second timeout.
RoomNotMissed ==
  spc = "asleep" /\ TxAvail > 0 =>
    \/ irq["tx"] \/ retry["rx"]
    \/ \E r \in Readers : rpc[r] \in {"post", "kick"}

\* Words in the ring while no reader runs are about to be read: the
\* receiver's doorbell rings, is scheduled to ring, or the sender has
\* published them and has still to ring it.
DataNotMissed ==
  RxAvail > 0 /\ (\A r \in Readers : rpc[r] = "idle") =>
    irq["rx"] \/ retry["tx"] \/ spc = "kick"

\* qrtr_haven_send returns, however small the ring, without its timeout.
SendReturns == spc # "idle" ~> spc = "idle"

=============================================================================
