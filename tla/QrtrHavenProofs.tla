-------------------------- MODULE QrtrHavenProofs --------------------------
(***************************************************************************)
(* Proofs about QrtrHaven for every length of the ring, reserve and set of *)
(* packet sizes: with one reader the indices never overrun each other, no  *)
(* doorbell that matters is missed, the words in the ring are the packets  *)
(* that were sent, and the direction implements PacketChannel.             *)
(***************************************************************************)
EXTENDS QrtrHaven, TLAPS

\* After qrtr_haven_probe only the doorbell's thread reads.  A master's
\* capability is there before its peer runs: guestvm_loader.c populates it
\* when the peer VM is ready, and starts the VM after that.
OneReader == Readers = {"irq"} /\ Master \subseteq Ready

\* The constants as the proofs use them.
LEMMA Sizing ==
  /\ LENGTH \in Nat /\ RESERVE \in Nat
  /\ 0 < RESERVE /\ RESERVE < LENGTH
  BY HavenAssumption DEF HavenAssumption

-----------------------------------------------------------------------------
(* The indices. *)

\* What haven_tx_avail tells the sender and what the reader has not read
\* fill the ring up to the reserve.
LEMMA AvailSum ==
  ASSUME head \in Slot, tail \in Slot, RxAvail <= LENGTH - RESERVE
  PROVE  /\ RxAvail \in Nat /\ TxAvail \in Nat
         /\ TxAvail + RxAvail = LENGTH - RESERVE
  BY Sizing DEF Slot, RxAvail, TxAvail

\* haven_tx_write moves the head by what it wrote.
LEMMA HeadMoves ==
  ASSUME head \in Slot, tail \in Slot, NEW n \in Nat,
         RxAvail + n <= LENGTH - RESERVE,
         head' = Wrap(head, n), tail' = tail
  PROVE  head' \in Slot /\ RxAvail' = RxAvail + n
  BY Sizing DEF Slot, RxAvail, Wrap

\* haven_rx_advance moves the tail by what was read.
LEMMA TailMoves ==
  ASSUME head \in Slot, tail \in Slot, NEW n \in Nat, n <= RxAvail,
         tail' = Wrap(tail, n), head' = head
  PROVE  tail' \in Slot /\ RxAvail' = RxAvail - n
  BY Sizing DEF Slot, RxAvail, Wrap

SentInv ==
  /\ sent \in Seq(Nat)
  /\ spc # "idle" => sent # <<>>
  /\ offset \in Nat /\ chunk \in Nat

ReadStep == {"idle", "loop", "peek", "copy", "advance", "post", "kick"}

\* The reader's locals and the reassembly state stay within a packet.
ReadInv ==
  /\ rpc \in [{"irq"} -> ReadStep]
  /\ pkt_len \in [{"irq"} -> Nat]
  /\ rx_avail \in [{"irq"} -> Nat]
  /\ fifo \in [Slot -> Word]
  /\ ring_len \in Nat /\ ring_offset \in Nat /\ ring_offset <= ring_len
  /\ rpc["irq"] \in {"advance", "post"} =>
       Base("irq") + rx_avail["irq"] <= Total("irq")

IndexInv ==
  /\ head \in Slot /\ tail \in Slot
  /\ SentInv
  /\ ReadInv
  /\ NoOverrun
  /\ rpc["irq"] = "advance" => rx_avail["irq"] <= RxAvail

\* IndexInv holds when the VM has mapped an empty ring.
LEMMA IndexInit ==
  ASSUME OneReader, Init
  PROVE  IndexInv
  <1>1. Blank \in Word
    BY DEF Blank, Word
  <1>2. head \in Slot /\ tail \in Slot /\ RxAvail = 0
    BY Sizing DEF Init, Slot, RxAvail
  <1>3. SentInv
    <2>1. sent = <<>> /\ spc = "idle" /\ offset = 0 /\ chunk = 0
      BY DEF Init
    <2>2. QED
      BY <2>1 DEF SentInv
  <1>4. ReadInv
    BY <1>1 DEF Init, OneReader, ReadInv, ReadStep
  <1>5. NoOverrun
    BY <1>2, Sizing DEF NoOverrun, Init
  <1>6. QED
    BY <1>2, <1>3, <1>4, <1>5 DEF IndexInv, Init, OneReader

\* Nothing but the sender changes what SentInv is about.
LEMMA SentStep ==
  ASSUME OneReader, HavenAssumption, IndexInv, Next
  PROVE  SentInv'
  <1>0. SentInv /\ RxAvail \in Nat /\ TxAvail \in Nat
    BY AvailSum, Sizing DEF IndexInv, NoOverrun, RxAvail, Slot, SentInv
  <1>1. CASE \E n \in Sizes : Send(n)
    BY <1>0, <1>1 DEF HavenAssumption, Send, SentInv
  <1>2. CASE SendChunk
    <2>1. sent[Len(sent)] \in Nat
      BY <1>0, <1>2 DEF SentInv, SendChunk
    <2>2. QED
      BY <1>0, <1>2, <2>1 DEF SentInv, SendChunk, left_size
  <1>3. CASE TxPublish
    BY <1>0, <1>3 DEF SentInv, TxPublish
  <1>4. CASE SendNoRoom \/ TxWrite \/ SendKick \/ SetTxNotify \/ WaitTxAvail
             \/ SendDone \/ WaitTimeout \/ TxDoorbell
    BY <1>0, <1>4 DEF SentInv, SendNoRoom, TxWrite, SendKick, SetTxNotify,
       WaitTxAvail, SendDone, WaitTimeout, TxDoorbell
  <1>5. CASE RxDoorbell \/ (\E r \in Readers : Read(r))
             \/ (\E e \in End : RetryWork(e) \/ PopulateCap(e))
    <2>1. UNCHANGED sender
      BY <1>5 DEF RxDoorbell, Read, ReadLoop, PeekHeader, ReadCopy, ReadAdvance,
         ReadPost, ReadKick, RetryWork, PopulateCap
    <2>2. QED
      BY <1>0, <2>1 DEF SentInv, sender
  <1>6. QED
    BY <1>1, <1>2, <1>3, <1>4, <1>5 DEF Next, Sender

\* The size read from the ring, stale or not, is a number.
LEMMA PeekedSize ==
  ASSUME tail \in Slot, fifo \in [Slot -> Word], NEW n \in PeekSizes
  PROVE  n \in Nat
  <1>1. Wrap(tail, SIZEAT) \in Slot
    BY HavenAssumption, Sizing DEF HavenAssumption, Slot, Wrap
  <1>2. fifo[Wrap(tail, SIZEAT)].size \in Nat
    BY <1>1 DEF Word
  <1>3. Sizes \cup {Invalid} \subseteq Nat
    BY HavenAssumption DEF HavenAssumption, Invalid
  <1>4. QED
    BY <1>2, <1>3 DEF PeekSizes

\* The steps that leave the reader's side alone.
LEMMA ReadUntouched ==
  ASSUME ReadInv, UNCHANGED <<rpc, pkt_len, rx_avail, ring_len, ring_offset>>,
         fifo' \in [Slot -> Word]
  PROVE  ReadInv'
  BY DEF ReadInv, Base, Total

\* The steps of qrtr_haven_read keep the lengths it works with in range.
LEMMA ReadStepInv ==
  ASSUME OneReader, IndexInv, Next
  PROVE  ReadInv'
  <1>0. /\ ReadInv /\ SentInv /\ tail \in Slot
        /\ RxAvail \in Nat
    BY AvailSum, Sizing DEF IndexInv, NoOverrun, RxAvail, Slot, SentInv
  <1>1. CASE TxWrite
    <2>1. sent[Len(sent)] \in Nat /\ Len(sent) \in Nat
      BY <1>0, <1>1 DEF TxWrite, SentInv
    <2>2. \A i \in Nat : WordOf(Len(sent), offset + i + 1) \in Word
      BY <1>0, <2>1 DEF WordOf, Word, SentInv
    <2>3. \A s \in Slot : (IF s < head THEN s + LENGTH - head ELSE s - head) \in Nat
      BY Sizing DEF IndexInv, Slot
    <2>4. fifo' \in [Slot -> Word]
      BY <1>0, <1>1, <2>2, <2>3 DEF TxWrite, ReadInv
    <2>5. QED
      BY <1>0, <1>1, <2>4, ReadUntouched DEF TxWrite, reader, ring
  <1>2. CASE \E r \in Readers : Read(r)
    <2>0. PICK r \in {"irq"} : Read(r)
      BY <1>2 DEF OneReader
    <2>1. CASE ReadLoop(r)
      BY <1>0, <2>1 DEF ReadLoop, ReadInv, ReadStep, shared, ring, Base, Total
    <2>2. CASE PeekHeader(r)
      <3>1. PICK n \in PeekSizes :
               \/ /\ pkt_len' = [pkt_len EXCEPT ![r] = n]
                  /\ rpc' = [rpc EXCEPT ![r] = "copy"]
               \/ /\ pkt_len' = pkt_len
                  /\ rpc' = [rpc EXCEPT ![r] = "kick"]
        BY <2>2 DEF PeekHeader
      <3>2. n \in Nat
        BY <1>0, PeekedSize DEF ReadInv
      <3>3. UNCHANGED <<rx_avail, ring_len, ring_offset, fifo>>
        BY <2>2 DEF PeekHeader, ring, shared
      <3>4. pkt_len' \in [{"irq"} -> Nat] /\ rpc' \in [{"irq"} -> ReadStep]
        BY <1>0, <3>1, <3>2 DEF ReadInv, ReadStep
      <3>5. rpc'["irq"] \notin {"advance", "post"}
        BY <1>0, <3>1 DEF ReadInv
      <3>6. QED
        BY <1>0, <3>3, <3>4, <3>5 DEF ReadInv
    <2>3. CASE ReadCopy(r)
      <3>1. Base("irq") \in Nat /\ Total("irq") \in Nat
            /\ Base("irq") <= Total("irq")
        BY <1>0 DEF ReadInv, Base, Total
      <3>2. PICK n \in Nat : /\ rx_avail' = [rx_avail EXCEPT !["irq"] = n]
                              /\ Base("irq") + n <= Total("irq")
        <4> DEFINE m == IF RxAvail + Base("irq") > Total("irq")
                          THEN Total("irq") - Base("irq") ELSE RxAvail
        <4>1. rx_avail' = [rx_avail EXCEPT !["irq"] = m]
          BY <2>3 DEF ReadCopy
        <4>2. m \in Nat /\ Base("irq") + m <= Total("irq")
          BY <1>0, <3>1
        <4>3. QED
          BY Zenon, <4>1, <4>2
      <3>3. UNCHANGED <<pkt_len, ring_len, ring_offset, fifo>>
        BY <2>3 DEF ReadCopy, shared
      <3>4. rpc' \in [{"irq"} -> ReadStep]
        BY <1>0, <2>3 DEF ReadCopy, ReadInv, ReadStep
      <3>5. rx_avail' \in [{"irq"} -> Nat] /\ rx_avail'["irq"] = n
        BY <1>0, <3>2 DEF ReadInv
      <3>6. QED
        BY <1>0, <3>2, <3>3, <3>4, <3>5 DEF ReadInv, Base, Total
    <2>4. CASE ReadAdvance(r)
      BY <1>0, <2>4 DEF ReadAdvance, ReadInv, ReadStep, ring, Base, Total
    <2>5. CASE ReadPost(r)
      <3>1. /\ Base("irq") \in Nat /\ Total("irq") \in Nat
            /\ rx_avail["irq"] \in Nat
            /\ Base("irq") + rx_avail["irq"] <= Total("irq")
        BY <1>0, <2>5 DEF ReadInv, Base, Total, ReadPost
      <3>2. ring_len' \in Nat /\ ring_offset' \in Nat /\ ring_offset' <= ring_len'
        BY <1>0, <2>5, <3>1 DEF ReadPost, ReadInv
      <3>3. /\ pkt_len' \in [{"irq"} -> Nat] /\ rx_avail' \in [{"irq"} -> Nat]
            /\ rpc' \in [{"irq"} -> ReadStep]
            /\ rpc'["irq"] = "kick"
        BY <1>0, <2>5 DEF ReadPost, ReadInv, ReadStep
      <3>4. QED
        BY <1>0, <2>5, <3>2, <3>3 DEF ReadPost, ReadInv, shared
    <2>6. CASE ReadKick(r)
      BY <1>0, <2>6 DEF ReadKick, ReadInv, ReadStep, shared, ring, Base, Total
    <2>7. QED
      BY <2>0, <2>1, <2>2, <2>3, <2>4, <2>5, <2>6 DEF Read
  <1>3. CASE RxDoorbell
    BY <1>0, <1>3 DEF RxDoorbell, ReadInv, ReadStep, shared, ring, Base, Total
  <1>4. CASE \/ \E n \in Sizes : Send(n)
             \/ SendChunk \/ SendNoRoom \/ TxPublish \/ SendKick
             \/ SetTxNotify \/ WaitTxAvail \/ SendDone
             \/ WaitTimeout \/ TxDoorbell
             \/ \E e \in End : RetryWork(e) \/ PopulateCap(e)
    <2>1. UNCHANGED <<rpc, pkt_len, rx_avail, ring_len, ring_offset, fifo>>
      BY <1>4 DEF Send, SendChunk, SendNoRoom, TxPublish, SendKick, SetTxNotify,
         WaitTxAvail, SendDone, WaitTimeout, TxDoorbell, RetryWork, PopulateCap,
         reader, ring, shared
    <2>2. QED
      BY <1>0, <2>1, ReadUntouched DEF ReadInv
  <1>5. QED
    BY <1>1, <1>2, <1>3, <1>4 DEF Next, Sender

\* The sender and the reader never overrun each other: the room the sender
\* saw only grows, and what the reader saw only grows.
LEMMA IndexStep ==
  ASSUME OneReader, IndexInv, Next
  PROVE  /\ head' \in Slot /\ tail' \in Slot
         /\ NoOverrun'
         /\ rpc'["irq"] = "advance" => rx_avail'["irq"] <= RxAvail'
  <1>0. /\ ReadInv /\ SentInv /\ head \in Slot /\ tail \in Slot /\ NoOverrun
        /\ RxAvail \in Nat /\ TxAvail \in Nat
        /\ TxAvail + RxAvail = LENGTH - RESERVE
        /\ rpc["irq"] = "advance" => rx_avail["irq"] <= RxAvail
        /\ chunk \in Nat /\ rx_avail["irq"] \in Nat
    BY AvailSum, Sizing DEF IndexInv, NoOverrun, RxAvail, Slot, SentInv, ReadInv
  <1>1. CASE SendChunk
    <2>1. chunk' \in Nat /\ chunk' <= TxAvail
      <3>1. sent[Len(sent)] \in Nat
        BY <1>0, <1>1 DEF SentInv, SendChunk
      <3>2. QED
        BY <1>0, <1>1, <3>1 DEF SentInv, SendChunk, left_size
    <2>2. UNCHANGED <<head, tail, rpc, rx_avail>>
      BY <1>1 DEF SendChunk, shared, reader
    <2>3. RxAvail' = RxAvail
      BY <2>2 DEF RxAvail
    <2>4. QED
      BY <1>0, <1>1, <2>1, <2>2, <2>3, Sizing DEF SendChunk, NoOverrun
  <1>2. CASE TxPublish
    <2>1. /\ RxAvail + chunk <= LENGTH - RESERVE
          /\ head' = Wrap(head, chunk) /\ UNCHANGED <<tail, rpc, rx_avail>>
          /\ spc' = "kick"
      BY <1>0, <1>2 DEF TxPublish, NoOverrun, reader
    <2>2. head' \in Slot /\ RxAvail' = RxAvail + chunk
      BY <1>0, <2>1, HeadMoves
    <2>3. NoOverrun'
      BY <1>0, <2>1, <2>2, Sizing DEF NoOverrun
    <2>4. QED
      BY <1>0, <2>1, <2>2, <2>3
  <1>3. CASE \E r \in Readers : ReadAdvance(r)
    <2>1. /\ rpc["irq"] = "advance" /\ tail' = Wrap(tail, rx_avail["irq"])
          /\ UNCHANGED <<head, spc, chunk>>
          /\ rpc' = [rpc EXCEPT !["irq"] = "post"]
      BY <1>3 DEF ReadAdvance, OneReader, sender
    <2>2. tail' \in Slot /\ RxAvail' = RxAvail - rx_avail["irq"]
      BY <1>0, <2>1, TailMoves
    <2>3. rpc'["irq"] = "post"
      BY <1>0, <2>1 DEF ReadInv
    <2>4. NoOverrun'
      BY <1>0, <2>1, <2>2, Sizing DEF NoOverrun
    <2>5. QED
      BY <1>0, <2>1, <2>2, <2>3, <2>4
  <1>4. CASE \E r \in Readers : ReadCopy(r)
    <2>1. /\ UNCHANGED <<head, tail, spc, chunk>>
          /\ rx_avail' = [rx_avail EXCEPT !["irq"] =
               IF RxAvail + Base("irq") > Total("irq")
                 THEN Total("irq") - Base("irq") ELSE RxAvail]
      BY <1>4 DEF ReadCopy, OneReader, sender, shared
    <2>2. /\ Base("irq") \in Nat /\ Total("irq") \in Nat
      BY <1>0 DEF ReadInv, Base, Total
    <2>3. rx_avail'["irq"] <= RxAvail
      BY <1>0, <2>1, <2>2 DEF ReadInv
    <2>4. RxAvail' = RxAvail
      BY <2>1 DEF RxAvail
    <2>5. QED
      BY <1>0, <2>1, <2>3, <2>4 DEF NoOverrun
  <1>5. CASE \/ \E n \in Sizes : Send(n)
             \/ SendNoRoom \/ TxWrite \/ SendKick
             \/ SetTxNotify \/ WaitTxAvail \/ SendDone
             \/ WaitTimeout \/ TxDoorbell
             \/ \E e \in End : RetryWork(e) \/ PopulateCap(e)
    <2>1. UNCHANGED <<head, tail, chunk, rpc, rx_avail>>
      BY <1>5 DEF Send, SendNoRoom, TxWrite, SendKick, SetTxNotify,
         WaitTxAvail, SendDone, WaitTimeout, TxDoorbell, RetryWork, PopulateCap,
         reader, ring, shared, sender
    <2>2. spc' \in {"write", "publish"} => spc \in {"write", "publish"}
      BY <1>5 DEF Send, SendNoRoom, TxWrite, SendKick, SetTxNotify,
         WaitTxAvail, SendDone, WaitTimeout, TxDoorbell, RetryWork, PopulateCap,
         sender
    <2>3. RxAvail' = RxAvail
      BY <2>1 DEF RxAvail
    <2>4. QED
      BY <1>0, <2>1, <2>2, <2>3, Sizing DEF NoOverrun
  <1>6. CASE RxDoorbell \/ \E r \in Readers :
               ReadLoop(r) \/ PeekHeader(r) \/ ReadPost(r) \/ ReadKick(r)
    <2>1. UNCHANGED <<head, tail, chunk, spc>>
      BY <1>6 DEF RxDoorbell, ReadLoop, PeekHeader, ReadPost, ReadKick, sender,
         shared
    <2>2. rpc'["irq"] # "advance"
      BY <1>0, <1>6 DEF RxDoorbell, ReadLoop, PeekHeader, ReadPost, ReadKick,
         OneReader, ReadInv
    <2>3. RxAvail' = RxAvail
      BY <2>1 DEF RxAvail
    <2>4. QED
      BY <1>0, <2>1, <2>2, <2>3 DEF NoOverrun
  <1>7. QED
    BY <1>1, <1>2, <1>3, <1>4, <1>5, <1>6 DEF Next, Sender, Read

\* IndexInv is an invariant of the direction.
LEMMA IndexInvariant ==
  ASSUME OneReader
  PROVE  Spec => []IndexInv
  <1>1. Init => IndexInv
    BY IndexInit
  <1>2. IndexInv /\ [Next]_vars => IndexInv'
    <2>1. CASE Next
      BY <2>1, SentStep, ReadStepInv, IndexStep, HavenAssumption DEF IndexInv
    <2>2. CASE UNCHANGED vars
      BY <2>2 DEF IndexInv, vars, shared, sender, reader, ring, SentInv, ReadInv,
         NoOverrun, RxAvail, Base, Total
    <2>3. QED
      BY <2>1, <2>2
  <1>3. QED
    BY <1>1, <1>2, PTL DEF Spec

\* haven_tx_write never reaches a word that haven_rx_advance has not passed:
\* for every ring, reserve and mix of packet sizes, what is being written and
\* what is unread leave the reserve free.
THEOREM RingNeverOverrun ==
  ASSUME OneReader
  PROVE  Spec => []NoOverrun
  <1>1. IndexInv => NoOverrun
    BY DEF IndexInv
  <1>2. QED
    BY <1>1, IndexInvariant, PTL

-----------------------------------------------------------------------------
(* The doorbells. *)

\* A sender that waits has asked to be told, and a master can always ring.
DoorInv ==
  /\ irq \in [End -> BOOLEAN] /\ retry \in [End -> BOOLEAN]
  /\ cap \in [End -> BOOLEAN] /\ \A e \in Master \cap End : cap[e]
  /\ spc \in {"wait", "asleep"} => notify

\* A doorbell is rung at once or by the work that retries it.
LEMMA KickRings ==
  ASSUME DoorInv, NEW e \in End, Kick(e)
  PROVE  /\ irq' \in [End -> BOOLEAN] /\ retry' \in [End -> BOOLEAN]
         /\ cap' = cap
         /\ irq'[Other(e)] \/ retry'[e]
         /\ \A d \in End : (irq[d] => irq'[d]) /\ (retry[d] => retry'[d])
  <1>1. Other(e) \in End
    BY DEF Other, End
  <1>2. e \in Master => cap[e]
    BY DEF DoorInv
  <1>3. irq' \in [End -> BOOLEAN] /\ retry' \in [End -> BOOLEAN]
    BY <1>1 DEF Kick, DoorInv
  <1>4. irq'[Other(e)] = (irq[Other(e)] \/ cap[e])
    BY <1>1 DEF Kick, DoorInv
  <1>5. retry'[e] = (retry[e] \/ (~cap[e] /\ e \notin Master))
    BY DEF Kick, DoorInv
  <1>6. \A d \in End : irq[d] => irq'[d]
    BY <1>1 DEF Kick, DoorInv
  <1>7. \A d \in End : retry[d] => retry'[d]
    BY DEF Kick, DoorInv
  <1>8. QED
    BY Zenon, <1>2, <1>3, <1>4, <1>5, <1>6, <1>7 DEF Kick

\* No step drops a request for room or a doorbell that has to be retried.
LEMMA DoorStep ==
  ASSUME OneReader, DoorInv, Next
  PROVE  DoorInv'
  <1>1. CASE SendKick
    BY <1>1, KickRings DEF SendKick, DoorInv, End, shared
  <1>2. CASE \E r \in Readers : ReadKick(r)
    <2>1. CASE notify
      BY <1>2, <2>1, KickRings DEF ReadKick, DoorInv, End, shared, sender
    <2>2. CASE ~notify
      BY <1>2, <2>2 DEF ReadKick, DoorInv, shared, sender, doorbells
    <2>3. QED
      BY <2>1, <2>2
  <1>3. CASE \E e \in End : RetryWork(e) \/ PopulateCap(e)
    <2>1. PICK e \in End : RetryWork(e) \/ PopulateCap(e)
      BY <1>3
    <2>2. Other(e) \in End
      BY DEF Other, End
    <2>3. /\ irq' \in [End -> BOOLEAN] /\ retry' \in [End -> BOOLEAN]
          /\ cap' \in [End -> BOOLEAN] /\ \A d \in End : cap[d] => cap'[d]
      BY Zenon, <2>1, <2>2 DEF DoorInv, RetryWork, PopulateCap
    <2>4. UNCHANGED <<spc, notify>>
      BY <2>1 DEF RetryWork, PopulateCap, sender, shared
    <2>5. QED
      BY <2>3, <2>4 DEF DoorInv
  <1>4. CASE TxDoorbell \/ RxDoorbell
    BY Zenon, <1>4 DEF TxDoorbell, RxDoorbell, DoorInv, End, shared, sender
  <1>5. CASE \/ \E n \in Sizes : Send(n)
             \/ SendChunk \/ SendNoRoom \/ TxWrite \/ TxPublish \/ SetTxNotify
             \/ WaitTxAvail \/ SendDone \/ WaitTimeout
    BY <1>5 DEF Send, SendChunk, SendNoRoom, TxWrite, TxPublish, SetTxNotify,
       WaitTxAvail, SendDone, WaitTimeout, DoorInv, doorbells, shared
  <1>6. CASE \E r \in Readers : ReadLoop(r) \/ PeekHeader(r) \/ ReadCopy(r)
               \/ ReadAdvance(r) \/ ReadPost(r)
    <2>1. UNCHANGED <<irq, cap, retry, spc, notify>>
      BY <1>6 DEF ReadLoop, PeekHeader, ReadCopy, ReadAdvance, ReadPost,
         doorbells, sender, shared
    <2>2. QED
      BY <2>1 DEF DoorInv
  <1>7. QED
    BY <1>1, <1>2, <1>3, <1>4, <1>5, <1>6 DEF Next, Sender, Read

\* The two facts about missed doorbells, for the one reader there is.
RoomSeen ==
  spc = "asleep" /\ TxAvail > 0 =>
    irq["tx"] \/ retry["rx"] \/ rpc["irq"] \in {"post", "kick"}
DataSeen ==
  RxAvail > 0 /\ rpc["irq"] = "idle" => irq["rx"] \/ retry["tx"] \/ spc = "kick"

\* No step leaves a ring with room, or with data, unseen by the VM that
\* waits for it.
LEMMA SeenStep ==
  ASSUME OneReader, IndexInv, DoorInv, RoomSeen, DataSeen, Next
  PROVE  RoomSeen' /\ DataSeen'
  <1>0. rpc \in [{"irq"} -> ReadStep]
    BY DEF IndexInv, ReadInv
  <1>1. CASE SendKick
    <2>1. Kick("tx") /\ UNCHANGED <<head, tail, rpc>> /\ spc' = "loop"
      BY <1>1 DEF SendKick, shared, reader
    <2>2. irq'["rx"] \/ retry'["tx"]
      BY <2>1, KickRings DEF End, Other
    <2>3. QED
      BY <2>1, <2>2 DEF RoomSeen, DataSeen
  <1>2. CASE \E r \in Readers : ReadKick(r)
    <2>1. /\ UNCHANGED <<head, tail, spc>> /\ rpc'["irq"] = "loop"
          /\ IF notify THEN Kick("rx") ELSE UNCHANGED doorbells
      BY <1>0, <1>2 DEF ReadKick, OneReader, shared, sender
    <2>2. CASE spc = "asleep"
      <3>1. Kick("rx")
        BY <2>1, <2>2 DEF DoorInv
      <3>2. irq'["tx"] \/ retry'["rx"]
        BY <3>1, KickRings DEF End, Other
      <3>3. QED
        BY <2>1, <3>2 DEF RoomSeen, DataSeen
    <2>3. CASE spc # "asleep"
      BY <2>1, <2>3 DEF RoomSeen, DataSeen
    <2>4. QED
      BY <2>2, <2>3
  <1>3. CASE \E e \in End : RetryWork(e) \/ PopulateCap(e)
    <2>1. PICK e \in End : RetryWork(e) \/ PopulateCap(e)
      BY <1>3
    <2>2. UNCHANGED <<head, tail, rpc, spc>>
      BY <2>1 DEF RetryWork, PopulateCap, shared, reader, sender
    <2>3. /\ irq["tx"] \/ retry["rx"] => irq'["tx"] \/ retry'["rx"]
          /\ irq["rx"] \/ retry["tx"] => irq'["rx"] \/ retry'["tx"]
      BY <2>1 DEF RetryWork, PopulateCap, DoorInv, End, Other
    <2>4. QED
      BY <2>2, <2>3 DEF RoomSeen, DataSeen, TxAvail, RxAvail
  <1>4. CASE TxDoorbell
    BY <1>4 DEF TxDoorbell, DoorInv, End, RoomSeen, DataSeen, shared, reader,
       TxAvail, RxAvail
  <1>5. CASE RxDoorbell
    BY <1>0, <1>5 DEF RxDoorbell, DoorInv, End, RoomSeen, DataSeen, shared,
       sender, TxAvail, RxAvail
  <1>6. CASE \/ \E n \in Sizes : Send(n)
             \/ SendChunk \/ SendNoRoom \/ TxWrite \/ SetTxNotify
             \/ SendDone \/ WaitTimeout
    <2>1. /\ UNCHANGED <<head, tail, rpc, irq, retry>> /\ spc # "kick"
          /\ spc' # "asleep"
      BY <1>6 DEF Send, SendChunk, SendNoRoom, TxWrite, SetTxNotify,
         SendDone, WaitTimeout, doorbells, shared, reader
    <2>2. QED
      BY <2>1 DEF RoomSeen, DataSeen, RxAvail
  <1>7. CASE TxPublish
    BY <1>7 DEF TxPublish, RoomSeen, DataSeen
  <1>8. CASE WaitTxAvail
    BY <1>8 DEF WaitTxAvail, RoomSeen, DataSeen, RxAvail, TxAvail, shared,
       doorbells, reader
  <1>9. CASE \E r \in Readers : ReadLoop(r)
    <2>1. /\ UNCHANGED <<head, tail, spc, irq, retry>>
          /\ rpc["irq"] = "loop"
          /\ rpc'["irq"] = "idle" => RxAvail = 0
      BY <1>0, <1>9 DEF ReadLoop, OneReader, shared, sender, doorbells
    <2>2. QED
      BY <2>1 DEF RoomSeen, DataSeen, RxAvail, TxAvail
  <1>10. CASE \E r \in Readers : PeekHeader(r) \/ ReadCopy(r) \/ ReadPost(r)
    <2>1. /\ UNCHANGED <<head, tail, spc, irq, retry>>
          /\ rpc'["irq"] # "idle"
          /\ rpc["irq"] = "post" => rpc'["irq"] = "kick"
          /\ rpc["irq"] # "kick"
      BY <1>0, <1>10 DEF PeekHeader, ReadCopy, ReadPost, OneReader, shared,
         sender, doorbells
    <2>2. QED
      BY <2>1 DEF RoomSeen, DataSeen, RxAvail, TxAvail
  <1>11. CASE \E r \in Readers : ReadAdvance(r)
    BY <1>0, <1>11 DEF ReadAdvance, OneReader, RoomSeen, DataSeen
  <1>12. QED
    BY <1>1, <1>2, <1>3, <1>4, <1>5, <1>6, <1>7, <1>8, <1>9, <1>10, <1>11
       DEF Next, Sender, Read

\* RoomSeen and DataSeen are invariants of the direction.
LEMMA SeenInvariant ==
  ASSUME OneReader
  PROVE  Spec => [](DoorInv /\ RoomSeen /\ DataSeen)
  <1>1. Init => DoorInv /\ RoomSeen /\ DataSeen
    <2>1. Init => DoorInv
      <3>1. Init => cap = [e \in End |-> e \in Ready]
        BY DEF Init
      <3>2. Init => /\ cap \in [End -> BOOLEAN]
                    /\ \A e \in Master \cap End : cap[e]
        <4>1. ASSUME NEW e \in Master \cap End
              PROVE  [x \in End |-> x \in Ready][e]
          BY Zenon DEF OneReader
        <4>2. [x \in End |-> x \in Ready] \in [End -> BOOLEAN]
          OBVIOUS
        <4>3. QED
          BY Zenon, <3>1, <4>1, <4>2
      <3>3. Init => irq \in [End -> BOOLEAN] /\ retry \in [End -> BOOLEAN]
        BY DEF Init
      <3>4. Init => spc = "idle"
        BY DEF Init
      <3>5. QED
        BY <3>2, <3>3, <3>4 DEF DoorInv
    <2>2. Init => RoomSeen /\ DataSeen
      BY Sizing DEF Init, RoomSeen, DataSeen, RxAvail
    <2>3. QED
      BY <2>1, <2>2
  <1>2. IndexInv /\ DoorInv /\ RoomSeen /\ DataSeen /\ [Next]_vars
          => (DoorInv /\ RoomSeen /\ DataSeen)'
    <2>1. CASE Next
      BY <2>1, DoorStep, SeenStep
    <2>2. CASE UNCHANGED vars
      BY <2>2 DEF DoorInv, RoomSeen, DataSeen, vars, shared, sender, reader,
         doorbells, RxAvail, TxAvail
    <2>3. QED
      BY <2>1, <2>2
  <1>3. QED
    BY <1>1, <1>2, IndexInvariant, PTL DEF Spec

\* A sender asleep in haven_wait_for_tx_avail on a ring with room is about to
\* be woken: the ten-second timeout is never what the protocol relies on.
THEOREM RoomIsNotMissed ==
  ASSUME OneReader
  PROVE  Spec => []RoomNotMissed
  <1>1. RoomSeen => RoomNotMissed
    BY DEF RoomSeen, RoomNotMissed, OneReader
  <1>2. QED
    BY <1>1, SeenInvariant, PTL

\* Words that qrtr_haven_send has published are about to be read.
THEOREM DataIsNotMissed ==
  ASSUME OneReader
  PROVE  Spec => []DataNotMissed
  <1>1. DataSeen => DataNotMissed
    BY DEF DataSeen, DataNotMissed, OneReader
  <1>2. QED
    BY <1>1, SeenInvariant, PTL

-----------------------------------------------------------------------------
(* The data in the ring. *)

\* A packet's first chunk reaches its size field: qrtr_haven_read_new finds
\* the header whole.
HeaderWhole == "short" \notin Faults

-----------------------------------------------------------------------------
(* The invariant *)

WordsSent ==
  \A i \in 0..(RxAvail - 1) :
    /\ PktAt(i) \in 1..Len(sent) /\ WordAt(i) \in 1..sent[PktAt(i)]
    /\ fifo[Wrap(tail, i)] = WordOf(PktAt(i), WordAt(i))

Chained ==
  \A i, j \in 0..RxAvail :
    i < j => Leads(PktAt(i), WordAt(i), j - i, PktAt(j), WordAt(j))

Buffered == \A i \in 1..ReadOff : ring_buf[i] = WordOf(ReadPkt, i)

ReadsOn ==
  \/ PktAt(0) = ReadPkt /\ WordAt(0) = ReadOff + 1
  \/ /\ ReadPkt <= Len(sent) /\ ReadOff = sent[ReadPkt]
     /\ PktAt(0) = ReadPkt + 1 /\ WordAt(0) = 1
  \/ /\ RxAvail = 0 /\ (sent # <<>> => left_size = 0)
     /\ ReadPkt = Len(sent) + 1 /\ ReadOff = 0

\* What was sent, and where qrtr_haven_send is in the packet it sends.
DataType ==
  /\ sent \in Seq(Sizes) /\ posted \in Seq(Nat)
  /\ ring_buf \in [1..MAXPKT -> Word]
  /\ spc = "idle" => sent = <<>> \/ offset = sent[Len(sent)]
  /\ sent = <<>> => spc = "idle" /\ offset = 0
  /\ sent # <<>> => offset <= sent[Len(sent)]
  /\ offset = 0 \/ offset > SIZEAT

\* The chunk it is about to publish is in the ring.
Written ==
  /\ spc \in {"write", "publish"} =>
       /\ chunk > 0 /\ offset + chunk <= sent[Len(sent)]
       /\ offset + chunk > SIZEAT
  /\ spc = "publish" =>
       \A m \in 0..(chunk - 1) :
         fifo[Wrap(head, m)] = WordOf(Len(sent), offset + m + 1)

\* qrtr_haven_read works on the packet that is next, and has what it copied.
Reads ==
  /\ rpc["irq"] \in {"idle", "loop", "peek", "kick"} => pkt_len["irq"] = 0
  /\ rpc["irq"] \in {"peek", "copy"} => RxAvail > 0
  /\ rpc["irq"] = "peek" => ring_offset = 0
  /\ rpc["irq"] \in {"copy", "advance", "post"} =>
       /\ ReadPkt <= Len(sent) /\ Total("irq") = sent[ReadPkt]
       /\ sent[ReadPkt] <= MAXPKT
       /\ pkt_len["irq"] # 0 => ring_offset = 0
       /\ pkt_len["irq"] = 0 => ring_offset # 0
  /\ rpc["irq"] \in {"advance", "post"} =>
       \A i \in 1..(Base("irq") + rx_avail["irq"]) :
         ring_buf[i] = WordOf(ReadPkt, i)
  /\ ring_offset # 0 =>
       /\ ReadPkt <= Len(sent) /\ ring_len = sent[ReadPkt]
       /\ ring_offset < ring_len /\ sent[ReadPkt] <= MAXPKT

DataInv ==
  /\ DataType /\ Written /\ Reads
  /\ WordsSent /\ Chained /\ Buffered /\ ReadsOn

\* The indices of the ring.
LEMMA Wrapping ==
  ASSUME NEW t \in Slot, NEW a \in Nat, a < LENGTH
  PROVE  /\ Wrap(t, a) \in Slot
         /\ \A b \in Nat : a + b < LENGTH => Wrap(Wrap(t, a), b) = Wrap(t, a + b)
         /\ \A b \in Nat : b < LENGTH /\ Wrap(t, a) = Wrap(t, b) => a = b
  BY Sizing DEF Slot, Wrap

LEMMA Unread ==
  ASSUME head \in Slot, tail \in Slot
  PROVE  RxAvail \in Nat /\ RxAvail < LENGTH /\ Wrap(tail, RxAvail) = head
  BY Sizing DEF Slot, Wrap, RxAvail

\* The numbers the proofs work with.
LEMMA DataTypes ==
  ASSUME IndexInv, DataType
  PROVE  /\ head \in Slot /\ tail \in Slot /\ RxAvail \in Nat /\ RxAvail < LENGTH
         /\ SIZEAT \in Nat /\ MAXPKT \in Nat /\ LENGTH \in Nat
         /\ Len(sent) \in Nat /\ offset \in Nat /\ chunk \in Nat
         /\ \A p \in 1..Len(sent) : sent[p] \in Nat /\ sent[p] > SIZEAT
         /\ ReadPkt \in Nat /\ ReadPkt >= 1
         /\ ring_offset \in Nat /\ ring_len \in Nat /\ ReadOff \in Nat
         /\ pkt_len["irq"] \in Nat /\ rx_avail["irq"] \in Nat
         /\ Base("irq") \in Nat /\ Total("irq") \in Nat
<1>1. head \in Slot /\ tail \in Slot /\ RxAvail \in Nat /\ RxAvail < LENGTH
  BY Unread DEF IndexInv
<1>2. SIZEAT \in Nat /\ MAXPKT \in Nat /\ LENGTH \in Nat
  BY HavenAssumption DEF HavenAssumption
<1>3. Len(sent) \in Nat /\ offset \in Nat /\ chunk \in Nat
  BY DEF IndexInv, SentInv
<1>4. \A p \in 1..Len(sent) : sent[p] \in Nat /\ sent[p] > SIZEAT
  <2>1. \A p \in 1..Len(sent) : sent[p] \in Sizes
    BY DEF DataType
  <2>2. \A n \in Sizes : n \in Nat /\ n > SIZEAT
    BY HavenAssumption DEF HavenAssumption
  <2>3. QED
    BY <2>1, <2>2
<1>5. ReadPkt \in Nat /\ ReadPkt >= 1
  BY DEF ReadPkt, DataType
<1>6. /\ ring_offset \in Nat /\ ring_len \in Nat
      /\ pkt_len["irq"] \in Nat /\ rx_avail["irq"] \in Nat
  BY DEF IndexInv, ReadInv
<1>7. Base("irq") \in Nat /\ Total("irq") \in Nat
  BY <1>6 DEF Base, Total
<1>8. ReadOff \in Nat
  BY <1>6, <1>7 DEF ReadOff
<1>9. QED
  BY <1>1, <1>2, <1>3, <1>4, <1>5, <1>6, <1>7, <1>8

\* An empty ring.
LEMMA DataInit ==
  ASSUME OneReader, Init
  PROVE  DataInv
<1>0. RxAvail = 0 /\ Len(sent) = 0 /\ sent = <<>> /\ posted = <<>> /\ offset = 0
      /\ ring_offset = 0 /\ spc = "idle"
  BY DEF Init, RxAvail
<1>1. rpc["irq"] = "idle" /\ pkt_len["irq"] = 0
  BY DEF Init, OneReader
<1>2. ReadPkt = 1 /\ ReadOff = 0
  BY <1>0, <1>1 DEF ReadPkt, ReadOff
<1>3. DataType
  <2>1. Blank \in Word
    BY DEF Blank, Word
  <2>2. ring_buf \in [1..MAXPKT -> Word]
    BY <2>1 DEF Init
  <2>3. QED
    BY <1>0, <2>2 DEF DataType
<1>4. Written /\ Reads
  BY <1>0, <1>1 DEF Written, Reads
<1>5. WordsSent /\ Chained /\ Buffered
  BY <1>0, <1>2 DEF WordsSent, Chained, Buffered
<1>6. ReadsOn
  BY <1>0, <1>2 DEF ReadsOn
<1>7. QED
  BY <1>3, <1>4, <1>5, <1>6 DEF DataInv

-----------------------------------------------------------------------------
(* The steps of qrtr_haven_send *)

\* Steps that leave the words and both positions alone.
LEMMA StreamFrame ==
  ASSUME WordsSent, Chained, Buffered, ReadsOn,
         UNCHANGED <<head, tail, fifo, sent, offset, ring_buf, posted>>,
         ReadOff' = ReadOff
  PROVE  WordsSent' /\ Chained' /\ Buffered' /\ ReadsOn'
<1>1. RxAvail' = RxAvail /\ ReadPkt' = ReadPkt /\ left_size' = left_size
  BY DEF RxAvail, ReadPkt, left_size
<1>2. \A i : PktAt(i)' = PktAt(i) /\ WordAt(i)' = WordAt(i)
  BY Zenon, <1>1 DEF PktAt, WordAt, Wrap
<1>3. \A p, a : WordOf(p, a)' = WordOf(p, a)
  BY Zenon DEF WordOf
<1>4. WordsSent'
  BY Zenon, <1>1, <1>2, <1>3 DEF WordsSent, Wrap
<1>5. Chained'
  BY Zenon, <1>1, <1>2 DEF Chained, Leads
<1>6. Buffered' /\ ReadsOn'
  BY Zenon, <1>1, <1>2, <1>3 DEF Buffered, ReadsOn
<1>7. QED
  BY Zenon, <1>4, <1>5, <1>6

\* Steps that leave qrtr_haven_read and the indices alone.
LEMMA ReaderFrame ==
  ASSUME Reads, UNCHANGED <<head, tail, sent, reader>>
  PROVE  Reads' /\ ReadOff' = ReadOff
<1>1. RxAvail' = RxAvail /\ ReadPkt' = ReadPkt
  BY DEF RxAvail, ReadPkt, reader
<1>2. UNCHANGED <<rpc, pkt_len, rx_avail, ring_len, ring_offset, ring_buf, posted>>
  BY Zenon DEF reader, ring
<1>3. Base("irq")' = Base("irq") /\ Total("irq")' = Total("irq")
  BY Zenon, <1>2 DEF Base, Total
<1>4. \A p, a : WordOf(p, a)' = WordOf(p, a)
  BY Zenon DEF WordOf
<1>5. QED
  BY Zenon, <1>1, <1>2, <1>3, <1>4 DEF Reads, ReadOff

\* The steps of the sender that only move on, and those of the doorbells.
LEMMA SenderMoves ==
  ASSUME HeaderWhole, IndexInv, DataInv,
         \/ SendChunk \/ SendNoRoom \/ SendKick \/ SetTxNotify \/ WaitTxAvail
         \/ SendDone \/ WaitTimeout \/ TxDoorbell
         \/ \E e \in End : RetryWork(e) \/ PopulateCap(e)
         \/ UNCHANGED vars
  PROVE  DataInv'
<1> USE DEF shared, doorbells, sender, vars
<1>0. Len(sent) \in Nat /\ offset \in Nat /\ \A p \in 1..Len(sent) : sent[p] \in Nat
  BY Zenon, DataTypes DEF DataInv
<1>1. UNCHANGED <<head, tail, fifo, sent, offset, reader>>
  BY Zenon DEF SendChunk, SendNoRoom, SendKick, SetTxNotify, WaitTxAvail, SendDone,
     WaitTimeout, TxDoorbell, RetryWork, PopulateCap
<1>2. UNCHANGED <<ring_buf, posted>>
  BY Zenon, <1>1 DEF reader, ring
<1>3. Reads' /\ ReadOff' = ReadOff
  BY Zenon, <1>1, ReaderFrame DEF DataInv
<1>4. WordsSent' /\ Chained' /\ Buffered' /\ ReadsOn'
  BY Zenon, <1>1, <1>2, <1>3, StreamFrame DEF DataInv
<1>5. spc = "idle" => spc' = "idle"
  BY <1>1 DEF SendChunk, SendNoRoom, SendKick, SetTxNotify, WaitTxAvail, SendDone,
     WaitTimeout, TxDoorbell, RetryWork, PopulateCap
<1>6. spc' = "idle" => spc = "idle" \/ left_size = 0
  BY DEF SendChunk, SendNoRoom, SendKick, SetTxNotify, WaitTxAvail, SendDone,
     WaitTimeout, TxDoorbell, RetryWork, PopulateCap
<1>7. DataType'
  <2>1. left_size = 0 => sent = <<>> \/ offset = sent[Len(sent)]
    BY <1>0 DEF left_size, DataInv, DataType
  <2>2. QED
    BY <1>1, <1>2, <1>5, <1>6, <2>1 DEF DataInv, DataType
<1>8. Written'
  <2>1. CASE SendChunk
    <3>1. /\ TxAvail > 0 /\ left_size > 0 /\ spc' = "write"
          /\ chunk' = IF TxAvail < left_size THEN TxAvail ELSE left_size
          /\ offset + chunk' > SIZEAT
      BY <2>1 DEF SendChunk, HeaderWhole
    <3>2. TxAvail \in Nat /\ offset \in Nat
      BY AvailSum, Sizing, Unread DEF IndexInv, NoOverrun, SentInv
    <3>3. sent[Len(sent)] \in Nat
      BY <1>0, <2>1 DEF DataInv, DataType, SendChunk
    <3>4. chunk' > 0 /\ offset + chunk' <= sent[Len(sent)]
      BY <3>1, <3>2, <3>3 DEF left_size
    <3>5. QED
      BY <1>1, <3>1, <3>4 DEF Written
  <2>2. CASE spc' \notin {"write", "publish"}
    BY <2>2 DEF Written
  <2>3. CASE spc' = spc /\ chunk' = chunk
    <3>1. \A p, a : WordOf(p, a)' = WordOf(p, a)
      BY Zenon, <1>1 DEF WordOf
    <3>2. QED
      BY Zenon, <1>1, <2>3, <3>1 DEF Written, DataInv, Wrap
  <2>4. QED
    BY <2>1, <2>2, <2>3 DEF SendNoRoom, SendKick, SetTxNotify, WaitTxAvail, SendDone,
       WaitTimeout, TxDoorbell, RetryWork, PopulateCap
<1>9. QED
  BY Zenon, <1>3, <1>4, <1>7, <1>8 DEF DataInv

\* qrtr_haven_send is given a packet: the next word to publish is its first.
LEMMA SendStep ==
  ASSUME OneReader, IndexInv, DataInv, NEW n \in Sizes, Send(n)
  PROVE  DataInv'
<1> DEFINE L == Len(sent)
<1>0. /\ head \in Slot /\ tail \in Slot /\ RxAvail \in Nat /\ RxAvail < LENGTH
      /\ L \in Nat /\ offset \in Nat /\ ReadPkt \in Nat /\ ReadPkt >= 1 /\ ReadOff \in Nat
      /\ SIZEAT \in Nat /\ \A p \in 1..L : sent[p] \in Nat /\ sent[p] > SIZEAT
  BY Zenon, DataTypes DEF DataInv
<1>1. /\ UNCHANGED <<head, tail, fifo, rpc, pkt_len, rx_avail, ring_len, ring_offset, ring_buf, posted>>
      /\ sent' = Append(sent, n) /\ offset' = 0 /\ spc = "idle" /\ spc' = "loop"
  BY DEF Send, shared, reader, ring
<1>2. /\ sent \in Seq(Sizes) /\ sent' \in Seq(Sizes) /\ Len(sent') = L + 1
      /\ \A p \in 1..L : sent'[p] = sent[p]
      /\ sent'[L + 1] = n /\ sent' # <<>>
  <2>1. sent \in Seq(Sizes) /\ sent' = Append(sent, n)
    BY Zenon, <1>1 DEF DataInv, DataType
  <2>2. \A q \in Seq(Sizes) :
          /\ Append(q, n) \in Seq(Sizes) /\ Len(Append(q, n)) = Len(q) + 1
          /\ \A p \in 1..Len(q) : Append(q, n)[p] = q[p]
          /\ Append(q, n)[Len(q) + 1] = n /\ Append(q, n) # <<>>
    OBVIOUS
  <2>3. QED
    BY Zenon, <2>1, <2>2
<1>3. L > 0 => offset = sent[L] /\ left_size = 0
  BY <1>0, <1>1, <1>2 DEF DataInv, DataType, left_size
<1>4. RxAvail' = RxAvail /\ ReadPkt' = ReadPkt /\ ReadOff' = ReadOff
      /\ Base("irq")' = Base("irq") /\ Total("irq")' = Total("irq")
  BY <1>1 DEF RxAvail, ReadPkt, ReadOff, Base, Total
<1>5. /\ \A i \in 0..(RxAvail - 1) : PktAt(i)' = PktAt(i) /\ WordAt(i)' = WordAt(i)
      /\ \A i : i = RxAvail => /\ PktAt(i)' = L + 1 /\ WordAt(i)' = 1
                              /\ PktAt(i) = L /\ WordAt(i) = offset + 1
  <2>1. \A i \in 0..(RxAvail - 1) : i < RxAvail
    BY <1>0
  <2>2. ~(RxAvail < RxAvail) /\ 0 + 1 = 1
    BY <1>0
  <2>3. \A i \in 0..(RxAvail - 1) : PktAt(i)' = PktAt(i) /\ WordAt(i)' = WordAt(i)
    BY Zenon, <1>1, <1>4, <2>1 DEF PktAt, WordAt, Wrap
  <2>4. QED
    BY Zenon, <1>1, <1>2, <1>4, <2>2, <2>3 DEF PktAt, WordAt
<1>6. \A p \in 1..L : \A a : WordOf(p, a)' = WordOf(p, a)
  BY Zenon, <1>2 DEF WordOf
<1>7. /\ \A i \in 0..(RxAvail - 1) : /\ PktAt(i) \in 1..L /\ WordAt(i) \in 1..sent[PktAt(i)]
                                     /\ fifo[Wrap(tail, i)] = WordOf(PktAt(i), WordAt(i))
      /\ \A i \in 0..(RxAvail - 1), j \in 0..RxAvail :
           i < j => Leads(PktAt(i), WordAt(i), j - i, PktAt(j), WordAt(j))
  BY <1>0 DEF DataInv, WordsSent, Chained
<1>8. WordsSent'
  <2>1. \A i \in 0..(RxAvail - 1) : PktAt(i) \in 1..(L + 1) /\ sent'[PktAt(i)] = sent[PktAt(i)]
    BY <1>0, <1>2, <1>7
  <2>2. ASSUME NEW i \in 0..(RxAvail - 1)
        PROVE  /\ PktAt(i)' \in 1..Len(sent') /\ WordAt(i)' \in 1..sent'[PktAt(i)']
               /\ fifo'[Wrap(tail, i)'] = WordOf(PktAt(i), WordAt(i))'
    <3>1. PktAt(i)' = PktAt(i) /\ WordAt(i)' = WordAt(i) /\ Wrap(tail, i)' = Wrap(tail, i)
      BY Zenon, <1>1, <1>5 DEF Wrap
    <3>2. WordOf(PktAt(i), WordAt(i))' = WordOf(PktAt(i), WordAt(i))
      BY Zenon, <1>2, <1>7, <3>1 DEF WordOf
    <3>3. QED
      BY Zenon, <1>1, <1>2, <1>7, <2>1, <3>1, <3>2
  <2>3. QED
    BY Zenon, <1>4, <2>2 DEF WordsSent
<1>9. Chained'
  <2> SUFFICES ASSUME NEW i \in 0..(RxAvail - 1), NEW j \in 0..RxAvail, i < j
               PROVE  Leads(PktAt(i), WordAt(i), j - i, PktAt(j), WordAt(j))'
    <3>1. \A i \in 0..RxAvail', j \in 0..RxAvail' : i < j => i \in 0..(RxAvail - 1) /\ j \in 0..RxAvail
      BY <1>0, <1>4
    <3>2. QED
      BY Zenon, <3>1 DEF Chained
  <2>1. /\ PktAt(i) \in 1..L /\ WordAt(i) \in 1..sent[PktAt(i)]
        /\ sent'[PktAt(i)] = sent[PktAt(i)] /\ sent[PktAt(i)] \in Nat
    BY <1>0, <1>2, <1>7
  <2>2. PktAt(i)' = PktAt(i) /\ WordAt(i)' = WordAt(i)
    BY Zenon, <1>5
  <2>3. CASE j # RxAvail
    <3>1. j \in 0..(RxAvail - 1)
      BY <1>0, <2>3
    <3>2. PktAt(j)' = PktAt(j) /\ WordAt(j)' = WordAt(j)
      BY Zenon, <1>5, <3>1
    <3>3. Leads(PktAt(i), WordAt(i), j - i, PktAt(j), WordAt(j))
      BY Zenon, <1>7
    <3>4. QED
      BY Zenon, <2>1, <2>2, <3>2, <3>3 DEF Leads
  <2>4. CASE j = RxAvail
    <3>1. Leads(PktAt(i), WordAt(i), j - i, L, offset + 1)
      BY Zenon, <1>5, <1>7, <2>4
    <3>2. L > 0 /\ sent[L] \in Nat /\ sent[L] > 0 /\ offset = sent[L]
      BY <1>0, <1>3, <2>1
    <3>3. j - i \in Nat
      BY <1>0
    <3>4. \/ L + 1 = PktAt(i) /\ 1 = WordAt(i) + (j - i)
          \/ /\ L + 1 > PktAt(i) /\ WordAt(i) + (j - i) > sent[PktAt(i)]
             /\ WordAt(i) + (j - i) = sent[PktAt(i)] + 1 => L + 1 = PktAt(i) + 1 /\ 1 = 1
      BY <1>0, <2>1, <3>1, <3>2, <3>3 DEF Leads
    <3>5. QED
      BY Zenon, <1>5, <2>1, <2>2, <2>4, <3>4 DEF Leads
  <2>5. QED
    BY <2>3, <2>4
<1>10. ReadPkt <= L => sent'[ReadPkt] = sent[ReadPkt] /\ \A a : WordOf(ReadPkt, a)' = WordOf(ReadPkt, a)
  BY <1>0, <1>2, <1>4, <1>6
<1>11. Buffered'
  <2>1. ReadOff > 0 => ReadPkt <= L
    BY <1>0 DEF DataInv, Reads, ReadOff, Base
  <2>2. QED
    BY <1>0, <1>1, <1>4, <1>10, <2>1 DEF DataInv, Buffered
<1>12. ReadsOn'
  <2>1. CASE RxAvail > 0
    <3>1. PktAt(0)' = PktAt(0) /\ WordAt(0)' = WordAt(0)
      BY <1>0, <1>5, <2>1
    <3>2. QED
      BY <1>0, <1>2, <1>4, <1>10, <2>1, <3>1 DEF DataInv, ReadsOn
  <2>2. CASE RxAvail = 0
    <3>1. PktAt(0)' = L + 1 /\ WordAt(0)' = 1 /\ PktAt(0) = L /\ WordAt(0) = offset + 1
      BY Zenon, <1>5, <2>2
    <3>2. L > 0 => offset > 0
      BY <1>0, <1>3
    <3>3. \/ ReadPkt = L /\ ReadOff = offset
          \/ ReadPkt = L + 1 /\ ReadOff = 0
      BY <1>0, <3>1, <3>2, <2>2 DEF DataInv, ReadsOn
    <3>4. \/ ReadPkt <= L + 1 /\ ReadOff = sent'[ReadPkt] /\ L + 1 = ReadPkt + 1
          \/ L + 1 = ReadPkt /\ 1 = ReadOff + 1
      BY <1>0, <1>2, <1>3, <3>3
    <3>5. QED
      BY Zenon, <1>2, <1>4, <3>1, <3>4 DEF ReadsOn
  <2>3. QED
    BY <1>0, <2>1, <2>2
<1>13. Reads'
  <2>1. ReadPkt <= L => ReadPkt <= Len(sent')
    BY <1>0, <1>2
  <2>2. QED
    BY Zenon, <1>1, <1>4, <1>10, <2>1 DEF DataInv, Reads
<1>14. DataType' /\ Written'
  <2>1. n \in Nat
    BY HavenAssumption DEF HavenAssumption
  <2>2. 0 <= sent'[Len(sent')]
    BY <1>2, <2>1
  <2>3. posted \in Seq(Nat) /\ ring_buf \in [1..MAXPKT -> Word]
    BY Zenon DEF DataInv, DataType
  <2>4. QED
    BY Zenon, <1>1, <1>2, <2>2, <2>3 DEF DataType, Written
<1>15. QED
  BY Zenon, <1>8, <1>9, <1>11, <1>12, <1>13, <1>14 DEF DataInv

\* haven_tx_write copies the chunk into slots that hold nothing unread.
LEMMA WriteStep ==
  ASSUME OneReader, IndexInv, DataInv, TxWrite
  PROVE  DataInv'
<1> DEFINE L == Len(sent)
<1>0. /\ head \in Slot /\ tail \in Slot /\ RxAvail \in Nat /\ RxAvail < LENGTH
      /\ LENGTH \in Nat /\ chunk \in Nat
  BY Zenon, DataTypes DEF DataInv
<1>1. /\ UNCHANGED <<head, tail, sent, offset, chunk, reader>>
      /\ spc = "write" /\ spc' = "publish"
  BY DEF TxWrite
<1>2. UNCHANGED <<ring_buf, posted>>
  BY Zenon, <1>1 DEF reader, ring
<1>3. RxAvail + chunk < LENGTH
  BY <1>0, <1>1, Sizing DEF IndexInv, NoOverrun
<1>4. \A m \in Nat : m < LENGTH =>
        /\ Wrap(head, m) \in Slot
        /\ (IF Wrap(head, m) < head THEN Wrap(head, m) + LENGTH - head ELSE Wrap(head, m) - head) = m
  BY <1>0, Sizing DEF Slot, Wrap
<1>5. \A m \in Nat : m < LENGTH =>
        fifo'[Wrap(head, m)] = IF m < chunk THEN WordOf(L, offset + m + 1) ELSE fifo[Wrap(head, m)]
  BY <1>4 DEF TxWrite
<1>6. \A i \in 0..(RxAvail - 1) : fifo'[Wrap(tail, i)] = fifo[Wrap(tail, i)]
  <2> SUFFICES ASSUME NEW i \in 0..(RxAvail - 1)
               PROVE  fifo'[Wrap(tail, i)] = fifo[Wrap(tail, i)]
    OBVIOUS
  <2> DEFINE m == i + (LENGTH - RxAvail)
  <2>1. m \in Nat /\ m < LENGTH /\ ~(m < chunk)
    BY <1>0, <1>3
  <2>2. Wrap(head, m) = Wrap(tail, i)
    BY <1>0, Sizing DEF Slot, Wrap, RxAvail
  <2> HIDE DEF m
  <2>3. fifo'[Wrap(head, m)] = fifo[Wrap(head, m)]
    BY Zenon, <1>5, <2>1
  <2>4. QED
    BY Zenon, <2>2, <2>3
<1>7. Reads' /\ ReadOff' = ReadOff
  BY Zenon, <1>1, ReaderFrame DEF DataInv
<1>8. RxAvail' = RxAvail /\ ReadPkt' = ReadPkt /\ left_size' = left_size
  BY <1>1, <1>2 DEF RxAvail, ReadPkt, left_size
<1>9. \A i \in 0..RxAvail : PktAt(i)' = PktAt(i) /\ WordAt(i)' = WordAt(i)
  <2>1. \A i \in 0..RxAvail : i < RxAvail => i \in 0..(RxAvail - 1)
    BY <1>0
  <2>2. QED
    BY Zenon, <1>1, <1>6, <1>8, <2>1 DEF PktAt, WordAt, Wrap
<1>10. \A p, a : WordOf(p, a)' = WordOf(p, a)
  BY Zenon, <1>1 DEF WordOf
<1>11. WordsSent'
  <2>1. \A i \in 0..(RxAvail - 1) : i \in 0..RxAvail
    BY <1>0
  <2>2. QED
    BY Zenon, <1>1, <1>6, <1>8, <1>9, <1>10, <2>1 DEF DataInv, WordsSent, Wrap
<1>12. Chained'
  <2>1. \A i, j \in 0..RxAvail :
          i < j => Leads(PktAt(i)', WordAt(i)', j - i, PktAt(j)', WordAt(j)')
    <3> SUFFICES ASSUME NEW i \in 0..RxAvail, NEW j \in 0..RxAvail, i < j
                 PROVE  Leads(PktAt(i)', WordAt(i)', j - i, PktAt(j)', WordAt(j)')
      OBVIOUS
    <3>1. Leads(PktAt(i), WordAt(i), j - i, PktAt(j), WordAt(j))
      BY Zenon DEF DataInv, Chained
    <3>2. /\ PktAt(i)' = PktAt(i) /\ WordAt(i)' = WordAt(i)
          /\ PktAt(j)' = PktAt(j) /\ WordAt(j)' = WordAt(j)
      BY Zenon, <1>9
    <3>3. QED
      BY Zenon, <3>1, <3>2
  <2>2. \A p, a, n, q, b : Leads(p, a, n, q, b) => Leads(p, a, n, q, b)'
    <3>1. sent' = sent
      BY Zenon, <1>1
    <3>2. QED
      BY <3>1 DEF Leads
  <2>3. QED
    BY Zenon, <1>8, <2>1, <2>2 DEF Chained
<1>13. Buffered' /\ ReadsOn'
  <2>1. 0 \in 0..RxAvail
    BY <1>0
  <2>2. QED
    BY Zenon, <1>1, <1>2, <1>7, <1>8, <1>9, <1>10, <2>1 DEF DataInv, Buffered, ReadsOn
<1>14. DataType'
  BY <1>1, <1>2 DEF DataInv, DataType
<1>15. Written'
  <2>1. \A m \in 0..(chunk - 1) : m \in Nat /\ m < LENGTH /\ m < chunk
    BY <1>0, <1>3
  <2>2. \A m \in 0..(chunk - 1) : fifo'[Wrap(head, m)] = WordOf(L, offset + m + 1)
    BY Zenon, <1>5, <2>1
  <2>3. \A m \in 0..(chunk' - 1) : fifo'[Wrap(head, m)'] = WordOf(L, offset + m + 1)'
    BY Zenon, <1>1, <1>10, <2>2 DEF Wrap
  <2>4. QED
    BY Zenon, <1>1, <2>3 DEF DataInv, Written
<1>16. QED
  BY Zenon, <1>7, <1>11, <1>12, <1>13, <1>14, <1>15 DEF DataInv

\* haven_tx_write moves the head: the chunk joins the unread words, and the
\* next word to publish is the one after it.
LEMMA PublishStep ==
  ASSUME OneReader, IndexInv, DataInv, TxPublish
  PROVE  DataInv'
<1> DEFINE L == Len(sent)
<1>0. /\ head \in Slot /\ tail \in Slot /\ RxAvail \in Nat /\ RxAvail < LENGTH
      /\ LENGTH \in Nat /\ chunk \in Nat /\ offset \in Nat /\ L \in Nat /\ SIZEAT \in Nat
      /\ ReadPkt \in Nat
      /\ \A p \in 1..L : sent[p] \in Nat /\ sent[p] > SIZEAT
  BY Zenon, DataTypes DEF DataInv
<1>1. /\ UNCHANGED <<tail, fifo, sent, rpc, pkt_len, rx_avail, ring_len, ring_offset, ring_buf, posted>>
      /\ spc = "publish" /\ spc' = "kick" /\ offset' = offset + chunk /\ head' = Wrap(head, chunk)
  BY DEF TxPublish, reader, ring
<1>2. /\ L \in 1..L /\ sent # <<>> /\ sent[L] \in Nat
      /\ chunk > 0 /\ offset + chunk <= sent[L] /\ offset + chunk > SIZEAT
      /\ \A m \in 0..(chunk - 1) : fifo[Wrap(head, m)] = WordOf(L, offset + m + 1)
  <2>1. sent # <<>> /\ sent \in Seq(Sizes)
    BY <1>1 DEF IndexInv, SentInv, DataInv, DataType
  <2>2. L \in 1..L
    BY <2>1
  <2>3. QED
    BY <1>0, <1>1, <2>1, <2>2 DEF DataInv, Written
<1>3. RxAvail' = RxAvail + chunk /\ RxAvail + chunk < LENGTH
  <2>1. RxAvail + chunk <= LENGTH - RESERVE
    BY <1>1 DEF IndexInv, NoOverrun
  <2>2. RxAvail' = RxAvail + chunk
    BY <1>0, <1>1, <2>1, HeadMoves
  <2>3. QED
    BY <1>0, <2>1, <2>2, Sizing
<1>4. ReadPkt' = ReadPkt /\ ReadOff' = ReadOff
      /\ Base("irq")' = Base("irq") /\ Total("irq")' = Total("irq")
  BY <1>1 DEF ReadPkt, ReadOff, Base, Total
<1>5. \A i \in 0..RxAvail : PktAt(i)' = PktAt(i) /\ WordAt(i)' = WordAt(i)
  <2>1. \A i \in 0..(RxAvail - 1) : PktAt(i)' = PktAt(i) /\ WordAt(i)' = WordAt(i)
    <3>1. \A i \in 0..(RxAvail - 1) : i < RxAvail /\ i < RxAvail'
      BY <1>0, <1>3
    <3>2. QED
      BY Zenon, <1>1, <3>1 DEF PktAt, WordAt, Wrap
  <2>2. \A i : i = RxAvail => PktAt(i)' = PktAt(i) /\ WordAt(i)' = WordAt(i)
    <3> SUFFICES ASSUME NEW i, i = RxAvail
                 PROVE  PktAt(i)' = PktAt(i) /\ WordAt(i)' = WordAt(i)
      OBVIOUS
    <3>1. ~(i < RxAvail) /\ i < RxAvail' /\ 0 \in 0..(chunk - 1) /\ Wrap(head, 0) = head
          /\ offset + 0 + 1 = offset + 1
      BY <1>0, <1>2, <1>3 DEF Wrap, Slot
    <3>2. Wrap(tail, i) = head
      BY Zenon, <1>0, Unread
    <3>3. fifo[Wrap(tail, i)] = WordOf(L, offset + 1)
      BY Zenon, <1>2, <3>1, <3>2
    <3>4. fifo[Wrap(tail, i)].pkt = L /\ fifo[Wrap(tail, i)].at = offset + 1
      BY <3>3 DEF WordOf
    <3>5. QED
      BY Zenon, <1>1, <3>1, <3>4 DEF PktAt, WordAt, Wrap
  <2>3. \A i \in 0..RxAvail : i \in 0..(RxAvail - 1) \/ i = RxAvail
    BY <1>0
  <2>4. QED
    BY Zenon, <2>1, <2>2, <2>3
<1>6. \A i \in RxAvail..(RxAvail + chunk - 1) : fifo[Wrap(tail, i)] = WordOf(L, offset + 1 + (i - RxAvail))
  <2> SUFFICES ASSUME NEW i \in RxAvail..(RxAvail + chunk - 1)
               PROVE  fifo[Wrap(tail, i)] = WordOf(L, offset + 1 + (i - RxAvail))
    OBVIOUS
  <2> DEFINE m == i - RxAvail
  <2>1. /\ m \in 0..(chunk - 1) /\ m \in Nat /\ RxAvail + m = i /\ RxAvail + m < LENGTH
        /\ offset + m + 1 = offset + 1 + m
    BY <1>0, <1>3
  <2> HIDE DEF m
  <2>2. Wrap(Wrap(tail, RxAvail), m) = Wrap(tail, RxAvail + m)
    <3>1. \A b \in Nat : RxAvail + b < LENGTH => Wrap(Wrap(tail, RxAvail), b) = Wrap(tail, RxAvail + b)
      BY <1>0, Wrapping
    <3>2. QED
      BY Zenon, <2>1, <3>1
  <2>3. Wrap(tail, RxAvail) = head
    BY Zenon, <1>0, Unread
  <2>4. fifo[Wrap(tail, i)] = WordOf(L, offset + 1 + m)
    BY Zenon, <1>2, <2>1, <2>2, <2>3
  <2>5. QED
    BY Zenon, <2>4 DEF m
<1>7. \A i \in RxAvail..(RxAvail + chunk) :
        PktAt(i)' = L /\ WordAt(i)' = offset + 1 + (i - RxAvail)
  <2> SUFFICES ASSUME NEW i \in RxAvail..(RxAvail + chunk)
               PROVE  PktAt(i)' = L /\ WordAt(i)' = offset + 1 + (i - RxAvail)
    OBVIOUS
  <2>1. CASE i < RxAvail + chunk
    <3>1. i \in RxAvail..(RxAvail + chunk - 1) /\ i < RxAvail'
      BY <1>0, <1>3, <2>1
    <3>2. fifo[Wrap(tail, i)] = WordOf(L, offset + 1 + (i - RxAvail))
      BY Zenon, <1>6, <3>1
    <3>3. fifo[Wrap(tail, i)].pkt = L /\ fifo[Wrap(tail, i)].at = offset + 1 + (i - RxAvail)
      BY <3>2 DEF WordOf
    <3>4. QED
      BY Zenon, <1>1, <3>1, <3>3 DEF PktAt, WordAt, Wrap
  <2>2. CASE i = RxAvail + chunk
    <3>1. ~(i < RxAvail') /\ offset' + 1 = offset + 1 + (i - RxAvail)
      BY <1>0, <1>1, <1>3, <2>2
    <3>2. QED
      BY Zenon, <1>1, <3>1 DEF PktAt, WordAt
  <2>3. QED
    BY <1>0, <2>1, <2>2
<1>8. \A p, a : WordOf(p, a)' = WordOf(p, a)
  BY Zenon, <1>1 DEF WordOf
<1>9. WordsSent'
  <2>1. ASSUME NEW i \in 0..(RxAvail + chunk - 1)
        PROVE  /\ PktAt(i)' \in 1..L /\ WordAt(i)' \in 1..sent[PktAt(i)']
               /\ fifo[Wrap(tail, i)] = WordOf(PktAt(i)', WordAt(i)')
    <3>1. CASE i \in 0..(RxAvail - 1)
      <4>1. i \in 0..RxAvail
        BY <1>0, <3>1
      <4>2. QED
        BY Zenon, <1>5, <3>1, <4>1 DEF DataInv, WordsSent
    <3>2. CASE i \in RxAvail..(RxAvail + chunk - 1)
      <4>1. i \in RxAvail..(RxAvail + chunk)
        BY <1>0, <3>2
      <4>2. PktAt(i)' = L /\ WordAt(i)' = offset + 1 + (i - RxAvail)
        BY Zenon, <1>7, <4>1
      <4>3. offset + 1 + (i - RxAvail) \in 1..sent[L]
        BY <1>0, <1>2, <3>2
      <4>4. QED
        BY Zenon, <1>2, <1>6, <3>2, <4>2, <4>3
    <3>3. QED
      BY <1>0, <3>1, <3>2
  <2>2. UNCHANGED <<sent, fifo, tail>>
    BY Zenon, <1>1
  <2>3. ASSUME NEW i \in 0..(RxAvail' - 1)
        PROVE  /\ PktAt(i)' \in 1..Len(sent)' /\ WordAt(i)' \in 1..sent'[PktAt(i)']
               /\ fifo'[Wrap(tail, i)'] = WordOf(PktAt(i), WordAt(i))'
    <3>1. i \in 0..(RxAvail + chunk - 1)
      BY <1>0, <1>3
    <3>2. /\ PktAt(i)' \in 1..L /\ WordAt(i)' \in 1..sent[PktAt(i)']
          /\ fifo[Wrap(tail, i)] = WordOf(PktAt(i)', WordAt(i)')
      BY Zenon, <2>1, <3>1
    <3>3. QED
      BY Zenon, <2>2, <3>2 DEF WordOf, Wrap
  <2>4. QED
    BY Zenon, <2>3 DEF WordsSent
<1>10. Chained'
  <2> SUFFICES ASSUME NEW i \in 0..(RxAvail + chunk), NEW j \in 0..(RxAvail + chunk), i < j
               PROVE  Leads(PktAt(i)', WordAt(i)', j - i, PktAt(j)', WordAt(j)')
    <3>1. sent' = sent
      BY Zenon, <1>1
    <3>2. \A p, a, n, q, b : Leads(p, a, n, q, b) => Leads(p, a, n, q, b)'
      BY <3>1 DEF Leads
    <3>3. QED
      BY Zenon, <1>3, <3>2 DEF Chained
  <2>1. CASE j \in 0..RxAvail
    <3>1. i \in 0..RxAvail
      BY <1>0, <2>1
    <3>2. Leads(PktAt(i), WordAt(i), j - i, PktAt(j), WordAt(j))
      BY Zenon, <2>1, <3>1 DEF DataInv, Chained
    <3>3. /\ PktAt(i)' = PktAt(i) /\ WordAt(i)' = WordAt(i)
          /\ PktAt(j)' = PktAt(j) /\ WordAt(j)' = WordAt(j)
      BY Zenon, <1>5, <2>1, <3>1
    <3>4. QED
      BY Zenon, <3>2, <3>3
  <2>2. CASE i \in RxAvail..(RxAvail + chunk)
    <3>1. j \in RxAvail..(RxAvail + chunk)
      BY <1>0, <2>2
    <3>2. /\ PktAt(i)' = L /\ WordAt(i)' = offset + 1 + (i - RxAvail)
          /\ PktAt(j)' = L /\ WordAt(j)' = offset + 1 + (j - RxAvail)
      BY Zenon, <1>7, <2>2, <3>1
    <3>3. offset + 1 + (j - RxAvail) = offset + 1 + (i - RxAvail) + (j - i)
      BY <1>0
    <3>4. QED
      BY Zenon, <3>2, <3>3 DEF Leads
  <2>3. CASE i \in 0..(RxAvail - 1) /\ j \in RxAvail..(RxAvail + chunk) /\ j > RxAvail
    <3> DEFINE p == PktAt(i)  a == WordAt(i)  R == RxAvail
    <3>1. /\ i \in 0..R /\ R \in 0..R /\ i < R /\ R \in Nat
          /\ ~(R < R)
      BY <1>0, <2>3
    <3>2. PktAt(R) = L /\ WordAt(R) = offset + 1
      BY Zenon, <3>1 DEF PktAt, WordAt
    <3>3. Leads(p, a, R - i, L, offset + 1)
      <4>1. Leads(PktAt(i), WordAt(i), R - i, PktAt(R), WordAt(R))
        BY Zenon, <3>1 DEF DataInv, Chained
      <4>2. QED
        BY Zenon, <3>2, <4>1
    <3>4. p \in 1..L /\ a \in 1..sent[p]
      BY Zenon, <2>3 DEF DataInv, WordsSent
    <3>5. p \in Nat /\ a \in Nat /\ sent[p] \in Nat
      BY <1>0, <3>4
    <3>6. PktAt(i)' = p /\ WordAt(i)' = a /\ PktAt(j)' = L /\ WordAt(j)' = offset + 1 + (j - R)
      BY Zenon, <1>5, <1>7, <2>3, <3>1
    <3> HIDE DEF p, a, R
    <3>7. i \in Nat /\ j \in Nat /\ j > R /\ i < R
      BY <1>0, <2>3, <3>1 DEF R
    <3>8. Leads(p, a, j - i, L, offset + 1 + (j - R))
      BY <1>0, <3>1, <3>3, <3>5, <3>7 DEF Leads
    <3>9. QED
      BY Zenon, <3>6, <3>8
  <2>4. QED
    BY <1>0, <2>1, <2>2, <2>3
<1>11. Buffered' /\ ReadsOn'
  <2>1. 0 \in 0..RxAvail
    BY <1>0
  <2>2. left_size # 0
    BY <1>0, <1>2 DEF left_size
  <2>3. PktAt(0)' = PktAt(0) /\ WordAt(0)' = WordAt(0)
    BY Zenon, <1>5, <2>1
  <2>4. \/ PktAt(0) = ReadPkt /\ WordAt(0) = ReadOff + 1
        \/ /\ ReadPkt <= Len(sent) /\ ReadOff = sent[ReadPkt]
           /\ PktAt(0) = ReadPkt + 1 /\ WordAt(0) = 1
    BY Zenon, <1>2, <2>2 DEF DataInv, ReadsOn
  <2>5. ReadsOn'
    BY Zenon, <1>1, <1>4, <2>3, <2>4 DEF ReadsOn
  <2>6. QED
    BY Zenon, <1>1, <1>4, <1>8, <2>5 DEF DataInv, Buffered
<1>12. DataType'
  <2>1. offset' > SIZEAT /\ offset' <= sent[L]
    BY <1>1, <1>2
  <2>2. QED
    BY <1>1, <1>2, <2>1 DEF DataInv, DataType
<1>13. Written'
  BY <1>1 DEF Written
<1>14. Reads'
  <2>1. RxAvail > 0 => RxAvail' > 0
    BY <1>0, <1>3
  <2>2. QED
    BY Zenon, <1>1, <1>4, <1>8, <2>1 DEF DataInv, Reads
<1>15. QED
  BY Zenon, <1>9, <1>10, <1>11, <1>12, <1>13, <1>14 DEF DataInv

-----------------------------------------------------------------------------
(* The steps of qrtr_haven_read. *)

\* The unread words go on with the packet of the first one as far as it
\* reaches.
LEMMA Run ==
  ASSUME IndexInv, DataInv, PktAt(0) \in 1..Len(sent), WordAt(0) \in Nat,
         NEW m \in 0..RxAvail, WordAt(0) + m <= sent[PktAt(0)]
  PROVE  /\ PktAt(m) = PktAt(0) /\ WordAt(m) = WordAt(0) + m
         /\ m < RxAvail => fifo[Wrap(tail, m)] = WordOf(PktAt(0), WordAt(0) + m)
<1> DEFINE P == PktAt(0)  a == WordAt(0)
<1>0. RxAvail \in Nat /\ \A p \in 1..Len(sent) : sent[p] \in Nat
  BY Zenon, DataTypes DEF DataInv
<1>1. PktAt(m) = P /\ WordAt(m) = a + m
  <2>1. CASE m = 0
    <3>1. a + 0 = a
      OBVIOUS
    <3>2. QED
      BY Zenon, <2>1, <3>1
  <2>2. CASE m # 0
    <3>1. 0 < m /\ 0 \in 0..RxAvail /\ m - 0 = m
      BY <1>0, <2>2
    <3>2. Leads(P, a, m, PktAt(m), WordAt(m))
      <4>1. Leads(PktAt(0), WordAt(0), m - 0, PktAt(m), WordAt(m))
        BY Zenon, <3>1 DEF DataInv, Chained
      <4>2. QED
        BY Zenon, <3>1, <4>1
    <3>3. ~(a + m > sent[P])
      BY <1>0
    <3>4. QED
      BY Zenon, <3>2, <3>3 DEF Leads
  <2>3. QED
    BY <2>1, <2>2
<1>2. m < RxAvail => m \in 0..(RxAvail - 1)
  BY <1>0
<1>3. m < RxAvail => fifo[Wrap(tail, m)] = WordOf(P, a + m)
  BY Zenon, <1>1, <1>2 DEF DataInv, WordsSent
<1>4. QED
  BY Zenon, <1>1, <1>3

\* Where the reader stands in a packet it has not read to the end, the ring
\* goes on.
LEMMA GoesOn ==
  ASSUME IndexInv, DataInv, ReadPkt <= Len(sent), ReadOff < sent[ReadPkt]
  PROVE  /\ ReadPkt \in 1..Len(sent)
         /\ PktAt(0) = ReadPkt /\ WordAt(0) = ReadOff + 1
<1>0. /\ ReadPkt \in Nat /\ ReadPkt >= 1 /\ ReadOff \in Nat /\ Len(sent) \in Nat
      /\ \A p \in 1..Len(sent) : sent[p] \in Nat
  BY Zenon, DataTypes DEF DataInv
<1>1. ReadPkt \in 1..Len(sent)
  BY <1>0
<1>2. ReadOff # sent[ReadPkt] /\ ReadPkt # Len(sent) + 1
  BY <1>0, <1>1
<1>3. QED
  BY Zenon, <1>1, <1>2 DEF DataInv, ReadsOn

\* At the start of a packet the ring holds it at least up to its size field,
\* so qrtr_peek_pkt_size reads its length.
LEMMA Peeked ==
  ASSUME IndexInv, DataInv, rpc["irq"] = "peek"
  PROVE  ReadPkt \in 1..Len(sent) /\ PeekSizes = {sent[ReadPkt]}
<1> DEFINE P == ReadPkt  R == RxAvail  L == Len(sent)
<1>0. /\ R \in Nat /\ R < LENGTH /\ SIZEAT \in Nat /\ LENGTH \in Nat /\ tail \in Slot
      /\ L \in Nat /\ offset \in Nat /\ P \in Nat /\ P >= 1
      /\ \A p \in 1..L : sent[p] \in Nat /\ sent[p] > SIZEAT
  BY Zenon, DataTypes DEF DataInv
<1>1. R > 0 /\ ReadOff = 0
  BY DEF DataInv, Reads, ReadOff
<1>2. P \in 1..L /\ PktAt(0) = P /\ WordAt(0) = 1
  <2>1. P <= L => ReadOff # sent[P]
    BY <1>0, <1>1
  <2>2. PktAt(0) = P /\ WordAt(0) = ReadOff + 1
    BY <1>0, <1>1, <2>1 DEF DataInv, ReadsOn
  <2>3. 0 \in 0..(R - 1)
    BY <1>0, <1>1
  <2>4. PktAt(0) \in 1..L
    BY Zenon, <2>3 DEF DataInv, WordsSent
  <2>5. ReadOff + 1 = 1
    BY <1>1
  <2>6. QED
    BY Zenon, <2>2, <2>4, <2>5
<1>3. SIZEAT < R
  <2>1. Leads(P, 1, R, L, offset + 1)
    <3>1. 0 \in 0..R /\ R \in 0..R /\ 0 < R /\ R - 0 = R /\ ~(R < R)
      BY <1>0, <1>1
    <3>2. Leads(PktAt(0), WordAt(0), R - 0, PktAt(R), WordAt(R))
      BY Zenon, <3>1 DEF DataInv, Chained
    <3>3. PktAt(R) = L /\ WordAt(R) = offset + 1
      BY Zenon, <3>1 DEF PktAt, WordAt
    <3>4. QED
      BY Zenon, <1>2, <3>1, <3>2, <3>3
  <2>2. sent[P] \in Nat /\ sent[P] > SIZEAT
    BY <1>0, <1>2
  <2>3. offset = 0 \/ offset > SIZEAT
    BY DEF DataInv, DataType
  <2> HIDE DEF P, R, L
  <2>4. QED
    BY <1>0, <1>1, <2>1, <2>2, <2>3 DEF Leads
<1>4. fifo[Wrap(tail, 0)] = WordOf(P, 1) /\ fifo[Wrap(tail, SIZEAT)] = WordOf(P, 1 + SIZEAT)
  <2>1. /\ WordAt(0) \in Nat /\ PktAt(0) \in 1..L
        /\ 0 \in 0..R /\ SIZEAT \in 0..R /\ 0 < R
        /\ WordAt(0) + 0 <= sent[PktAt(0)] /\ WordAt(0) + SIZEAT <= sent[PktAt(0)]
        /\ WordAt(0) + 0 = 1 /\ WordAt(0) + SIZEAT = 1 + SIZEAT
    BY <1>0, <1>1, <1>2, <1>3
  <2>2. fifo[Wrap(tail, 0)] = WordOf(PktAt(0), WordAt(0) + 0)
    BY Zenon, <2>1, Run
  <2>3. fifo[Wrap(tail, SIZEAT)] = WordOf(PktAt(0), WordAt(0) + SIZEAT)
    BY Zenon, <1>3, <2>1, Run
  <2>4. QED
    BY Zenon, <1>2, <2>1, <2>2, <2>3
<1>5. Wrap(tail, 0) = tail
  BY <1>0 DEF Wrap, Slot
<1>6. fifo[tail] = WordOf(P, 1)
  BY Zenon, <1>4, <1>5
<1>7. QED
  BY <1>2, <1>4, <1>6 DEF PeekSizes, WordOf

\* Steps of qrtr_haven_read that take nothing out of the ring keep what the
\* sender's side is about.
LEMMA SenderFrame ==
  ASSUME DataType, Written, UNCHANGED <<head, sender>>, UNCHANGED fifo,
         posted' \in Seq(Nat), ring_buf' \in [1..MAXPKT -> Word]
  PROVE  DataType' /\ Written'
<1>1. UNCHANGED <<sent, spc, offset, chunk>>
  BY Zenon DEF sender
<1>2. \A p, a : WordOf(p, a)' = WordOf(p, a)
  BY Zenon, <1>1 DEF WordOf
<1>3. DataType'
  BY <1>1 DEF DataType
<1>4. Written'
  BY Zenon, <1>1, <1>2 DEF Written, Wrap
<1>5. QED
  BY Zenon, <1>3, <1>4

\* The doorbell's thread starts, looks at the ring, reads a header, and looks
\* at read_notify.
LEMMA ReaderMoves ==
  ASSUME OneReader, IndexInv, DataInv,
         RxDoorbell \/ ReadLoop("irq") \/ PeekHeader("irq") \/ ReadKick("irq")
  PROVE  DataInv'
<1>0. /\ RxAvail \in Nat /\ ring_offset \in Nat /\ ReadPkt \in Nat /\ pkt_len["irq"] \in Nat
      /\ Len(sent) \in Nat
      /\ \A p \in 1..Len(sent) : sent[p] \in Nat /\ sent[p] > SIZEAT
      /\ SIZEAT \in Nat
  BY Zenon, DataTypes DEF DataInv
<1>1. /\ UNCHANGED <<head, tail, fifo, sender, rx_avail, ring_len, ring_offset, ring_buf, posted>>
      /\ rpc' \in [{"irq"} -> ReadStep]
      /\ pkt_len \in [{"irq"} -> Nat] /\ rpc \in [{"irq"} -> ReadStep]
      /\ rpc["irq"] \in {"idle", "loop", "peek", "kick"}
      /\ rpc'["irq"] \in {"idle", "loop", "peek", "kick", "copy"}
  <2>1. rpc \in [{"irq"} -> ReadStep] /\ pkt_len \in [{"irq"} -> Nat]
    BY DEF IndexInv, ReadInv
  <2>2. UNCHANGED <<head, tail, fifo, sender, rx_avail, ring_len, ring_offset, ring_buf, posted>>
    BY Zenon DEF RxDoorbell, ReadLoop, PeekHeader, ReadKick, shared, ring
  <2>3. QED
    BY <2>1, <2>2 DEF RxDoorbell, ReadLoop, PeekHeader, ReadKick, ReadStep
<1>2. UNCHANGED <<sent, offset>>
  BY Zenon, <1>1 DEF sender
<1>3. RxAvail' = RxAvail /\ ReadPkt' = ReadPkt /\ ReadOff' = ReadOff
  BY <1>1 DEF RxAvail, ReadPkt, ReadOff
<1>4. WordsSent' /\ Chained' /\ Buffered' /\ ReadsOn'
  BY Zenon, <1>1, <1>2, <1>3, StreamFrame DEF DataInv
<1>5. DataType' /\ Written'
  <2>1. posted' \in Seq(Nat) /\ ring_buf' \in [1..MAXPKT -> Word]
    BY Zenon, <1>1 DEF DataInv, DataType
  <2>2. QED
    BY Zenon, <1>1, <2>1, SenderFrame DEF DataInv
<1>6. pkt_len["irq"] = 0
  BY <1>1 DEF DataInv, Reads
<1>7. ring_offset # 0 =>
        /\ ReadPkt <= Len(sent) /\ ring_len = sent[ReadPkt]
        /\ ring_offset < ring_len /\ sent[ReadPkt] <= MAXPKT
  BY Zenon DEF DataInv, Reads
<1>8. CASE ~PeekHeader("irq")
  <2>1. pkt_len' = pkt_len
    BY <1>8 DEF RxDoorbell, ReadLoop, ReadKick
  <2>2. rpc'["irq"] \in {"peek", "copy"} => RxAvail > 0
    BY <1>0, <1>1, <1>8 DEF RxDoorbell, ReadLoop, ReadKick
  <2>3. /\ rpc'["irq"] = "peek" => ring_offset = 0
        /\ rpc'["irq"] = "copy" => ring_offset # 0
    BY <1>0, <1>1, <1>8 DEF RxDoorbell, ReadLoop, ReadKick
  <2>4. Total("irq")' = ring_len
    BY <1>1, <1>6, <2>1 DEF Total
  <2>5. Reads'
    BY <1>1, <1>2, <1>3, <1>6, <1>7, <2>1, <2>2, <2>3, <2>4 DEF Reads
  <2>6. QED
    BY Zenon, <1>4, <1>5, <2>5 DEF DataInv
<1>9. CASE PeekHeader("irq")
  <2>1. ReadPkt \in 1..Len(sent) /\ PeekSizes = {sent[ReadPkt]}
    BY Zenon, <1>9, Peeked DEF PeekHeader
  <2>2. RxAvail > 0 /\ ring_offset = 0
    BY <1>9 DEF PeekHeader, DataInv, Reads
  <2>3. sent[ReadPkt] \in Nat /\ sent[ReadPkt] # 0 /\ ReadPkt <= Len(sent)
    BY <1>0, <2>1
  <2>4. ASSUME rpc'["irq"] = "kick", pkt_len' = pkt_len
        PROVE  Reads'
    BY <1>1, <1>3, <1>6, <2>2, <2>4 DEF Reads
  <2>5. ASSUME rpc'["irq"] = "copy", pkt_len'["irq"] = sent[ReadPkt], sent[ReadPkt] <= MAXPKT
        PROVE  Reads'
    <3>1. Total("irq")' = sent[ReadPkt]
      BY <2>3, <2>5 DEF Total
    <3>2. QED
      BY <1>1, <1>2, <1>3, <2>2, <2>3, <2>5, <3>1 DEF Reads
  <2>6. Reads'
    <3>2. MAXPKT \in Nat
      BY HavenAssumption DEF HavenAssumption
    <3>3. \/ rpc'["irq"] = "kick" /\ pkt_len' = pkt_len
          \/ rpc'["irq"] = "copy" /\ pkt_len'["irq"] = sent[ReadPkt] /\ sent[ReadPkt] <= MAXPKT
      BY <1>1, <1>9, <2>1, <2>3, <3>2 DEF PeekHeader
    <3>4. QED
      BY <2>4, <2>5, <3>3
  <2>7. QED
    BY Zenon, <1>4, <1>5, <2>6 DEF DataInv
<1>10. QED
  BY Zenon, <1>8, <1>9

\* The packet qrtr_haven_read is in the middle of, before it moves the tail.
LEMMA InPacket ==
  ASSUME IndexInv, DataInv, rpc["irq"] \in {"copy", "advance"}
  PROVE  /\ ReadPkt \in 1..Len(sent) /\ Total("irq") = sent[ReadPkt]
         /\ sent[ReadPkt] \in Nat /\ sent[ReadPkt] <= MAXPKT
         /\ ReadOff = Base("irq") /\ ring_offset = Base("irq") /\ Base("irq") < sent[ReadPkt]
         /\ PktAt(0) = ReadPkt /\ WordAt(0) = Base("irq") + 1
<1>0. /\ ReadPkt \in Nat /\ ReadPkt >= 1 /\ Len(sent) \in Nat /\ SIZEAT \in Nat
      /\ ring_offset \in Nat /\ pkt_len["irq"] \in Nat /\ ring_len \in Nat
      /\ \A p \in 1..Len(sent) : sent[p] \in Nat /\ sent[p] > SIZEAT
  BY Zenon, DataTypes DEF DataInv
<1>1. /\ ReadPkt <= Len(sent) /\ Total("irq") = sent[ReadPkt] /\ sent[ReadPkt] <= MAXPKT
      /\ pkt_len["irq"] # 0 => ring_offset = 0
      /\ ring_offset # 0 => ring_len = sent[ReadPkt] /\ ring_offset < ring_len
  BY DEF DataInv, Reads
<1>2. ReadPkt \in 1..Len(sent) /\ sent[ReadPkt] \in Nat /\ sent[ReadPkt] > SIZEAT
  BY <1>0, <1>1
<1>3. ReadOff = ring_offset /\ Base("irq") = ring_offset
  BY <1>0, <1>1 DEF ReadOff, Base
<1>4. ReadOff < sent[ReadPkt]
  BY <1>0, <1>1, <1>2, <1>3
<1>5. PktAt(0) = ReadPkt /\ WordAt(0) = ReadOff + 1
  BY Zenon, <1>1, <1>4, GoesOn
<1>6. QED
  BY Zenon, <1>1, <1>2, <1>3, <1>4, <1>5

\* qrtr_haven_read_new or qrtr_haven_read_frag copies what there is of the
\* packet behind what it has.
LEMMA CopyStep ==
  ASSUME OneReader, IndexInv, DataInv, ReadCopy("irq")
  PROVE  DataInv'
<1> DEFINE P == ReadPkt  B == Base("irq")
           n == IF RxAvail + B > Total("irq") THEN Total("irq") - B ELSE RxAvail
<1>0. /\ RxAvail \in Nat /\ RxAvail < LENGTH /\ P \in Nat /\ MAXPKT \in Nat
      /\ Len(sent) \in Nat /\ B \in Nat
  BY Zenon, DataTypes DEF DataInv
<1>1. /\ UNCHANGED <<head, tail, fifo, sender, pkt_len, ring_len, ring_offset, posted>>
      /\ rpc["irq"] = "copy" /\ rpc'["irq"] = "advance" /\ rx_avail'["irq"] = n
      /\ ring_buf' = [i \in DOMAIN ring_buf |->
           IF i \in (B + 1)..(B + n) THEN Peak(n)[i - B] ELSE ring_buf[i]]
  <2>1. rpc \in [{"irq"} -> ReadStep] /\ rx_avail \in [{"irq"} -> Nat]
    BY DEF IndexInv, ReadInv
  <2>2. UNCHANGED <<head, tail, fifo, sender, pkt_len, ring_len, ring_offset, posted>>
    <3>1. UNCHANGED <<pkt_len, ring_len, ring_offset, posted, shared, doorbells, sender>>
      BY Zenon DEF ReadCopy
    <3>2. UNCHANGED <<head, tail, fifo>>
      BY Zenon, <3>1 DEF shared
    <3>3. QED
      BY Zenon, <3>1, <3>2
  <2>3. QED
    BY <2>1, <2>2 DEF ReadCopy
<1>2. UNCHANGED <<sent, offset>>
  BY Zenon, <1>1 DEF sender
<1>3. /\ P \in 1..Len(sent) /\ Total("irq") = sent[P] /\ sent[P] \in Nat /\ sent[P] <= MAXPKT
      /\ ReadOff = B /\ ring_offset = B /\ B < sent[P] /\ PktAt(0) = P /\ WordAt(0) = B + 1
  BY Zenon, <1>1, InPacket
<1>4. n \in Nat /\ n <= RxAvail /\ B + n <= sent[P]
  BY <1>0, <1>3
<1> HIDE DEF n
<1>5. ring_buf \in [1..MAXPKT -> Word] /\ posted \in Seq(Nat)
  BY Zenon DEF DataInv, DataType
<1>6. \A i \in (B + 1)..(B + n) : Peak(n)[i - B] = WordOf(P, i)
  <2> SUFFICES ASSUME NEW i \in (B + 1)..(B + n)
               PROVE  Peak(n)[i - B] = WordOf(P, i)
    OBVIOUS
  <2> DEFINE m == i - B - 1
  <2>1. /\ m \in 0..RxAvail /\ m < RxAvail /\ i - B \in 1..n /\ (i - B) - 1 = m
        /\ B + 1 + m = i /\ B + 1 + m <= sent[P] /\ B + 1 \in Nat
    <3>1. B \in Nat /\ n \in Nat /\ n <= RxAvail /\ RxAvail \in Nat /\ sent[P] \in Nat /\ B + n <= sent[P]
      BY Zenon, <1>0, <1>3, <1>4
    <3> HIDE DEF B, P
    <3>2. QED
      BY <3>1
  <2> HIDE DEF m
  <2>2. Peak(n)[i - B] = fifo[Wrap(tail, m)]
    BY <2>1 DEF Peak
  <2>3. fifo[Wrap(tail, m)] = WordOf(PktAt(0), WordAt(0) + m)
    <3>1. WordAt(0) \in Nat /\ PktAt(0) \in 1..Len(sent) /\ WordAt(0) + m <= sent[PktAt(0)]
      BY Zenon, <1>3, <2>1
    <3>2. QED
      BY Zenon, <2>1, <3>1, Run
  <2>4. QED
    BY Zenon, <1>3, <2>1, <2>2, <2>3
<1>7. \A i \in 1..MAXPKT :
        ring_buf'[i] = IF i \in (B + 1)..(B + n) THEN WordOf(P, i) ELSE ring_buf[i]
  BY Zenon, <1>1, <1>5, <1>6
<1>8. \A i \in 1..B : ring_buf'[i] = ring_buf[i] /\ ring_buf[i] = WordOf(P, i)
  <2>1. \A i \in 1..B : i \in 1..MAXPKT /\ i \notin (B + 1)..(B + n)
    BY <1>0, <1>3, <1>4
  <2>2. \A i \in 1..B : ring_buf[i] = WordOf(P, i)
    BY Zenon, <1>3 DEF DataInv, Buffered
  <2>3. QED
    BY Zenon, <1>7, <2>1, <2>2
<1>9. \A i \in 1..(B + n) : ring_buf'[i] = WordOf(P, i)
  <2>1. \A i \in 1..(B + n) : i \in 1..B \/ (i \in 1..MAXPKT /\ i \in (B + 1)..(B + n))
    BY <1>0, <1>3, <1>4
  <2>2. QED
    BY Zenon, <1>7, <1>8, <2>1
<1>10. ring_buf' \in [1..MAXPKT -> Word]
  <2>1. \A i \in 1..MAXPKT : WordOf(P, i) \in Word
    BY <1>0, <1>3 DEF WordOf, Word
  <2>2. DOMAIN ring_buf' = 1..MAXPKT
    BY <1>1, <1>5
  <2>3. \A i \in 1..MAXPKT : ring_buf'[i] \in Word
    BY Zenon, <1>5, <1>7, <2>1
  <2>4. ring_buf' = [i \in 1..MAXPKT |-> ring_buf'[i]]
    BY <1>1, <1>5
  <2>5. QED
    BY Zenon, <2>3, <2>4
<1>11. /\ RxAvail' = RxAvail /\ ReadPkt' = P /\ ReadOff' = ReadOff
       /\ Base("irq")' = B /\ Total("irq")' = sent[P] /\ left_size' = left_size
  BY Zenon, <1>1, <1>2, <1>3 DEF RxAvail, ReadPkt, ReadOff, Base, Total, left_size
<1>12. DataType' /\ Written'
  BY Zenon, <1>1, <1>5, <1>10, SenderFrame DEF DataInv
<1>13. \A p, a : WordOf(p, a)' = WordOf(p, a)
  BY Zenon, <1>2 DEF WordOf
<1>14. \A i : PktAt(i)' = PktAt(i) /\ WordAt(i)' = WordAt(i)
  BY Zenon, <1>1, <1>2, <1>11 DEF PktAt, WordAt, Wrap
<1>15. WordsSent' /\ Chained'
  <2>1. WordsSent'
    BY Zenon, <1>1, <1>2, <1>11, <1>13, <1>14 DEF DataInv, WordsSent, Wrap
  <2>2. Chained'
    BY Zenon, <1>2, <1>11, <1>14 DEF DataInv, Chained, Leads
  <2>3. QED
    BY Zenon, <2>1, <2>2
<1>16. Buffered' /\ ReadsOn'
  <2>1. Buffered'
    BY Zenon, <1>3, <1>8, <1>11, <1>13 DEF Buffered
  <2>2. ReadsOn'
    BY Zenon, <1>2, <1>11, <1>14 DEF DataInv, ReadsOn
  <2>3. QED
    BY Zenon, <2>1, <2>2
<1>17. Reads'
  <2>1. \A i \in 1..(Base("irq")' + rx_avail'["irq"]) : ring_buf'[i] = WordOf(ReadPkt, i)'
    BY Zenon, <1>1, <1>9, <1>11, <1>13
  <2>2. P <= Len(sent)
    BY <1>0, <1>3
  <2>3. /\ pkt_len["irq"] # 0 => ring_offset = 0
        /\ pkt_len["irq"] = 0 => ring_offset # 0
        /\ ring_offset # 0 => ring_len = sent[P] /\ ring_offset < ring_len
    BY Zenon, <1>1 DEF DataInv, Reads
  <2>4. UNCHANGED <<pkt_len, ring_len, ring_offset, sent>>
    BY Zenon, <1>1, <1>2
  <2>5. QED
    BY Zenon, <1>1, <1>3, <1>11, <2>1, <2>2, <2>3, <2>4 DEF Reads
<1>18. QED
  BY Zenon, <1>12, <1>15, <1>16, <1>17 DEF DataInv

\* haven_rx_advance takes the copied words out of the ring.
LEMMA AdvanceStep ==
  ASSUME OneReader, IndexInv, DataInv, ReadAdvance("irq")
  PROVE  DataInv'
<1> DEFINE P == ReadPkt  B == Base("irq")  n == rx_avail["irq"]  R == RxAvail  L == Len(sent)
<1>0. /\ R \in Nat /\ R < LENGTH /\ LENGTH \in Nat /\ P \in Nat /\ L \in Nat /\ B \in Nat /\ n \in Nat
      /\ head \in Slot /\ tail \in Slot /\ offset \in Nat
  BY Zenon, DataTypes DEF DataInv
<1>1. /\ UNCHANGED <<head, fifo, sender, pkt_len, rx_avail, ring_len, ring_offset, ring_buf, posted>>
      /\ rpc["irq"] = "advance" /\ rpc'["irq"] = "post" /\ tail' = Wrap(tail, n)
  <2>1. rpc \in [{"irq"} -> ReadStep]
    BY DEF IndexInv, ReadInv
  <2>2. UNCHANGED <<head, fifo, sender, pkt_len, rx_avail, ring_len, ring_offset, ring_buf, posted>>
    BY Zenon DEF ReadAdvance, ring
  <2>3. QED
    BY <2>1, <2>2 DEF ReadAdvance
<1>2. UNCHANGED <<sent, offset>>
  BY Zenon, <1>1 DEF sender
<1>3. /\ P \in 1..L /\ Total("irq") = sent[P] /\ sent[P] \in Nat /\ sent[P] <= MAXPKT
      /\ ReadOff = B /\ ring_offset = B /\ B < sent[P] /\ PktAt(0) = P /\ WordAt(0) = B + 1
  BY Zenon, <1>1, InPacket
<1>4. n <= R /\ B + n <= sent[P]
  BY <1>1, <1>3 DEF IndexInv, ReadInv
<1>5. RxAvail' = R - n
  BY <1>0, <1>1, <1>4, TailMoves
<1>6. /\ ReadPkt' = P /\ ReadOff' = B + n /\ left_size' = left_size
      /\ Base("irq")' = B /\ Total("irq")' = sent[P]
  BY <1>1, <1>2, <1>3 DEF ReadPkt, ReadOff, Base, Total, left_size
<1>7. \A i \in 0..(R - n - 1) : Wrap(tail, i)' = Wrap(tail, n + i)
  <2>1. \A b \in Nat : n + b < LENGTH => Wrap(Wrap(tail, n), b) = Wrap(tail, n + b)
    <3>1. n < LENGTH
      BY <1>0, <1>4
    <3>2. QED
      BY <1>0, <3>1, Wrapping
  <2>2. \A i \in 0..(R - n - 1) : i \in Nat /\ n + i < LENGTH
    BY <1>0, <1>4
  <2>3. \A i : Wrap(tail, i)' = Wrap(Wrap(tail, n), i)
    BY Zenon, <1>1 DEF Wrap
  <2>4. QED
    BY Zenon, <2>1, <2>2, <2>3
<1>8. \A i \in 0..(R - n) : \A k : k = n + i => PktAt(i)' = PktAt(k) /\ WordAt(i)' = WordAt(k)
  <2> SUFFICES ASSUME NEW i \in 0..(R - n), NEW k, k = n + i
               PROVE  PktAt(i)' = PktAt(k) /\ WordAt(i)' = WordAt(k)
    OBVIOUS
  <2>1. CASE i < R - n
    <3>1. i \in 0..(R - n - 1) /\ i < RxAvail' /\ k < RxAvail
      BY <1>0, <1>4, <1>5, <2>1
    <3>2. Wrap(tail, i)' = Wrap(tail, k)
      BY Zenon, <1>7, <3>1
    <3>3. QED
      BY Zenon, <1>1, <3>1, <3>2 DEF PktAt, WordAt
  <2>2. CASE i = R - n
    <3>1. ~(i < RxAvail') /\ ~(k < RxAvail)
      BY <1>0, <1>4, <1>5, <2>2
    <3>2. QED
      BY Zenon, <1>2, <3>1 DEF PktAt, WordAt
  <2>3. QED
    BY <1>0, <1>4, <2>1, <2>2
<1>9. \A p, a : WordOf(p, a)' = WordOf(p, a)
  BY Zenon, <1>2 DEF WordOf
<1>10. WordsSent'
  <2>1. ASSUME NEW i \in 0..(RxAvail' - 1)
        PROVE  /\ PktAt(i)' \in 1..Len(sent)' /\ WordAt(i)' \in 1..sent'[PktAt(i)']
               /\ fifo'[Wrap(tail, i)'] = WordOf(PktAt(i), WordAt(i))'
    <3> DEFINE k == n + i
    <3>1. i \in 0..(R - n) /\ i \in 0..(R - n - 1) /\ k \in 0..(R - 1)
      <4>1. n \in Nat /\ R \in Nat /\ n <= R /\ i \in 0..(R - n - 1)
        BY Zenon, <1>0, <1>4, <1>5
      <4> HIDE DEF n, R
      <4>2. QED
        BY <4>1
    <3>2. PktAt(i)' = PktAt(k) /\ WordAt(i)' = WordAt(k) /\ Wrap(tail, i)' = Wrap(tail, k)
      BY Zenon, <1>7, <1>8, <3>1
    <3> HIDE DEF k
    <3>3. /\ PktAt(k) \in 1..Len(sent) /\ WordAt(k) \in 1..sent[PktAt(k)]
          /\ fifo[Wrap(tail, k)] = WordOf(PktAt(k), WordAt(k))
      BY Zenon, <3>1 DEF DataInv, WordsSent
    <3>4. UNCHANGED <<sent, fifo>>
      BY Zenon, <1>1, <1>2
    <3>5. WordOf(PktAt(i), WordAt(i))' = WordOf(PktAt(k), WordAt(k))
      BY Zenon, <3>2, <3>4 DEF WordOf
    <3>6. QED
      BY Zenon, <3>2, <3>3, <3>4, <3>5
  <2>2. QED
    BY Zenon, <2>1 DEF WordsSent
<1>11. Chained'
  <2>1. ASSUME NEW i \in 0..RxAvail', NEW j \in 0..RxAvail', i < j
        PROVE  Leads(PktAt(i)', WordAt(i)', j - i, PktAt(j)', WordAt(j)')
    <3> DEFINE k == n + i  l == n + j
    <3>1. i \in 0..(R - n) /\ j \in 0..(R - n) /\ k \in 0..R /\ l \in 0..R /\ k < l /\ l - k = j - i
      <4>1. n \in Nat /\ R \in Nat /\ n <= R /\ i \in 0..(R - n) /\ j \in 0..(R - n) /\ i < j
        BY Zenon, <1>0, <1>4, <1>5, <2>1
      <4> HIDE DEF n, R
      <4>2. QED
        BY <4>1
    <3>2. PktAt(i)' = PktAt(k) /\ WordAt(i)' = WordAt(k) /\ PktAt(j)' = PktAt(l) /\ WordAt(j)' = WordAt(l)
      BY Zenon, <1>8, <3>1
    <3> HIDE DEF k, l
    <3>3. Leads(PktAt(k), WordAt(k), l - k, PktAt(l), WordAt(l))
      BY Zenon, <3>1 DEF DataInv, Chained
    <3>4. Leads(PktAt(k), WordAt(k), j - i, PktAt(l), WordAt(l))
      BY Zenon, <3>1, <3>3
    <3>5. QED
      BY Zenon, <3>2, <3>4
  <2>2. \A p, a, d, q, b : Leads(p, a, d, q, b) => Leads(p, a, d, q, b)'
    BY <1>2 DEF Leads
  <2>3. QED
    BY Zenon, <2>1, <2>2 DEF Chained
<1>13. ReadsOn'
  <2>1. n # 0 => Leads(P, B + 1, n, PktAt(n), WordAt(n))
    <3> SUFFICES ASSUME n # 0
                 PROVE  Leads(P, B + 1, n, PktAt(n), WordAt(n))
      OBVIOUS
    <3>1. 0 \in 0..R /\ n \in 0..R /\ 0 < n /\ n - 0 = n
      BY <1>0, <1>4
    <3>2. Leads(PktAt(0), WordAt(0), n - 0, PktAt(n), WordAt(n))
      BY Zenon, <3>1 DEF DataInv, Chained
    <3>3. QED
      BY Zenon, <1>3, <3>1, <3>2
  <2>2. PktAt(0)' = PktAt(n) /\ WordAt(0)' = WordAt(n)
    <3>1. 0 \in 0..(R - n) /\ n = n + 0
      BY <1>0, <1>4
    <3>2. QED
      BY Zenon, <1>8, <3>1
  <2>3. \/ PktAt(n) = P /\ WordAt(n) = B + n + 1
        \/ B + n = sent[P] /\ PktAt(n) = P + 1 /\ WordAt(n) = 1
    <3>1. (B + 1) + n = B + n + 1
      BY <1>0
    <3>2. (B + 1) + n > sent[P] => B + n = sent[P] /\ (B + 1) + n = sent[P] + 1
      <4>1. B \in Nat /\ n \in Nat /\ sent[P] \in Nat /\ B + n <= sent[P]
        BY Zenon, <1>0, <1>3, <1>4
      <4> HIDE DEF B, P, n
      <4>2. QED
        BY <4>1
    <3>3. n = 0 => PktAt(n) = P /\ WordAt(n) = B + n + 1
      <4>1. n = 0 => B + 1 = B + n + 1
        BY <1>0
      <4>2. QED
        BY Zenon, <1>3, <4>1
    <3>4. QED
      BY Zenon, <2>1, <3>1, <3>2, <3>3 DEF Leads
  <2>4. P <= Len(sent)
    BY <1>0, <1>3
  <2>5. QED
    BY Zenon, <1>2, <1>6, <2>2, <2>3, <2>4 DEF ReadsOn
<1>14. \A i \in 1..(B + n) : ring_buf[i] = WordOf(P, i)
  BY Zenon, <1>1 DEF DataInv, Reads
<1>15. Buffered'
  BY Zenon, <1>1, <1>6, <1>9, <1>14 DEF Buffered
<1>16. DataType' /\ Written'
  <2>1. posted' \in Seq(Nat) /\ ring_buf' \in [1..MAXPKT -> Word]
    BY Zenon, <1>1 DEF DataInv, DataType
  <2>2. QED
    BY Zenon, <1>1, <2>1, SenderFrame DEF DataInv
<1>17. Reads'
  <2>1. \A i \in 1..(Base("irq")' + rx_avail'["irq"]) : ring_buf'[i] = WordOf(ReadPkt, i)'
    BY Zenon, <1>1, <1>6, <1>9, <1>14
  <2>2. P <= Len(sent)
    BY <1>0, <1>3
  <2>3. /\ pkt_len["irq"] # 0 => ring_offset = 0
        /\ pkt_len["irq"] = 0 => ring_offset # 0
        /\ ring_offset # 0 => ring_len = sent[P] /\ ring_offset < ring_len
    BY <1>1 DEF DataInv, Reads
  <2>4. UNCHANGED <<pkt_len, ring_len, ring_offset, sent>>
    BY Zenon, <1>1, <1>2
  <2>5. QED
    BY <1>1, <1>3, <1>6, <2>1, <2>2, <2>3, <2>4 DEF Reads
<1>18. QED
  BY Zenon, <1>10, <1>11, <1>13, <1>15, <1>16, <1>17 DEF DataInv

\* A buffer with all words of a packet is that packet.
LEMMA WholePacket ==
  ASSUME IndexInv, DataInv, rpc["irq"] = "post",
         Base("irq") + rx_avail["irq"] = Total("irq")
  PROVE  PacketOf(SubSeq(ring_buf, 1, Base("irq") + rx_avail["irq"])) = ReadPkt
<1> DEFINE P == ReadPkt  buf == SubSeq(ring_buf, 1, Base("irq") + rx_avail["irq"])
<1>0. /\ P \in Nat /\ P >= 1 /\ Len(sent) \in Nat /\ MAXPKT \in Nat /\ SIZEAT \in Nat
      /\ \A p \in 1..Len(sent) : sent[p] \in Nat /\ sent[p] > SIZEAT
  BY Zenon, DataTypes DEF DataInv
<1>1. /\ P <= Len(sent) /\ Base("irq") + rx_avail["irq"] = sent[P] /\ sent[P] <= MAXPKT
      /\ \A i \in 1..(Base("irq") + rx_avail["irq"]) : ring_buf[i] = WordOf(P, i)
  BY DEF DataInv, Reads
<1>2. P \in 1..Len(sent) /\ sent[P] \in Nat /\ 1 \in 1..sent[P]
  BY <1>0, <1>1
<1>3. buf = [i \in 1..sent[P] |-> ring_buf[i]]
  <2>1. ring_buf \in [1..MAXPKT -> Word]
    BY Zenon DEF DataInv, DataType
  <2>2. ring_buf \in Seq(Word) /\ Len(ring_buf) = MAXPKT
    BY <1>0, <2>1
  <2>3. QED
    BY <1>1, <1>2, <2>2
<1>4. buf = PacketWords(P)
  BY Zenon, <1>1, <1>3 DEF PacketWords
<1>5. \A p \in 1..Len(sent) : buf = PacketWords(p) => p = P
  <2> SUFFICES ASSUME NEW p \in 1..Len(sent), PacketWords(P) = PacketWords(p)
               PROVE  p = P
    BY Zenon, <1>4
  <2>1. 1 \in 1..sent[p]
    BY <1>0
  <2>2. PacketWords(p)[1] = WordOf(p, 1) /\ PacketWords(P)[1] = WordOf(P, 1)
    BY Zenon, <1>2, <2>1 DEF PacketWords
  <2>3. WordOf(p, 1) = WordOf(P, 1)
    BY Zenon, <2>2
  <2>4. WordOf(p, 1).pkt = p /\ WordOf(P, 1).pkt = P
    BY DEF WordOf
  <2>5. QED
    BY Zenon, <2>3, <2>4
<1>6. QED
  BY Zenon, <1>2, <1>4, <1>5 DEF PacketOf

\* The buffer is posted, or kept for the next fragment.
LEMMA PostStep ==
  ASSUME OneReader, IndexInv, DataInv, ReadPost("irq")
  PROVE  /\ DataInv'
         /\ \/ posted' = posted
            \/ ReadPkt <= Len(sent) /\ posted' = Append(posted, ReadPkt)
<1> DEFINE P == ReadPkt  L == Len(sent)  got == Base("irq") + rx_avail["irq"]
<1>0. /\ RxAvail \in Nat /\ P \in Nat /\ P >= 1 /\ L \in Nat /\ offset \in Nat /\ SIZEAT \in Nat
      /\ Base("irq") \in Nat /\ rx_avail["irq"] \in Nat /\ got \in Nat /\ ring_offset \in Nat
      /\ \A p \in 1..L : sent[p] \in Nat /\ sent[p] > SIZEAT
  <2>1. IndexInv /\ DataType
    BY Zenon DEF DataInv
  <2>2. QED
    BY Zenon, <2>1, DataTypes DEF ReadOff, ReadPost
<1>1. /\ UNCHANGED <<head, tail, fifo, sender, ring_buf>>
      /\ rpc["irq"] = "post" /\ rpc'["irq"] = "kick" /\ pkt_len'["irq"] = 0
  <2>1. rpc \in [{"irq"} -> ReadStep] /\ pkt_len \in [{"irq"} -> Nat]
    BY DEF IndexInv, ReadInv
  <2>2. UNCHANGED <<head, tail, fifo, sender, ring_buf>>
    BY Zenon DEF ReadPost, shared
  <2>3. QED
    BY <2>1, <2>2 DEF ReadPost
<1>2. UNCHANGED <<sent, offset>>
  BY Zenon, <1>1 DEF sender
<1>3. /\ P <= L /\ Total("irq") = sent[P] /\ sent[P] <= MAXPKT
      /\ pkt_len["irq"] # 0 => ring_offset = 0
      /\ \A i \in 1..got : ring_buf[i] = WordOf(P, i)
  BY <1>1 DEF DataInv, Reads
<1>4. P \in 1..L /\ sent[P] \in Nat
  BY <1>0, <1>3
<1>5. got <= sent[P]
  BY <1>1, <1>3 DEF IndexInv, ReadInv
<1>6. ReadOff = got /\ ReadOff' = ring_offset' /\ RxAvail' = RxAvail /\ left_size' = left_size
  BY <1>1, <1>2 DEF ReadOff, RxAvail, left_size
<1>7. \A p, a : WordOf(p, a)' = WordOf(p, a)
  BY Zenon, <1>2 DEF WordOf
<1>8. \A i : PktAt(i)' = PktAt(i) /\ WordAt(i)' = WordAt(i)
  BY Zenon, <1>1, <1>2, <1>6 DEF PktAt, WordAt, Wrap
<1>9. WordsSent' /\ Chained'
  <2>1. WordsSent'
    BY Zenon, <1>1, <1>2, <1>6, <1>7, <1>8 DEF DataInv, WordsSent, Wrap
  <2>2. Chained'
    BY Zenon, <1>2, <1>6, <1>8 DEF DataInv, Chained, Leads
  <2>3. QED
    BY Zenon, <2>1, <2>2
<1>10. posted \in Seq(Nat) /\ ring_buf' \in [1..MAXPKT -> Word]
  BY Zenon, <1>1 DEF DataInv, DataType
<1>11. CASE got = Total("irq")
  <2>1. posted' = Append(posted, P)
    <3>1. PacketOf(SubSeq(ring_buf, 1, got)) = P
      BY Zenon, <1>1, <1>11, WholePacket
    <3>2. posted' = Append(posted, PacketOf(SubSeq(ring_buf, 1, got)))
      BY <1>11 DEF ReadPost
    <3>3. QED
      BY Zenon, <3>1, <3>2
  <2>2. ReadPkt' = P + 1 /\ posted' \in Seq(Nat)
    BY <1>0, <1>10, <2>1 DEF ReadPkt
  <2>3. ring_offset' = 0
    BY <1>3, <1>11 DEF ReadPost
  <2>4. got = sent[P]
    BY Zenon, <1>3, <1>11
  <2>5. ReadsOn'
    <3>1. \/ PktAt(0) = P /\ WordAt(0) = sent[P] + 1
          \/ PktAt(0) = P + 1 /\ WordAt(0) = 1
      <4>1. P # L + 1
        BY <1>0, <1>3
      <4>2. QED
        BY Zenon, <1>6, <2>4, <4>1 DEF DataInv, ReadsOn
    <3>2. CASE PktAt(0) = P /\ WordAt(0) = sent[P] + 1
      <4>1. RxAvail = 0
        <5> SUFFICES ASSUME RxAvail # 0
                     PROVE  FALSE
          OBVIOUS
        <5>1. 0 \in 0..(RxAvail - 1)
          BY <1>0
        <5>2. WordAt(0) \in 1..sent[PktAt(0)]
          BY Zenon, <5>1 DEF DataInv, WordsSent
        <5>3. sent[P] + 1 \in 1..sent[P]
          BY Zenon, <3>2, <5>2
        <5>4. QED
          BY <1>4, <5>3
      <4>2. PktAt(0) = L /\ WordAt(0) = offset + 1
        <5>1. ~(0 < RxAvail)
          BY <4>1
        <5>2. QED
          BY Zenon, <5>1 DEF PktAt, WordAt
      <4>3. L = P /\ offset = sent[P]
        BY <1>0, <1>4, <3>2, <4>2
      <4>4. left_size = 0
        BY <1>0, <1>4, <4>3 DEF left_size
      <4>5. QED
        BY Zenon, <1>2, <1>6, <2>2, <2>3, <4>1, <4>3, <4>4 DEF ReadsOn
    <3>3. CASE PktAt(0) = P + 1 /\ WordAt(0) = 1
      <4>1. 0 + 1 = 1
        OBVIOUS
      <4>2. QED
        BY Zenon, <1>6, <1>8, <2>2, <2>3, <3>3, <4>1 DEF ReadsOn
    <3>4. QED
      BY Zenon, <3>1, <3>2, <3>3
  <2>6. Buffered'
    BY <1>6, <2>3 DEF Buffered
  <2>7. Reads'
    BY <1>1, <2>3 DEF Reads
  <2>8. DataType' /\ Written'
    BY Zenon, <1>1, <1>10, <2>2, SenderFrame DEF DataInv
  <2>9. QED
    BY Zenon, <1>3, <1>9, <2>1, <2>5, <2>6, <2>7, <2>8 DEF DataInv
<1>12. CASE got # Total("irq")
  <2>1. posted' = posted /\ ring_len' = sent[P] /\ ring_offset' = got
    BY <1>3, <1>12 DEF ReadPost
  <2>2. ReadPkt' = P
    BY Zenon, <2>1 DEF ReadPkt
  <2>3. ReadsOn'
    BY Zenon, <1>2, <1>6, <1>8, <2>1, <2>2 DEF DataInv, ReadsOn
  <2>4. Buffered'
    BY Zenon, <1>1, <1>3, <1>6, <1>7, <2>1, <2>2 DEF Buffered
  <2>5. got < sent[P]
    BY <1>0, <1>3, <1>4, <1>5, <1>12
  <2>6. Reads'
    BY <1>1, <1>2, <1>3, <2>1, <2>2, <2>5 DEF Reads
  <2>7. DataType' /\ Written'
    BY Zenon, <1>1, <1>10, <2>1, SenderFrame DEF DataInv
  <2>8. QED
    BY Zenon, <1>9, <2>1, <2>3, <2>4, <2>6, <2>7 DEF DataInv
<1>13. QED
  BY Zenon, <1>11, <1>12

-----------------------------------------------------------------------------
(* The theorems. *)

\* What a step does to the two ends of the direction.
Transfers ==
  \/ UNCHANGED <<sent, posted>>
  \/ \E n \in Sizes : sent' = Append(sent, n) /\ posted' = posted
  \/ ReadPkt <= Len(sent) /\ posted' = Append(posted, ReadPkt) /\ sent' = sent

\* Every step keeps DataInv, and takes a packet in, hands the next one out, or
\* neither.
LEMMA DataStep ==
  ASSUME OneReader, HeaderWhole, IndexInv, DataInv, [Next]_vars
  PROVE  DataInv' /\ Transfers
<1>1. CASE \E n \in Sizes : Send(n)
  <2>1. PICK n \in Sizes : Send(n)
    BY Zenon, <1>1
  <2>2. DataInv'
    BY Zenon, <2>1, SendStep
  <2>3. sent' = Append(sent, n) /\ posted' = posted
    BY Zenon, <2>1 DEF Send, reader
  <2>4. QED
    BY Zenon, <2>2, <2>3 DEF Transfers
<1>2. CASE \/ SendChunk \/ SendNoRoom \/ SendKick \/ SetTxNotify \/ WaitTxAvail
           \/ SendDone \/ WaitTimeout \/ TxDoorbell
           \/ \E e \in End : RetryWork(e) \/ PopulateCap(e)
           \/ UNCHANGED vars
  <2>1. DataInv'
    BY Zenon, <1>2, SenderMoves
  <2>2. UNCHANGED <<sent, posted>>
    BY Zenon, <1>2 DEF SendChunk, SendNoRoom, SendKick, SetTxNotify, WaitTxAvail, SendDone,
       WaitTimeout, TxDoorbell, RetryWork, PopulateCap, vars, sender, reader
  <2>3. QED
    BY Zenon, <2>1, <2>2 DEF Transfers
<1>3. CASE TxWrite \/ TxPublish
  <2>1. DataInv'
    BY Zenon, <1>3, WriteStep, PublishStep
  <2>2. UNCHANGED <<sent, posted>>
    BY Zenon, <1>3 DEF TxWrite, TxPublish, reader
  <2>3. QED
    BY Zenon, <2>1, <2>2 DEF Transfers
<1>4. CASE RxDoorbell \/ ReadLoop("irq") \/ PeekHeader("irq") \/ ReadKick("irq")
  <2>1. DataInv'
    BY Zenon, <1>4, ReaderMoves
  <2>2. UNCHANGED <<sent, posted>>
    BY Zenon, <1>4 DEF RxDoorbell, ReadLoop, PeekHeader, ReadKick, sender
  <2>3. QED
    BY Zenon, <2>1, <2>2 DEF Transfers
<1>5. CASE ReadCopy("irq") \/ ReadAdvance("irq")
  <2>1. DataInv'
    BY Zenon, <1>5, CopyStep, AdvanceStep
  <2>2. UNCHANGED <<sent, posted>>
    BY Zenon, <1>5 DEF ReadCopy, ReadAdvance, sender
  <2>3. QED
    BY Zenon, <2>1, <2>2 DEF Transfers
<1>6. CASE ReadPost("irq")
  <2>1. sent' = sent
    BY Zenon, <1>6 DEF ReadPost, sender
  <2>2. QED
    BY Zenon, <1>6, <2>1, PostStep DEF Transfers
<1>7. QED
  <2>1. \A r \in Readers : r = "irq"
    BY DEF OneReader
  <2>2. QED
    BY Zenon, <1>1, <1>2, <1>3, <1>4, <1>5, <1>6, <2>1 DEF Next, Sender, Read

\* DataInv is an invariant of the direction.
LEMMA DataInvariant ==
  ASSUME OneReader, HeaderWhole
  PROVE  Spec => [](IndexInv /\ DataInv)
<1>1. Init => DataInv
  BY DataInit
<1>2. IndexInv /\ DataInv /\ [Next]_vars => DataInv'
  BY DataStep
<1>3. QED
  BY <1>1, <1>2, IndexInvariant, PTL DEF Spec

\* Through wrap-around, partial chunks, a full ring and any interleaving of
\* the two VMs, the posted packets, the reassembly buffer and the unread words
\* of the ring are together what qrtr_haven_send has published, whatever the
\* length of the ring and the sizes of the packets.
THEOREM RingCarriesStream ==
  ASSUME OneReader, HeaderWhole
  PROVE  Spec => []StreamIntact
<1>1. DataInv => StreamIntact
  BY Zenon DEF DataInv, WordsSent, Chained, Buffered, ReadsOn, StreamIntact
<1>2. QED
  BY <1>1, DataInvariant, PTL

\* qrtr_endpoint_post is given whole packets only, each once and in the order
\* in which qrtr_haven_send was called.
THEOREM PostedInOrder ==
  ASSUME OneReader, HeaderWhole
  PROVE  Spec => []InOrder
<1>1. Init => InOrder
  BY DEF Init, InOrder
<1>2. IndexInv /\ DataInv /\ InOrder /\ [Next]_vars => InOrder'
  <2> SUFFICES ASSUME IndexInv, DataInv, InOrder, [Next]_vars
               PROVE  InOrder'
    OBVIOUS
  <2>1. Transfers
    BY Zenon, DataStep
  <2>2. sent \in Seq(Sizes) /\ posted \in Seq(Nat)
    BY DEF DataInv, DataType
  <2>3. CASE UNCHANGED <<sent, posted>>
    BY Zenon, <2>3 DEF InOrder
  <2>4. CASE \E n \in Sizes : sent' = Append(sent, n) /\ posted' = posted
    BY <2>2, <2>4 DEF InOrder
  <2>5. CASE ReadPkt <= Len(sent) /\ posted' = Append(posted, ReadPkt) /\ sent' = sent
    BY <2>2, <2>5 DEF InOrder, ReadPkt
  <2>6. QED
    BY Zenon, <2>1, <2>3, <2>4, <2>5 DEF Transfers
<1>3. QED
  BY <1>1, <1>2, DataInvariant, PTL DEF Spec

\* The ring, its indices, the chunks and the reassembly implement the channel
\* that qrtr.c expects of a transport: every step of the two VMs is one of the
\* channel or leaves it alone.
THEOREM ImplementsChannel ==
  ASSUME OneReader, HeaderWhole
  PROVE  Spec => ChannelSpec
<1>1. Init => Channel!Init
  BY DEF Init, Channel!Init
<1>2. IndexInv /\ DataInv /\ [Next]_vars => [Channel!Next]_(Channel!vars)
  <2> SUFFICES ASSUME IndexInv, DataInv, [Next]_vars
               PROVE  [Channel!Next]_(Channel!vars)
    OBVIOUS
  <2>1. Transfers
    BY Zenon, DataStep
  <2>2. sent \in Seq(Sizes) /\ posted \in Seq(Nat)
    BY DEF DataInv, DataType
  <2>3. CASE UNCHANGED <<sent, posted>>
    BY Zenon, <2>3 DEF Channel!vars
  <2>4. CASE \E n \in Sizes : sent' = Append(sent, n) /\ posted' = posted
    BY <2>2, <2>4 DEF Channel!Next, Channel!Accept
  <2>5. CASE ReadPkt <= Len(sent) /\ posted' = Append(posted, ReadPkt) /\ sent' = sent
    BY <2>2, <2>5 DEF Channel!Next, Channel!Post, ReadPkt
  <2>6. QED
    BY Zenon, <2>1, <2>3, <2>4, <2>5 DEF Transfers
<1>3. QED
  BY <1>1, <1>2, DataInvariant, PTL DEF Spec, ChannelSpec, Channel!Spec

\* What TypeOK says beyond the other invariants.
Ranges ==
  /\ notify \in BOOLEAN /\ Len(sent) <= MAXSEND
  /\ spc \in {"idle", "loop", "write", "publish", "kick", "notify", "wait", "asleep"}
  /\ chunk \in 0..LENGTH
  /\ pkt_len \in [{"irq"} -> Sizes \cup {Invalid}]
  /\ rx_avail \in [{"irq"} -> 0..LENGTH]
  /\ ring_len \in Sizes \cup {0}

LEMMA RangesStep ==
  ASSUME OneReader, HeaderWhole, IndexInv, DataInv, Ranges, [Next]_vars
  PROVE  Ranges'
<1>0. /\ LENGTH \in Nat /\ RxAvail \in Nat /\ RxAvail < LENGTH /\ MAXSEND \in Nat
      /\ Base("irq") \in Nat /\ Total("irq") \in Nat
      /\ TxAvail \in Nat /\ TxAvail <= LENGTH
  <2>1. MAXSEND \in Nat
    BY HavenAssumption DEF HavenAssumption
  <2>2. /\ LENGTH \in Nat /\ RxAvail \in Nat /\ RxAvail < LENGTH
        /\ Base("irq") \in Nat /\ Total("irq") \in Nat
    BY Zenon, DataTypes DEF DataInv
  <2>3. TxAvail \in Nat /\ TxAvail <= LENGTH
    BY Sizing DEF IndexInv, TxAvail, Slot
  <2>4. QED
    BY <2>1, <2>2, <2>3
<1>1. sent \in Seq(Sizes) /\ offset \in Nat /\ \A p \in 1..Len(sent) : sent[p] \in Nat
  BY DataTypes DEF DataInv, DataType
<1>2. CASE \E n \in Sizes : Send(n)
  BY <1>0, <1>1, <1>2 DEF Ranges, Send, shared, reader, ring
<1>3. CASE SendChunk
  <2>1. sent[Len(sent)] \in Nat
    BY <1>1, <1>3 DEF SendChunk, IndexInv, SentInv
  <2>2. chunk' \in 0..LENGTH
    BY <1>0, <1>1, <1>3, <2>1 DEF SendChunk, left_size
  <2>3. QED
    BY <1>3, <2>2 DEF Ranges, SendChunk, shared, reader, ring
<1>4. CASE \/ SendNoRoom \/ SendKick \/ SetTxNotify \/ WaitTxAvail \/ TxWrite \/ TxPublish
           \/ SendDone \/ WaitTimeout \/ TxDoorbell \/ UNCHANGED vars
           \/ \E e \in End : RetryWork(e) \/ PopulateCap(e)
  <2>1. UNCHANGED <<pkt_len, rx_avail, ring_len, sent>>
    BY Zenon, <1>4 DEF SendNoRoom, SendKick, SetTxNotify, WaitTxAvail, TxWrite, TxPublish,
       SendDone, WaitTimeout, TxDoorbell, RetryWork, PopulateCap, reader, sender, ring, vars
  <2>2. notify' \in BOOLEAN
    BY Zenon, <1>4 DEF Ranges, SendNoRoom, SendKick, SetTxNotify, WaitTxAvail, TxWrite, TxPublish,
       SendDone, WaitTimeout, TxDoorbell, RetryWork, PopulateCap, shared, vars
  <2>3. chunk' = chunk \/ chunk' = 0
    BY Zenon, <1>4 DEF SendNoRoom, SendKick, SetTxNotify, WaitTxAvail, TxWrite, TxPublish,
       SendDone, WaitTimeout, TxDoorbell, RetryWork, PopulateCap, sender, vars
  <2>4. spc' \in {"idle", "loop", "write", "publish", "kick", "notify", "wait", "asleep"}
    BY Zenon, <1>4 DEF Ranges, SendNoRoom, SendKick, SetTxNotify, WaitTxAvail, TxWrite, TxPublish,
       SendDone, WaitTimeout, TxDoorbell, RetryWork, PopulateCap, sender, vars
  <2>5. chunk' \in 0..LENGTH
    BY <1>0, <2>3 DEF Ranges
  <2>6. QED
    BY Zenon, <2>1, <2>2, <2>4, <2>5 DEF Ranges
<1>5. CASE RxDoorbell \/ ReadLoop("irq") \/ ReadKick("irq") \/ ReadAdvance("irq")
  <2>1. UNCHANGED <<notify, sent, spc, chunk, pkt_len, rx_avail, ring_len>>
    BY Zenon, <1>5 DEF RxDoorbell, ReadLoop, ReadKick, ReadAdvance, shared, sender, ring
  <2>2. QED
    BY Zenon, <2>1 DEF Ranges
<1>6. CASE PeekHeader("irq")
  <2>1. UNCHANGED <<notify, sent, spc, chunk, rx_avail, ring_len>>
    BY Zenon, <1>6 DEF PeekHeader, shared, sender, ring
  <2>2. ReadPkt \in 1..Len(sent) /\ PeekSizes = {sent[ReadPkt]}
    BY Zenon, <1>6, Peeked DEF PeekHeader
  <2>3. sent[ReadPkt] \in Sizes
    BY <1>1, <2>2
  <2>4. pkt_len' \in [{"irq"} -> Sizes \cup {Invalid}]
    BY Zenon, <1>6, <2>2, <2>3 DEF PeekHeader, Ranges
  <2>5. QED
    BY Zenon, <2>1, <2>4 DEF Ranges
<1>7. CASE ReadCopy("irq")
  <2>1. UNCHANGED <<notify, sent, spc, chunk, pkt_len, ring_len>>
    BY Zenon, <1>7 DEF ReadCopy, shared, sender
  <2>2. Base("irq") <= Total("irq")
    <3>1. Base("irq") < sent[ReadPkt] /\ Total("irq") = sent[ReadPkt]
      BY Zenon, <1>7, InPacket DEF ReadCopy
    <3>2. QED
      BY <1>0, <3>1
  <2>3. rx_avail' \in [{"irq"} -> 0..LENGTH]
    <3> DEFINE n == IF RxAvail + Base("irq") > Total("irq") THEN Total("irq") - Base("irq")
                    ELSE RxAvail
    <3>1. rx_avail' = [rx_avail EXCEPT !["irq"] = n]
      BY Zenon, <1>7 DEF ReadCopy
    <3>2. \A a, b, c, d \in Nat :
            a < d /\ b <= c => (IF a + b > c THEN c - b ELSE a) \in 0..d
      OBVIOUS
    <3>3. n \in 0..LENGTH
      BY Zenon, <1>0, <2>2, <3>2
    <3>4. QED
      BY Zenon, <3>1, <3>3 DEF Ranges
  <2>4. QED
    BY Zenon, <2>1, <2>3 DEF Ranges
<1>8. CASE ReadPost("irq")
  <2>1. UNCHANGED <<notify, sent, spc, chunk>>
    BY Zenon, <1>8 DEF ReadPost, shared, sender
  <2>2. pkt_len' \in [{"irq"} -> Sizes \cup {Invalid}] /\ rx_avail' \in [{"irq"} -> 0..LENGTH]
    BY <1>0, <1>8 DEF ReadPost, Ranges, Invalid
  <2>3. ring_len' \in {0, ring_len, Total("irq")}
    BY <1>8 DEF ReadPost
  <2>4. Total("irq") \in Sizes \cup {0}
    BY DEF Total, Ranges, Invalid
  <2>5. QED
    BY <2>1, <2>2, <2>3, <2>4 DEF Ranges
<1>9. QED
  <2>1. \A r \in Readers : r = "irq"
    BY DEF OneReader
  <2>2. QED
    BY Zenon, <1>2, <1>3, <1>4, <1>5, <1>6, <1>7, <1>8, <2>1 DEF Next, Sender, Read

\* The indices stay in the ring, and qrtr_haven_read never takes anything but
\* the length of a packet that was sent for a length.
THEOREM TypesKept ==
  ASSUME OneReader, HeaderWhole
  PROVE  Spec => []TypeOK
<1>1. Init => Ranges
  <2> SUFFICES ASSUME Init
               PROVE  Ranges
    OBVIOUS
  <2>1. notify = FALSE /\ Len(sent) = 0 /\ spc = "idle" /\ chunk = 0 /\ ring_len = 0
    BY DEF Init
  <2>2. pkt_len = [r \in {"irq"} |-> 0] /\ rx_avail = [r \in {"irq"} |-> 0]
    BY Zenon DEF Init, OneReader
  <2>3. MAXSEND \in Nat /\ LENGTH \in Nat
    BY HavenAssumption DEF HavenAssumption
  <2>4. /\ Len(sent) <= MAXSEND /\ chunk \in 0..LENGTH
        /\ pkt_len \in [{"irq"} -> Sizes \cup {Invalid}]
        /\ rx_avail \in [{"irq"} -> 0..LENGTH]
    BY <2>1, <2>2, <2>3 DEF Invalid
  <2>5. QED
    BY Zenon, <2>1, <2>4 DEF Ranges
<1>2. IndexInv /\ DataInv /\ Ranges /\ [Next]_vars => Ranges'
  BY RangesStep
<1>3. IndexInv /\ DataInv /\ DoorInv /\ Ranges /\ InOrder => TypeOK
  <2> SUFFICES ASSUME IndexInv, DataInv, DoorInv, Ranges, InOrder
               PROVE  TypeOK
    OBVIOUS
  <2>1. posted \in Seq(0..MAXSEND)
    <3>1. posted \in Seq(Nat) /\ sent \in Seq(Sizes) /\ MAXSEND \in Nat
      BY HavenAssumption DEF HavenAssumption, DataInv, DataType
    <3>2. \A i \in 1..Len(posted) : posted[i] \in 0..MAXSEND
      BY <3>1 DEF InOrder, Ranges
    <3>3. QED
      BY <3>1, <3>2
  <2>2. Readers = {"irq"}
    BY DEF OneReader
  <2>3. QED
    BY <2>1, <2>2 DEF TypeOK, IndexInv, DataInv, DataType, SentInv, ReadInv, ReadStep, DoorInv, Ranges
<1>4. QED
  BY <1>1, <1>2, <1>3, DataInvariant, SeenInvariant, PostedInOrder, PTL DEF Spec
=============================================================================
