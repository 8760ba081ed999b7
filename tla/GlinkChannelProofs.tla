------------------------- MODULE GlinkChannelProofs -------------------------
(***************************************************************************)
(* The steps in which the processor that answers takes a CLOSE or a        *)
(* CLOSE_ACK, and the theorems about GlinkChannel: its types, its          *)
(* reference counts, the commands it knows, and the agreement of the two   *)
(* ends.                                                                   *)
(***************************************************************************)
EXTENDS GlinkAnswerProofs

-----------------------------------------------------------------------------
(* b, the side that answers, takes a CLOSE_ACK or a CLOSE. *)

\* qcom_glink_rx_close_ack of the side that answers: its id is taken out of lcids.
LEMMA AnswerTakesCloseAck ==
  ASSUME NEW a, NEW b, Ends(a, b), RxCloseAck(b), Frame(a)
  PROVE  EndsInv(a, b)'
<1> DEFINE x == Head(rx_queue[b])
<1>0. FunType /\ a \in Side /\ b \in Side /\ a # b /\ Peer[b] = a /\ SideType(a) /\ SideType(b)
      /\ IdsInv(b, a) /\ Same(a) /\ WayInv(b, a) /\ WayInv(a, b) /\ IdInv(a, b) /\ IdInv(b, a) /\ Core(a)
      /\ ChanInv(b, a) /\ AnswerInv(a, b) /\ PairInv(a, b) /\ bound' = bound /\ slow' = slow
  BY IdsSwap, Zenon DEF Ends, IdsInv, Frame, Same
<1>1. /\ wpc[b] = "idle" /\ rx_queue[b] # <<>> /\ x.cmd = "CLOSE_ACK"
      /\ rx_queue' = [rx_queue EXCEPT ![b] = Tail(rx_queue[b])]
      /\ nch' = nch /\ next_id' = next_id /\ rcids' = rcids
      /\ upc' = upc /\ uch' = uch /\ wpc' = wpc /\ wch' = wch /\ wcmd' = wcmd
  BY Zenon DEF RxCloseAck, Taken, user, worker
<1>2. rx_queue'[b] = Tail(rx_queue[b])
  BY <1>0, <1>1, Zenon DEF FunType
<1>3. fifo'[b] = fifo[b]
  BY <1>0, Zenon DEF RxCloseAck, Send, FunType, wire
<1>4. Takes(b, a, x)
  BY <1>0, <1>1, <1>2, <1>3, WorkerTakes, Zenon
<1>5. x.id = Last(b) /\ Closed(b) /\ ~Acked(b) /\ rx_queue'[b] \in Seq(Command)
  BY <1>1, <1>4, Zenon DEF Takes
<1>6. InL(b) /\ ~Opening(b, a) /\ ~Closing(b, a) /\ ~InR(b, a) /\ ~Using(b)
  BY <1>0, <1>5, Zenon DEF IdInv, Life
<1>7. nch[b] \in Id /\ nch[b] # 0 /\ lcids[b][Last(b)] = nch[b] /\ Cur(b).lcid = Last(b) /\ Last(b) \in DOMAIN lcids[b]
      /\ DOMAIN lcids[b] \subseteq {Last(b)}
  BY <1>0, <1>6, LocalId, Zenon
<1>8. ~Unopened(a, b) /\ ~Cur(b).cb
  BY <1>0, <1>6, <1>7, Zenon DEF PairInv, Using
<1>9. upc[b] = "idle"
  <2>1. upc[b] \in {"idle", "remote"}
    BY <1>0, <1>6, Zenon DEF AnswerInv, Using
  <2>2. upc[b] # "remote"
    BY <1>0, <1>8, Zenon DEF AnswerInv, Unopened
  <2>q. QED
    BY <2>1, <2>2
<1>10. AckDropCmds(b, nch[b]) = <<>> /\ ~EndpointChannel(b, nch[b])
  <2>1. dev[b] # 0 => dev[b] = nch[b]
    BY <1>0, Zenon DEF AnswerInv
  <2>2. ~EndpointChannel(b, nch[b])
    BY <2>1, <1>8, Zenon DEF EndpointChannel, Cur
  <2>q. QED
    BY <2>2, Zenon DEF AckDropCmds
<1>11. /\ UNCHANGED wire
       /\ lcids' = [lcids EXCEPT ![b] = Remove(@, ch[b][nch[b]].lcid)]
       /\ ch' = [ch EXCEPT ![b] = [DropDevice(b, nch[b])[b] EXCEPT ![nch[b]] = Put([@ EXCEPT !.lcid = 0])]]
       /\ dev' = IF ch[b][nch[b]].rpdev THEN [dev EXCEPT ![b] = 0] ELSE dev
  BY <1>5, <1>7, <1>10, Zenon DEF RxCloseAck
<1>12. fifo'[a] = fifo[a]
  BY <1>11, Zenon DEF wire
<1>13. lcids'[b] = Remove(lcids[b], Last(b)) /\ dev'[b] = 0
  <2>1. lcids' = [lcids EXCEPT ![b] = Remove(lcids[b], Last(b))]
    BY <1>7, <1>11, Zenon DEF Cur
  <2>2. ~ch[b][nch[b]].rpdev => dev[b] = 0
    BY <1>0, <1>7, Zenon DEF AnswerInv, Cur
  <2>3. dev'[b] = 0
    BY <2>2, <1>0, <1>11, Zenon DEF FunType
  <2>q. QED
    BY <2>1, <2>3, <1>0, Zenon DEF FunType
<1>14. DOMAIN lcids'[b] = {}
  BY <1>7, <1>13, Removed, Zenon
<1>15. LocalOut(b, nch[b])
  <2>1. dev[b] \in {0, nch[b]}
    BY <1>0, Zenon DEF AnswerInv
  <2>q. QED
    BY <2>1, <1>0, <1>7, <1>11, LocalReleased, Zenon
<1>16. ~Made(b) /\ ~Made(b)'
  BY <1>1, <1>9 DEF Made, Making
<1>17. Cur(b).refs = 1 + Num(InR(a, b))
  BY <1>0, <1>6, <1>7, <1>16 DEF ChanInv, Num
<1>18. /\ ch'[b] \in [Id -> Channel] /\ \A d \in Id : d # nch[b] => ch'[b][d] = ch[b][d]
       /\ Cur(b)'.refs = Num(InR(a, b)) /\ Cur(b)'.lcid = 0
       /\ InR(a, b) => Cur(b)'.rcid = Cur(b).rcid /\ Cur(b)'.open_ack = Cur(b).open_ack
       /\ ~InR(a, b) => Cur(b)'.rcid = 0
       /\ ~Cur(b)'.cb /\ ~Cur(b)'.rpdev
  <2>1. Cur(b) = ch[b][nch[b]] /\ Cur(b)' = ch'[b][nch[b]]
    BY <1>1, Zenon DEF Cur
  <2>2. (InR(a, b) => Cur(b).refs # 1) /\ (~InR(a, b) => Cur(b).refs = 1) /\ Cur(b).refs - 1 = Num(InR(a, b))
    BY <1>17 DEF Num
  <2>q. QED
    BY <2>1, <2>2, <1>8, <1>10, <1>15, Zenon DEF LocalOut
<1>19. Last(a)' = Last(a) /\ Last(b)' = Last(b) /\ lcids'[a] = lcids[a] /\ rcids'[a] = rcids[a]
  BY <1>0, <1>1, Zenon DEF Last, Core
<1>20. ~InL(b)' /\ ~InR(b, a)' /\ (InR(a, b)' <=> InR(a, b))
  BY <1>1, <1>6, <1>14, <1>19 DEF InL, InR
<1>21. /\ Cur(a)' = Cur(a) /\ Held(a)' = Held(a) /\ (InL(a)' <=> InL(a)) /\ (Using(a)' <=> Using(a))
       /\ ChanInv(a, b)'
  BY <1>0, <1>6, <1>19, <1>20, Rest, Zenon DEF IdsInv
<1>22. Way(a)' = Way(a)
  BY <1>0, <1>12, <1>21, WayStill, Zenon DEF Same
<1>23. SideType(a)' /\ SideType(b)'
  <2>1. SideType(a)'
    BY <1>0, <1>12, RestType, Zenon DEF SideType
  <2>2. SideType(b)'
    BY <1>0, <1>1, <1>3, <1>5, <1>18, Zenon DEF SideType
  <2>q. QED
    BY <2>1, <2>2
<1>24. WayInv(b, a)' /\ Kept(b, a)
  BY <1>0, <1>19, <1>22, WaySame, Zenon
<1>25. WayInv(a, b)' /\ Less(a, b, "CLOSE_ACK", Last(b))
  <2>1. Held(b)' = <<>>
    BY <1>1 DEF Held
  <2>q. QED
    BY <2>1, <1>1, <1>4, <1>5, <1>19, Zenon DEF Takes
<1>26. /\ ~Closed(b)' /\ ~Acked(b)'
       /\ Opening(a, b)' <=> Opening(a, b)
       /\ Closing(a, b)' <=> Closing(a, b)
       /\ Zero(b)' <=> Zero(b)
  BY <1>5, <1>25 DEF Less
<1>27. ~Using(b)'
  BY <1>1, <1>9, <1>18 DEF Using
<1>28. IdInv(b, a)'
  BY <1>0, <1>6, <1>14, <1>19, <1>20, <1>24, <1>26, <1>27, Zenon DEF IdInv, Life, Kept
<1>29. IdInv(a, b)'
  BY <1>0, <1>1, <1>19, <1>20, <1>21, <1>24, <1>26, IdKept, Zenon DEF Kept
<1>30. ChanInv(b, a)'
  <2>1. Cur(b)'.refs = Num(InL(b))' + Num(InR(a, b))' + Num(Made(b))'
    BY <1>16, <1>18, <1>20 DEF Num
  <2>2. (InR(a, b) => rcids[b][Last(a)] = nch[b] /\ Cur(b).rcid = Last(a)) /\ \A d \in Id : d # nch[b] => ch[b][d].refs = 0
    BY <1>0, Zenon DEF ChanInv
  <2>q. QED
    BY <2>1, <2>2, <1>1, <1>7, <1>18, <1>19, <1>20, Zenon DEF ChanInv
<1>31. OpenerInv(a, b)'
  BY <1>0, <1>6, <1>19, <1>20, <1>24, RestOpener, Zenon DEF Ends, Kept
<1>32. AnswerInv(a, b)'
  BY <1>0, <1>1, <1>9, <1>13, <1>18, <1>20, Zenon DEF AnswerInv
<1>33. ~Unopened(a, b)'
  BY <1>0, <1>1, <1>8, <1>20, Zenon DEF Unopened
<1>34. upc'[a] = upc[a] /\ (Fresh(a)' <=> Fresh(a))
  BY <1>1, <1>21, <1>24, Zenon DEF Fresh, Kept
<1>35. PairInv(a, b)'
  BY <1>0, <1>1, <1>6, <1>8, <1>9, <1>18, <1>19, <1>20, <1>21, <1>24, <1>26, <1>27, <1>33, <1>34, Zenon DEF PairInv, Kept
<1>q. QED
  BY <1>21, <1>23, <1>24, <1>25, <1>28, <1>29, <1>30, <1>31, <1>32, <1>35, Zenon DEF EndsInv, IdsInv

\* s sends the CLOSE of its id and the CLOSE_ACK of the id of t.
ClosesBoth(s, t) ==
    /\ WayInv(s, t)' /\ ~Opening(s, t)' /\ Closing(s, t)' /\ Closed(t)'
    /\ Acked(t)' <=> Acked(t)
    /\ Zero(t)' <=> Zero(t)
\* They are in order when neither is on its way and t has entered the id of s.
LEMMA SendsBoth ==
  ASSUME NEW s, NEW t, SideType(s), SideType(t), WayInv(s, t), Last(s)' = Last(s), Last(t)' = Last(t),
         Way(t)' = Append(Append(Way(t), Cmd("CLOSE", Last(s))), Cmd("CLOSE_ACK", Last(t))),
         ~Opening(s, t), ~Closing(s, t), ~Closed(t)
  PROVE  ClosesBoth(s, t)
<1> DEFINE q == Way(t)
           i == Last(s)
           j == Last(t)
           x == Cmd("CLOSE", i)
           y == Cmd("CLOSE_ACK", j)
           p == Append(q, x)
           r == Append(p, y)
<1>1. q \in Seq(Command) /\ i \in Nat /\ j \in Nat
  BY WayType, Zenon
<1>2. x \in Command /\ y \in Command
  BY <1>1 DEF Cmd, Command, Cmds
<1>3. /\ QueueInv(q, i, j) /\ x \in Sent(i, j) /\ y \in Sent(i, j)
      /\ ~Has(q, x) /\ ~Has(q, y) /\ ~Has(q, Cmd("OPEN", i))
  BY Zenon DEF WayInv, Sent, Opening, Closing, Closed, On
<1>4. \A c, n : (x = Cmd(c, n) => c = "CLOSE") /\ (y = Cmd(c, n) => c = "CLOSE_ACK")
  BY CmdEq, Zenon
<1>5. /\ x # Cmd("OPEN", i) /\ x # Cmd("CLOSE_ACK", j) /\ x # Cmd("OPEN_ACK", j) /\ x # Cmd("OPEN_ACK", 0)
      /\ y # Cmd("OPEN", i) /\ y # Cmd("OPEN_ACK", j) /\ y # Cmd("OPEN_ACK", 0) /\ x # y
  BY <1>4
<1>6. Way(t)' = r
  OBVIOUS
<1> HIDE DEF q, i, j, x, y, p, r
<1>7. QueueInv(p, i, j)
  BY <1>1, <1>2, <1>3, <1>5, QueueMore, Zenon DEF p
<1>8. p \in Seq(Command) /\ \A m : Has(p, m) <=> Has(q, m) \/ m = x
  BY <1>1, <1>2, Added, Zenon DEF p
<1>9. ~Has(p, y) /\ ~Has(p, Cmd("OPEN", i))
  BY <1>3, <1>5, <1>8, Zenon
<1>10. QueueInv(r, i, j)
  BY <1>1, <1>2, <1>3, <1>5, <1>7, <1>8, <1>9, QueueMore, Zenon DEF r
<1>11. \A m : Has(r, m) <=> Has(p, m) \/ m = y
  BY <1>2, <1>8, Added, Zenon DEF r
<1>12. WayInv(s, t)'
  BY <1>6, <1>10, Zenon DEF WayInv, i, j
<1>13. /\ ~Has(r, Cmd("OPEN", i)) /\ Has(r, x) /\ Has(r, y)
       /\ Has(r, Cmd("OPEN_ACK", j)) <=> Has(q, Cmd("OPEN_ACK", j))
       /\ Has(r, Cmd("OPEN_ACK", 0)) <=> Has(q, Cmd("OPEN_ACK", 0))
  BY <1>5, <1>8, <1>9, <1>11, Zenon
<1>q. QED
  BY <1>6, <1>12, <1>13, Zenon DEF ClosesBoth, Opening, Closing, Closed, Acked, Zero, On, q, i, j, x, y

\* qcom_glink_rx_close of the side that answers: the device of the channel goes, a
\* bound driver closes its end, and the id of a is taken out of rcids.
LEMMA AnswerTakesClose ==
  ASSUME NEW a, NEW b, Ends(a, b), RxClose(b), Frame(a)
  PROVE  EndsInv(a, b)'
<1> DEFINE x == Head(rx_queue[b])
           e == EndpointChannel(b, nch[b])
<1>0. FunType /\ a \in Side /\ b \in Side /\ a # b /\ Peer[b] = a /\ SideType(a) /\ SideType(b)
      /\ IdsInv(b, a) /\ Same(a) /\ WayInv(b, a) /\ WayInv(a, b) /\ IdInv(a, b) /\ IdInv(b, a) /\ Core(a)
      /\ ChanInv(b, a) /\ AnswerInv(a, b) /\ PairInv(a, b) /\ bound' = bound /\ slow' = slow
  BY IdsSwap, Zenon DEF Ends, IdsInv, Frame, Same
<1>1. /\ wpc[b] = "idle" /\ rx_queue[b] # <<>> /\ x.cmd = "CLOSE"
      /\ rx_queue' = [rx_queue EXCEPT ![b] = Tail(rx_queue[b])]
      /\ nch' = nch /\ next_id' = next_id /\ lcids' = lcids
      /\ upc' = upc /\ uch' = uch /\ wpc' = wpc /\ wch' = wch /\ wcmd' = wcmd
  BY Zenon DEF RxClose, Taken, user, worker
<1>2. rx_queue'[b] = Tail(rx_queue[b])
  BY <1>0, <1>1, Zenon DEF FunType
<1>3. fifo'[b] = fifo[b]
  BY <1>0, Zenon DEF RxClose, Send, FunType, wire
<1>4. Takes(b, a, x)
  BY <1>0, <1>1, <1>2, <1>3, WorkerTakes, Zenon
<1>5. x.id = Last(a) /\ Closing(a, b) /\ ~Opening(a, b) /\ ~Acked(b) /\ ~Zero(b) /\ rx_queue'[b] \in Seq(Command)
  BY <1>1, <1>4, Zenon DEF Takes
<1>6. InL(a) /\ ~Closed(a) /\ InR(a, b) /\ ~Using(a)
  BY <1>0, <1>5, Zenon DEF IdInv, Life
<1>7. nch[b] \in Id /\ nch[b] # 0 /\ rcids[b][Last(a)] = nch[b] /\ Cur(b).rcid = Last(a) /\ Last(a) \in DOMAIN rcids[b]
      /\ DOMAIN rcids[b] \subseteq {Last(a)}
  BY <1>6, EnteredId, Zenon
<1>8. upc[a] # "wait_local" /\ ~Opening(b, a) /\ ~Acked(a) /\ ~Unopened(a, b)
  <2>1. upc[a] # "wait_local"
    BY <1>6 DEF Using
  <2>q. QED
    BY <2>1, <1>0, Zenon DEF PairInv, Fresh
<1>9. /\ upc[b] # "remote" /\ dev[b] \in {0, nch[b]}
      /\ Cur(b).rpdev <=> dev[b] # 0
  BY <1>0, <1>6, <1>7, <1>8, Zenon DEF AnswerInv, Unopened
<1>10. e <=> bound[b] /\ dev[b] # 0 /\ Cur(b).cb
  BY <1>9 DEF EndpointChannel, Cur
<1>11. e => /\ Using(b) /\ InL(b) /\ ~Closing(b, a) /\ ~Closed(b) /\ upc[b] = "idle" /\ dev[b] = nch[b]
            /\ Cur(b).lcid = Last(b)
  <2>1. e => Using(b) /\ upc[b] = "idle" /\ dev[b] = nch[b]
    BY <1>0, <1>7, <1>9, <1>10, Zenon DEF Using, AnswerInv
  <2>2. Using(b) => InL(b) /\ ~Closing(b, a) /\ ~Closed(b)
    BY <1>0, Zenon DEF IdInv, Life
  <2>q. QED
    BY <2>1, <2>2, <1>0, Zenon DEF ChanInv
<1>12. /\ Send(b, DropCmds(b, nch[b]) \o <<Cmd("CLOSE_ACK", ch[b][nch[b]].rcid)>>)
       /\ rcids' = [rcids EXCEPT ![b] = Remove(@, ch[b][nch[b]].rcid)]
       /\ ch' = [ch EXCEPT ![b] = [DropDevice(b, nch[b])[b] EXCEPT ![nch[b]] = Put([@ EXCEPT !.rcid = 0])]]
       /\ dev' = IF ch[b][nch[b]].rpdev THEN [dev EXCEPT ![b] = 0] ELSE dev
  BY <1>5, <1>7, Zenon DEF RxClose
<1>13. Cmd("CLOSE_ACK", Last(a)) \in Command /\ Last(a) \in Nat /\ Cmd("CLOSE", Last(b)) \in Command
  BY <1>0, WayType, Zenon DEF Cmd, Command, Cmds
<1>14. /\ e => fifo'[a] = fifo[a] \o <<Cmd("CLOSE", Last(b)), Cmd("CLOSE_ACK", Last(a))>>
       /\ ~e => fifo'[a] = fifo[a] \o <<Cmd("CLOSE_ACK", Last(a))>>
  <2> DEFINE k == DropCmds(b, nch[b]) \o <<Cmd("CLOSE_ACK", Last(a))>>
  <2>1. Send(b, k)
    BY <1>7, <1>12, Zenon DEF Cur
  <2>2. ASSUME e PROVE k = <<Cmd("CLOSE", Last(b)), Cmd("CLOSE_ACK", Last(a))>>
    <3>1. DropCmds(b, nch[b]) = <<Cmd("CLOSE", Last(b))>>
      BY <2>2, <1>11, Zenon DEF DropCmds, Close, Cur
    <3>2. \A y, z \in Command : <<y>> \o <<z>> = <<y, z>>
      <4> TAKE y, z \in Command
      <4>0. <<>> \in Seq(Command)
        OBVIOUS
      <4>1. <<y>> \o <<z>> = Append(<<y>>, z) /\ <<>> \o <<y>> = Append(<<>>, y) /\ <<>> \o <<y>> = <<y>>
        BY <4>0, Joined, Zenon
      <4>2. <<>> \o <<y, z>> = Append(Append(<<>>, y), z) /\ <<>> \o <<y, z>> = <<y, z>>
        BY <4>0, Joined, JoinedTwo, Zenon
      <4>q. QED
        BY <4>1, <4>2, Zenon
    <3>q. QED
      BY <3>1, <3>2, <1>13, Zenon
  <2>3. ASSUME ~e PROVE k = <<Cmd("CLOSE_ACK", Last(a))>>
    <3>1. DropCmds(b, nch[b]) = <<>>
      BY <2>3, Zenon DEF DropCmds
    <3>q. QED
      BY <3>1
  <2>4. fifo'[a] = fifo[a] \o k
    BY <2>1, <1>0, Zenon DEF Send, FunType
  <2>q. QED
    BY <2>2, <2>3, <2>4, Zenon
<1> HIDE DEF e
<1>15. rcids'[b] = Remove(rcids[b], Last(a)) /\ dev'[b] = 0
  <2>1. rcids' = [rcids EXCEPT ![b] = Remove(rcids[b], Last(a))]
    BY <1>7, <1>12, Zenon DEF Cur
  <2>2. ~ch[b][nch[b]].rpdev => dev[b] = 0
    BY <1>9, Zenon DEF Cur
  <2>3. dev'[b] = 0
    BY <2>2, <1>0, <1>12, Zenon DEF FunType
  <2>q. QED
    BY <2>1, <2>3, <1>0, Zenon DEF FunType
<1>16. DOMAIN rcids'[b] = {}
  BY <1>7, <1>15, Removed, Zenon
<1>17. RemoteOut(b, nch[b])
  BY <1>0, <1>7, <1>9, <1>12, RemoteReleased, Zenon
<1>18. ~Made(b) /\ ~Made(b)'
  BY <1>0, <1>1, Zenon DEF Made, Making, AnswerInv
<1>19. Cur(b).refs = Num(InL(b)) + 1
  <2>1. Num(InR(a, b)) = 1 /\ Num(Made(b)) = 0 /\ Num(InL(b)) \in {0, 1}
    BY <1>6, <1>18, Counts, Zenon
  <2>2. Cur(b).refs = Num(InL(b)) + Num(InR(a, b)) + Num(Made(b))
    BY <1>0, <1>7, Zenon DEF ChanInv
  <2>q. QED
    BY <2>1, <2>2
<1>20. /\ ch'[b] \in [Id -> Channel] /\ \A d \in Id : d # nch[b] => ch'[b][d] = ch[b][d]
       /\ Cur(b)'.refs = Num(InL(b)) /\ Cur(b)'.rcid = 0 /\ ~Cur(b)'.rpdev
       /\ InL(b) => /\ Cur(b)'.lcid = Cur(b).lcid /\ Cur(b)'.open_ack = Cur(b).open_ack
                    /\ Cur(b)'.cb <=> Cur(b).cb /\ ~e
       /\ ~InL(b) => Cur(b)'.lcid = 0 /\ ~Cur(b)'.cb
  <2>1. Cur(b) = ch[b][nch[b]] /\ Cur(b)' = ch'[b][nch[b]]
    BY <1>1, Zenon DEF Cur
  <2>2. (InL(b) => Cur(b).refs # 1) /\ (~InL(b) => Cur(b).refs = 1) /\ Cur(b).refs - 1 = Num(InL(b))
    BY <1>19 DEF Num
  <2>q. QED
    BY <2>1, <2>2, <1>17, Zenon DEF RemoteOut, e
<1>21. Last(a)' = Last(a) /\ Last(b)' = Last(b) /\ lcids'[a] = lcids[a] /\ rcids'[a] = rcids[a]
  BY <1>0, <1>1, Zenon DEF Last, Core
<1>22. (InL(b)' <=> InL(b)) /\ (InR(b, a)' <=> InR(b, a)) /\ ~InR(a, b)'
  BY <1>1, <1>16, <1>21 DEF InL, InR
<1>23. /\ Cur(a)' = Cur(a) /\ Held(a)' = Held(a) /\ (InL(a)' <=> InL(a)) /\ (Using(a)' <=> Using(a))
       /\ ChanInv(a, b)'
  BY <1>0, <1>21, <1>22, Rest, Zenon DEF IdsInv
<1>24. /\ e => Way(a)' = Append(Append(Way(a), Cmd("CLOSE", Last(b))), Cmd("CLOSE_ACK", Last(a)))
       /\ ~e => Way(a)' = Append(Way(a), Cmd("CLOSE_ACK", Last(a)))
       /\ fifo'[a] \in Seq(Command)
  BY <1>0, <1>13, <1>14, <1>23, WaySend, Zenon DEF Same
<1>25. SideType(a)' /\ SideType(b)'
  <2>1. SideType(a)'
    BY <1>0, <1>24, RestType, Zenon
  <2>2. SideType(b)'
    BY <1>0, <1>1, <1>3, <1>5, <1>20, Zenon DEF SideType
  <2>q. QED
    BY <2>1, <2>2
<1>26. /\ WayInv(b, a)' /\ ~Opening(b, a)' /\ Closed(a)' /\ ~Acked(a)'
       /\ Closing(b, a)' <=> Closing(b, a) \/ e
       /\ Zero(a)' <=> Zero(a)
  <2>1. CASE e
    <3>1. ClosesBoth(b, a)
      BY <2>1, <1>0, <1>6, <1>8, <1>11, <1>21, <1>24, SendsBoth, Zenon
    <3>q. QED
      BY <2>1, <3>1, <1>8, Zenon DEF ClosesBoth
  <2>2. CASE ~e
    <3>1. Cmd("CLOSE_ACK", Last(a)) \in Sent(Last(b), Last(a)) /\ "CLOSE_ACK" \in Cmds /\ ~On(a, "CLOSE_ACK", Last(a))
      BY <1>6, Zenon DEF Sent, Cmds, Closed
    <3>2. WayInv(b, a)' /\ More(b, a, "CLOSE_ACK", Last(a))
      BY <2>2, <3>1, <1>0, <1>8, <1>13, <1>21, <1>24, WayMore, Zenon
    <3>q. QED
      BY <2>2, <3>2, <1>8 DEF More
  <2>q. QED
    BY <2>1, <2>2, Zenon
<1>27. WayInv(a, b)' /\ Less(a, b, "CLOSE", Last(a))
  <2>1. Held(b)' = <<>>
    BY <1>1 DEF Held
  <2>q. QED
    BY <2>1, <1>1, <1>4, <1>5, <1>21, Zenon DEF Takes
<1>28. /\ ~Opening(a, b)' /\ ~Closing(a, b)' /\ ~Acked(b)' /\ ~Zero(b)'
       /\ Closed(b)' <=> Closed(b)
  BY <1>5, <1>27 DEF Less
<1>29. Using(b)' <=> Using(b) /\ ~e
  <2>1. ~InL(b) => ~Using(b)
    BY <1>0, Zenon DEF IdInv, Life
  <2>2. CASE e
    BY <2>2, <1>1, <1>7, <1>11, <1>20, Zenon DEF Using
  <2>3. CASE ~e /\ InL(b)
    BY <2>3, <1>1, <1>7, <1>20, Zenon DEF Using
  <2>4. CASE ~e /\ ~InL(b)
    <3>1. ~(upc[b] \in {"wait_local", "wait_remote", "open"})
      BY <2>1, <2>4, Zenon DEF Using
    <3>q. QED
      BY <2>1, <2>4, <3>1, <1>1, <1>20 DEF Using
  <2>q. QED
    BY <2>2, <2>3, <2>4, Zenon
<1>30. IdInv(a, b)'
  BY <1>0, <1>6, <1>16, <1>21, <1>22, <1>23, <1>26, <1>28, Zenon DEF IdInv, Life
<1>31. IdInv(b, a)'
  <2>1. CASE e
    <3>1. InL(b) /\ ~Closed(b) /\ ~Using(b)' /\ Closing(b, a)'
      BY <2>1, <1>11, <1>26, <1>29, Zenon
    <3>q. QED
      BY <3>1, <1>0, <1>1, <1>8, <1>21, <1>22, <1>26, <1>28, Zenon DEF IdInv, Life
  <2>2. CASE ~e
    BY <2>2, <1>0, <1>1, <1>8, <1>21, <1>22, <1>26, <1>28, <1>29, IdKept, Zenon
  <2>q. QED
    BY <2>1, <2>2, Zenon
<1>32. ChanInv(b, a)'
  <2>1. Cur(b)'.refs = Num(InL(b))' + Num(InR(a, b))' + Num(Made(b))'
    BY <1>18, <1>20, <1>22 DEF Num
  <2>2. (InL(b) => lcids[b][Last(b)] = nch[b] /\ Cur(b).lcid = Last(b)) /\ \A d \in Id : d # nch[b] => ch[b][d].refs = 0
    BY <1>0, Zenon DEF ChanInv
  <2>q. QED
    BY <2>1, <2>2, <1>1, <1>7, <1>20, <1>21, <1>22, Zenon DEF ChanInv
<1>33. OpenerInv(a, b)'
  BY <1>0, <1>21, <1>22, <1>26, RestOpener, Zenon DEF Ends
<1>34. AnswerInv(a, b)'
  <2>1. upc[b] = "open" => InL(b) /\ Cur(b).cb /\ ~e
    <3>1. upc[b] = "open" => InL(b)
      BY <1>0, Zenon DEF Using, IdInv, Life
    <3>2. upc[b] = "open" => Cur(b).cb /\ ~bound[b]
      BY <1>0, Zenon DEF AnswerInv
    <3>q. QED
      BY <3>1, <3>2, <1>10, Zenon
  <2>2. Cur(b)'.cb => upc[b] = "open" /\ Cur(b)'.open_ack
    <3>1. Cur(b)'.cb => InL(b) /\ Cur(b).cb /\ ~e
      BY <1>20, Zenon
    <3>2. Cur(b).cb /\ ~e => upc[b] = "open" /\ Cur(b).open_ack
      BY <1>0, <1>7, <1>10, Zenon DEF AnswerInv
    <3>q. QED
      BY <3>1, <3>2, <1>20, Zenon
  <2>3. upc[b] = "open" => Cur(b)'.cb
    BY <2>1, <1>20, Zenon
  <2>q. QED
    BY <2>2, <2>3, <1>0, <1>1, <1>9, <1>15, <1>20, <1>22, Zenon DEF AnswerInv
<1>35. ~Unopened(a, b)'
  BY <1>22, Zenon DEF Unopened
<1>36. PairInv(a, b)'
  BY <1>1, <1>8, <1>22, <1>26, <1>28, <1>35, Zenon DEF PairInv
<1>q. QED
  BY <1>23, <1>25, <1>26, <1>27, <1>30, <1>31, <1>32, <1>33, <1>34, <1>36, Zenon DEF EndsInv, IdsInv

-----------------------------------------------------------------------------
(* The invariant is inductive. *)

\* Each step of a, of b, and of a side of another pair.
LEMMA OpenerSteps ==
  ASSUME NEW a, NEW b, Ends(a, b), Step(a)
  PROVE  EndsInv(a, b)'
<1>0. FunType /\ a \in Side /\ b \in Side /\ b # a /\ OpenerInv(a, b)
  BY Zenon DEF Ends
<1>1. Frame(b)
  BY <1>0, Local, Zenon DEF Frame
<1>2. ~CreateRemote(a) /\ ~RemoteDone(a) /\ ~RemoteTimeout(a)
  BY <1>0 DEF OpenerInv, CreateRemote, RemoteDone, RemoteTimeout
<1>3. ~Probe(a) /\ ~ProbeDone(a) /\ ~ProbeTimeout(a)
  BY <1>0 DEF OpenerInv, Probe, ProbeDone, ProbeTimeout
<1>4. \/ CreateEpt(a) \/ CreateLocal(a) \/ LocalDone(a) \/ DestroyEpt(a) \/ Interrupt(a) \/ InterruptEnd(a)
      \/ RxOpen(a) \/ RxOpenInsert(a) \/ RxClose(a) \/ RxCloseAck(a)
  BY <1>2, <1>3, Zenon DEF Step, UserStep, WorkerStep
<1>5. CASE CreateEpt(a)
  BY <1>1, <1>5, OpenerPrepares, Zenon
<1>6. CASE CreateLocal(a)
  BY <1>1, <1>6, OpenerOpens, Zenon
<1>7. CASE LocalDone(a)
  BY <1>1, <1>7, OpenerDone, Zenon
<1>8. CASE DestroyEpt(a)
  BY <1>1, <1>8, OpenerCloses, Zenon
<1>9. CASE Interrupt(a)
  BY <1>1, <1>9, OpenerHears, Zenon
<1>10. CASE InterruptEnd(a)
  BY <1>10, HearingEnds, Zenon
<1>11. CASE RxOpen(a)
  BY <1>1, <1>11, OpenerTakesOpen, Zenon
<1>12. CASE RxOpenInsert(a)
  BY <1>1, <1>12, OpenerEnters, Zenon
<1>13. CASE RxClose(a)
  BY <1>1, <1>13, OpenerTakesClose, Zenon
<1>14. CASE RxCloseAck(a)
  BY <1>1, <1>14, OpenerTakesCloseAck, Zenon
<1>q. QED
  BY <1>4, <1>5, <1>6, <1>7, <1>8, <1>9, <1>10, <1>11, <1>12, <1>13, <1>14, Zenon

\* The same for b: no step of create_local is one of its steps.
LEMMA AnswerSteps ==
  ASSUME NEW a, NEW b, Ends(a, b), Step(b)
  PROVE  EndsInv(a, b)'
<1>0. FunType /\ a \in Side /\ b \in Side /\ a # b /\ AnswerInv(a, b)
  BY Zenon DEF Ends
<1>1. Frame(a)
  BY <1>0, Local, Zenon DEF Frame
<1>2. ~CreateLocal(b) /\ ~LocalDone(b)
  BY <1>0 DEF AnswerInv, CreateLocal, LocalDone
<1>4. \/ CreateEpt(b) \/ CreateRemote(b) \/ RemoteDone(b) \/ DestroyEpt(b) \/ Interrupt(b) \/ InterruptEnd(b)
      \/ RxOpen(b) \/ RxOpenInsert(b) \/ Probe(b) \/ ProbeDone(b) \/ RxClose(b) \/ RxCloseAck(b)
      \/ RemoteTimeout(b) \/ ProbeTimeout(b)
  BY <1>2, Zenon DEF Step, UserStep, WorkerStep
<1>5. CASE CreateEpt(b)
  BY <1>1, <1>5, AnswerPrepares, Zenon
<1>6. CASE CreateRemote(b)
  BY <1>1, <1>6, ThreadOpens, Zenon
<1>7. CASE RemoteDone(b)
  BY <1>1, <1>7, ThreadDone, Zenon
<1>8. CASE DestroyEpt(b)
  BY <1>1, <1>8, ThreadCloses, Zenon
<1>9. CASE Interrupt(b)
  BY <1>1, <1>9, AnswerHears, Zenon
<1>10. CASE InterruptEnd(b)
  BY <1>10, HearingEnds, Zenon
<1>11. CASE RxOpen(b)
  BY <1>1, <1>11, AnswerTakesOpen, Zenon
<1>12. CASE RxOpenInsert(b)
  BY <1>1, <1>12, AnswerEnters, Zenon
<1>13. CASE Probe(b)
  BY <1>1, <1>13, DriverOpens, Zenon
<1>14. CASE ProbeDone(b)
  BY <1>1, <1>14, DriverDone, Zenon
<1>15. CASE RxClose(b)
  BY <1>1, <1>15, AnswerTakesClose, Zenon
<1>16. CASE RxCloseAck(b)
  BY <1>1, <1>16, AnswerTakesCloseAck, Zenon
<1>17. CASE RemoteTimeout(b)
  BY <1>1, <1>17, ThreadTimesOut, Zenon
<1>18. CASE ProbeTimeout(b)
  BY <1>1, <1>18, DriverTimesOut, Zenon
<1>q. QED
  BY <1>4, <1>5, <1>6, <1>7, <1>8, <1>9, <1>10, <1>11, <1>12, <1>13, <1>14, <1>15, <1>16, <1>17, <1>18, Zenon

\* A step of another pair touches neither side nor their fifos.
LEMMA OtherSteps ==
  ASSUME NEW a, NEW b, Ends(a, b), NEW s \in Side, Step(s), s # a, s # b
  PROVE  EndsInv(a, b)'
<1>1. FunType /\ a \in Side /\ b \in Side /\ Peer[a] = b /\ Peer[b] = a
  BY Zenon DEF Ends
<1>2. Peer[s] # a /\ Peer[s] # b
  BY <1>1, GlinkChannelAssumption, Zenon
<1>3. /\ Same(a) /\ Same(b) /\ fifo'[a] = fifo[a] /\ fifo'[b] = fifo[b] /\ bound' = bound /\ slow' = slow
  BY <1>1, <1>2, Local, Zenon
<1>4. Core(a) /\ Core(b) /\ Way(a)' = Way(a) /\ Way(b)' = Way(b)
      /\ rx_queue'[a] = rx_queue[a] /\ rx_queue'[b] = rx_queue[b]
  BY <1>3, Zenon DEF Same, Core, Way, Held
<1>q. QED
  BY <1>3, <1>4, Unmoved, Zenon DEF Ends, IdsInv, SideType

\* The two sides of a pair, by which of them opens.
LEMMA Pairs ==
  ASSUME OneOpener, IInv, NEW a \in Openers
  PROVE  Ends(a, Peer[a])
<1>1. a \in Side /\ Peer[a] \in Side /\ Peer[a] # a /\ Peer[Peer[a]] = a
  BY GlinkChannelAssumption
<1>q. QED
  BY <1>1, Zenon DEF OneOpener, IInv, Ends, EndsInv

\* A step is one of a side, and no wait of create_local expires.
LEMMA Steps ==
  ASSUME OneOpener, Next
  PROVE  \E s \in Side : Step(s)
<1>1. \A s \in Side : ~LocalTimeout(s)
  BY Zenon DEF OneOpener, LocalTimeout
<1>q. QED
  BY <1>1, Zenon DEF Next, Timeout, Step

\* Every step keeps the invariant of every pair.
LEMMA IInvStep ==
  ASSUME OneOpener, IInv, [Next]_vars
  PROVE  IInv'
<1>1. CASE Next
  <2>1. PICK s \in Side : Step(s)
    BY <1>1, Steps, Zenon
  <2>2. FunType'
    BY <2>1, Local, Zenon DEF IInv
  <2>3. ASSUME NEW a \in Openers PROVE EndsInv(a, Peer[a])'
    <3>1. Ends(a, Peer[a])
      BY Pairs, Zenon
    <3>2. CASE s = a
      BY <2>1, <3>1, <3>2, OpenerSteps, Zenon
    <3>3. CASE s = Peer[a]
      BY <2>1, <3>1, <3>3, AnswerSteps, Zenon
    <3>4. CASE s # a /\ s # Peer[a]
      BY <2>1, <3>1, <3>4, OtherSteps, Zenon
    <3>5. EndsInv(a, Peer[a])'
      BY <3>2, <3>3, <3>4, Zenon
    <3>q. QED
      BY <3>5
  <2>4. (\A a \in Openers : EndsInv(a, Peer[a]))'
    BY <2>3, Zenon
  <2>q. QED
    BY <2>2, <2>4, Zenon DEF IInv
<1>2. CASE vars' = vars
  <2>1. /\ bound' = bound /\ slow' = slow /\ slow_local' = slow_local /\ ch' = ch /\ nch' = nch /\ next_id' = next_id /\ lcids' = lcids
        /\ rcids' = rcids /\ dev' = dev /\ fifo' = fifo /\ rx_queue' = rx_queue
        /\ upc' = upc /\ uch' = uch /\ wpc' = wpc /\ wch' = wch /\ wcmd' = wcmd
    BY <1>2, Zenon DEF vars, config, tables, wire, recv, user, worker
  <2>2. FunType'
    BY <2>1, Zenon DEF IInv, FunType
  <2>3. ASSUME NEW a \in Openers PROVE EndsInv(a, Peer[a])'
    <3>1. Ends(a, Peer[a])
      BY Pairs, Zenon
    <3> DEFINE b == Peer[a]
    <3>2. Core(a) /\ Core(b) /\ Way(a)' = Way(a) /\ Way(b)' = Way(b)
      BY <2>1, Zenon DEF Core, Way, Held
    <3>3. /\ rx_queue'[a] \in Seq(Command) /\ rx_queue'[b] \in Seq(Command)
          /\ fifo'[a] \in Seq(Command) /\ fifo'[b] \in Seq(Command)
      BY <2>1, <3>1, Zenon DEF Ends, IdsInv, SideType
    <3> HIDE DEF b
    <3>4. Ends(a, b)
      BY <3>1, Zenon DEF b
    <3>5. EndsInv(a, b)'
      BY <2>1, <3>2, <3>3, <3>4, Unmoved, Zenon
    <3>q. QED
      BY <3>5, Zenon DEF b
  <2>4. (\A a \in Openers : EndsInv(a, Peer[a]))'
    BY <2>3, Zenon
  <2>q. QED
    BY <2>2, <2>4, Zenon DEF IInv
<1>q. QED
  BY <1>1, <1>2, Zenon

\* Init: nothing is on its way, no id is entered.
LEMMA IInvInit ==
  ASSUME OneOpener, Init
  PROVE  IInv
<1>0. FunType
  BY DEF Init, FunType, OneOpener
<1>1. ASSUME NEW a \in Openers PROVE EndsInv(a, Peer[a])
  <2> DEFINE b == Peer[a]
  <2>0. a \in Side /\ b \in Side /\ a # b /\ MAXCH \in Nat
    BY GlinkChannelAssumption
  <2> HIDE DEF b
  <2>1. ASSUME NEW s \in Side
        PROVE  /\ nch[s] = 0 /\ next_id[s] = 1 /\ lcids[s] = <<>> /\ rcids[s] = <<>> /\ dev[s] = 0
               /\ fifo[s] = <<>> /\ rx_queue[s] = <<>> /\ upc[s] = "idle" /\ uch[s] = 0 /\ wpc[s] = "idle"
               /\ ch[s] = [c \in Id |-> Unused]
    BY DEF Init
  <2>2. ASSUME NEW s \in Side
        PROVE  /\ SideType(s) /\ Last(s) = 0 /\ ~InL(s) /\ ~Using(s)
               /\ \A c \in Id : ch[s][c].refs = 0
    <3>1. Unused \in Channel /\ Unused.refs = 0
      BY FieldsUnused
    <3>2. ch[s] \in [Id -> Channel] /\ \A c \in Id : ch[s][c].refs = 0
      BY <2>1, <3>1
    <3>3. SideType(s)
      <4>1. 0 \in 0 .. MAXCH /\ 1 \in 1 .. MAXCH + 1 /\ <<>> \in Seq(Command)
        BY <2>0
      <4>2. "idle" \notin {"insert", "create"}
        OBVIOUS
      <4>q. QED
        BY <4>1, <4>2, <2>1, <3>2, Zenon DEF SideType
    <3>q. QED
      BY <2>1, <3>2, <3>3 DEF Last, InL, Using
  <2>3. ASSUME NEW s \in Side, NEW t \in Side PROVE ~InR(s, t)
    BY <2>1, <2>3 DEF InR
  <2>4. ASSUME NEW t \in Side
        PROVE  Way(t) = <<>> /\ (\A m : ~Has(Way(t), m)) /\ \A c, n : ~On(t, c, n)
    <3>1. Way(t) = <<>>
      BY <2>1 DEF Way, Held
    <3>2. \A m : ~Has(<<>>, m)
      BY DEF Has
    <3>q. QED
      BY <3>1, <3>2, Zenon DEF On
  <2>5. ASSUME NEW s \in Side, NEW t \in Side PROVE WayInv(s, t)
    <3>1. \A m, n : Before(Way(t), m, n)
      BY <2>4, <2>5, Absent, Zenon
    <3>2. Once(Way(t))
      BY <2>4, <2>5 DEF Once
    <3>q. QED
      BY <3>1, <3>2, <2>4, <2>5, Zenon DEF WayInv, QueueInv
  <2>6. ASSUME NEW s \in Side, NEW t \in Side PROVE IdInv(s, t) /\ ChanInv(s, t)
    <3>1. ~Opening(s, t) /\ ~Closing(s, t) /\ ~Closed(s)
      BY <2>4, <2>6, Zenon DEF Opening, Closing, Closed
    <3>2. Life(InL(s), InR(s, t), Opening(s, t), Closing(s, t), Closed(s), Using(s))
      BY <3>1, <2>2, <2>3, <2>6, Zenon DEF Life
    <3>3. DOMAIN lcids[s] = {} /\ DOMAIN rcids[t] = {}
      BY <2>1, <2>6
    <3>4. IdInv(s, t)
      BY <3>2, <3>3, <2>2, <2>6, Zenon DEF IdInv
    <3>5. ChanInv(s, t)
      BY <2>1, <2>2, <2>3, <2>6, Zenon DEF ChanInv
    <3>q. QED
      BY <3>4, <3>5
  <2>7. IdsInv(a, b)
    BY <2>0, <2>2, <2>5, <2>6, Zenon DEF IdsInv
  <2>8. /\ ~Opening(a, b) /\ ~Opening(b, a) /\ ~Acked(a) /\ ~Acked(b) /\ ~Zero(a) /\ ~Zero(b) /\ ~InR(a, b) /\ ~InR(b, a)
    BY <2>0, <2>3, <2>4, Zenon DEF Opening, Acked, Zero
  <2>9. bound[a] = FALSE
    BY <2>0 DEF Init
  <2>10. OpenerInv(a, b)
    BY <2>0, <2>1, <2>8, <2>9 DEF OpenerInv
  <2>11. AnswerInv(a, b)
    BY <2>0, <2>1, <2>8 DEF AnswerInv
  <2>12. PairInv(a, b)
    BY <2>0, <2>1, <2>8 DEF PairInv, Unopened
  <2>q. QED
    BY <2>7, <2>10, <2>11, <2>12, Zenon DEF EndsInv, b
<1>q. QED
  BY <1>0, <1>1, Zenon DEF IInv

\* What the invariant says of a side, whichever of its pair it is.
LEMMA EachSide ==
  ASSUME OneOpener, IInv, NEW s \in Side
  PROVE  /\ IdsInv(s, Peer[s]) /\ Peer[s] \in Side /\ Peer[s] # s /\ Peer[Peer[s]] = s
         /\ Ends(s, Peer[s]) \/ Ends(Peer[s], s)
<1>1. Peer[s] \in Side /\ Peer[s] # s /\ Peer[Peer[s]] = s
  BY GlinkChannelAssumption
<1>2. CASE s \in Openers
  BY <1>1, <1>2, Pairs, Zenon DEF Ends
<1>3. CASE s \notin Openers
  <2>1. Peer[s] \in Openers
    BY <1>3, Zenon DEF OneOpener
  <2>2. Ends(Peer[s], s)
    BY <2>1, <1>1, Pairs, Zenon
  <2>q. QED
    BY <2>2, <1>1, IdsSwap, Zenon DEF Ends
<1>q. QED
  BY <1>2, <1>3, Zenon

\* The fields have their types, and no reference count leaves 0 .. 3.
LEMMA Typed ==
  ASSUME OneOpener, IInv
  PROVE  TypeOK
<1> DEFINE Chan == [refs : 0 .. 3, lcid : 0 .. MAXCH, rcid : 0 .. MAXCH, open_ack : BOOLEAN,
                    open_req : BOOLEAN, rpdev : BOOLEAN, cb : BOOLEAN]
<1>0. FunType /\ MAXCH \in Nat
  BY GlinkChannelAssumption, Zenon DEF IInv
<1>1. ASSUME NEW s \in Side
      PROVE  /\ ch[s] \in [Id -> Chan] /\ nch[s] \in 0 .. MAXCH /\ next_id[s] \in 1 .. MAXCH + 1
             /\ DOMAIN lcids[s] \subseteq Id /\ DOMAIN rcids[s] \subseteq Id /\ dev[s] \in 0 .. MAXCH
             /\ upc[s] \in {"idle", "local", "remote", "wait_local", "wait_remote", "open"}
             /\ wpc[s] \in {"idle", "insert", "create", "probe", "wait"}
  <2> DEFINE t == Peer[s]
  <2>1. IdsInv(s, t) /\ (Ends(s, t) \/ Ends(t, s))
    BY EachSide, Zenon
  <2> HIDE DEF t
  <2>2. SideType(s) /\ IdInv(s, t) /\ IdInv(t, s) /\ ChanInv(s, t)
    BY <2>1, Zenon DEF IdsInv
  <2>3. ch[s] \in [Id -> Channel] /\ nch[s] \in 0 .. MAXCH /\ next_id[s] \in 1 .. MAXCH + 1
    BY <2>2, Zenon DEF SideType
  <2>4. \A c \in Id : ch[s][c].refs \in 0 .. 3
    <3>1. \A p : Num(p) \in {0, 1}
      BY DEF Num
    <3>2. ASSUME NEW c \in Id PROVE ch[s][c].refs \in 0 .. 3
      <4>1. CASE c = nch[s]
        <5>1. c # 0
          BY DEF Id
        <5>2. ch[s][c].refs = Num(InL(s)) + Num(InR(t, s)) + Num(Made(s))
          BY <4>1, <5>1, <2>2, Zenon DEF ChanInv, Cur
        <5>q. QED
          BY <5>2, <3>1
      <4>2. CASE c # nch[s]
        <5>1. ch[s][c].refs = 0
          BY <4>2, <2>2, Zenon DEF ChanInv
        <5>q. QED
          BY <5>1
      <4>q. QED
        BY <4>1, <4>2
    <3>q. QED
      BY <3>2
  <2>5. \A r \in Channel : r.refs \in 0 .. 3 => r \in Chan
    BY DEF Channel
  <2>6. ch[s] \in [Id -> Chan]
    <3> HIDE DEF Chan
    <3>q. QED
      BY <2>3, <2>4, <2>5
  <2>7. DOMAIN lcids[s] \subseteq Id /\ DOMAIN rcids[s] \subseteq Id
    <3>1. DOMAIN lcids[s] \subseteq {Last(s)} /\ (Last(s) \in DOMAIN lcids[s] => Last(s) \in Id)
      BY <2>2, Zenon DEF IdInv, InL
    <3>2. DOMAIN rcids[s] \subseteq {Last(t)} /\ (Last(t) \in DOMAIN rcids[s] => Last(t) \in Id)
      <4>1. InR(t, s) => InL(t)
        BY <2>2, Zenon DEF IdInv, Life
      <4>q. QED
        BY <4>1, <2>2, Zenon DEF IdInv, InR
    <3>q. QED
      BY <3>1, <3>2
  <2>8. CASE Ends(s, t)
    <3>1. OpenerInv(s, t)
      BY <2>8, Zenon DEF Ends
    <3>q. QED
      BY <3>1, <2>3, <2>6, <2>7, <1>0 DEF OpenerInv
  <2>9. CASE Ends(t, s)
    <3>1. AnswerInv(t, s)
      BY <2>9, Zenon DEF Ends
    <3>q. QED
      BY <3>1, <2>3, <2>6, <2>7, <1>0 DEF AnswerInv
  <2>q. QED
    BY <2>1, <2>8, <2>9, Zenon
<1> HIDE DEF Chan
<1>2. /\ ch \in [Side -> [Id -> Chan]] /\ nch \in [Side -> 0 .. MAXCH] /\ next_id \in [Side -> 1 .. MAXCH + 1]
      /\ upc \in [Side -> {"idle", "local", "remote", "wait_local", "wait_remote", "open", "failed"}]
      /\ wpc \in [Side -> {"idle", "insert", "create", "probe", "wait"}]
  <2>1. ch = [s \in Side |-> ch[s]] /\ nch = [s \in Side |-> nch[s]] /\ next_id = [s \in Side |-> next_id[s]]
        /\ upc = [s \in Side |-> upc[s]] /\ wpc = [s \in Side |-> wpc[s]]
    BY <1>0, Zenon DEF FunType
  <2>q. QED
    BY <2>1, <1>1
<1>3. slow_local \in (IF LocalWait = "never" THEN {FALSE} ELSE BOOLEAN)
  BY <1>0, Zenon DEF FunType, OneOpener
<1>q. QED
  BY <1>1, <1>2, <1>3, Zenon DEF TypeOK, Chan

\* The number of elements of the empty set and of a set with one element.
LEMMA CardEmpty == Cardinality({}) = 0
<1> DEFINE body(f) == [T \in SUBSET {} |-> IF T = {} THEN 0 ELSE 1 + f[T \ {CHOOSE y : y \in T}]]
           CS == CHOOSE f : f = body(f)
           g == [T \in SUBSET {} |-> 0]
<1>1. g = body(g)
  OBVIOUS
<1> HIDE DEF body
<1>2. CS = body(CS)
  BY <1>1, Zenon
<1> HIDE DEF CS
<1>3. CS[{}] = 0
  BY <1>2 DEF body
<1>4. Cardinality({}) = CS[{}]
  BY DEF Cardinality, CS, body
<1>q. QED
  BY <1>3, <1>4

\* The same for one.
LEMMA CardOne ==
  ASSUME NEW x
  PROVE  Cardinality({x}) = 1
<1> DEFINE body(f) == [T \in SUBSET {x} |-> IF T = {} THEN 0 ELSE 1 + f[T \ {CHOOSE y : y \in T}]]
           CS == CHOOSE f : f = body(f)
           g == [T \in SUBSET {x} |-> IF T = {} THEN 0 ELSE 1]
<1>0. \A T \in SUBSET {x} : T = {} \/ T = {x}
  OBVIOUS
<1>c. (CHOOSE y : y \in {x}) = x
  OBVIOUS
<1>d. {x} \ {CHOOSE y : y \in {x}} = {}
  BY <1>c
<1>1. g = body(g)
  <2>1. \A T \in SUBSET {x} : g[T] = IF T = {} THEN 0 ELSE 1 + g[T \ {CHOOSE y : y \in T}]
    <3> SUFFICES ASSUME NEW T \in SUBSET {x}, T # {} PROVE g[T] = 1 + g[T \ {CHOOSE y : y \in T}]
      OBVIOUS
    <3>1. T = {x} /\ T \ {CHOOSE y : y \in T} = {}
      BY <1>0, <1>d
    <3>2. g[{}] = 0 /\ g[T] = 1
      BY <3>1
    <3>q. QED
      BY <3>1, <3>2
  <2>q. QED
    BY <2>1
<1> HIDE DEF body
<1>2. CS = body(CS)
  BY <1>1, Zenon
<1> HIDE DEF CS
<1>3. CS[{}] = 0 /\ CS[{x}] = 1 + CS[{x} \ {CHOOSE y : y \in {x}}]
  BY <1>2 DEF body
<1>4. Cardinality({x}) = CS[{x}]
  BY DEF Cardinality, CS, body
<1>q. QED
  BY <1>3, <1>4, <1>d

\* The entries of channel c in a table that has channel d under id i and no other.
LEMMA EntryCount ==
  ASSUME NEW f, NEW i, NEW c, NEW d, DOMAIN f \subseteq {i}, i \in DOMAIN f => f[i] = d
  PROVE  Entries(f, c) = Num(i \in DOMAIN f /\ c = d)
<1>1. CASE i \in DOMAIN f /\ c = d
  <2>1. {k \in DOMAIN f : f[k] = c} = {i}
    BY <1>1
  <2>q. QED
    BY <1>1, <2>1, CardOne DEF Entries, Num
<1>2. CASE ~(i \in DOMAIN f /\ c = d)
  <2>1. {k \in DOMAIN f : f[k] = c} = {}
    BY <1>2
  <2>q. QED
    BY <1>2, <2>1, CardEmpty DEF Entries, Num
<1>q. QED
  BY <1>1, <1>2

\* The reference counts are exact.
LEMMA Exact ==
  ASSUME OneOpener, IInv
  PROVE  RefsExact
<1>1. ASSUME NEW s \in Side, NEW c \in Id
      PROVE  ch[s][c].refs = Entries(lcids[s], c) + Entries(rcids[s], c) + (IF Making(s, c) THEN 1 ELSE 0)
  <2> DEFINE t == Peer[s]
  <2>1. IdsInv(s, t) /\ (Ends(s, t) \/ Ends(t, s))
    BY EachSide, Zenon
  <2> HIDE DEF t
  <2>2. SideType(s) /\ IdInv(s, t) /\ IdInv(t, s) /\ ChanInv(s, t) /\ c # 0
    BY <2>1 DEF IdsInv, Id
  <2>3. /\ DOMAIN lcids[s] \subseteq {Last(s)} /\ DOMAIN rcids[s] \subseteq {Last(t)}
        /\ Last(s) \in DOMAIN lcids[s] => lcids[s][Last(s)] = nch[s]
        /\ Last(t) \in DOMAIN rcids[s] => rcids[s][Last(t)] = nch[s]
    BY <2>2, Zenon DEF IdInv, ChanInv, InL, InR
  <2>4. /\ Entries(lcids[s], c) = Num(InL(s) /\ c = nch[s])
        /\ Entries(rcids[s], c) = Num(InR(t, s) /\ c = nch[s])
    BY <2>3, EntryCount, Zenon DEF InL, InR
  <2>5. Making(s, c) => c = nch[s]
    <3>1. CASE Ends(s, t)
      BY <3>1 DEF Ends, OpenerInv, Making
    <3>2. CASE Ends(t, s)
      BY <3>2 DEF Ends, AnswerInv, Making
    <3>q. QED
      BY <2>1, <3>1, <3>2, Zenon
  <2>6. CASE c = nch[s]
    <3>1. ch[s][c].refs = Num(InL(s)) + Num(InR(t, s)) + Num(Making(s, c))
      BY <2>2, <2>6, Zenon DEF ChanInv, Cur, Made
    <3>2. Entries(lcids[s], c) = Num(InL(s)) /\ Entries(rcids[s], c) = Num(InR(t, s))
      BY <2>4, <2>6, Zenon DEF Num
    <3>3. Num(Making(s, c)) = IF Making(s, c) THEN 1 ELSE 0
      BY Zenon DEF Num
    <3>q. QED
      BY <3>1, <3>2, <3>3, Zenon
  <2>7. CASE c # nch[s]
    <3>1. ch[s][c].refs = 0
      BY <2>2, <2>7, Zenon DEF ChanInv
    <3>2. Entries(lcids[s], c) = 0 /\ Entries(rcids[s], c) = 0 /\ ~Making(s, c)
      BY <2>4, <2>5, <2>7, Zenon DEF Num
    <3>q. QED
      BY <3>1, <3>2
  <2>q. QED
    BY <2>6, <2>7
<1>q. QED
  BY <1>1, Zenon DEF RefsExact

\* With no command on its way, both sides have an id or neither has; with no
\* thread at it, neither has.
LEMMA QuietIds ==
  ASSUME NEW s, NEW t, IdInv(s, t), Way(s) = <<>>, Way(t) = <<>>
  PROVE  /\ InL(s) <=> InR(s, t)
         /\ InL(s) => Using(s)
<1>1. \A c, n : ~On(s, c, n) /\ ~On(t, c, n)
  <2>1. \A m : ~Has(<<>>, m)
    BY DEF Has
  <2>q. QED
    BY <2>1, Zenon DEF On
<1>2. ~Opening(s, t) /\ ~Closing(s, t) /\ ~Closed(s)
  BY <1>1, Zenon DEF Opening, Closing, Closed
<1>q. QED
  BY <1>2, Zenon DEF IdInv, Life
\* With no thread at the channel neither side has an id.
LEMMA QuietIdle ==
  ASSUME NEW a, NEW b, Ends(a, b), Way(a) = <<>>, Way(b) = <<>>, upc[a] = "idle", upc[b] = "idle"
  PROVE  ~InL(a) /\ ~InL(b)
<1>0. OpenerInv(a, b) /\ AnswerInv(a, b) /\ IdInv(a, b) /\ IdInv(b, a)
  BY Zenon DEF Ends, IdsInv
<1>1. ~Using(a)
  BY <1>0 DEF OpenerInv, Using
<1>2. ~InL(a) /\ ~InR(a, b)
  BY <1>0, <1>1, QuietIds, Zenon
<1>3. ~Using(b)
  BY <1>0, <1>2, Zenon DEF AnswerInv, Using
<1>q. QED
  BY <1>0, <1>2, <1>3, QuietIds, Zenon

\* The two ends agree when nothing is on its way.
LEMMA Agree ==
  ASSUME OneOpener, IInv
  PROVE  EndsAgree
<1>1. SUFFICES ASSUME Quiet, NEW s \in Side
               PROVE  /\ DOMAIN lcids[s] = DOMAIN rcids[Peer[s]]
                      /\ \A i \in DOMAIN lcids[s] : ch[s][lcids[s][i]].rcid = ch[Peer[s]][rcids[Peer[s]][i]].lcid
                      /\ (upc[s] = "idle" /\ upc[Peer[s]] = "idle") => DOMAIN lcids[s] = {}
  BY Zenon DEF EndsAgree
<1> DEFINE t == Peer[s]
<1>2. t \in Side /\ IdsInv(s, t) /\ (Ends(s, t) \/ Ends(t, s))
  BY EachSide, Zenon
<1> HIDE DEF t
<1>3. Way(s) = <<>> /\ Way(t) = <<>>
  <2>1. ASSUME NEW u \in Side PROVE Way(u) = <<>>
    <3>1. fifo[u] = <<>> /\ rx_queue[u] = <<>> /\ wpc[u] \notin {"insert", "create"}
      BY <1>1, Zenon DEF Quiet
    <3>q. QED
      BY <3>1 DEF Way, Held
  <2>q. QED
    BY <2>1, <1>2, Zenon
<1>4. IdInv(s, t) /\ IdInv(t, s) /\ ChanInv(s, t) /\ ChanInv(t, s)
  BY <1>2, Zenon DEF IdsInv
<1>5. (InL(s) <=> InR(s, t)) /\ (InL(t) <=> InR(t, s))
  BY <1>3, <1>4, QuietIds, Zenon
<1>6. DOMAIN lcids[s] = DOMAIN rcids[t]
  <2>1. DOMAIN lcids[s] \subseteq {Last(s)} /\ DOMAIN rcids[t] \subseteq {Last(s)}
    BY <1>4, Zenon DEF IdInv
  <2>q. QED
    BY <2>1, <1>5 DEF InL, InR
<1>7. ASSUME NEW i \in DOMAIN lcids[s] PROVE ch[s][lcids[s][i]].rcid = ch[t][rcids[t][i]].lcid
  <2>1. i = Last(s) /\ InL(s) /\ InR(s, t)
    BY <1>4, <1>5, Zenon DEF IdInv, InL
  <2>2. nch[s] # 0 /\ nch[t] # 0 /\ lcids[s][i] = nch[s] /\ rcids[t][i] = nch[t]
    BY <2>1, <1>4, Zenon DEF ChanInv
  <2>3. Cur(s).rcid = Cur(t).lcid
    <3>1. CASE InL(t)
      BY <3>1, <1>4, <1>5, Zenon DEF ChanInv
    <3>2. CASE ~InL(t)
      BY <3>2, <2>2, <1>4, <1>5, Zenon DEF ChanInv
    <3>q. QED
      BY <3>1, <3>2, Zenon
  <2>q. QED
    BY <2>2, <2>3, Zenon DEF Cur
<1>8. upc[s] = "idle" /\ upc[t] = "idle" => DOMAIN lcids[s] = {}
  <2>1. upc[s] = "idle" /\ upc[t] = "idle" => ~InL(s)
    BY <1>2, <1>3, QuietIdle, Zenon
  <2>2. DOMAIN lcids[s] \subseteq {Last(s)}
    BY <1>4, Zenon DEF IdInv
  <2>q. QED
    BY <2>1, <2>2 DEF InL
<1>q. QED
  BY <1>6, <1>7, <1>8, Zenon DEF t

\* A CLOSE names an id its side has entered, a CLOSE_ACK one it has open.
LEMMA CloseKnown ==
  ASSUME NEW s, NEW t, FunType, s \in Side, Peer[s] # s, IdsInv(s, t), RxClose(s) \/ RxCloseAck(s)
  PROVE  unknown' = unknown
<1> DEFINE x == Head(rx_queue[s])
<1>0. SideType(s) /\ SideType(t) /\ WayInv(t, s) /\ IdInv(s, t) /\ IdInv(t, s)
  BY Zenon DEF IdsInv
<1>1. CASE RxClose(s)
  <2>1. /\ wpc[s] = "idle" /\ rx_queue[s] # <<>> /\ x.cmd = "CLOSE"
        /\ rx_queue' = [rx_queue EXCEPT ![s] = Tail(rx_queue[s])]
    BY <1>1, Zenon DEF RxClose, Taken
  <2>2. rx_queue'[s] = Tail(rx_queue[s]) /\ fifo'[s] = fifo[s]
    BY <2>1, <1>1, Zenon DEF RxClose, Send, FunType, wire
  <2>3. Takes(s, t, x)
    BY <1>0, <2>1, <2>2, WorkerTakes, Zenon
  <2>4. x.id = Last(t) /\ Closing(t, s) /\ ~Opening(t, s)
    BY <2>1, <2>3, Zenon DEF Takes
  <2>5. x.id \in DOMAIN rcids[s]
    BY <2>4, <1>0, Zenon DEF IdInv, Life, InR
  <2>q. QED
    BY <2>5, <1>1, Zenon DEF RxClose
<1>2. CASE RxCloseAck(s)
  <2>1. /\ wpc[s] = "idle" /\ rx_queue[s] # <<>> /\ x.cmd = "CLOSE_ACK"
        /\ rx_queue' = [rx_queue EXCEPT ![s] = Tail(rx_queue[s])]
    BY <1>2, Zenon DEF RxCloseAck, Taken
  <2>2. rx_queue'[s] = Tail(rx_queue[s]) /\ fifo'[s] = fifo[s]
    BY <2>1, <1>2, Zenon DEF RxCloseAck, Send, FunType, wire
  <2>3. Takes(s, t, x)
    BY <1>0, <2>1, <2>2, WorkerTakes, Zenon
  <2>4. x.id = Last(s) /\ Closed(s)
    BY <2>1, <2>3, Zenon DEF Takes
  <2>5. x.id \in DOMAIN lcids[s]
    BY <2>4, <1>0, Zenon DEF IdInv, Life, InL
  <2>q. QED
    BY <2>5, <1>2, Zenon DEF RxCloseAck
<1>q. QED
  BY <1>1, <1>2, Zenon

\* An OPEN_ACK that names no channel is one of id 0, to the side that answers,
\* after an open has timed out.
LEMMA AckKnown ==
  ASSUME NEW a, NEW b, Ends(a, b), NEW s \in {a, b}, NEW t \in {a, b}, s # t, Interrupt(s), Same(t),
         ~slow
  PROVE  unknown' = unknown
<1> DEFINE m == Head(fifo[s])
           bad == m.cmd = "OPEN_ACK" /\ m.id \notin DOMAIN lcids[s]
<1>0. /\ FunType /\ s \in Side /\ t \in Side /\ IdsInv(s, t) /\ IdInv(a, b) /\ IdInv(b, a)
      /\ OpenerInv(a, b) /\ PairInv(a, b) /\ (s = a \/ s = b)
  BY IdsSwap, Zenon DEF Ends, IdsInv
<1>1. Handled(s, m)
  BY Handles, Zenon
<1>2. unknown' = IF bad THEN unknown \union {m.cmd} ELSE unknown
  BY Zenon DEF Interrupt
<1>3. ASSUME m.cmd = "OPEN_ACK" PROVE m.id \in DOMAIN lcids[s]
  <2>1. On(s, "OPEN_ACK", m.id) /\ (m.id = Last(s) \/ m.id = 0)
    BY <1>0, <1>1, <1>3, AckHeard, Zenon
  <2>2. (m.id = Last(s) => Acked(s)) /\ (m.id = 0 => Zero(s))
    BY <2>1, Zenon DEF Acked, Zero
  <2>3. Acked(a) => InL(a) /\ Last(a) \in Id
    <3>1. Acked(a) => upc[a] = "wait_local"
      BY <1>0, Zenon DEF PairInv
    <3>2. upc[a] = "wait_local" => Using(a)
      BY DEF Using
    <3>q. QED
      BY <3>1, <3>2, <1>0, Zenon DEF IdInv, Life
  <2>4. 0 \notin Id
    BY DEF Id
  <2>5. CASE s = a
    <3>1. m.id = Last(a)
      BY <2>1, <2>2, <2>5, <1>0, Zenon DEF OpenerInv
    <3>q. QED
      BY <3>1, <2>2, <2>3, <2>5, Zenon DEF InL
  <2>6. CASE s = b
    <3>1. ~Zero(b)
      BY <1>0, Zenon DEF PairInv
    <3>2. m.id = Last(b) /\ Acked(b)
      BY <3>1, <2>1, <2>2, <2>6, Zenon
    <3>q. QED
      BY <3>2, <2>6, <1>0, Zenon DEF PairInv, InL
  <2>q. QED
    BY <2>5, <2>6, <1>0, Zenon
<1>q. QED
  BY <1>2, <1>3, Zenon

\* An interrupt counts no other command as unknown.
LEMMA OnlyAcks ==
  ASSUME NEW s, Interrupt(s)
  PROVE  unknown' \subseteq unknown \union {"OPEN_ACK"}
<1> DEFINE m == Head(fifo[s])
           bad == m.cmd = "OPEN_ACK" /\ m.id \notin DOMAIN lcids[s]
<1>1. unknown' = IF bad THEN unknown \union {m.cmd} ELSE unknown
  BY Zenon DEF Interrupt
<1>2. CASE bad
  <2>1. unknown' = unknown \union {"OPEN_ACK"}
    BY <1>1, <1>2, Zenon
  <2>q. QED
    BY <2>1
<1>3. CASE ~bad
  <2>1. unknown' = unknown
    BY <1>1, <1>3, Zenon
  <2>q. QED
    BY <2>1
<1>q. QED
  BY <1>2, <1>3, Zenon

\* No step adds to unknown but an OPEN_ACK after a time-out.
LEMMA KnownStep ==
  ASSUME OneOpener, IInv, CommandsKnown, [Next]_vars
  PROVE  CommandsKnown'
<1>1. ASSUME unknown' = unknown, slow' = slow, slow_local' = slow_local PROVE CommandsKnown'
  BY <1>1, Zenon DEF CommandsKnown
<1>2. CASE vars' = vars
  BY <1>1, <1>2, Zenon DEF vars, config
<1>3. CASE Next
  <2>1. PICK s \in Side : Step(s)
    BY <1>3, Steps, Zenon
  <2> DEFINE t == Peer[s]
  <2>2. FunType /\ IdsInv(s, t) /\ t \in Side /\ t # s /\ (Ends(s, t) \/ Ends(t, s))
    BY EachSide, Zenon DEF IInv
  <2>3. slow' = slow /\ slow_local' = slow_local /\ ~slow_local /\ Same(t)
    BY <2>1, <2>2, Local, Zenon DEF FunType
  <2>4. CASE Interrupt(s)
    <3>1. CASE slow
      <4>1. unknown' \subseteq unknown \union {"OPEN_ACK"}
        BY <2>4, OnlyAcks, Zenon
      <4>2. unknown \subseteq {"OPEN_ACK"}
        BY <3>1, <2>3, Zenon DEF CommandsKnown
      <4>3. unknown' \subseteq {"OPEN_ACK"}
        BY <4>1, <4>2
      <4>q. QED
        BY <4>3, <3>1, <2>3, Zenon DEF CommandsKnown
    <3>2. CASE ~slow
      <4>1. s \in {s, t} /\ t \in {s, t} /\ s \in {t, s} /\ t \in {t, s} /\ s # t
        BY <2>2, Zenon
      <4> HIDE DEF t
      <4>2. unknown' = unknown
        BY <4>1, <3>2, <2>2, <2>3, <2>4, AckKnown, Zenon
      <4>q. QED
        BY <4>2, <1>1, <2>3, Zenon
    <3>q. QED
      BY <3>1, <3>2, Zenon
  <2>5. CASE RxClose(s) \/ RxCloseAck(s)
    <3>1. unknown' = unknown
      BY <2>2, <2>5, CloseKnown, Zenon
    <3>q. QED
      BY <3>1, <2>3, <1>1, Zenon
  <2>6. CASE CreateEpt(s) \/ UserStep(s) \/ DestroyEpt(s) \/ InterruptEnd(s)
         \/ RemoteTimeout(s) \/ ProbeTimeout(s)
    <3>1. unknown' = unknown
      BY <2>6, Zenon DEF CreateEpt, UserStep, CreateLocal, LocalDone, CreateRemote, RemoteDone, DestroyEpt,
                         InterruptEnd, RemoteTimeout, ProbeTimeout
    <3>q. QED
      BY <3>1, <2>3, <1>1, Zenon
  <2>7. CASE RxOpen(s) \/ RxOpenInsert(s) \/ Probe(s) \/ ProbeDone(s)
    <3>1. unknown' = unknown
      BY <2>7, Zenon DEF RxOpen, RxOpenInsert, Probe, ProbeDone
    <3>q. QED
      BY <3>1, <2>3, <1>1, Zenon
  <2>q. QED
    BY <2>1, <2>4, <2>5, <2>6, <2>7, Zenon DEF Step, WorkerStep
<1>q. QED
  BY <1>2, <1>3, Zenon

-----------------------------------------------------------------------------
(* The theorems. *)

\* IInv holds in every reachable state.
THEOREM InvariantHolds ==
  ASSUME OneOpener
  PROVE  Spec => []IInv
<1>1. Init => IInv
  BY IInvInit
<1>2. IInv /\ [Next]_vars => IInv'
  BY IInvStep
<1>q. QED
  BY <1>1, <1>2, PTL DEF Spec

\* Types: the two id tables, the reference counts and the queues stay as
\* qcom_glink_native.c declares them, whatever the order of the commands.
THEOREM TypesHold ==
  ASSUME OneOpener
  PROVE  Spec => []TypeOK
<1>1. IInv => TypeOK
  BY Typed
<1>q. QED
  BY <1>1, InvariantHolds, PTL

\* The kref of a channel counts its entries in lcids and rcids and the call that
\* made it, in every reachable state.
THEOREM RefsAlwaysExact ==
  ASSUME OneOpener
  PROVE  Spec => []RefsExact
<1>1. IInv => RefsExact
  BY Exact
<1>q. QED
  BY <1>1, InvariantHolds, PTL

\* Whenever nothing is on its way the two ends have the same ids, for channels
\* that name each other, and with no user they have none.
THEOREM EndsAlwaysAgree ==
  ASSUME OneOpener
  PROVE  Spec => []EndsAgree
<1>1. IInv => EndsAgree
  BY Agree
<1>q. QED
  BY <1>1, InvariantHolds, PTL

\* The WARNs of qcom_glink_rx_close and qcom_glink_rx_close_ack never fire, and
\* no OPEN_ACK names an unknown channel unless an open has timed out.
THEOREM CommandsAlwaysKnown ==
  ASSUME OneOpener
  PROVE  Spec => []CommandsKnown
<1>1. Init => IInv /\ CommandsKnown
  <2>1. Init => unknown = {}
    BY Zenon DEF Init
  <2>2. {} \subseteq (IF slow \/ slow_local THEN {"OPEN_ACK"} ELSE {})
    OBVIOUS
  <2>q. QED
    BY <2>1, <2>2, IInvInit, Zenon DEF CommandsKnown
<1>2. IInv /\ CommandsKnown /\ [Next]_vars => IInv' /\ CommandsKnown'
  BY IInvStep, KnownStep
<1>q. QED
  BY <1>1, <1>2, PTL DEF Spec

=============================================================================
