-------------------------- MODULE GlinkAnswerProofs -------------------------
(***************************************************************************)
(* The steps of the processor of a pair that answers, all but the ones in  *)
(* which its worker takes a CLOSE or a CLOSE_ACK, preserve the inductive   *)
(* invariant of GlinkChannelLemmas.                                        *)
(***************************************************************************)
EXTENDS GlinkChannelLemmas

-----------------------------------------------------------------------------
(* The steps of b, the side that answers. *)

\* What holds of both ends holds either way round.
LEMMA IdsSwap ==
  ASSUME NEW s, NEW t, IdsInv(s, t)
  PROVE  IdsInv(t, s)
BY Zenon DEF IdsInv

\* An id that is entered is no longer on its way, and the worker is not at it.
LEMMA EnteredId ==
  ASSUME NEW a, NEW b, Ends(a, b), InR(a, b)
  PROVE  /\ InL(a) /\ ~Closed(a) /\ ~Opening(a, b) /\ wpc[b] # "create" /\ nch[b] # 0 /\ nch[b] \in Id
         /\ rcids[b][Last(a)] = nch[b] /\ Cur(b).rcid = Last(a) /\ Find(rcids[b]) = nch[b]
         /\ Last(a) \in Id /\ DOMAIN rcids[b] \subseteq {Last(a)} /\ Last(a) \in DOMAIN rcids[b]
<1>1. IdInv(a, b) /\ ChanInv(b, a) /\ SideType(a) /\ SideType(b) /\ WayInv(a, b)
  BY Zenon DEF Ends, IdsInv
<1>2. InL(a) /\ ~Closed(a) /\ ~Opening(a, b)
  BY <1>1, Zenon DEF IdInv, Life
<1>3. wpc[b] # "create"
  BY <1>1, <1>2, HeldOpen
<1>4. nch[b] # 0 /\ rcids[b][Last(a)] = nch[b] /\ Cur(b).rcid = Last(a)
  BY <1>1, Zenon DEF ChanInv
<1>5. nch[b] \in Id
  BY <1>1, <1>4 DEF SideType, Id
<1>6. Last(a) \in Id /\ DOMAIN rcids[b] \subseteq {Last(a)} /\ Last(a) \in DOMAIN rcids[b]
  BY <1>1, <1>2, Zenon DEF IdInv, InR
<1>7. Last(a) \in Nat
  BY <1>1, WayType, Zenon
<1>8. Find(rcids[b]) = nch[b]
  BY <1>4, <1>6, <1>7, Found, Zenon
<1>q. QED
  BY <1>2, <1>3, <1>4, <1>5, <1>6, <1>8, Zenon

\* qcom_glink_create_ept where no driver is bound finds the channel of a.
LEMMA AnswerPrepares ==
  ASSUME NEW a, NEW b, Ends(a, b), CreateEpt(b), Frame(a)
  PROVE  EndsInv(a, b)'
<1>0. FunType /\ a \in Side /\ b \in Side /\ a # b /\ SideType(a) /\ SideType(b) /\ IdsInv(b, a) /\ IdsInv(a, b)
      /\ Same(a) /\ bound' = bound /\ slow' = slow
  BY IdsSwap, Zenon DEF Ends, IdsInv, Frame
<1>1. /\ MayOpen(b) /\ wpc' = wpc /\ wch' = wch /\ wcmd' = wcmd
      /\ ch' = ch /\ nch' = nch /\ next_id' = next_id /\ lcids' = lcids /\ rcids' = rcids
      /\ dev' = dev /\ fifo' = fifo /\ rx_queue' = rx_queue
      /\ uch' = [uch EXCEPT ![b] = Find(rcids[b])]
      /\ upc' = [upc EXCEPT ![b] = IF Find(rcids[b]) = 0 THEN "local" ELSE "remote"]
  BY Zenon DEF CreateEpt, tables, worker, recv, wire
<1>2. upc[b] = "idle" /\ next_id[b] <= MAXCH /\ ~bound[b] /\ DOMAIN rcids[b] # {} /\ uch[b] # Find(rcids[b])
  BY <1>1, Zenon DEF MayOpen, Ends
<1>3. InR(a, b)
  <2>1. DOMAIN rcids[b] \subseteq {Last(a)}
    BY <1>0, Zenon DEF IdsInv, IdInv
  <2>q. QED
    BY <2>1, <1>2 DEF InR
<1>4. ~Opening(a, b) /\ wpc[b] # "create" /\ nch[b] # 0 /\ Find(rcids[b]) = nch[b]
  BY <1>3, EnteredId, Zenon
<1>5. uch'[b] = nch[b] /\ upc'[b] = "remote" /\ uch[b] # nch[b]
  BY <1>0, <1>1, <1>2, <1>4, Zenon DEF FunType
<1>6. Unopened(a, b) /\ Unopened(a, b)'
  BY <1>0, <1>1, <1>2, <1>3, <1>5, Zenon DEF Unopened, InR, Last, Same, Core
<1>7. Cur(b)' = Cur(b) /\ Way(b)' = Way(b) /\ Tables(b) /\ fifo'[a] = fifo[a]
  BY <1>1, Zenon DEF Cur, Way, Held, Tables
<1>8. Using(b)' <=> Using(b)
  BY <1>1, <1>2, <1>5, <1>7 DEF Using
<1>9. /\ Calm(b, a) /\ Rested(b, a) /\ Kept(b, a) /\ Kept(a, b)
      /\ IdInv(b, a)' /\ IdInv(a, b)' /\ WayInv(b, a)' /\ WayInv(a, b)'
  BY <1>0, <1>7, <1>8, Mild, Zenon
<1>10. SideType(b)'
  BY <1>0, <1>1, Zenon DEF SideType
<1>11. Made(b)' <=> Made(b)
  BY <1>1, <1>2, <1>5 DEF Made, Making
<1>12. ChanInv(b, a)'
  BY <1>0, <1>1, <1>7, <1>9, <1>11, ChanKept, Zenon DEF IdsInv
<1>13. OpenerInv(a, b)'
  BY <1>0, <1>9, RestOpener, Zenon DEF Ends, Same, Calm, Kept
<1>14. AnswerInv(a, b)'
  <2>1. AnswerInv(a, b) /\ nch[b] \in Nat
    BY <1>0 DEF Ends, SideType
  <2>2. ~Cur(b).cb
    BY <2>1, <1>1, <1>2, <1>4, Zenon DEF AnswerInv
  <2>3. uch'[b] \in 0 .. nch'[b]
    BY <2>1, <1>1, <1>5
  <2>q. QED
    BY <2>1, <2>2, <2>3, <1>0, <1>1, <1>2, <1>3, <1>4, <1>5, <1>7, <1>9, Zenon DEF AnswerInv, Calm
<1>15. PairInv(a, b) /\ upc'[a] = upc[a]
  BY <1>0, Zenon DEF Ends, Same, Core
<1>16. Fresh(a)' <=> Fresh(a)
  BY <1>9, <1>15, Zenon DEF Fresh, Rested, Kept
<1>17. PairInv(a, b)'
  BY <1>0, <1>4, <1>6, <1>7, <1>8, <1>9, <1>15, <1>16, Zenon DEF PairInv, Calm, Kept, Rested
<1>q. QED
  BY <1>9, <1>10, <1>12, <1>13, <1>14, <1>17, Zenon DEF EndsInv, IdsInv, Rested

\* qcom_glink_create_remote: b acknowledges the OPEN of a and sends its own.
OpensToo(a, b) ==
    /\ next_id[b] <= MAXCH /\ InR(a, b) /\ Unopened(a, b)
    /\ nch'[b] = nch[b] /\ rcids'[b] = rcids[b] /\ dev'[b] = dev[b] /\ rx_queue'[b] = rx_queue[b]
    /\ wcmd'[b] = wcmd[b] /\ fifo'[b] = fifo[b] /\ uch'[b] = uch[b]
    /\ ch' = [ch EXCEPT ![b][nch[b]] = [ch[b][nch[b]] EXCEPT !.refs = @ + 1, !.lcid = next_id[b]]]
    /\ lcids'[b] = Insert(lcids[b], next_id[b], nch[b]) /\ next_id'[b] = next_id[b] + 1
    /\ fifo'[a] = fifo[a] \o <<Cmd("OPEN_ACK", Last(a)), Cmd("OPEN", next_id[b])>>
    /\ \/ upc[b] = "remote" /\ upc'[b] = "wait_remote" /\ wpc'[b] = wpc[b] /\ wch'[b] = wch[b]
       \/ wpc[b] = "probe" /\ wpc'[b] = "wait" /\ wch'[b] = nch[b] /\ upc'[b] = upc[b]
\* It keeps the invariant.
LEMMA AnswerOpens ==
  ASSUME NEW a, NEW b, Ends(a, b), OpensToo(a, b), Frame(a)
  PROVE  EndsInv(a, b)'
<1> DEFINE r == [ch[b][nch[b]] EXCEPT !.refs = @ + 1, !.lcid = next_id[b]]
<1>0. FunType /\ a \in Side /\ b \in Side /\ a # b /\ SideType(a) /\ SideType(b) /\ IdsInv(b, a)
      /\ Same(a) /\ Core(a) /\ bound' = bound /\ slow' = slow /\ IdInv(a, b) /\ IdInv(b, a)
      /\ WayInv(a, b) /\ WayInv(b, a) /\ ChanInv(b, a) /\ PairInv(a, b)
  BY IdsSwap, Zenon DEF Ends, IdsInv, Frame, Same
<1>1. /\ next_id[b] <= MAXCH /\ InR(a, b) /\ Unopened(a, b)
      /\ nch'[b] = nch[b] /\ rcids'[b] = rcids[b] /\ dev'[b] = dev[b] /\ rx_queue'[b] = rx_queue[b]
      /\ wcmd'[b] = wcmd[b] /\ fifo'[b] = fifo[b] /\ uch'[b] = uch[b]
      /\ ch' = [ch EXCEPT ![b][nch[b]] = r]
      /\ lcids'[b] = Insert(lcids[b], next_id[b], nch[b]) /\ next_id'[b] = next_id[b] + 1
      /\ fifo'[a] = fifo[a] \o <<Cmd("OPEN_ACK", Last(a)), Cmd("OPEN", next_id[b])>>
  BY Zenon DEF OpensToo
<1>2. \/ upc[b] = "remote" /\ upc'[b] = "wait_remote" /\ wpc'[b] = wpc[b] /\ wch'[b] = wch[b]
      \/ wpc[b] = "probe" /\ wpc'[b] = "wait" /\ wch'[b] = nch[b] /\ upc'[b] = upc[b]
  BY Zenon DEF OpensToo
<1>3. /\ InL(a) /\ ~Closed(a) /\ ~Opening(a, b) /\ wpc[b] # "create" /\ nch[b] # 0 /\ nch[b] \in Id
      /\ Last(a) \in Id
  BY <1>1, EnteredId, Zenon
<1>4. Fresh(a) /\ ~InL(b)
  BY <1>0, <1>1, Zenon DEF PairInv
<1>5. upc[a] = "wait_local" /\ ~Cur(a).open_ack /\ ~Cur(a).open_req /\ ~Acked(a)
  BY <1>4, Zenon DEF Fresh
<1>6. Using(a) /\ ~Closing(a, b)
  BY <1>0, <1>5 DEF Using, IdInv, Life
<1>7. ~InR(b, a) /\ ~Opening(b, a) /\ ~Closing(b, a) /\ ~Closed(b) /\ ~Using(b)
  BY <1>0, <1>4, Zenon DEF IdInv, Life
<1>8. ~Acked(b) /\ ~Zero(b) /\ ~Cur(b).open_ack
  BY <1>0, <1>1, <1>4, <1>5, <1>6 DEF PairInv
<1>9. /\ next_id[b] \in Id /\ Last(b) + 1 = next_id[b] /\ Last(b)' = next_id[b] /\ Last(b)' = Last(b) + 1
      /\ next_id'[b] \in 1 .. MAXCH + 1 /\ next_id[b] \in 0 .. MAXCH /\ next_id[b] \in Nat
      /\ Last(a) # 0 /\ Last(a) \in Nat
  <2>1. next_id[b] \in 1 .. MAXCH + 1 /\ MAXCH \in Nat
    BY <1>0, GlinkChannelAssumption, Zenon DEF SideType
  <2>2. next_id[b] <= MAXCH /\ next_id'[b] = next_id[b] + 1
    BY <1>1, Zenon
  <2>3. Last(a) # 0 /\ Last(a) \in Nat
    BY <1>3 DEF Id
  <2>4. /\ next_id[b] \in Id /\ Last(b) + 1 = next_id[b] /\ Last(b)' = next_id[b] /\ Last(b)' = Last(b) + 1
        /\ next_id'[b] \in 1 .. MAXCH + 1 /\ next_id[b] \in 0 .. MAXCH /\ next_id[b] \in Nat
    BY <2>1, <2>2 DEF Last, Id
  <2>q. QED
    BY <2>3, <2>4, Zenon
<1>10. /\ r \in Channel /\ r.refs = Cur(b).refs + 1 /\ r.lcid = next_id[b] /\ r.rcid = Cur(b).rcid
       /\ r.open_ack = Cur(b).open_ack /\ r.open_req = Cur(b).open_req /\ r.rpdev = Cur(b).rpdev
       /\ r.cb = Cur(b).cb
  <2>1. ch[b][nch[b]] \in Channel
    BY <1>0, <1>3 DEF SideType
  <2>q. QED
    BY <2>1, <1>9, FieldsOpen, Zenon DEF Cur
<1> HIDE DEF r
<1>11. Becomes(b, nch[b], r)
  BY <1>0, <1>1, <1>3, <1>10, Updated, Zenon
<1>12. ch'[b] \in [Id -> Channel] /\ Cur(b)' = r /\ \A d \in Id : d # nch[b] => ch'[b][d] = ch[b][d]
  BY <1>1, <1>11, Zenon DEF Becomes, Cur
\* the ids
<1>13. DOMAIN lcids[b] = {} /\ DOMAIN rcids[a] = {}
  BY <1>0, <1>4, <1>7 DEF IdInv, InL, InR
<1>14. DOMAIN lcids'[b] = {next_id[b]} /\ lcids'[b][next_id[b]] = nch[b]
  BY <1>1, <1>13 DEF Insert
<1>15. Last(a)' = Last(a) /\ rcids'[a] = rcids[a] /\ lcids'[a] = lcids[a] /\ upc'[a] = upc[a]
  BY <1>0, Zenon DEF Core, Last
<1>16. InL(b)' /\ ~InR(b, a)' /\ InR(a, b)'
  BY <1>1, <1>9, <1>13, <1>14, <1>15 DEF InL, InR
<1>17. /\ Cur(a)' = Cur(a) /\ Held(a)' = Held(a) /\ (InL(a)' <=> InL(a)) /\ (Using(a)' <=> Using(a))
       /\ ChanInv(a, b)'
  BY <1>0, <1>7, <1>16, Rest, Zenon DEF IdsInv
<1>18. Held(b)' = Held(b) /\ Way(b)' = Way(b)
  BY <1>1, <1>2, Zenon DEF Held, Way
<1>19. /\ WayInv(a, b)' /\ ~Closed(b)' /\ ~Acked(b)'
       /\ Opening(a, b)' <=> Opening(a, b)
       /\ Closing(a, b)' <=> Closing(a, b)
       /\ Zero(b)' <=> Zero(b)
  BY <1>0, <1>7, <1>8, <1>9, <1>15, <1>18, NewTo, Zenon
<1>20. Cmd("OPEN_ACK", Last(a)) \in Command /\ Cmd("OPEN", next_id[b]) \in Command
  BY <1>9 DEF Cmd, Command, Cmds
<1>21. /\ Way(a)' = Append(Append(Way(a), Cmd("OPEN_ACK", Last(a))), Cmd("OPEN", Last(b) + 1))
       /\ fifo'[a] \in Seq(Command)
  BY <1>0, <1>1, <1>9, <1>17, <1>20, WaySend, Zenon DEF Same
<1>22. /\ WayInv(b, a)' /\ Opening(b, a)' /\ ~Closing(b, a)' /\ ~Closed(a)' /\ Acked(a)'
       /\ Zero(a)' <=> Zero(a)
  BY <1>0, <1>3, <1>5, <1>7, <1>9, <1>15, <1>21, NewFrom, Zenon
<1>23. Using(b)'
  BY <1>2 DEF Using
\* the invariant
<1>24. SideType(a)' /\ SideType(b)'
  <2>1. SideType(a)'
    BY <1>0, <1>21, RestType, Zenon
  <2>2. nch'[b] \in 0 .. MAXCH /\ next_id'[b] \in 1 .. MAXCH + 1 /\ fifo'[b] \in Seq(Command)
        /\ rx_queue'[b] \in Seq(Command)
    BY <1>0, <1>1, <1>9, Zenon DEF SideType
  <2>3. wpc'[b] \in {"insert", "create"} => wcmd'[b] \in Command /\ wcmd'[b].cmd = "OPEN"
    BY <1>0, <1>1, <1>2 DEF SideType
  <2>q. QED
    BY <2>1, <2>2, <2>3, <1>12, Zenon DEF SideType
<1>25. IdInv(b, a)'
  BY <1>9, <1>13, <1>14, <1>15, <1>16, <1>19, <1>22, <1>23, Zenon DEF IdInv, Life
<1>26. IdInv(a, b)'
  BY <1>0, <1>1, <1>3, <1>15, <1>16, <1>17, <1>19, <1>22, IdKept, Zenon
<1>27. ChanInv(b, a)'
  <2>1. ~Made(b) /\ ~Made(b)'
    BY <1>2, <1>3 DEF Made, Making, Ends, AnswerInv
  <2>2. Cur(b)'.refs = Num(InL(b))' + Num(InR(a, b))' + Num(Made(b))'
    <3>1. Cur(b).refs = Num(InL(b)) + Num(InR(a, b)) + Num(Made(b))
      BY <1>0, <1>3, Zenon DEF ChanInv
    <3>q. QED
      BY <3>1, <2>1, <1>1, <1>4, <1>10, <1>12, <1>16 DEF Num
  <2>3. rcids[b][Last(a)] = nch[b] /\ Cur(b).rcid = Last(a) /\ \A d \in Id : d # nch[b] => ch[b][d].refs = 0
    BY <1>0, <1>1, Zenon DEF ChanInv
  <2>q. QED
    BY <2>2, <2>3, <1>1, <1>3, <1>9, <1>10, <1>12, <1>14, <1>15, <1>16, Zenon DEF ChanInv
<1>28. OpenerInv(a, b)'
  BY <1>0, <1>7, <1>16, <1>22, RestOpener, Zenon DEF Ends
<1>29. AnswerInv(a, b)'
  <2>1. AnswerInv(a, b)
    BY Zenon DEF Ends
  <2>2. ~Cur(b).cb
    BY <1>3, <1>7, Zenon DEF Using
  <2>3. ~Cur(b)'.cb /\ (Cur(b)'.rpdev <=> Cur(b).rpdev)
    BY <2>2, <1>10, <1>12, Zenon
  <2>4. CASE upc[b] = "remote" /\ upc'[b] = "wait_remote" /\ wpc'[b] = wpc[b] /\ wch'[b] = wch[b]
    BY <2>1, <2>3, <2>4, <1>0, <1>1, <1>3, <1>16 DEF AnswerInv
  <2>5. CASE wpc[b] = "probe" /\ wpc'[b] = "wait" /\ wch'[b] = nch[b] /\ upc'[b] = upc[b]
    BY <2>1, <2>3, <2>5, <1>0, <1>1, <1>3, <1>16 DEF AnswerInv
  <2>q. QED
    BY <2>4, <2>5, <1>2, Zenon
<1>30. ~Unopened(a, b)'
  <2>1. upc[b] = "remote" => uch[b] = nch[b] /\ ~bound[b]
    BY DEF Ends, AnswerInv
  <2>2. wpc[b] = "probe" => bound[b]
    BY DEF Ends, AnswerInv
  <2>q. QED
    BY <2>1, <2>2, <1>0, <1>1, <1>2 DEF Unopened
<1>31. ~Cur(b)'.open_ack
  BY <1>8, <1>10, <1>12, Zenon
<1>32. PairInv(a, b)'
  BY <1>3, <1>5, <1>8, <1>15, <1>16, <1>17, <1>19, <1>22, <1>23, <1>30, <1>31 DEF PairInv
<1>q. QED
  BY <1>17, <1>19, <1>22, <1>24, <1>25, <1>26, <1>27, <1>28, <1>29, <1>32, Zenon DEF EndsInv, IdsInv
\* A thread does it, or a driver's probe.
LEMMA ThreadOpens ==
  ASSUME NEW a, NEW b, Ends(a, b), CreateRemote(b), Frame(a)
  PROVE  EndsInv(a, b)'
<1>0. FunType /\ a \in Side /\ b \in Side /\ a # b /\ Peer[b] = a
  BY Zenon DEF Ends
<1>1. upc[b] = "remote" /\ uch[b] = nch[b] /\ next_id[b] <= MAXCH /\ InR(a, b) /\ ~bound[b]
  BY DEF Ends, AnswerInv, CreateRemote
<1>2. Unopened(a, b) /\ ch[b][nch[b]].rcid = Last(a)
  BY <1>1, EnteredId, Zenon DEF Unopened, Cur
<1>3. /\ ch' = [ch EXCEPT ![b][uch[b]] = [ch[b][uch[b]] EXCEPT !.refs = @ + 1, !.lcid = next_id[b]]]
      /\ lcids' = [lcids EXCEPT ![b] = Insert(@, next_id[b], uch[b])]
      /\ next_id' = [next_id EXCEPT ![b] = @ + 1]
      /\ fifo' = [fifo EXCEPT ![Peer[b]] = @ \o <<Cmd("OPEN_ACK", ch[b][uch[b]].rcid), Cmd("OPEN", next_id[b])>>]
      /\ upc' = [upc EXCEPT ![b] = "wait_remote"]
      /\ nch' = nch /\ rcids' = rcids /\ dev' = dev /\ rx_queue' = rx_queue /\ uch' = uch
      /\ wpc' = wpc /\ wch' = wch /\ wcmd' = wcmd
  BY Zenon DEF CreateRemote, OpenReq, Send, OpenAck, Open, recv, worker
<1>4. /\ ch' = [ch EXCEPT ![b][nch[b]] = [ch[b][nch[b]] EXCEPT !.refs = @ + 1, !.lcid = next_id[b]]]
      /\ lcids'[b] = Insert(lcids[b], next_id[b], nch[b]) /\ next_id'[b] = next_id[b] + 1
      /\ fifo'[a] = fifo[a] \o <<Cmd("OPEN_ACK", Last(a)), Cmd("OPEN", next_id[b])>>
      /\ fifo'[b] = fifo[b] /\ upc'[b] = "wait_remote"
  BY <1>0, <1>1, <1>2, <1>3, Zenon DEF FunType
<1>5. OpensToo(a, b)
  BY <1>1, <1>2, <1>3, <1>4, Zenon DEF OpensToo
<1>q. QED
  BY <1>5, AnswerOpens
\* The probe of a bound driver.
LEMMA DriverOpens ==
  ASSUME NEW a, NEW b, Ends(a, b), Probe(b), Frame(a)
  PROVE  EndsInv(a, b)'
<1>0. FunType /\ a \in Side /\ b \in Side /\ a # b /\ Peer[b] = a
  BY Zenon DEF Ends
<1>1. wpc[b] = "probe" /\ next_id[b] <= MAXCH /\ InR(a, b) /\ bound[b]
  BY DEF Ends, AnswerInv, Probe
<1>2. Unopened(a, b) /\ ch[b][nch[b]].rcid = Last(a) /\ Find(rcids[b]) = nch[b]
  BY <1>1, EnteredId, Zenon DEF Unopened, Cur
<1>3. LET c == Find(rcids[b])
      IN /\ ch' = [ch EXCEPT ![b][c] = [ch[b][c] EXCEPT !.refs = @ + 1, !.lcid = next_id[b]]]
         /\ lcids' = [lcids EXCEPT ![b] = Insert(@, next_id[b], c)]
         /\ next_id' = [next_id EXCEPT ![b] = @ + 1]
         /\ fifo' = [fifo EXCEPT ![Peer[b]] = @ \o <<Cmd("OPEN_ACK", ch[b][c].rcid), Cmd("OPEN", next_id[b])>>]
         /\ wch' = [wch EXCEPT ![b] = c]
         /\ wpc' = [wpc EXCEPT ![b] = "wait"]
         /\ nch' = nch /\ rcids' = rcids /\ dev' = dev /\ rx_queue' = rx_queue /\ uch' = uch
         /\ upc' = upc /\ wcmd' = wcmd
  BY Zenon DEF Probe, OpenReq, Send, OpenAck, Open, recv, user
<1>4. /\ ch' = [ch EXCEPT ![b][nch[b]] = [ch[b][nch[b]] EXCEPT !.refs = @ + 1, !.lcid = next_id[b]]]
      /\ lcids'[b] = Insert(lcids[b], next_id[b], nch[b]) /\ next_id'[b] = next_id[b] + 1
      /\ fifo'[a] = fifo[a] \o <<Cmd("OPEN_ACK", Last(a)), Cmd("OPEN", next_id[b])>>
      /\ fifo'[b] = fifo[b] /\ wpc'[b] = "wait" /\ wch'[b] = nch[b]
  BY <1>0, <1>1, <1>2, <1>3, Zenon DEF FunType
<1>5. OpensToo(a, b)
  BY <1>1, <1>2, <1>3, <1>4, Zenon DEF OpensToo
<1>q. QED
  BY <1>5, AnswerOpens

\* The OPEN_ACK of a has come: b sets the callback.
Opened(b) ==
    /\ Cur(b).open_ack /\ CbSet(b, nch[b], TRUE)
    /\ nch'[b] = nch[b] /\ next_id'[b] = next_id[b] /\ lcids'[b] = lcids[b] /\ rcids'[b] = rcids[b]
    /\ dev'[b] = dev[b] /\ rx_queue'[b] = rx_queue[b] /\ fifo' = fifo /\ uch'[b] = uch[b]
    /\ \/ upc[b] = "wait_remote" /\ upc'[b] = "open" /\ wpc'[b] = wpc[b] /\ wch'[b] = wch[b] /\ wcmd'[b] = wcmd[b]
       \/ wpc[b] = "wait" /\ wpc'[b] = "idle" /\ upc'[b] = upc[b]
\* It keeps the invariant.
LEMMA AnswerDone ==
  ASSUME NEW a, NEW b, Ends(a, b), Opened(b), nch[b] # 0, Frame(a)
  PROVE  EndsInv(a, b)'
<1>0. FunType /\ SideType(a) /\ SideType(b) /\ IdsInv(b, a) /\ Same(a) /\ bound' = bound /\ slow' = slow
      /\ AnswerInv(a, b) /\ PairInv(a, b)
  BY IdsSwap, Zenon DEF Ends, IdsInv, Frame, Same
<1>1. /\ nch'[b] = nch[b] /\ next_id'[b] = next_id[b] /\ lcids'[b] = lcids[b] /\ rcids'[b] = rcids[b]
      /\ dev'[b] = dev[b] /\ rx_queue'[b] = rx_queue[b] /\ fifo' = fifo /\ uch'[b] = uch[b]
  BY Zenon DEF Opened
<1>2. \/ upc[b] = "wait_remote" /\ upc'[b] = "open" /\ wpc'[b] = wpc[b] /\ wch'[b] = wch[b] /\ wcmd'[b] = wcmd[b]
      \/ wpc[b] = "wait" /\ wpc'[b] = "idle" /\ upc'[b] = upc[b]
  BY Zenon DEF Opened
<1>3. /\ ch'[b] \in [Id -> Channel] /\ \A d \in Id : d # nch[b] => ch'[b][d] = ch[b][d]
      /\ Cur(b)'.refs = Cur(b).refs /\ Cur(b)'.lcid = Cur(b).lcid /\ Cur(b)'.rcid = Cur(b).rcid
      /\ Cur(b).open_ack /\ Cur(b)'.open_ack = Cur(b).open_ack /\ Cur(b)'.rpdev = Cur(b).rpdev /\ Cur(b)'.cb
  BY <1>1, Zenon DEF Opened, CbSet, Cur
<1>4. Using(b)' /\ Using(b)
  BY <1>1, <1>2, <1>3 DEF Using
<1>5. Held(b)' = Held(b) /\ Way(b)' = Way(b)
  BY <1>1, <1>2, Zenon DEF Held, Way
<1>6. /\ Calm(b, a) /\ Rested(b, a) /\ Kept(b, a) /\ Kept(a, b)
      /\ IdInv(b, a)' /\ IdInv(a, b)' /\ WayInv(b, a)' /\ WayInv(a, b)'
  BY <1>0, <1>1, <1>4, <1>5, Mild, Zenon DEF Tables
<1>7. SideType(b)'
  BY <1>0, <1>1, <1>2, <1>3 DEF SideType
<1>8. wpc[b] # "create"
  BY <1>0, <1>2 DEF AnswerInv
<1>9. ~Made(b) /\ ~Made(b)'
  BY <1>0, <1>2, <1>8 DEF Made, Making, AnswerInv
<1>10. ChanInv(b, a)'
  BY <1>0, <1>1, <1>3, <1>6, <1>9, ChanKept, Zenon DEF IdsInv, Tables
<1>11. OpenerInv(a, b)'
  BY <1>0, <1>6, RestOpener, Zenon DEF Ends, Same, Calm, Kept
<1>12. AnswerInv(a, b)'
  <2>1. CASE upc[b] = "wait_remote" /\ upc'[b] = "open" /\ wpc'[b] = wpc[b] /\ wch'[b] = wch[b]
    BY <2>1, <1>0, <1>1, <1>3, <1>6, <1>8, Zenon DEF AnswerInv, Calm
  <2>2. CASE wpc[b] = "wait" /\ wpc'[b] = "idle" /\ upc'[b] = upc[b]
    BY <2>2, <1>0, <1>1, <1>3, <1>6, Zenon DEF AnswerInv, Calm
  <2>q. QED
    BY <2>1, <2>2, <1>2, Zenon
<1>13. ~Unopened(a, b)'
  BY <1>0, <1>1, <1>2, Zenon DEF Unopened, AnswerInv
<1>14. ~Opening(a, b) /\ upc'[a] = upc[a]
  BY <1>0, <1>4, Zenon DEF PairInv, Same, Core
<1>15. PairInv(a, b)'
  BY <1>0, <1>3, <1>4, <1>6, <1>13, <1>14, Zenon DEF PairInv, Calm, Kept, Rested
<1>q. QED
  BY <1>6, <1>7, <1>10, <1>11, <1>12, <1>15, Zenon DEF EndsInv, IdsInv, Rested
\* In the thread, and in the worker after the probe.
LEMMA ThreadDone ==
  ASSUME NEW a, NEW b, Ends(a, b), RemoteDone(b), Frame(a)
  PROVE  EndsInv(a, b)'
<1>0. FunType /\ b \in Side /\ SideType(b) /\ IdInv(b, a) /\ ChanInv(b, a)
  BY Zenon DEF Ends, IdsInv
<1>1. /\ upc[b] = "wait_remote" /\ ch[b][uch[b]].open_ack /\ ch' = [ch EXCEPT ![b][uch[b]].cb = TRUE]
      /\ upc' = [upc EXCEPT ![b] = "open"]
      /\ nch' = nch /\ next_id' = next_id /\ lcids' = lcids /\ rcids' = rcids /\ dev' = dev /\ fifo' = fifo
      /\ rx_queue' = rx_queue /\ uch' = uch /\ wpc' = wpc /\ wch' = wch /\ wcmd' = wcmd
  BY Zenon DEF RemoteDone, wire, recv, worker
<1>2. uch[b] = nch[b] /\ upc'[b] = "open"
  BY <1>0, <1>1 DEF Ends, AnswerInv, FunType
<1>3. InL(b)
  BY <1>0, <1>1 DEF Using, IdInv, Life
<1>4. nch[b] # 0 /\ nch[b] \in Id
  BY <1>0, <1>3 DEF ChanInv, SideType, Id
<1>5. CbSet(b, nch[b], TRUE)
  BY <1>0, <1>1, <1>2, <1>4, SetCb, Zenon
<1>6. Opened(b)
  BY <1>1, <1>2, <1>5, Zenon DEF Opened, Cur
<1>q. QED
  BY <1>4, <1>6, AnswerDone
\* The probe gets its OPEN_ACK.
LEMMA DriverDone ==
  ASSUME NEW a, NEW b, Ends(a, b), ProbeDone(b), Frame(a)
  PROVE  EndsInv(a, b)'
<1>0. FunType /\ b \in Side /\ SideType(b)
  BY Zenon DEF Ends, IdsInv
<1>1. /\ wpc[b] = "wait" /\ ch[b][wch[b]].open_ack /\ ch' = [ch EXCEPT ![b][wch[b]].cb = TRUE]
      /\ wpc' = [wpc EXCEPT ![b] = "idle"] /\ dev' = [dev EXCEPT ![b] = wch[b]]
      /\ nch' = nch /\ next_id' = next_id /\ lcids' = lcids /\ rcids' = rcids /\ fifo' = fifo
      /\ rx_queue' = rx_queue /\ uch' = uch /\ upc' = upc
  BY Zenon DEF ProbeDone, WorkerIdle, wire, recv, user
<1>2. wch[b] = nch[b] /\ wpc'[b] = "idle" /\ dev'[b] = wch[b] /\ nch[b] # 0 /\ dev[b] = nch[b]
  BY <1>0, <1>1 DEF Ends, AnswerInv, FunType
<1>4. nch[b] \in Id
  BY <1>0, <1>2 DEF SideType, Id
<1>5. CbSet(b, nch[b], TRUE)
  BY <1>0, <1>1, <1>2, <1>4, SetCb, Zenon
<1>6. Opened(b)
  BY <1>1, <1>2, <1>5, Zenon DEF Opened, Cur
<1>q. QED
  BY <1>2, <1>6, AnswerDone

\* b closes its end: the thread or the driver is done with it, or the OPEN_ACK is late.
ShutDown(a, b) ==
    /\ slow \/ Cur(b).open_ack
    /\ nch[b] # 0 /\ CbSet(b, nch[b], FALSE) /\ fifo'[a] = fifo[a] \o <<Cmd("CLOSE", Last(b))>> /\ fifo'[b] = fifo[b]
    /\ nch'[b] = nch[b] /\ next_id'[b] = next_id[b] /\ lcids'[b] = lcids[b] /\ rcids'[b] = rcids[b]
    /\ dev'[b] = dev[b] /\ rx_queue'[b] = rx_queue[b] /\ uch'[b] = uch[b]
    /\ \/ /\ upc[b] \in {"wait_remote", "open"} /\ upc'[b] = "idle"
          /\ wpc'[b] = wpc[b] /\ wch'[b] = wch[b] /\ wcmd'[b] = wcmd[b]
       \/ wpc[b] = "wait" /\ wpc'[b] = "idle" /\ upc'[b] = upc[b]
\* It keeps the invariant.
LEMMA AnswerCloses ==
  ASSUME NEW a, NEW b, Ends(a, b), ShutDown(a, b), Frame(a)
  PROVE  EndsInv(a, b)'
<1>0. FunType /\ SideType(a) /\ SideType(b) /\ IdsInv(b, a) /\ Same(a) /\ bound' = bound /\ slow' = slow
      /\ AnswerInv(a, b) /\ PairInv(a, b)
  BY IdsSwap, Zenon DEF Ends, IdsInv, Frame, Same
<1>1. /\ nch'[b] = nch[b] /\ next_id'[b] = next_id[b] /\ lcids'[b] = lcids[b] /\ rcids'[b] = rcids[b]
      /\ dev'[b] = dev[b] /\ rx_queue'[b] = rx_queue[b] /\ uch'[b] = uch[b] /\ fifo'[b] = fifo[b]
      /\ fifo'[a] = fifo[a] \o <<Cmd("CLOSE", Last(b))>> /\ nch[b] # 0 /\ (slow \/ Cur(b).open_ack)
  BY Zenon DEF ShutDown
<1>2. \/ /\ upc[b] \in {"wait_remote", "open"} /\ upc'[b] = "idle"
         /\ wpc'[b] = wpc[b] /\ wch'[b] = wch[b] /\ wcmd'[b] = wcmd[b]
      \/ wpc[b] = "wait" /\ wpc'[b] = "idle" /\ upc'[b] = upc[b]
  BY Zenon DEF ShutDown
<1>3. /\ ch'[b] \in [Id -> Channel] /\ \A d \in Id : d # nch[b] => ch'[b][d] = ch[b][d]
      /\ Cur(b)'.refs = Cur(b).refs /\ Cur(b)'.lcid = Cur(b).lcid /\ Cur(b)'.rcid = Cur(b).rcid
      /\ Cur(b)'.open_ack = Cur(b).open_ack /\ Cur(b)'.rpdev = Cur(b).rpdev /\ ~Cur(b)'.cb
  BY <1>1, Zenon DEF ShutDown, CbSet, Cur
<1>4. Using(b)
  BY <1>2 DEF Using
<1>5. ~Using(b)'
  BY <1>0, <1>1, <1>2, <1>3 DEF Using, AnswerInv
<1>6. Held(b)' = Held(b) /\ Way(b)' = Way(b)
  BY <1>1, <1>2, Zenon DEF Held, Way
<1>7. /\ Calm(b, a) /\ Rested(b, a) /\ More(b, a, "CLOSE", Last(b)) /\ Kept(a, b)
      /\ IdInv(b, a)' /\ IdInv(a, b)' /\ WayInv(b, a)' /\ WayInv(a, b)'
  BY <1>0, <1>1, <1>4, <1>5, <1>6, Closes, Zenon DEF Tables
<1>8. /\ Opening(b, a)' <=> Opening(b, a)
      /\ Acked(a)' <=> Acked(a)
      /\ Zero(a)' <=> Zero(a)
  BY <1>7 DEF More
<1>9. SideType(b)'
  BY <1>0, <1>1, <1>2, <1>3 DEF SideType
<1>10. wpc[b] # "create"
  BY <1>0, <1>2 DEF AnswerInv
<1>11. ~Made(b) /\ ~Made(b)'
  BY <1>0, <1>2, <1>10 DEF Made, Making, AnswerInv
<1>12. ChanInv(b, a)'
  BY <1>0, <1>1, <1>3, <1>7, <1>11, ChanKept, Zenon DEF IdsInv, Tables
<1>13. OpenerInv(a, b)'
  BY <1>0, <1>7, <1>8, RestOpener, Zenon DEF Ends, Same, Calm
<1>14. AnswerInv(a, b)'
  <2>1. CASE upc[b] \in {"wait_remote", "open"} /\ upc'[b] = "idle" /\ wpc'[b] = wpc[b] /\ wch'[b] = wch[b]
    BY <2>1, <1>0, <1>1, <1>3, <1>7, <1>10, Zenon DEF AnswerInv, Calm
  <2>2. CASE wpc[b] = "wait" /\ wpc'[b] = "idle" /\ upc'[b] = upc[b]
    BY <2>2, <1>0, <1>1, <1>3, <1>7, Zenon DEF AnswerInv, Calm
  <2>q. QED
    BY <2>1, <2>2, <1>2, Zenon
<1>15. ~Unopened(a, b)'
  BY <1>0, <1>1, <1>2, Zenon DEF Unopened, AnswerInv
<1>16. ~Opening(a, b) /\ upc'[a] = upc[a]
  BY <1>0, <1>4, Zenon DEF PairInv, Same, Core
<1>17. slow \/ ~(upc[a] = "wait_local" /\ InR(a, b))
  BY <1>0, <1>1, Zenon DEF PairInv
<1>18. PairInv(a, b)'
  BY <1>0, <1>3, <1>7, <1>8, <1>15, <1>16, <1>17, Zenon DEF PairInv, Calm, Kept, Rested
<1>q. QED
  BY <1>7, <1>9, <1>12, <1>13, <1>14, <1>18, Zenon DEF EndsInv, IdsInv, Rested
\* qcom_glink_destroy_ept where no driver is bound.
LEMMA ThreadCloses ==
  ASSUME NEW a, NEW b, Ends(a, b), DestroyEpt(b), Frame(a)
  PROVE  EndsInv(a, b)'
<1>0. FunType /\ a \in Side /\ b \in Side /\ a # b /\ Peer[b] = a /\ SideType(b) /\ IdInv(b, a) /\ ChanInv(b, a)
  BY Zenon DEF Ends, IdsInv
<1>1. /\ upc[b] = "open"
      /\ IF ch[b][uch[b]].cb THEN fifo' = [fifo EXCEPT ![Peer[b]] = @ \o <<Cmd("CLOSE", ch[b][uch[b]].lcid)>>]
         ELSE fifo' = fifo
      /\ nch' = nch /\ next_id' = next_id /\ lcids' = lcids /\ rcids' = rcids /\ dev' = dev
      /\ rx_queue' = rx_queue /\ uch' = uch /\ wpc' = wpc /\ wch' = wch /\ wcmd' = wcmd
      /\ upc' = [upc EXCEPT ![b] = "idle"] /\ ch' = [ch EXCEPT ![b][uch[b]].cb = FALSE]
  BY Zenon DEF DestroyEpt, Send, Close, worker, recv, wire
<1>2. uch[b] = nch[b] /\ upc'[b] = "idle" /\ Cur(b).cb
  BY <1>0, <1>1 DEF Ends, AnswerInv, FunType
<1>3. InL(b)
  BY <1>0, <1>1 DEF Using, IdInv, Life
<1>4. nch[b] # 0 /\ nch[b] \in Id /\ Cur(b).lcid = Last(b)
  BY <1>0, <1>3 DEF ChanInv, SideType, Id
<1>5. Cur(b).open_ack
  BY <1>2, <1>4, Zenon DEF Ends, AnswerInv
<1>6. CbSet(b, nch[b], FALSE)
  BY <1>0, <1>1, <1>2, <1>4, SetCb, Zenon
<1>7. fifo'[a] = fifo[a] \o <<Cmd("CLOSE", Last(b))>> /\ fifo'[b] = fifo[b]
  <2>1. ch[b][uch[b]].cb /\ ch[b][uch[b]].lcid = Last(b)
    BY <1>2, <1>4, Zenon DEF Cur
  <2>2. fifo' = [fifo EXCEPT ![Peer[b]] = @ \o <<Cmd("CLOSE", Last(b))>>]
    BY <2>1, <1>1, Zenon
  <2>q. QED
    BY <2>2, <1>0, Zenon DEF FunType
<1>8. ShutDown(a, b)
  BY <1>1, <1>2, <1>4, <1>5, <1>6, <1>7, Zenon DEF ShutDown
<1>q. QED
  BY <1>8, AnswerCloses
\* A channel whose open has not been acknowledged has no callback to clear.
LEMMA NoCallback ==
  ASSUME NEW a, NEW b, Ends(a, b), ch' = ch, nch[b] # 0, ~Cur(b).open_ack
  PROVE  CbSet(b, nch[b], FALSE)
<1>1. SideType(b) /\ AnswerInv(a, b)
  BY Zenon DEF Ends, IdsInv
<1>2. ch[b] \in [Id -> Channel] /\ nch[b] \in Id
  BY <1>1 DEF SideType, Id
<1>3. ~Cur(b).cb
  BY <1>1, Zenon DEF AnswerInv
<1>4. Cur(b) \in Channel
  BY <1>2 DEF Cur
<1>5. Cur(b).cb = FALSE
  BY <1>3, <1>4, Fields
<1>q. QED
  BY <1>2, <1>5, Zenon DEF Cur, CbSet
\* The waits of qcom_glink_create_remote that time out.
LEMMA ThreadTimesOut ==
  ASSUME NEW a, NEW b, Ends(a, b), RemoteTimeout(b), Frame(a)
  PROVE  EndsInv(a, b)'
<1>0. FunType /\ a \in Side /\ b \in Side /\ a # b /\ Peer[b] = a /\ SideType(b) /\ IdInv(b, a) /\ ChanInv(b, a)
  BY Zenon DEF Ends, IdsInv
<1>1. /\ slow /\ upc[b] = "wait_remote" /\ ~ch[b][uch[b]].open_ack
      /\ fifo' = [fifo EXCEPT ![Peer[b]] = @ \o <<Cmd("CLOSE", ch[b][uch[b]].lcid)>>]
      /\ ch' = ch /\ nch' = nch /\ next_id' = next_id /\ lcids' = lcids /\ rcids' = rcids /\ dev' = dev
      /\ rx_queue' = rx_queue /\ uch' = uch /\ wpc' = wpc /\ wch' = wch /\ wcmd' = wcmd
      /\ upc' = [upc EXCEPT ![b] = "idle"]
  BY Zenon DEF RemoteTimeout, Send, Close, worker, recv, tables
<1>2. uch[b] = nch[b] /\ upc'[b] = "idle"
  BY <1>0, <1>1 DEF Ends, AnswerInv, FunType
<1>3. InL(b)
  BY <1>0, <1>1, Zenon DEF Using, IdInv, Life
<1>4. nch[b] # 0 /\ Cur(b).lcid = Last(b) /\ ~Cur(b).open_ack
  BY <1>0, <1>1, <1>2, <1>3, Zenon DEF ChanInv, Cur
<1>5. CbSet(b, nch[b], FALSE)
  BY <1>1, <1>4, NoCallback, Zenon
<1>6. fifo'[a] = fifo[a] \o <<Cmd("CLOSE", Last(b))>> /\ fifo'[b] = fifo[b]
  BY <1>0, <1>1, <1>2, <1>4, Zenon DEF Cur, FunType
<1>7. ShutDown(a, b)
  BY <1>1, <1>2, <1>4, <1>5, <1>6, Zenon DEF ShutDown
<1>q. QED
  BY <1>7, AnswerCloses
\* The probe of a bound driver times out.
LEMMA DriverTimesOut ==
  ASSUME NEW a, NEW b, Ends(a, b), ProbeTimeout(b), Frame(a)
  PROVE  EndsInv(a, b)'
<1>0. FunType /\ a \in Side /\ b \in Side /\ a # b /\ Peer[b] = a /\ SideType(b) /\ IdInv(b, a) /\ ChanInv(b, a)
  BY Zenon DEF Ends, IdsInv
<1>1. /\ slow /\ wpc[b] = "wait" /\ ~ch[b][wch[b]].open_ack
      /\ fifo' = [fifo EXCEPT ![Peer[b]] = @ \o <<Cmd("CLOSE", ch[b][wch[b]].lcid)>>]
      /\ ch' = ch /\ nch' = nch /\ next_id' = next_id /\ lcids' = lcids /\ rcids' = rcids /\ dev' = dev
      /\ rx_queue' = rx_queue /\ uch' = uch /\ upc' = upc
      /\ wpc' = [wpc EXCEPT ![b] = "idle"]
  BY Zenon DEF ProbeTimeout, Send, Close, WorkerIdle, user, recv, tables
<1>2. wch[b] = nch[b] /\ wpc'[b] = "idle"
  BY <1>0, <1>1 DEF Ends, AnswerInv, FunType
<1>3. InL(b)
  BY <1>0, <1>1, Zenon DEF Using, IdInv, Life
<1>4. nch[b] # 0 /\ Cur(b).lcid = Last(b) /\ ~Cur(b).open_ack
  BY <1>0, <1>1, <1>2, <1>3, Zenon DEF ChanInv, Cur
<1>5. CbSet(b, nch[b], FALSE)
  BY <1>1, <1>4, NoCallback, Zenon
<1>6. fifo'[a] = fifo[a] \o <<Cmd("CLOSE", Last(b))>> /\ fifo'[b] = fifo[b]
  BY <1>0, <1>1, <1>2, <1>4, Zenon DEF Cur, FunType
<1>7. ShutDown(a, b)
  BY <1>1, <1>2, <1>4, <1>5, <1>6, Zenon DEF ShutDown
<1>q. QED
  BY <1>7, AnswerCloses

\* The interrupt handler of the side that answers.
LEMMA AnswerHears ==
  ASSUME NEW a, NEW b, Ends(a, b), Interrupt(b), Frame(a)
  PROVE  EndsInv(a, b)'
<1> DEFINE m == Head(fifo[b])
<1>0. FunType /\ a \in Side /\ b \in Side /\ a # b /\ SideType(a) /\ SideType(b) /\ IdsInv(b, a) /\ Same(a)
      /\ Handled(b, m) /\ bound' = bound /\ slow' = slow /\ AnswerInv(a, b) /\ PairInv(a, b)
  BY Handles, IdsSwap, Zenon DEF Ends, IdsInv, Frame
<1> HIDE DEF m
<1>1. CASE m.cmd # "OPEN_ACK"
  <2>1. Core(b) /\ Way(b)' = Way(b) /\ rx_queue'[b] \in Seq(Command) /\ fifo'[b] \in Seq(Command)
    BY <1>0, <1>1, LeftToWorker, Zenon
  <2>2. fifo'[a] = fifo[a] /\ rx_queue'[a] = rx_queue[a] /\ Core(a) /\ Held(a)' = Held(a)
    BY <1>0, Zenon DEF Handled, FunType, Same, Core, Held
  <2>3. Way(a)' = Way(a) /\ fifo'[a] \in Seq(Command) /\ rx_queue'[a] \in Seq(Command)
    BY <1>0, <2>2, WayStill, Zenon DEF SideType
  <2>q. QED
    BY <2>1, <2>2, <2>3, <1>0, Unmoved, Zenon
<1>2. CASE m.cmd = "OPEN_ACK"
  <2>1. /\ Calm(b, a) /\ Rested(b, a) /\ Kept(b, a) /\ Less(a, b, "OPEN_ACK", m.id)
        /\ WayInv(b, a)' /\ WayInv(a, b)'
        /\ On(b, "OPEN_ACK", m.id) /\ (m.id = Last(b) \/ m.id = 0)
        /\ fifo'[b] \in Seq(Command)
        /\ (Using(b)' <=> Using(b)) => IdInv(b, a)' /\ IdInv(a, b)'
    BY <1>0, <1>2, AckHeard, Zenon
  <2>2. Acked(b) \/ Zero(b)
    BY <2>1, Zenon DEF Zero, Acked
  <2>3. upc[a] # "wait_local"
    <3>1. upc[a] = "open" \/ Closing(a, b)
      BY <2>2, <1>0, Zenon DEF PairInv
    <3>2. Closing(a, b) => ~Using(a)
      BY <1>0, Zenon DEF IdsInv, IdInv, Life
    <3>q. QED
      BY <3>1, <3>2 DEF Using
  <2>4. /\ nch' = nch /\ next_id' = next_id /\ lcids' = lcids /\ rcids' = rcids /\ dev' = dev
        /\ upc' = upc /\ uch' = uch /\ wpc' = wpc /\ wch' = wch /\ wcmd' = wcmd
        /\ rx_queue' = rx_queue
    BY <1>0, <1>2, Zenon DEF Handled
  <2>5. /\ ch'[b] \in [Id -> Channel] /\ \A d \in Id : d # nch[b] => ch'[b][d] = ch[b][d]
        /\ nch[b] # 0 =>
             /\ Cur(b)'.refs = Cur(b).refs /\ Cur(b)'.lcid = Cur(b).lcid /\ Cur(b)'.rcid = Cur(b).rcid
             /\ Cur(b)'.cb = Cur(b).cb /\ Cur(b)'.rpdev = Cur(b).rpdev
             /\ Cur(b).open_ack => Cur(b)'.open_ack
             /\ wpc[b] = "create" => Cur(b)'.open_ack = Cur(b).open_ack
    <3>1. CASE m.id \in DOMAIN lcids[b]
      <4>1. m.id = Last(b) /\ InL(b)
        <5>1. DOMAIN lcids[b] \subseteq {Last(b)}
          BY <1>0, Zenon DEF IdsInv, IdInv
        <5>q. QED
          BY <5>1, <3>1 DEF InL
      <4>2. nch[b] # 0 /\ lcids[b][Last(b)] = nch[b] /\ nch[b] \in Id
        BY <1>0, <4>1 DEF IdsInv, ChanInv, SideType, Id
      <4>3. ch' = [ch EXCEPT ![b][nch[b]].open_ack = TRUE]
        BY <1>0, <1>2, <3>1, <4>1, <4>2, Zenon DEF Handled
      <4>4. AckSet(b, nch[b])
        BY <1>0, <4>2, <4>3, SetAck, Zenon
      <4>5. wpc[b] # "create"
        BY <1>0, <4>1, Zenon DEF AnswerInv
      <4>q. QED
        BY <4>4, <4>5, <2>4, Zenon DEF Cur, AckSet
    <3>2. CASE m.id \notin DOMAIN lcids[b]
      <4>1. ch' = ch
        BY <1>0, <1>2, <3>2, Zenon DEF Handled
      <4>2. ch[b] \in [Id -> Channel]
        BY <1>0, Zenon DEF SideType
      <4>q. QED
        BY <4>1, <4>2, <2>4, Zenon DEF Cur
    <3>q. QED
      BY <3>1, <3>2, Zenon
  <2>6. Using(b)' <=> Using(b)
    BY <2>4, <2>5, Zenon DEF Using
  <2>7. IdInv(a, b)' /\ IdInv(b, a)'
    BY <2>1, <2>6, Zenon
  <2>8. SideType(b)'
    BY <1>0, <2>1, <2>4, <2>5, Zenon DEF SideType
  <2>9. Made(b)' <=> Made(b)
    <3>1. upc[b] # "wait_local"
      BY <1>0 DEF AnswerInv
    <3>q. QED
      BY <3>1, <2>4, Zenon DEF Made, Making
  <2>10. ChanInv(b, a)'
    BY <1>0, <2>1, <2>4, <2>5, <2>9, ChanKept, Zenon DEF IdsInv, Tables
  <2>11. /\ Opening(a, b)' <=> Opening(a, b)
         /\ Closing(a, b)' <=> Closing(a, b)
         /\ Acked(b)' => Acked(b)
         /\ Zero(b)' => Zero(b)
    BY <2>1 DEF Less
  <2>12. OpenerInv(a, b)'
    BY <1>0, <2>1, RestOpener, Zenon DEF Ends, Same, Calm, Kept
  <2>13. AnswerInv(a, b)'
    <3>1. /\ InR(a, b)' <=> InR(a, b)
          /\ InL(b)' <=> InL(b)
      BY <2>1, Zenon DEF Calm
    <3>2. /\ nch[b] # 0 => (Cur(b)'.cb <=> Cur(b).cb)
          /\ nch[b] # 0 => (Cur(b)'.rpdev <=> Cur(b).rpdev)
          /\ nch[b] # 0 /\ Cur(b).open_ack => Cur(b)'.open_ack
          /\ nch[b] # 0 /\ wpc[b] = "create" => (Cur(b)'.open_ack <=> Cur(b).open_ack)
      BY <2>5, Zenon
    <3>3. upc[b] = "open" => nch[b] # 0
      <4>1. upc[b] = "open" => InL(b)
        BY <1>0 DEF Using, IdsInv, IdInv, Life
      <4>q. QED
        BY <4>1, <1>0, Zenon DEF IdsInv, ChanInv
    <3>q. QED
      BY <3>1, <3>2, <3>3, <1>0, <2>4, Zenon DEF AnswerInv
  <2>14. ~Opening(a, b) /\ ~Unopened(a, b)
    BY <1>0, <2>3, Zenon DEF PairInv, Fresh
  <2>15. ~Unopened(a, b)'
    BY <2>14, <2>1, <2>4, <1>0, Zenon DEF Unopened, Calm
  <2>16. PairInv(a, b)'
    BY <1>0, <2>1, <2>3, <2>4, <2>11, <2>14, <2>15, Zenon DEF PairInv, Kept, Calm, Rested
  <2>q. QED
    BY <2>1, <2>7, <2>8, <2>10, <2>12, <2>13, <2>16, Zenon DEF EndsInv, IdsInv, Rested
<1>q. QED
  BY <1>1, <1>2, Zenon

\* The OPEN of a finds no channel at b, and a new one is made.
LEMMA AnswerTakesOpen ==
  ASSUME NEW a, NEW b, Ends(a, b), RxOpen(b), Frame(a)
  PROVE  EndsInv(a, b)'
<1> DEFINE x == Head(rx_queue[b])
           n == nch[b] + 1
<1>0. FunType /\ a \in Side /\ b \in Side /\ a # b /\ SideType(a) /\ SideType(b) /\ IdsInv(b, a) /\ Same(a)
      /\ WayInv(a, b) /\ IdInv(a, b) /\ IdInv(b, a) /\ ChanInv(b, a)
      /\ bound' = bound /\ slow' = slow /\ AnswerInv(a, b) /\ PairInv(a, b)
  BY IdsSwap, Zenon DEF Ends, IdsInv, Frame
<1>1. /\ wpc[b] = "idle" /\ rx_queue[b] # <<>> /\ x.cmd = "OPEN"
      /\ rx_queue' = [rx_queue EXCEPT ![b] = Tail(rx_queue[b])]
      /\ wcmd' = [wcmd EXCEPT ![b] = x] /\ next_id' = next_id /\ lcids' = lcids /\ rcids' = rcids
      /\ dev' = dev /\ fifo' = fifo /\ upc' = upc /\ uch' = uch
  BY Zenon DEF RxOpen, Taken, wire, user
<1>2. rx_queue'[b] = Tail(rx_queue[b]) /\ wcmd'[b] = x
  BY <1>0, <1>1, Zenon DEF FunType
<1>3. Takes(b, a, x)
  BY <1>0, <1>1, <1>2, WorkerTakes, Zenon
<1>4. Opening(a, b) /\ ~Closed(b) /\ x \in Command /\ rx_queue'[b] \in Seq(Command)
  BY <1>1, <1>3, Zenon DEF Takes
<1>5. Fresh(a) /\ upc[b] = "idle" /\ ~Using(b) /\ ~InL(b)
  BY <1>0, <1>4, Zenon DEF PairInv
<1>6. InL(a) /\ ~InR(a, b)
  BY <1>0, <1>4, Zenon DEF IdInv, Life
<1>7. Find(lcids[b]) = 0
  <2>1. DOMAIN lcids[b] = {}
    BY <1>0, <1>5 DEF IdInv, InL
  <2>q. QED
    BY <2>1 DEF Find
<1>8. /\ nch[b] < MAXCH /\ nch' = [nch EXCEPT ![b] = @ + 1] /\ ch' = [ch EXCEPT ![b][nch'[b]] = NewChannel]
      /\ wch' = [wch EXCEPT ![b] = nch'[b]] /\ wpc' = [wpc EXCEPT ![b] = "create"]
  BY <1>7, Zenon DEF RxOpen
<1>9. nch'[b] = n /\ wch'[b] = n /\ wpc'[b] = "create" /\ ch' = [ch EXCEPT ![b][n] = NewChannel]
  BY <1>0, <1>8, Zenon DEF FunType
<1>10. n \in Id /\ n # nch[b] /\ n \in 0 .. MAXCH /\ n # 0 /\ nch[b] \in 0 .. MAXCH
  <2>1. nch[b] \in 0 .. MAXCH /\ MAXCH \in Nat
    BY <1>0, GlinkChannelAssumption, Zenon DEF SideType
  <2>q. QED
    BY <2>1, <1>8 DEF Id
<1>11. uch[b] \in 0 .. n /\ uch[b] # n
  <2>1. uch[b] \in 0 .. nch[b]
    BY <1>0, Zenon DEF AnswerInv
  <2>q. QED
    BY <2>1, <1>10
<1> HIDE DEF n
<1>12. Becomes(b, n, NewChannel)
  BY <1>0, <1>9, <1>10, FieldsNew, Updated, Zenon
<1>13. /\ ch'[b] \in [Id -> Channel] /\ Cur(b)' = NewChannel
       /\ \A d \in Id : d # n => ch'[b][d] = ch[b][d]
  BY <1>9, <1>12, Zenon DEF Becomes, Cur
<1>14. Way(b)' = Way(b)
  <2>1. Held(b)' = <<x>>
    BY <1>2, <1>9, Zenon DEF Held
  <2>q. QED
    BY <2>1, <1>3, Zenon DEF Takes
<1>15. ~Using(b)'
  BY <1>1, <1>5, <1>9, <1>13, FieldsNew DEF Using
<1>16. /\ Calm(b, a) /\ Rested(b, a) /\ Kept(b, a) /\ Kept(a, b)
       /\ IdInv(b, a)' /\ IdInv(a, b)' /\ WayInv(b, a)' /\ WayInv(a, b)'
  BY <1>0, <1>1, <1>5, <1>14, <1>15, Mild, Zenon DEF Tables
<1>17. SideType(b)'
  BY <1>0, <1>1, <1>2, <1>4, <1>9, <1>10, <1>13, Zenon DEF SideType
<1>18. ~InL(b)' /\ ~InR(a, b)'
  BY <1>5, <1>6, <1>16, Zenon DEF Calm
<1>19. ChanInv(b, a)'
  <2>1. ~Made(b) /\ Made(b)'
    BY <1>1, <1>5, <1>9 DEF Made, Making
  <2>2. nch[b] # 0 => Cur(b).refs = 0
    BY <2>1, <1>0, <1>5, <1>6 DEF ChanInv, Num
  <2>3. \A d \in Id : d # n => ch'[b][d].refs = 0
    <3>1. \A d \in Id : d # nch[b] => ch[b][d].refs = 0
      BY <1>0, Zenon DEF ChanInv
    <3>2. \A d \in Id : d # 0
      BY DEF Id
    <3>q. QED
      BY <3>1, <3>2, <2>2, <1>13, Zenon DEF Cur
  <2>4. Cur(b)'.refs = Num(InL(b))' + Num(InR(a, b))' + Num(Made(b))'
    BY <2>1, <1>13, <1>18, FieldsNew DEF Num
  <2>q. QED
    BY <2>3, <2>4, <1>9, <1>10, <1>13, <1>18, FieldsNew, Zenon DEF ChanInv
<1>20. OpenerInv(a, b)'
  BY <1>0, <1>16, RestOpener, Zenon DEF Ends, Same, Calm, Kept
<1>21. AnswerInv(a, b)'
  <2>1. dev[b] = 0
    BY <1>0, <1>6, Zenon DEF AnswerInv
  <2>q. QED
    BY <2>1, <1>0, <1>1, <1>5, <1>9, <1>10, <1>11, <1>13, <1>18, FieldsNew DEF AnswerInv
<1>22. ~Unopened(a, b)'
  BY <1>18, Zenon DEF Unopened
<1>23. upc'[a] = upc[a]
  BY <1>1
<1>24. Fresh(a)'
  BY <1>5, <1>16, <1>23, Zenon DEF Fresh, Rested, Kept
<1>25. PairInv(a, b)'
  BY <1>0, <1>1, <1>5, <1>15, <1>16, <1>18, <1>22, <1>24, Zenon DEF PairInv, Kept, Calm, Rested
<1>q. QED
  BY <1>16, <1>17, <1>19, <1>20, <1>21, <1>25, Zenon DEF EndsInv, IdsInv, Rested

\* It is entered in rcids under the id of a, and gets its device.
LEMMA AnswerEnters ==
  ASSUME NEW a, NEW b, Ends(a, b), RxOpenInsert(b), Frame(a)
  PROVE  EndsInv(a, b)'
<1>0. FunType /\ a \in Side /\ b \in Side /\ a # b /\ SideType(a) /\ SideType(b) /\ IdsInv(b, a) /\ Same(a)
      /\ WayInv(b, a) /\ WayInv(a, b) /\ IdInv(a, b) /\ IdInv(b, a) /\ Core(a) /\ ChanInv(b, a)
      /\ bound' = bound /\ slow' = slow /\ AnswerInv(a, b) /\ PairInv(a, b)
  BY IdsSwap, Zenon DEF Ends, IdsInv, Frame, Same
<1>1. wpc[b] = "create" /\ wch[b] = nch[b] /\ nch[b] # 0
  BY <1>0, Zenon DEF AnswerInv, RxOpenInsert
<1>2. wcmd[b] = Cmd("OPEN", Last(a)) /\ Opening(a, b)
  BY <1>0, <1>1, HeldOpen, Zenon
<1>3. Fresh(a) /\ upc[b] = "idle" /\ ~Using(b) /\ ~InL(b) /\ uch[b] # nch[b] /\ ~Cur(b).open_ack
  BY <1>0, <1>1, <1>2, Zenon DEF PairInv, AnswerInv
<1>4. InL(a) /\ ~Closed(a) /\ ~InR(a, b)
  BY <1>0, <1>2 DEF IdInv, Life
<1>5. nch[b] \in Id /\ Last(a) \in Id /\ DOMAIN rcids[b] = {} /\ wcmd[b].id = Last(a)
  <2>1. nch[b] \in 0 .. MAXCH
    BY <1>0, Zenon DEF SideType
  <2>2. nch[b] \in Id
    BY <2>1, <1>1 DEF Id
  <2>3. Last(a) \in Id /\ DOMAIN rcids[b] = {}
    BY <1>0, <1>4 DEF IdInv, InR
  <2>4. wcmd[b].id = Last(a)
    BY <1>2 DEF Cmd
  <2>q. QED
    BY <2>2, <2>3, <2>4
<1>d. dev[b] = 0
  BY <1>0, <1>4, Zenon DEF AnswerInv
<1>6. /\ rcids' = [rcids EXCEPT ![b] = Insert(rcids[b], Last(a), nch[b])]
      /\ ch' = [ch EXCEPT ![b][nch[b]].rcid = Last(a), ![b][nch[b]].open_req = TRUE,
                          ![b][nch[b]].rpdev = @ \/ TRUE]
      /\ dev' = [dev EXCEPT ![b] = nch[b]]
      /\ IF bound[b] THEN wpc' = [wpc EXCEPT ![b] = "probe"] /\ wch' = wch ELSE WorkerIdle(b)
  BY <1>1, <1>5, <1>d, Zenon DEF RxOpenInsert
<1>7. /\ nch' = nch /\ next_id' = next_id /\ lcids' = lcids /\ fifo' = fifo /\ rx_queue' = rx_queue
      /\ upc' = upc /\ uch' = uch
  BY Zenon DEF RxOpenInsert, wire, recv, user
<1>8. /\ rcids'[b] = Insert(rcids[b], Last(a), nch[b]) /\ dev'[b] = nch[b]
      /\ bound[b] => wpc'[b] = "probe" /\ wch'[b] = nch[b]
      /\ ~bound[b] => wpc'[b] = "idle"
  BY <1>0, <1>1, <1>6, Zenon DEF WorkerIdle, FunType
<1>9. DOMAIN rcids'[b] = {Last(a)} /\ rcids'[b][Last(a)] = nch[b]
  BY <1>5, <1>8 DEF Insert
<1>10. /\ ch'[b] \in [Id -> Channel] /\ \A d \in Id : d # nch[b] => ch'[b][d] = ch[b][d]
       /\ Cur(b)'.refs = Cur(b).refs /\ Cur(b)'.lcid = Cur(b).lcid /\ Cur(b)'.rcid = Last(a)
       /\ Cur(b)'.open_ack = Cur(b).open_ack /\ Cur(b)'.rpdev /\ Cur(b)'.cb = Cur(b).cb
  <2>1. Last(a) \in 0 .. MAXCH
    BY <1>0, WayType, Zenon
  <2>2. EnterSet(b, nch[b], Last(a), TRUE)
    BY <1>0, <1>5, <1>6, <2>1, SetEntered, Zenon
  <2>q. QED
    BY <2>2, <1>7, Zenon DEF Cur, EnterSet
<1>11. Last(a)' = Last(a) /\ Last(b)' = Last(b) /\ lcids'[a] = lcids[a] /\ rcids'[a] = rcids[a]
  BY <1>0, <1>7, Zenon DEF Last, Core
<1>12. ~InL(b)' /\ (InR(b, a)' <=> InR(b, a)) /\ InR(a, b)'
  BY <1>3, <1>7, <1>9, <1>11 DEF InL, InR
<1>13. /\ Cur(a)' = Cur(a) /\ Held(a)' = Held(a) /\ (InL(a)' <=> InL(a)) /\ (Using(a)' <=> Using(a))
       /\ ChanInv(a, b)'
  BY <1>0, <1>11, <1>12, Rest, Zenon DEF IdsInv
<1>14. SideType(a)' /\ SideType(b)'
  <2>1. SideType(a)'
    BY <1>0, <1>7, RestType, Zenon DEF SideType
  <2>2. SideType(b)'
    BY <1>0, <1>7, <1>8, <1>10 DEF SideType
  <2>q. QED
    BY <2>1, <2>2
<1>15. Way(a)' = Way(a)
  BY <1>7, <1>13, WayStill, Zenon
<1>16. WayInv(b, a)' /\ Kept(b, a)
  BY <1>0, <1>11, <1>15, WaySame, Zenon
<1>17. WayInv(a, b)' /\ Less(a, b, "OPEN", Last(a))
  <2>1. Held(b)' = <<>>
    BY <1>8 DEF Held
  <2>q. QED
    BY <2>1, <1>0, <1>1, <1>7, <1>11, HeldDone
<1>18. /\ ~Opening(a, b)'
       /\ Closing(a, b)' <=> Closing(a, b)
       /\ Closed(b)' <=> Closed(b)
       /\ Acked(b)' <=> Acked(b)
       /\ Zero(b)' <=> Zero(b)
  BY <1>17 DEF Less
<1>19. ~Using(b)'
  <2>1. ~Cur(b)'.cb
    BY <1>1, <1>3, <1>10, Zenon DEF Using
  <2>q. QED
    BY <2>1, <1>3, <1>7, <1>8 DEF Using
<1>20. IdInv(b, a)'
  BY <1>0, <1>3, <1>7, <1>11, <1>12, <1>16, <1>18, <1>19, IdKept, Zenon DEF Kept
<1>21. IdInv(a, b)'
  BY <1>0, <1>4, <1>5, <1>9, <1>11, <1>12, <1>13, <1>16, <1>18, Zenon DEF IdInv, Life, Kept
<1>22. ChanInv(b, a)'
  <2>1. Made(b) /\ ~Made(b)'
    BY <1>1, <1>3, <1>7, <1>8, Zenon DEF Made, Making
  <2>2. Cur(b).refs = Num(InL(b)) + Num(InR(a, b)) + Num(Made(b)) /\ Cur(b).lcid = 0
    BY <1>0, <1>1, <1>3, Zenon DEF ChanInv
  <2>3. Cur(b)'.refs = Num(InL(b))' + Num(InR(a, b))' + Num(Made(b))'
    BY <2>1, <2>2, <1>3, <1>4, <1>10, <1>12 DEF Num
  <2>4. \A d \in Id : d # nch[b] => ch[b][d].refs = 0
    BY <1>0, Zenon DEF ChanInv
  <2>q. QED
    BY <2>2, <2>3, <2>4, <1>1, <1>7, <1>9, <1>10, <1>11, <1>12, Zenon DEF ChanInv
<1>23. OpenerInv(a, b)'
  BY <1>0, <1>11, <1>12, <1>16, RestOpener, Zenon DEF Ends, Kept
<1>24. AnswerInv(a, b)'
  <2>1. ~Cur(b)'.cb
    BY <1>1, <1>3, <1>10, Zenon DEF Using
  <2>q. QED
    BY <2>1, <1>0, <1>1, <1>3, <1>7, <1>8, <1>10, <1>12, Zenon DEF AnswerInv
<1>25. upc'[a] = upc[a]
  BY <1>7
<1>26. Fresh(a)'
  BY <1>3, <1>13, <1>16, <1>25, Zenon DEF Fresh, Kept
<1>27. Unopened(a, b)'
  BY <1>0, <1>3, <1>7, <1>8, <1>12, Zenon DEF Unopened
<1>28. ~Cur(b)'.open_ack
  BY <1>3, <1>10, Zenon
<1>29. PairInv(a, b)'
  BY <1>0, <1>3, <1>7, <1>11, <1>12, <1>13, <1>16, <1>18, <1>26, <1>27, <1>28, Zenon DEF PairInv, Kept
<1>q. QED
  BY <1>13, <1>14, <1>16, <1>17, <1>20, <1>21, <1>22, <1>23, <1>24, <1>29, Zenon DEF EndsInv, IdsInv

=============================================================================
