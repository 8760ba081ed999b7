------------------------- MODULE GlinkChannelLemmas -------------------------
(***************************************************************************)
(* The inductive invariant of GlinkChannel for any number of pairs of      *)
(* processors and any bound on channels, when one processor of a pair      *)
(* opens the channel, with waits in create_local that do not expire, and   *)
(* waits for it to be gone before it opens it again; lemmas about its      *)
(* queues, tables and channels; and the steps of the processor that opens. *)
(***************************************************************************)
EXTENDS GlinkChannel, TLAPS

\* One processor of a pair opens the channel, and not again before it is gone;
\* its waits in qcom_glink_create_local do not expire.
OneOpener ==
    /\ Reopen = FALSE /\ LocalWait = "never"
    /\ \A s \in Side : s \in Openers <=> Peer[s] \notin Openers

-----------------------------------------------------------------------------
(* The inductive invariant. *)

Cmds == {"OPEN", "OPEN_ACK", "CLOSE", "CLOSE_ACK"}
Command == [cmd : Cmds, id : Nat]
Channel == [refs : Int, lcid : 0 .. MAXCH, rcid : 0 .. MAXCH, open_ack : BOOLEAN,
            open_req : BOOLEAN, rpdev : BOOLEAN, cb : BOOLEAN]

FunType ==
    /\ bound \in [Side -> BOOLEAN] /\ slow \in BOOLEAN /\ slow_local = FALSE
    /\ ch = [s \in Side |-> ch[s]] /\ nch = [s \in Side |-> nch[s]]
    /\ next_id = [s \in Side |-> next_id[s]] /\ dev = [s \in Side |-> dev[s]]
    /\ lcids = [s \in Side |-> lcids[s]] /\ rcids = [s \in Side |-> rcids[s]]
    /\ fifo = [s \in Side |-> fifo[s]] /\ rx_queue = [s \in Side |-> rx_queue[s]]
    /\ upc = [s \in Side |-> upc[s]] /\ uch = [s \in Side |-> uch[s]]
    /\ wpc = [s \in Side |-> wpc[s]] /\ wch = [s \in Side |-> wch[s]]
    /\ wcmd = [s \in Side |-> wcmd[s]]

\* Commands in a queue, at most once each, and their order.
Has(q, x) == \E i \in DOMAIN q : q[i] = x
Once(q) == \A i \in DOMAIN q : \A j \in DOMAIN q : q[i] = q[j] => i = j
Before(q, x, y) == \A i \in DOMAIN q : \A j \in DOMAIN q : q[i] = x /\ q[j] = y => i < j

\* The commands on their way to t: the OPEN its worker is at, those left to the
\* worker, and those in the fifo.
Held(t) == IF wpc[t] \in {"insert", "create"} THEN <<wcmd[t]>> ELSE <<>>
Way(t) == Held(t) \o (rx_queue[t] \o fifo[t])

SideType(s) ==
    /\ ch[s] \in [Id -> Channel] /\ nch[s] \in 0 .. MAXCH /\ next_id[s] \in 1 .. MAXCH + 1
    /\ fifo[s] \in Seq(Command) /\ rx_queue[s] \in Seq(Command)
    /\ wpc[s] \in {"insert", "create"} => wcmd[s] \in Command /\ wcmd[s].cmd = "OPEN"

\* The last local id of s, the channel in use, and where the id is: in lcids of
\* s, in rcids of its peer t, and in which commands.
Last(s) == next_id[s] - 1
Cur(s) == ch[s][nch[s]]
InL(s) == Last(s) \in DOMAIN lcids[s]
InR(s, t) == Last(s) \in DOMAIN rcids[t]
On(t, c, n) == Has(Way(t), Cmd(c, n))
Opening(s, t) == On(t, "OPEN", Last(s))
Closing(s, t) == On(t, "CLOSE", Last(s))
Closed(s) == On(s, "CLOSE_ACK", Last(s))
Acked(s) == On(s, "OPEN_ACK", Last(s))
Zero(s) == On(s, "OPEN_ACK", 0)
\* s has not sent the CLOSE of its id.
Using(s) ==
    \/ upc[s] \in {"wait_local", "wait_remote", "open"} \/ wpc[s] = "wait"
    \/ nch[s] # 0 /\ Cur(s).cb

\* The life of an id: OPEN on its way or entered by the peer, then CLOSE on its
\* way, then CLOSE_ACK.
Life(L, R, o, c, k, u) ==
    /\ ~L => ~R /\ ~o /\ ~c /\ ~k /\ ~u
    /\ u => ~c /\ ~k
    /\ L /\ ~k => (o <=> ~R)
    /\ L /\ ~u => c \/ k
    /\ k => ~o /\ ~c /\ ~R
IdInv(s, t) ==
    /\ DOMAIN lcids[s] \subseteq {Last(s)} /\ DOMAIN rcids[t] \subseteq {Last(s)}
    /\ InL(s) => Last(s) \in Id
    /\ Life(InL(s), InR(s, t), Opening(s, t), Closing(s, t), Closed(s), Using(s))

\* A queue of commands from the side with last id i to the side with last id j,
\* and their order.
Sent(i, j) == {Cmd("OPEN", i), Cmd("CLOSE", i), Cmd("CLOSE_ACK", j),
               Cmd("OPEN_ACK", j), Cmd("OPEN_ACK", 0)}
QueueInv(q, i, j) ==
    /\ Once(q) /\ \A m : Has(q, m) => m \in Sent(i, j)
    /\ Before(q, Cmd("OPEN", i), Cmd("CLOSE", i))
    /\ Before(q, Cmd("CLOSE_ACK", j), Cmd("OPEN", i))
    /\ Before(q, Cmd("OPEN_ACK", j), Cmd("CLOSE_ACK", j))
    /\ Before(q, Cmd("OPEN_ACK", j), Cmd("CLOSE", i))
    /\ Before(q, Cmd("OPEN_ACK", 0), Cmd("CLOSE", i))
WayInv(s, t) == QueueInv(Way(t), Last(s), Last(t))

\* The channel of s, and what its tables say of it.
Num(p) == IF p THEN 1 ELSE 0
Made(s) == Making(s, nch[s])
ChanInv(s, t) ==
    /\ \A d \in Id : d # nch[s] => ch[s][d].refs = 0
    /\ nch[s] # 0 =>
         /\ Cur(s).refs = Num(InL(s)) + Num(InR(t, s)) + Num(Made(s))
         /\ ~InL(s) => Cur(s).lcid = 0
         /\ ~InR(t, s) => Cur(s).rcid = 0
    /\ InL(s) => nch[s] # 0 /\ lcids[s][Last(s)] = nch[s] /\ Cur(s).lcid = Last(s)
    /\ InR(t, s) => nch[s] # 0 /\ rcids[s][Last(t)] = nch[s] /\ Cur(s).rcid = Last(t)

\* The side that opens.
OpenerInv(a, b) ==
    /\ bound[a] = FALSE /\ dev[a] = 0 /\ wpc[a] \in {"idle", "insert"}
    /\ upc[a] \in {"idle", "local", "wait_local", "open"}
    /\ wpc[a] = "insert" => wch[a] = nch[a]
    /\ upc[a] \in {"wait_local", "open"} => uch[a] = nch[a]
    /\ nch[a] # 0 => (Cur(a).cb <=> upc[a] = "open")
    /\ upc[a] = "local" => next_id[a] <= MAXCH /\ ~InL(a) /\ ~InR(b, a)
    /\ InR(b, a) => Cur(a).open_req
    /\ Zero(a) => Last(a) = 0

\* The side that answers: by a driver's probe or by a thread.
AnswerInv(a, b) ==
    /\ upc[b] \in {"idle", "remote", "wait_remote", "open"}
    /\ wpc[b] \in {"idle", "create", "probe", "wait"}
    /\ IF bound[b] THEN upc[b] = "idle" ELSE wpc[b] \in {"idle", "create"}
    /\ upc[b] # "idle" => uch[b] = nch[b]
    /\ wpc[b] # "idle" => wch[b] = nch[b] /\ nch[b] # 0
    /\ uch[b] \in 0 .. nch[b]
    /\ wpc[b] = "create" => uch[b] # nch[b] /\ ~InL(b) /\ ~Cur(b).open_ack
    /\ upc[b] = "remote" => next_id[b] <= MAXCH /\ InR(a, b)
    /\ wpc[b] \in {"probe", "wait"} => InR(a, b) /\ dev[b] # 0
    /\ dev[b] \in {0, nch[b]}
    /\ nch[b] # 0 => (Cur(b).rpdev <=> dev[b] # 0)
    /\ dev[b] # 0 => InR(a, b)
    /\ upc[b] = "open" => Cur(b).cb
    /\ nch[b] # 0 /\ Cur(b).cb =>
         /\ upc[b] = "open" \/ (bound[b] /\ dev[b] # 0 /\ wpc[b] = "idle")
         /\ Cur(b).open_ack

\* b has entered the id of a and has not opened its own end yet; a has heard
\* nothing of it.
Unopened(a, b) ==
    /\ InR(a, b)
    /\ IF bound[b] THEN wpc[b] = "probe" ELSE uch[b] # nch[b] \/ upc[b] = "remote"
Fresh(a) == upc[a] = "wait_local" /\ ~Cur(a).open_ack /\ ~Cur(a).open_req /\ ~Acked(a)

PairInv(a, b) ==
    /\ Opening(b, a) => upc[a] = "wait_local" /\ ~Cur(a).open_req
    /\ Acked(a) => upc[a] = "wait_local" /\ ~Cur(a).open_ack
    /\ Opening(a, b) => Fresh(a) /\ upc[b] = "idle" /\ ~Using(b) /\ (InL(b) => Closed(b))
    /\ Unopened(a, b) => Fresh(a) /\ ~InL(b)
    /\ upc[a] = "wait_local" /\ InR(a, b) => ~Cur(b).open_ack
    /\ ~slow /\ upc[a] = "wait_local" /\ InR(a, b) /\ ~Unopened(a, b) => Using(b)
    /\ Acked(b) => InL(b)
    /\ Acked(b) \/ Zero(b) => upc[a] = "open" \/ Closing(a, b)
    /\ Zero(b) => slow
    /\ upc[a] = "wait_local" /\ Cur(a).open_req => Last(b) # 0

IdsInv(s, t) ==
    /\ SideType(s) /\ SideType(t) /\ IdInv(s, t) /\ IdInv(t, s) /\ WayInv(s, t) /\ WayInv(t, s)
    /\ ChanInv(s, t) /\ ChanInv(t, s)
EndsInv(a, b) == IdsInv(a, b) /\ OpenerInv(a, b) /\ AnswerInv(a, b) /\ PairInv(a, b)
IInv == FunType /\ \A a \in Openers : EndsInv(a, Peer[a])

-----------------------------------------------------------------------------
(* Queues of commands. *)

\* A command is told by its kind and its id.
LEMMA CmdEq ==
  ASSUME NEW c, NEW d, NEW m, NEW n, Cmd(c, m) = Cmd(d, n)
  PROVE  c = d /\ m = n
<1>1. Cmd(c, m).cmd = c /\ Cmd(c, m).id = m
  BY DEF Cmd
<1>2. Cmd(d, n).cmd = d /\ Cmd(d, n).id = n
  BY DEF Cmd
<1>q. QED
  BY <1>1, <1>2, Zenon

\* A command added at the end of a queue.
LEMMA Added ==
  ASSUME NEW S, NEW q \in Seq(S), NEW x \in S
  PROVE  LET r == Append(q, x)
         IN /\ r \in Seq(S) /\ \A m : Has(r, m) <=> Has(q, m) \/ m = x
            /\ Once(q) /\ ~Has(q, x) => Once(r)
            /\ \A m, n : m # x /\ Before(q, m, n) => Before(r, m, n)
<1> DEFINE r == Append(q, x)
<1>1. Len(q) \in Nat /\ DOMAIN q = 1 .. Len(q) /\ DOMAIN r = 1 .. Len(q) + 1
      /\ (\A i \in 1 .. Len(q) : r[i] = q[i]) /\ r[Len(q) + 1] = x /\ r \in Seq(S)
  OBVIOUS
<1>2. \A i \in DOMAIN r : i \in DOMAIN q \/ i = Len(q) + 1
  BY <1>1
<1>3. \A i \in DOMAIN q : i \in DOMAIN r /\ r[i] = q[i] /\ i < Len(q) + 1
  BY <1>1
<1>4. Len(q) + 1 \in DOMAIN r
  BY <1>1
<1> DEFINE l == Len(q) + 1
<1>l. r[l] = x /\ l \in DOMAIN r
  BY <1>1, <1>4
<1>5. \A i \in DOMAIN r : i \in DOMAIN q \/ i = l
  BY <1>2
<1>6. \A i \in DOMAIN q : i \in DOMAIN r /\ r[i] = q[i] /\ i < l
  BY <1>3
<1> HIDE DEF r, l
<1>7. \A m : Has(r, m) <=> Has(q, m) \/ m = x
  BY <1>l, <1>5, <1>6, Zenon DEF Has
<1>8. Once(q) /\ ~Has(q, x) => Once(r)
  BY <1>l, <1>5, <1>6, ZenonT(40) DEF Once, Has
<1>9. ASSUME NEW m, NEW n, m # x, Before(q, m, n)
      PROVE  Before(r, m, n)
  BY <1>9, <1>l, <1>5, <1>6, Zenon DEF Before
<1>10. Append(q, x) \in Seq(S)
  OBVIOUS
<1>q. QED
  BY <1>7, <1>8, <1>9, <1>10, Zenon DEF r

\* A command taken out of a queue: out of its middle, and out of its front.
LEMMA Cut ==
  ASSUME NEW S, NEW p \in Seq(S), NEW q \in Seq(S), q # <<>>, Once(p \o q)
  PROVE  LET z == p \o q
             r == p \o Tail(q)
         IN /\ r \in Seq(S) /\ Once(r) /\ Has(z, Head(q))
            /\ \A m : Has(r, m) <=> Has(z, m) /\ m # Head(q)
            /\ \A m, n : Before(z, m, n) => Before(r, m, n)
<1> DEFINE z == p \o q
           r == p \o Tail(q)
           k == Len(p) + 1
           N == Len(p) + Len(q)
<1>1. Len(p) \in Nat /\ Len(q) \in Nat /\ Len(q) # 0 /\ Tail(q) \in Seq(S) /\ Len(Tail(q)) = Len(q) - 1
      /\ Head(q) = q[1]
  OBVIOUS
<1>2. DOMAIN z = 1 .. N /\ DOMAIN r = 1 .. N - 1 /\ k \in 1 .. N /\ r \in Seq(S)
  BY <1>1
<1>3. z[k] = Head(q)
  BY <1>1
<1>4. ASSUME NEW i \in DOMAIN r PROVE r[i] = IF i < k THEN z[i] ELSE z[i + 1]
  <2>1. CASE i < k
    BY <1>1, <2>1
  <2>2. CASE ~(i < k)
    <3>1. i \in Nat /\ i - Len(p) \in 1 .. Len(Tail(q)) /\ r[i] = Tail(q)[i - Len(p)]
      BY <1>1, <2>2
    <3>2. Tail(q)[i - Len(p)] = q[i - Len(p) + 1]
      BY <1>1, <3>1
    <3>3. z[i + 1] = q[i + 1 - Len(p)]
      BY <1>1, <2>2, <3>1
    <3>4. i - Len(p) + 1 = i + 1 - Len(p)
      BY <1>1, <3>1
    <3>q. QED
      BY <2>2, <3>1, <3>2, <3>3, <3>4
  <2>q. QED
    BY <2>1, <2>2
<1>5. Once(z)
  OBVIOUS
<1> HIDE DEF z, r, k, N
<1> DEFINE g(i) == IF i < k THEN i ELSE i + 1
           h(i) == IF i < k THEN i ELSE i - 1
<1>n. N \in Nat /\ k \in Nat
  BY <1>1, <1>2 DEF N, k
<1>6. \A i \in DOMAIN r : g(i) \in DOMAIN z /\ g(i) # k /\ r[i] = z[g(i)]
  BY <1>2, <1>4, <1>n
<1>7. \A i \in DOMAIN z : i # k => h(i) \in DOMAIN r /\ g(h(i)) = i
  BY <1>2, <1>n
<1>8. \A i \in DOMAIN r : \A j \in DOMAIN r : (g(i) = g(j) => i = j) /\ (g(i) < g(j) => i < j)
  BY <1>2, <1>n
<1>k. k \in DOMAIN z
  BY <1>2
<1> HIDE DEF g, h
<1>9. Once(r)
  BY <1>5, <1>6, <1>8, Zenon DEF Once
<1>10. \A m, n : Before(z, m, n) => Before(r, m, n)
  BY <1>6, <1>8, Zenon DEF Before
<1>11. Has(z, Head(q))
  BY <1>3, <1>k, Zenon DEF Has
<1>12. ASSUME NEW m, Has(r, m) PROVE Has(z, m) /\ m # Head(q)
  <2>1. PICK i \in DOMAIN r : r[i] = m
    BY <1>12 DEF Has
  <2>2. g(i) \in DOMAIN z /\ g(i) # k /\ m = z[g(i)]
    BY <1>6, <2>1, Zenon
  <2>q. QED
    BY <2>2, <1>3, <1>5, <1>k, Zenon DEF Has, Once
<1>13. ASSUME NEW m, Has(z, m), m # Head(q) PROVE Has(r, m)
  <2>1. PICK i \in DOMAIN z : z[i] = m
    BY <1>13 DEF Has
  <2>2. i # k
    BY <1>13, <1>3, <2>1, Zenon
  <2>3. h(i) \in DOMAIN r /\ g(h(i)) = i
    BY <1>7, <2>1, <2>2, Zenon
  <2>4. r[h(i)] = m
    BY <2>1, <2>3, <1>6, Zenon
  <2>q. QED
    BY <2>3, <2>4, Zenon DEF Has
<1>14. r \in Seq(S)
  BY <1>2
<1>q. QED
  BY <1>9, <1>10, <1>11, <1>12, <1>13, <1>14, Zenon DEF z, r

\* What is before the first command is not there, nor is what is absent out of order.
LEMMA Front ==
  ASSUME NEW S, NEW q \in Seq(S), q # <<>>
  PROVE  Has(q, Head(q)) /\ \A m : Before(q, m, Head(q)) => ~Has(q, m)
<1>1. 1 \in DOMAIN q /\ q[1] = Head(q)
  OBVIOUS
<1>2. \A i \in DOMAIN q : ~(i < 1)
  OBVIOUS
<1>q. QED
  BY <1>1, <1>2, Zenon DEF Has, Before
\* A command that is absent is out of order with none.
LEMMA Absent ==
  ASSUME NEW q, NEW m, NEW n, ~Has(q, m) \/ ~Has(q, n)
  PROVE  Before(q, m, n)
BY Zenon DEF Has, Before

\* What QueueInv says of the queue when a command is added, when one is taken
\* out, and when one of the sides begins a new id.
LEMMA QueueMore ==
  ASSUME NEW q \in Seq(Command), NEW i \in Nat, NEW j \in Nat, NEW x \in Command,
         QueueInv(q, i, j), x \in Sent(i, j), ~Has(q, x),
         x = Cmd("OPEN", i) => ~Has(q, Cmd("CLOSE", i)),
         x = Cmd("CLOSE_ACK", j) => ~Has(q, Cmd("OPEN", i)),
         x = Cmd("OPEN_ACK", j) => ~Has(q, Cmd("CLOSE_ACK", j)) /\ ~Has(q, Cmd("CLOSE", i)),
         x = Cmd("OPEN_ACK", 0) => ~Has(q, Cmd("CLOSE", i))
  PROVE  QueueInv(Append(q, x), i, j)
<1> DEFINE r == Append(q, x)
<1>1. /\ \A m : Has(r, m) <=> Has(q, m) \/ m = x
      /\ Once(r)
      /\ \A m, n : m # x /\ Before(q, m, n) => Before(r, m, n)
  BY Added, Zenon DEF QueueInv
<1>2. Cmd("OPEN", i) # Cmd("CLOSE", i) /\ Cmd("OPEN", i) # Cmd("CLOSE_ACK", j)
      /\ Cmd("CLOSE_ACK", j) # Cmd("OPEN_ACK", j) /\ Cmd("CLOSE", i) # Cmd("OPEN_ACK", j)
      /\ Cmd("CLOSE", i) # Cmd("OPEN_ACK", 0)
  BY CmdEq
<1> HIDE DEF r
<1>3. ASSUME NEW m, NEW n, m # n, Before(q, m, n), m = x => ~Has(q, n)
      PROVE  Before(r, m, n)
  <2>1. CASE m = x
    <3>1. ~Has(r, n)
      BY <1>1, <1>3, <2>1, Zenon
    <3>q. QED
      BY <3>1, Absent, Zenon
  <2>2. CASE m # x
    BY <1>1, <1>3, <2>2, Zenon
  <2>q. QED
    BY <2>1, <2>2, Zenon
<1>4. Before(r, Cmd("OPEN", i), Cmd("CLOSE", i))
  BY <1>2, <1>3, Zenon DEF QueueInv
<1>5. Before(r, Cmd("CLOSE_ACK", j), Cmd("OPEN", i))
  BY <1>2, <1>3, Zenon DEF QueueInv
<1>6. Before(r, Cmd("OPEN_ACK", j), Cmd("CLOSE_ACK", j))
  BY <1>2, <1>3, Zenon DEF QueueInv
<1>7. Before(r, Cmd("OPEN_ACK", j), Cmd("CLOSE", i))
  BY <1>2, <1>3, Zenon DEF QueueInv
<1>8. Before(r, Cmd("OPEN_ACK", 0), Cmd("CLOSE", i))
  BY <1>2, <1>3, Zenon DEF QueueInv
<1>9. \A m : Has(r, m) => m \in Sent(i, j)
  BY <1>1, Zenon DEF QueueInv
<1>q. QED
  BY <1>1, <1>4, <1>5, <1>6, <1>7, <1>8, <1>9, Zenon DEF QueueInv, r
\* A command is taken out of a queue.
LEMMA QueueLess ==
  ASSUME NEW p \in Seq(Command), NEW q \in Seq(Command), q # <<>>,
         NEW i \in Nat, NEW j \in Nat, QueueInv(p \o q, i, j)
  PROVE  QueueInv(p \o Tail(q), i, j)
<1> DEFINE z == p \o q
           r == p \o Tail(q)
<1>1. /\ \A m : Has(r, m) <=> Has(z, m) /\ m # Head(q)
      /\ Once(r)
      /\ \A m, n : Before(z, m, n) => Before(r, m, n)
  BY Cut, Zenon DEF QueueInv
<1>2. QueueInv(z, i, j)
  OBVIOUS
<1> HIDE DEF z, r
<1>3. QueueInv(r, i, j)
  BY <1>1, <1>2, Zenon DEF QueueInv
<1>q. QED
  BY <1>3 DEF r
\* The side that sends begins a new id.
LEMMA QueueFrom ==
  ASSUME NEW q \in Seq(Command), NEW i \in Nat, NEW j \in Nat, QueueInv(q, i, j),
         ~Has(q, Cmd("OPEN", i)), ~Has(q, Cmd("CLOSE", i))
  PROVE  QueueInv(q, i + 1, j) /\ ~Has(q, Cmd("OPEN", i + 1)) /\ ~Has(q, Cmd("CLOSE", i + 1))
<1>1. \A m : Has(q, m) => m = Cmd("CLOSE_ACK", j) \/ m = Cmd("OPEN_ACK", j) \/ m = Cmd("OPEN_ACK", 0)
  BY Zenon DEF QueueInv, Sent
<1>2. Cmd("OPEN", i + 1) # Cmd("CLOSE_ACK", j) /\ Cmd("OPEN", i + 1) # Cmd("OPEN_ACK", j)
      /\ Cmd("OPEN", i + 1) # Cmd("OPEN_ACK", 0)
      /\ Cmd("CLOSE", i + 1) # Cmd("CLOSE_ACK", j) /\ Cmd("CLOSE", i + 1) # Cmd("OPEN_ACK", j)
      /\ Cmd("CLOSE", i + 1) # Cmd("OPEN_ACK", 0)
  BY CmdEq
<1>3. ~Has(q, Cmd("OPEN", i + 1)) /\ ~Has(q, Cmd("CLOSE", i + 1))
  BY <1>1, <1>2, Zenon
<1>4. \A m : Before(q, m, Cmd("OPEN", i + 1)) /\ Before(q, m, Cmd("CLOSE", i + 1))
  BY <1>3, Absent, Zenon
<1>5. \A m : Has(q, m) => m \in Sent(i + 1, j)
  BY <1>1, Zenon DEF Sent
<1>q. QED
  BY <1>3, <1>4, <1>5, Zenon DEF QueueInv
\* The side that receives begins a new id.
LEMMA QueueTo ==
  ASSUME NEW q \in Seq(Command), NEW i \in Nat, NEW j \in Nat, QueueInv(q, i, j),
         ~Has(q, Cmd("CLOSE_ACK", j)), ~Has(q, Cmd("OPEN_ACK", j))
  PROVE  QueueInv(q, i, j + 1) /\ ~Has(q, Cmd("CLOSE_ACK", j + 1)) /\ ~Has(q, Cmd("OPEN_ACK", j + 1))
<1>1. \A m : Has(q, m) => m = Cmd("OPEN", i) \/ m = Cmd("CLOSE", i) \/ m = Cmd("OPEN_ACK", 0)
  BY Zenon DEF QueueInv, Sent
<1>2. Cmd("CLOSE_ACK", j + 1) # Cmd("OPEN", i) /\ Cmd("CLOSE_ACK", j + 1) # Cmd("CLOSE", i)
      /\ Cmd("CLOSE_ACK", j + 1) # Cmd("OPEN_ACK", 0)
      /\ Cmd("OPEN_ACK", j + 1) # Cmd("OPEN", i) /\ Cmd("OPEN_ACK", j + 1) # Cmd("CLOSE", i)
      /\ Cmd("OPEN_ACK", j + 1) # Cmd("OPEN_ACK", 0)
  BY CmdEq
<1>3. ~Has(q, Cmd("CLOSE_ACK", j + 1)) /\ ~Has(q, Cmd("OPEN_ACK", j + 1))
  BY <1>1, <1>2, Zenon
<1>4. \A m : Before(q, Cmd("CLOSE_ACK", j + 1), m) /\ Before(q, Cmd("OPEN_ACK", j + 1), m)
  BY <1>3, Absent, Zenon
<1>5. \A m : Has(q, m) => m \in Sent(i, j + 1)
  BY <1>1, Zenon DEF Sent
<1>q. QED
  BY <1>3, <1>4, <1>5, Zenon DEF QueueInv

-----------------------------------------------------------------------------
(* A step of one side. *)

\* All but the queues of side u stays as it is; all but its fifo.
Core(u) ==
    /\ ch'[u] = ch[u] /\ nch'[u] = nch[u] /\ next_id'[u] = next_id[u]
    /\ lcids'[u] = lcids[u] /\ rcids'[u] = rcids[u] /\ dev'[u] = dev[u]
    /\ upc'[u] = upc[u] /\ uch'[u] = uch[u]
    /\ wpc'[u] = wpc[u] /\ wch'[u] = wch[u] /\ wcmd'[u] = wcmd[u]
Same(u) == Core(u) /\ rx_queue'[u] = rx_queue[u]
Step(s) ==
    \/ CreateEpt(s) \/ UserStep(s) \/ DestroyEpt(s)
    \/ Interrupt(s) \/ InterruptEnd(s) \/ WorkerStep(s) \/ RemoteTimeout(s) \/ ProbeTimeout(s)

\* g is a function on the sides that differs from f at s only.
But(f, g, s) == g = [u \in Side |-> g[u]] /\ \A u \in Side : u # s => g[u] = f[u]
\* An EXCEPT at s changes a function at s only.
LEMMA ButExcept ==
  ASSUME NEW f, f = [u \in Side |-> f[u]], NEW s \in Side, NEW e
  PROVE  But(f, [f EXCEPT ![s] = e], s)
<1> DEFINE g == [f EXCEPT ![s] = e]
<1>1. DOMAIN f = Side
  BY Zenon
<1>2. g = [u \in DOMAIN f |-> IF u = s THEN e ELSE f[u]]
  BY SMT
<1>3. g = [u \in Side |-> IF u = s THEN e ELSE f[u]]
  BY <1>1, <1>2, Zenon
<1> HIDE DEF g
<1>4. g = [u \in Side |-> g[u]] /\ \A u \in Side : u # s => g[u] = f[u]
  BY <1>3
<1>q. QED
  BY <1>4, Zenon DEF But, g
\* A function that does not change does not change elsewhere.
LEMMA ButSelf ==
  ASSUME NEW f, f = [u \in Side |-> f[u]], NEW s \in Side
  PROVE  But(f, f, s)
BY Zenon DEF But

\* A step of s leaves the other sides alone but for the fifo of its peer.
LEMMA Local ==
  ASSUME FunType, NEW s \in Side, Step(s)
  PROVE  /\ FunType' /\ bound' = bound /\ slow' = slow
         /\ \A u \in Side : u # s => Same(u) /\ (u # Peer[s] => fifo'[u] = fifo[u])
<1> DEFINE Fun(f) == f = [u \in Side |-> f[u]]
<1>0. /\ Fun(ch) /\ Fun(nch) /\ Fun(next_id) /\ Fun(dev) /\ Fun(lcids) /\ Fun(rcids) /\ Fun(fifo)
      /\ Fun(rx_queue) /\ Fun(upc) /\ Fun(uch) /\ Fun(wpc) /\ Fun(wch) /\ Fun(wcmd)
  BY DEF FunType
<1>e. \A f, e : Fun(f) => But(f, [f EXCEPT ![s] = e], s)
  BY ButExcept
<1>s. \A f : Fun(f) => But(f, f, s)
  BY ButSelf
<1>p. \A e : But(fifo, [fifo EXCEPT ![Peer[s]] = e], Peer[s])
  BY <1>0, ButExcept, GlinkChannelAssumption, Zenon
<1> HIDE DEF Fun
<1>c. ASSUME NEW f, NEW g, Fun(f), g = f \/ \E e : g = [f EXCEPT ![s] = e]
      PROVE  But(f, g, s)
  <2>1. CASE g = f
    BY <1>c, <2>1, <1>s, Zenon
  <2>2. CASE \E e : g = [f EXCEPT ![s] = e]
    BY <1>c, <2>2, <1>e, Zenon
  <2>q. QED
    BY <1>c, <2>1, <2>2, Zenon
<1>b. bound' = bound /\ slow' = slow /\ slow_local' = slow_local
  BY Zenon DEF Step, UserStep, WorkerStep, CreateEpt, CreateLocal, LocalDone, CreateRemote, RemoteDone,
     RemoteTimeout, DestroyEpt, Interrupt, InterruptEnd, RxOpen, RxOpenInsert, Probe, ProbeDone,
     ProbeTimeout, RxClose, RxCloseAck, config
<1>f. fifo' = [u \in Side |-> fifo'[u]] /\ \A u \in Side : u # s /\ u # Peer[s] => fifo'[u] = fifo[u]
  <2> DEFINE Wire == \/ fifo' = fifo \/ fifo' = [fifo EXCEPT ![s] = Tail(@)]
                     \/ \E cs : fifo' = [fifo EXCEPT ![Peer[s]] = @ \o cs]
  <2>1. \A cs : Send(s, cs) => Wire
    BY Zenon DEF Send
  <2>2. UNCHANGED wire => Wire
    BY Zenon DEF wire
  <2> HIDE DEF Wire
  <2>3. CreateEpt(s) \/ RemoteDone(s) \/ RxOpen(s) \/ RxOpenInsert(s) \/ ProbeDone(s) => Wire
    BY <2>2, Zenon DEF CreateEpt, RemoteDone, RxOpen, RxOpenInsert, ProbeDone
  <2>4. CreateLocal(s) \/ LocalDone(s) \/ CreateRemote(s) \/ RemoteTimeout(s) \/ DestroyEpt(s) => Wire
    BY <2>1, <2>2, Zenon DEF CreateLocal, LocalDone, CreateRemote, RemoteTimeout, DestroyEpt
  <2>5. Probe(s) \/ ProbeTimeout(s) => Wire
    BY <2>1, Zenon DEF Probe, ProbeTimeout
  <2>6. Interrupt(s) \/ InterruptEnd(s) => Wire
    BY Zenon DEF Interrupt, InterruptEnd, Wire
  <2>7. RxClose(s) => Wire
    BY <2>1, <2>2, Zenon DEF RxClose
  <2>8. RxCloseAck(s) => Wire
    BY <2>1, <2>2, Zenon DEF RxCloseAck
  <2>9. Wire
    BY <2>3, <2>4, <2>5, <2>6, <2>7, <2>8, Zenon DEF Step, UserStep, WorkerStep
  <2>10. \E e : fifo' = [fifo EXCEPT ![Peer[s]] = e] \/ fifo' = [fifo EXCEPT ![s] = e] \/ fifo' = fifo
    BY <2>9, Zenon DEF Wire
  <2>12. PICK e : fifo' = [fifo EXCEPT ![Peer[s]] = e] \/ fifo' = [fifo EXCEPT ![s] = e] \/ fifo' = fifo
    BY <2>10
  <2>13. /\ But(fifo, fifo, s) /\ But(fifo, [fifo EXCEPT ![s] = e], s)
         /\ But(fifo, [fifo EXCEPT ![Peer[s]] = e], Peer[s])
    BY <1>0, <1>e, <1>s, <1>p, Zenon
  <2>11. But(fifo, fifo', s) \/ But(fifo, fifo', Peer[s])
    BY <2>12, <2>13, Zenon
  <2>q. QED
    BY <2>11, Zenon DEF But
<1>1. /\ But(ch, ch', s) /\ But(nch, nch', s) /\ But(next_id, next_id', s) /\ But(dev, dev', s)
      /\ But(lcids, lcids', s) /\ But(rcids, rcids', s) /\ But(rx_queue, rx_queue', s)
      /\ But(upc, upc', s) /\ But(uch, uch', s)
      /\ But(wpc, wpc', s) /\ But(wch, wch', s) /\ But(wcmd, wcmd', s)
  <2>1. CASE CreateEpt(s)
    BY <2>1, <1>0, <1>e, <1>s, Zenon DEF CreateEpt, tables, worker, recv
  <2>2. CASE CreateLocal(s)
    BY <2>2, <1>0, <1>e, <1>s, Zenon DEF CreateLocal, OpenReq, worker, recv
  <2>3. CASE LocalDone(s)
    BY <2>3, <1>0, <1>e, <1>s, Zenon DEF LocalDone, worker, recv
  <2>4. CASE CreateRemote(s)
    BY <2>4, <1>0, <1>e, <1>s, Zenon DEF CreateRemote, OpenReq, worker, recv
  <2>5. CASE RemoteDone(s)
    BY <2>5, <1>0, <1>e, <1>s, Zenon DEF RemoteDone, worker, recv
  <2>6. CASE RemoteTimeout(s)
    BY <2>6, <1>0, <1>e, <1>s, Zenon DEF RemoteTimeout, tables, worker, recv
  <2>7. CASE DestroyEpt(s)
    BY <2>7, <1>0, <1>e, <1>s, Zenon DEF DestroyEpt, worker, recv
  <2>8. CASE Interrupt(s)
    BY <2>8, <1>0, <1>e, <1>s, Zenon DEF Interrupt, worker, user
  <2>9. CASE InterruptEnd(s)
    BY <2>9, <1>0, <1>e, <1>s, Zenon DEF InterruptEnd, tables, worker, user
  <2>10. CASE RxOpen(s)
    <3>3. ch' = ch \/ \E e : ch' = [ch EXCEPT ![s] = e]
      BY <2>10, Zenon DEF RxOpen
    <3>4. nch' = nch \/ \E e : nch' = [nch EXCEPT ![s] = e]
      BY <2>10, Zenon DEF RxOpen
    <3>5. \E e : wch' = [wch EXCEPT ![s] = e]
      BY <2>10, Zenon DEF RxOpen
    <3>1. But(ch, ch', s) /\ But(nch, nch', s) /\ But(wch, wch', s)
      BY <3>3, <3>4, <3>5, <1>0, <1>c, Zenon
    <3>2. But(rx_queue, rx_queue', s) /\ But(wcmd, wcmd', s) /\ But(wpc, wpc', s)
      BY <2>10, <1>0, <1>e, Zenon DEF RxOpen, Taken
    <3>q. QED
      BY <2>10, <3>1, <3>2, <1>0, <1>s, Zenon DEF RxOpen, user
  <2>11. CASE RxOpenInsert(s)
    <3>1. But(ch, ch', s) /\ But(rcids, rcids', s)
      BY <2>11, <1>0, <1>e, <1>s, Zenon DEF RxOpenInsert
    <3>2. But(dev, dev', s)
      BY <2>11, <1>0, <1>e, <1>s, Zenon DEF RxOpenInsert
    <3>3. \/ wpc' = [wpc EXCEPT ![s] = "probe"] /\ wch' = wch /\ wcmd' = wcmd
          \/ WorkerIdle(s)
      BY <2>11, Zenon DEF RxOpenInsert
    <3>5. wch' = wch \/ \E e : wch' = [wch EXCEPT ![s] = e]
      BY <3>3, Zenon DEF WorkerIdle
    <3>6. wcmd' = wcmd \/ \E e : wcmd' = [wcmd EXCEPT ![s] = e]
      BY <3>3, Zenon DEF WorkerIdle
    <3>7. \E e : wpc' = [wpc EXCEPT ![s] = e]
      BY <3>3, Zenon DEF WorkerIdle
    <3>4. But(wpc, wpc', s) /\ But(wch, wch', s) /\ But(wcmd, wcmd', s)
      BY <3>5, <3>6, <3>7, <1>0, <1>c, Zenon
    <3>q. QED
      <4>1. nch' = nch /\ next_id' = next_id /\ lcids' = lcids /\ rx_queue' = rx_queue
            /\ upc' = upc /\ uch' = uch
        BY <2>11, Zenon DEF RxOpenInsert, user, recv
      <4>q. QED
        BY <4>1, <3>1, <3>2, <3>4, <1>0, <1>s, Zenon
  <2>12. CASE Probe(s)
    BY <2>12, <1>0, <1>e, <1>s, Zenon DEF Probe, OpenReq, user, recv
  <2>13. CASE ProbeDone(s)
    BY <2>13, <1>0, <1>e, <1>s, Zenon DEF ProbeDone, WorkerIdle, user, recv
  <2>14. CASE ProbeTimeout(s)
    BY <2>14, <1>0, <1>e, <1>s, Zenon DEF ProbeTimeout, WorkerIdle, tables, user, recv
  <2>15. CASE RxClose(s)
    <3>3. ch' = ch \/ \E e : ch' = [ch EXCEPT ![s] = e]
      BY <2>15, Zenon DEF RxClose
    <3>4. rcids' = rcids \/ \E e : rcids' = [rcids EXCEPT ![s] = e]
      BY <2>15, Zenon DEF RxClose
    <3>5. dev' = dev \/ \E e : dev' = [dev EXCEPT ![s] = e]
      BY <2>15, Zenon DEF RxClose
    <3>1. But(ch, ch', s) /\ But(rcids, rcids', s) /\ But(dev, dev', s)
      BY <3>3, <3>4, <3>5, <1>0, <1>c, Zenon
    <3>2. But(rx_queue, rx_queue', s)
      BY <2>15, <1>0, <1>e, Zenon DEF RxClose, Taken
    <3>q. QED
      <4>1. nch' = nch /\ next_id' = next_id /\ lcids' = lcids /\ upc' = upc /\ uch' = uch
            /\ wpc' = wpc /\ wch' = wch /\ wcmd' = wcmd
        BY <2>15, Zenon DEF RxClose, user, worker
      <4>q. QED
        BY <4>1, <3>1, <3>2, <1>0, <1>s, Zenon
  <2>16. CASE RxCloseAck(s)
    <3>3. ch' = ch \/ \E e : ch' = [ch EXCEPT ![s] = e]
      BY <2>16, Zenon DEF RxCloseAck
    <3>4. lcids' = lcids \/ \E e : lcids' = [lcids EXCEPT ![s] = e]
      BY <2>16, Zenon DEF RxCloseAck
    <3>5. dev' = dev \/ \E e : dev' = [dev EXCEPT ![s] = e]
      BY <2>16, Zenon DEF RxCloseAck
    <3>1. But(ch, ch', s) /\ But(lcids, lcids', s) /\ But(dev, dev', s)
      BY <3>3, <3>4, <3>5, <1>0, <1>c, Zenon
    <3>2. But(rx_queue, rx_queue', s)
      BY <2>16, <1>0, <1>e, Zenon DEF RxCloseAck, Taken
    <3>q. QED
      <4>1. nch' = nch /\ next_id' = next_id /\ rcids' = rcids /\ upc' = upc /\ uch' = uch
            /\ wpc' = wpc /\ wch' = wch /\ wcmd' = wcmd
        BY <2>16, Zenon DEF RxCloseAck, user, worker
      <4>q. QED
        BY <4>1, <3>1, <3>2, <1>0, <1>s, Zenon
  <2>q. QED
    BY <2>1, <2>2, <2>3, <2>4, <2>5, <2>6, <2>7, <2>8, <2>9, <2>10, <2>11, <2>12, <2>13, <2>14, <2>15,
       <2>16, Zenon DEF Step, UserStep, WorkerStep
<1>2. FunType'
  BY <1>1, <1>b, <1>f, Zenon DEF But, FunType
<1>q. QED
  BY <1>1, <1>2, <1>b, <1>f, Zenon DEF But, Same, Core

\* What is on its way to t stays, has command c of id n added, or has it taken out.
Kept(s, t) ==
    /\ Opening(s, t)' <=> Opening(s, t)
    /\ Closing(s, t)' <=> Closing(s, t)
    /\ Closed(t)' <=> Closed(t)
    /\ Acked(t)' <=> Acked(t)
    /\ Zero(t)' <=> Zero(t)
More(s, t, c, n) ==
    /\ Opening(s, t)' <=> (Opening(s, t) \/ (c = "OPEN" /\ n = Last(s)))
    /\ Closing(s, t)' <=> (Closing(s, t) \/ (c = "CLOSE" /\ n = Last(s)))
    /\ Closed(t)' <=> (Closed(t) \/ (c = "CLOSE_ACK" /\ n = Last(t)))
    /\ Acked(t)' <=> (Acked(t) \/ (c = "OPEN_ACK" /\ n = Last(t)))
    /\ Zero(t)' <=> (Zero(t) \/ (c = "OPEN_ACK" /\ n = 0))
Less(s, t, c, n) ==
    /\ Opening(s, t)' <=> (Opening(s, t) /\ ~(c = "OPEN" /\ n = Last(s)))
    /\ Closing(s, t)' <=> (Closing(s, t) /\ ~(c = "CLOSE" /\ n = Last(s)))
    /\ Closed(t)' <=> (Closed(t) /\ ~(c = "CLOSE_ACK" /\ n = Last(t)))
    /\ Acked(t)' <=> (Acked(t) /\ ~(c = "OPEN_ACK" /\ n = Last(t)))
    /\ Zero(t)' <=> (Zero(t) /\ ~(c = "OPEN_ACK" /\ n = 0))

\* The numbers and queues of a side have their types.
LEMMA WayType ==
  ASSUME NEW t, SideType(t)
  PROVE  /\ Held(t) \in Seq(Command) /\ rx_queue[t] \in Seq(Command) /\ fifo[t] \in Seq(Command)
         /\ Way(t) \in Seq(Command) /\ Last(t) \in 0 .. MAXCH /\ Last(t) \in Nat
<1>1. fifo[t] \in Seq(Command) /\ rx_queue[t] \in Seq(Command) /\ next_id[t] \in 1 .. MAXCH + 1
      /\ (wpc[t] \in {"insert", "create"} => wcmd[t] \in Command)
  BY DEF SideType
<1>2. \A x \in Command : <<x>> \in Seq(Command)
  OBVIOUS
<1>3. <<>> \in Seq(Command)
  OBVIOUS
<1>4. Held(t) \in Seq(Command)
  BY <1>1, <1>2, <1>3, Zenon DEF Held
<1>5. \A p, q \in Seq(Command) : p \o q \in Seq(Command)
  OBVIOUS
<1>6. Way(t) \in Seq(Command)
  BY <1>1, <1>4, <1>5, Zenon DEF Way
<1>7. Last(t) \in 0 .. MAXCH /\ Last(t) \in Nat
  BY <1>1, GlinkChannelAssumption DEF Last
<1>q. QED
  BY <1>1, <1>4, <1>6, <1>7

\* The three ways a queue changes.
LEMMA WaySame ==
  ASSUME NEW s, NEW t, WayInv(s, t), Way(t)' = Way(t), Last(s)' = Last(s), Last(t)' = Last(t)
  PROVE  WayInv(s, t)' /\ Kept(s, t)
BY Zenon DEF WayInv, Kept, Opening, Closing, Closed, Acked, Zero, On
\* A command is added at the end.
LEMMA WayMore ==
  ASSUME NEW s, NEW t, SideType(s), SideType(t), WayInv(s, t), Last(s)' = Last(s), Last(t)' = Last(t),
         NEW c \in Cmds, NEW n \in Nat, Way(t)' = Append(Way(t), Cmd(c, n)),
         Cmd(c, n) \in Sent(Last(s), Last(t)), ~On(t, c, n),
         c = "OPEN" => ~Closing(s, t), c = "CLOSE_ACK" => ~Opening(s, t),
         c = "OPEN_ACK" => ~Closing(s, t), c = "OPEN_ACK" /\ n = Last(t) => ~Closed(t)
  PROVE  WayInv(s, t)' /\ More(s, t, c, n)
<1> DEFINE q == Way(t)
           i == Last(s)
           j == Last(t)
           x == Cmd(c, n)
<1>1. q \in Seq(Command) /\ i \in Nat /\ j \in Nat
  BY WayType, Zenon
<1>2. x \in Command
  BY DEF Cmd, Command
<1>3. QueueInv(q, i, j) /\ x \in Sent(i, j) /\ ~Has(q, x)
  BY Zenon DEF WayInv, On
<1>4. (x = Cmd("OPEN", i) => c = "OPEN") /\ (x = Cmd("CLOSE_ACK", j) => c = "CLOSE_ACK")
      /\ (x = Cmd("OPEN_ACK", j) => c = "OPEN_ACK" /\ n = j) /\ (x = Cmd("OPEN_ACK", 0) => c = "OPEN_ACK")
  BY CmdEq, Zenon
<1>5. /\ x = Cmd("OPEN", i) => ~Has(q, Cmd("CLOSE", i))
      /\ x = Cmd("CLOSE_ACK", j) => ~Has(q, Cmd("OPEN", i))
      /\ x = Cmd("OPEN_ACK", j) => ~Has(q, Cmd("CLOSE_ACK", j)) /\ ~Has(q, Cmd("CLOSE", i))
      /\ x = Cmd("OPEN_ACK", 0) => ~Has(q, Cmd("CLOSE", i))
  BY <1>4, Zenon DEF Closing, Opening, Closed, On
<1>6. QueueInv(Append(q, x), i, j) /\ \A m : Has(Append(q, x), m) <=> Has(q, m) \/ m = x
  <2> HIDE DEF q, i, j, x
  <2>q. QED
    BY <1>1, <1>2, <1>3, <1>5, QueueMore, Added, Zenon
<1>7. WayInv(s, t)'
  BY <1>6, Zenon DEF WayInv
<1>8. \A d, k : Has(Way(t)', Cmd(d, k)) <=> Has(Way(t), Cmd(d, k)) \/ (c = d /\ n = k)
  BY <1>6, CmdEq, Zenon
<1>9. More(s, t, c, n)
  BY <1>8, Zenon DEF More, Opening, Closing, Closed, Acked, Zero, On
<1>q. QED
  BY <1>7, <1>9
\* A command is taken out.
LEMMA WayLess ==
  ASSUME NEW s, NEW t, SideType(s), SideType(t), WayInv(s, t), Last(s)' = Last(s), Last(t)' = Last(t),
         NEW p \in Seq(Command), NEW q \in Seq(Command), q # <<>>, NEW c, NEW n, Head(q) = Cmd(c, n),
         Way(t) = p \o q, Way(t)' = p \o Tail(q)
  PROVE  WayInv(s, t)' /\ Less(s, t, c, n) /\ On(t, c, n)
<1>1. Last(s) \in Nat /\ Last(t) \in Nat
  BY WayType, Zenon
<1>2. QueueInv(p \o q, Last(s), Last(t)) /\ Once(p \o q)
  BY Zenon DEF WayInv, QueueInv
<1>3. QueueInv(p \o Tail(q), Last(s), Last(t))
  BY <1>1, <1>2, QueueLess, Zenon
<1>4. Has(p \o q, Head(q)) /\ \A m : Has(p \o Tail(q), m) <=> Has(p \o q, m) /\ m # Head(q)
  BY <1>2, Cut, Zenon
<1>5. WayInv(s, t)'
  BY <1>3, Zenon DEF WayInv
<1>8. \A d, k : Cmd(d, k) = Cmd(c, n) <=> c = d /\ n = k
  BY CmdEq, Zenon
<1>6. \A d, k : Has(Way(t)', Cmd(d, k)) <=> Has(Way(t), Cmd(d, k)) /\ ~(c = d /\ n = k)
  BY <1>4, <1>8, Zenon
<1>7. Less(s, t, c, n) /\ On(t, c, n)
  BY <1>4, <1>6, Zenon DEF Less, Opening, Closing, Closed, Acked, Zero, On
<1>q. QED
  BY <1>5, <1>7

\* Queues put together.
LEMMA Joined ==
  \A q \in Seq(Command), x \in Command :
    /\ q \o <<x>> = Append(q, x) /\ <<x>> \in Seq(Command) /\ Append(q, x) \in Seq(Command)
    /\ <<x>> \o q # <<>> /\ Head(<<x>> \o q) = x /\ Tail(<<x>> \o q) = q /\ <<>> \o q = q
OBVIOUS
\* Two commands put at the end of a queue.
LEMMA JoinedTwo ==
  \A q \in Seq(Command), x, y \in Command :
    q \o <<x, y>> = Append(Append(q, x), y) /\ <<x, y>> \in Seq(Command)
OBVIOUS
\* A queue is its first command and the rest.
LEMMA Parts ==
  \A q \in Seq(Command) :
    q # <<>> => <<Head(q)>> \o Tail(q) = q /\ Head(q) \in Command /\ Tail(q) \in Seq(Command)
OBVIOUS
Regroup(h, q, f, z) == h \o (q \o (f \o z)) = (h \o (q \o f)) \o z
\* What is put at the end of the fifo is at the end of the whole.
LEMMA JoinSend ==
  ASSUME NEW h \in Seq(Command), NEW q \in Seq(Command), NEW f \in Seq(Command), NEW z \in Seq(Command)
  PROVE  Regroup(h, q, f, z)
<1>1. q \o (f \o z) = (q \o f) \o z /\ q \o f \in Seq(Command) /\ f \o z \in Seq(Command)
  OBVIOUS
<1> DEFINE g == q \o f
<1>2. g \in Seq(Command)
  BY <1>1
<1> HIDE DEF g
<1>3. h \o (g \o z) = (h \o g) \o z
  BY <1>2
<1>q. QED
  BY <1>1, <1>3, Zenon DEF g, Regroup
ReadOne(h, q, f) ==
    /\ Append(q, Head(f)) \o Tail(f) = q \o f /\ h \o q \in Seq(Command)
    /\ h \o (q \o f) = (h \o q) \o f /\ h \o (q \o Tail(f)) = (h \o q) \o Tail(f)
\* The first command of the fifo goes to the worker, or is gone.
LEMMA JoinRead ==
  ASSUME NEW h \in Seq(Command), NEW q \in Seq(Command), NEW f \in Seq(Command), f # <<>>
  PROVE  ReadOne(h, q, f)
<1>1. Append(q, Head(f)) \o Tail(f) = q \o f /\ Tail(f) \in Seq(Command)
  OBVIOUS
<1> DEFINE g == Tail(f)
<1>2. g \in Seq(Command)
  BY <1>1
<1> HIDE DEF g
<1>3. h \o (q \o g) = (h \o q) \o g /\ h \o q \in Seq(Command)
  BY <1>2
<1>4. h \o (q \o f) = (h \o q) \o f
  OBVIOUS
<1>q. QED
  BY <1>1, <1>3, <1>4, Zenon DEF g, ReadOne
\* The first command left to the worker is taken.
LEMMA JoinTake ==
  \A r, f \in Seq(Command) :
    r # <<>> => /\ <<Head(r)>> \o (Tail(r) \o f) = r \o f /\ r \o f # <<>> /\ r \o f \in Seq(Command)
                /\ Head(r \o f) = Head(r) /\ Tail(r \o f) = Tail(r) \o f /\ Tail(r) \o f \in Seq(Command)
<1> TAKE r, f \in Seq(Command)
<1> HAVE r # <<>>
<1> DEFINE x == Head(r)
           g == Tail(r)
<1>1. x \in Command /\ g \in Seq(Command) /\ r = <<x>> \o g
  OBVIOUS
<1> HIDE DEF x, g
<1>2. <<x>> \o (g \o f) = (<<x>> \o g) \o f /\ g \o f \in Seq(Command)
  BY <1>1
<1>3. Head(<<x>> \o (g \o f)) = x /\ Tail(<<x>> \o (g \o f)) = g \o f /\ <<x>> \o (g \o f) # <<>>
      /\ <<x>> \o (g \o f) \in Seq(Command)
  BY <1>1, <1>2
<1>q. QED
  BY <1>1, <1>2, <1>3, Zenon DEF x, g

\* The queues of a side: nothing changes, one or two commands are sent to it, its
\* interrupt handler or its worker takes one.
LEMMA WayStill ==
  ASSUME NEW t, Held(t)' = Held(t), rx_queue'[t] = rx_queue[t], fifo'[t] = fifo[t]
  PROVE  Way(t)' = Way(t)
BY Zenon DEF Way
\* One or two commands are sent to t.
LEMMA WaySend ==
  ASSUME NEW t, SideType(t), Held(t)' = Held(t), rx_queue'[t] = rx_queue[t],
         NEW x \in Command, NEW y \in Command
  PROVE  /\ fifo'[t] = fifo[t] \o <<x>> => Way(t)' = Append(Way(t), x) /\ fifo'[t] \in Seq(Command)
         /\ fifo'[t] = fifo[t] \o <<x, y>> =>
              Way(t)' = Append(Append(Way(t), x), y) /\ fifo'[t] \in Seq(Command)
<1> DEFINE h == Held(t)
           q == rx_queue[t]
           f == fifo[t]
<1>1. h \in Seq(Command) /\ q \in Seq(Command) /\ f \in Seq(Command) /\ Way(t) \in Seq(Command)
      /\ Way(t) = h \o (q \o f) /\ Way(t)' = h \o (q \o fifo'[t])
  BY WayType, Zenon DEF Way
<1> HIDE DEF h, q, f
<1>0. h \in Seq(Command) /\ q \in Seq(Command) /\ f \in Seq(Command)
  BY <1>1
<1>2. ASSUME NEW z \in Seq(Command)
      PROVE  h \o (q \o (f \o z)) = (h \o (q \o f)) \o z /\ f \o z \in Seq(Command)
  <2>1. Regroup(h, q, f, z)
    BY <1>0, JoinSend, Zenon
  <2>2. f \o z \in Seq(Command)
    BY <1>0
  <2>q. QED
    BY <2>1, <2>2, Zenon DEF Regroup
<1>3. <<x>> \in Seq(Command) /\ <<x, y>> \in Seq(Command)
      /\ Way(t) \o <<x>> = Append(Way(t), x) /\ Way(t) \o <<x, y>> = Append(Append(Way(t), x), y)
  <2>1. <<x>> \in Seq(Command) /\ Way(t) \o <<x>> = Append(Way(t), x)
    BY <1>1, Joined, Zenon
  <2>2. <<x, y>> \in Seq(Command) /\ Way(t) \o <<x, y>> = Append(Append(Way(t), x), y)
    BY <1>1, JoinedTwo, Zenon
  <2>q. QED
    BY <2>1, <2>2
<1>q. QED
  BY <1>1, <1>2, <1>3, Zenon DEF f
\* The interrupt handler of t reads one.
LEMMA WayRead ==
  ASSUME NEW t, SideType(t), Held(t)' = Held(t), fifo[t] # <<>>, fifo'[t] = Tail(fifo[t])
  PROVE  /\ fifo'[t] \in Seq(Command) /\ Head(fifo[t]) \in Command
         /\ rx_queue'[t] = Append(rx_queue[t], Head(fifo[t])) => Way(t)' = Way(t)
         /\ rx_queue'[t] = rx_queue[t] =>
              LET p == Held(t) \o rx_queue[t]
              IN p \in Seq(Command) /\ Way(t) = p \o fifo[t] /\ Way(t)' = p \o Tail(fifo[t])
<1> DEFINE h == Held(t)
           q == rx_queue[t]
           f == fifo[t]
<1>1. h \in Seq(Command) /\ q \in Seq(Command) /\ f \in Seq(Command) /\ Way(t) = h \o (q \o f)
      /\ Way(t)' = h \o (rx_queue'[t] \o Tail(f)) /\ f # <<>>
  BY WayType, Zenon DEF Way
<1> HIDE DEF h, q, f
<1>2. Head(f) \in Command /\ Tail(f) \in Seq(Command) /\ <<Head(f)>> \o Tail(f) = f
      /\ <<Head(f)>> \in Seq(Command)
  BY <1>1, Parts, Joined, Zenon
<1>3. Append(q, Head(f)) \o Tail(f) = q \o f /\ h \o q \in Seq(Command)
      /\ h \o (q \o f) = (h \o q) \o f /\ h \o (q \o Tail(f)) = (h \o q) \o Tail(f)
  <2>1. ReadOne(h, q, f)
    BY <1>1, JoinRead, Zenon
  <2>q. QED
    BY <2>1, Zenon DEF ReadOne
<1>q. QED
  BY <1>1, <1>2, <1>3, Zenon DEF h, q, f
\* The worker of t takes one, and keeps it or is done with it.
LEMMA WayTake ==
  ASSUME NEW t, SideType(t), rx_queue[t] # <<>>, Held(t) = <<>>,
         rx_queue'[t] = Tail(rx_queue[t]), fifo'[t] = fifo[t]
  PROVE  LET q == rx_queue[t] \o fifo[t]
         IN /\ q \in Seq(Command) /\ q # <<>> /\ Head(q) = Head(rx_queue[t]) /\ Head(q) \in Command
            /\ rx_queue'[t] \in Seq(Command) /\ Way(t) = <<>> \o q
            /\ Held(t)' = <<Head(q)>> => Way(t)' = Way(t)
            /\ Held(t)' = <<>> => Way(t)' = <<>> \o Tail(q)
<1> DEFINE r == rx_queue[t]
           f == fifo[t]
<1>1. r \in Seq(Command) /\ f \in Seq(Command) /\ r # <<>> /\ Way(t) = <<>> \o (r \o f)
      /\ Way(t)' = Held(t)' \o (Tail(r) \o f)
  BY WayType, Zenon DEF Way
<1> HIDE DEF r, f
<1>2. Head(r) \in Command /\ Tail(r) \in Seq(Command) /\ <<Head(r)>> \o Tail(r) = r
      /\ <<Head(r)>> \in Seq(Command)
  BY <1>1, Parts, Joined, Zenon
<1>3. <<Head(r)>> \o (Tail(r) \o f) = r \o f /\ r \o f # <<>> /\ r \o f \in Seq(Command)
      /\ Head(r \o f) = Head(r) /\ Tail(r \o f) = Tail(r) \o f /\ Tail(r) \o f \in Seq(Command)
  BY <1>1, JoinTake, Zenon
<1>4. <<>> \o (r \o f) = r \o f
  BY <1>2, <1>3, Joined, Zenon
<1>5. Held(t)' = <<Head(r)>> => Way(t)' = Way(t)
  BY <1>1, <1>3, <1>4, Zenon
<1>6. Held(t)' = <<>> => Way(t)' = <<>> \o Tail(r \o f)
  BY <1>1, <1>3, Zenon
<1>q. QED
  BY <1>1, <1>2, <1>3, <1>5, <1>6, Zenon DEF r, f
\* The worker of t is done with the OPEN it held.
LEMMA WayEnter ==
  ASSUME NEW t, SideType(t), NEW x \in Command, Held(t) = <<x>>, Held(t)' = <<>>,
         rx_queue'[t] = rx_queue[t], fifo'[t] = fifo[t]
  PROVE  \E q \in Seq(Command) : /\ q # <<>> /\ Head(q) = x
                                 /\ Way(t) = <<>> \o q /\ Way(t)' = <<>> \o Tail(q)
<1> DEFINE z == rx_queue[t] \o fifo[t]
           q == <<x>> \o z
<1>1. z \in Seq(Command)
  BY WayType
<1>2. Way(t) = q /\ Way(t)' = <<>> \o z
  BY Zenon DEF Way
<1> HIDE DEF z
<1>3. q # <<>> /\ Head(q) = x /\ Tail(q) = z
  BY <1>1, Joined, Zenon
<1>4. q \in Seq(Command) /\ <<>> \o q = q
  BY <1>1
<1>q. QED
  BY <1>2, <1>3, <1>4, Zenon

-----------------------------------------------------------------------------
(* What a step of one side means for the invariant of the other. *)

\* The side that does not move keeps its tables; its invariants hold on, whatever
\* the peer does with ids this side has not entered.
LEMMA Rest ==
  ASSUME NEW s, NEW t, Core(t), InR(s, t)' <=> InR(s, t), InR(s, t) => Last(s)' = Last(s)
  PROVE  /\ Last(t)' = Last(t) /\ Cur(t)' = Cur(t) /\ Held(t)' = Held(t)
         /\ InL(t)' <=> InL(t)
         /\ Using(t)' <=> Using(t)
         /\ ChanInv(t, s) => ChanInv(t, s)'
<1>1. Last(t)' = Last(t) /\ Cur(t)' = Cur(t)
  BY Zenon DEF Core, Last, Cur
<1>2. InL(t)' <=> InL(t)
  BY <1>1, Zenon DEF Core, InL
<1>3. Using(t)' <=> Using(t)
  BY <1>1, Zenon DEF Core, Using
<1>4. Made(t)' <=> Made(t)
  BY Zenon DEF Core, Made, Making
<1>5. ASSUME ChanInv(t, s) PROVE ChanInv(t, s)'
  <2>1. \A d \in Id : d # nch'[t] => ch'[t][d].refs = 0
    BY <1>5, Zenon DEF ChanInv, Core
  <2>2. Num(InL(t))' = Num(InL(t)) /\ Num(InR(s, t))' = Num(InR(s, t)) /\ Num(Made(t))' = Num(Made(t))
    BY <1>2, <1>4, Zenon DEF Num
  <2>3. nch'[t] = nch[t] /\ lcids'[t] = lcids[t] /\ rcids'[t] = rcids[t]
    BY Zenon DEF Core
  <2>4. nch'[t] # 0 => /\ Cur(t)'.refs = Num(InL(t))' + Num(InR(s, t))' + Num(Made(t))'
                       /\ ~InL(t)' => Cur(t)'.lcid = 0
                       /\ ~InR(s, t)' => Cur(t)'.rcid = 0
    BY <1>5, <1>1, <1>2, <2>2, <2>3, Zenon DEF ChanInv
  <2>5. InL(t)' => nch'[t] # 0 /\ lcids'[t][Last(t)'] = nch'[t] /\ Cur(t)'.lcid = Last(t)'
    BY <1>5, <1>1, <1>2, <2>3, Zenon DEF ChanInv
  <2>6. InR(s, t)' => nch'[t] # 0 /\ rcids'[t][Last(s)'] = nch'[t] /\ Cur(t)'.rcid = Last(s)'
    BY <1>5, <1>1, <2>3, Zenon DEF ChanInv
  <2>q. QED
    BY <2>1, <2>4, <2>5, <2>6, Zenon DEF ChanInv
<1>6. Held(t)' = Held(t)
  BY Zenon DEF Core, Held
<1>q. QED
  BY <1>1, <1>2, <1>3, <1>5, <1>6, Zenon
\* The side at rest keeps its types.
LEMMA RestType ==
  ASSUME NEW t, SideType(t), Same(t), fifo'[t] \in Seq(Command)
  PROVE  SideType(t)'
BY Zenon DEF SideType, Same, Core
\* The side that opens, at rest.
LEMMA RestOpener ==
  ASSUME NEW a, NEW b, OpenerInv(a, b), Core(a), bound' = bound,
         InR(b, a)' <=> InR(b, a), InR(b, a) => Last(b)' = Last(b), Zero(a)' => Zero(a)
  PROVE  OpenerInv(a, b)'
<1>1. Last(a)' = Last(a) /\ Cur(a)' = Cur(a) /\ (InL(a)' <=> InL(a))
  BY Rest, Zenon
<1>2. /\ bound'[a] = bound[a] /\ dev'[a] = dev[a] /\ wpc'[a] = wpc[a] /\ wch'[a] = wch[a]
      /\ upc'[a] = upc[a] /\ uch'[a] = uch[a] /\ nch'[a] = nch[a] /\ next_id'[a] = next_id[a]
  BY Zenon DEF Core
<1>q. QED
  BY <1>1, <1>2, Zenon DEF OpenerInv
\* The side that answers, at rest.
LEMMA RestAnswer ==
  ASSUME NEW a, NEW b, AnswerInv(a, b), Core(b), bound' = bound,
         InR(a, b)' <=> InR(a, b), InR(a, b) => Last(a)' = Last(a)
  PROVE  AnswerInv(a, b)'
<1>1. Last(b)' = Last(b) /\ Cur(b)' = Cur(b) /\ (InL(b)' <=> InL(b))
  BY Rest, Zenon
<1>2. /\ bound'[b] = bound[b] /\ dev'[b] = dev[b] /\ wpc'[b] = wpc[b] /\ wch'[b] = wch[b]
      /\ upc'[b] = upc[b] /\ uch'[b] = uch[b] /\ nch'[b] = nch[b] /\ next_id'[b] = next_id[b]
  BY Zenon DEF Core
<1>3. /\ upc'[b] \in {"idle", "remote", "wait_remote", "open"}
      /\ wpc'[b] \in {"idle", "create", "probe", "wait"}
      /\ IF bound'[b] THEN upc'[b] = "idle" ELSE wpc'[b] \in {"idle", "create"}
      /\ upc'[b] # "idle" => uch'[b] = nch'[b]
      /\ wpc'[b] # "idle" => wch'[b] = nch'[b] /\ nch'[b] # 0
      /\ uch'[b] \in 0 .. nch'[b]
      /\ wpc'[b] = "create" => uch'[b] # nch'[b] /\ ~InL(b)' /\ ~Cur(b)'.open_ack
      /\ upc'[b] = "remote" => next_id'[b] <= MAXCH /\ InR(a, b)'
  BY <1>1, <1>2, Zenon DEF AnswerInv
<1>4. /\ wpc'[b] \in {"probe", "wait"} => InR(a, b)' /\ dev'[b] # 0
      /\ dev'[b] \in {0, nch'[b]}
      /\ nch'[b] # 0 => (Cur(b)'.rpdev <=> dev'[b] # 0)
      /\ dev'[b] # 0 => InR(a, b)'
      /\ upc'[b] = "open" => Cur(b)'.cb
      /\ nch'[b] # 0 /\ Cur(b)'.cb =>
           /\ upc'[b] = "open" \/ (bound'[b] /\ dev'[b] # 0 /\ wpc'[b] = "idle")
           /\ Cur(b)'.open_ack
  BY <1>1, <1>2, Zenon DEF AnswerInv
<1>q. QED
  BY <1>3, <1>4, Zenon DEF AnswerInv

-----------------------------------------------------------------------------
(* Steps that enter no id and take none out. *)

Calm(s, t) ==
    /\ Last(s)' = Last(s) /\ Last(t)' = Last(t)
    /\ InL(s)' <=> InL(s)
    /\ InL(t)' <=> InL(t)
    /\ InR(s, t)' <=> InR(s, t)
    /\ InR(t, s)' <=> InR(t, s)
Tables(s) == lcids'[s] = lcids[s] /\ rcids'[s] = rcids[s] /\ next_id'[s] = next_id[s]
\* What t, which does not move, keeps when s makes such a step.
Rested(s, t) ==
    /\ SideType(t)' /\ ChanInv(t, s)' /\ Cur(t)' = Cur(t)
    /\ Using(t)' <=> Using(t)

\* What such a step of s leaves as it is at both sides.
LEMMA Calms ==
  ASSUME NEW s, NEW t, IdsInv(s, t), Tables(s), Same(t), fifo'[t] \in Seq(Command)
  PROVE  Calm(s, t) /\ Rested(s, t) /\ Held(t)' = Held(t)
<1>1. Last(s)' = Last(s) /\ Last(t)' = Last(t)
  BY Zenon DEF Tables, Same, Core, Last
<1>2. (InL(s)' <=> InL(s)) /\ (InL(t)' <=> InL(t)) /\ (InR(s, t)' <=> InR(s, t)) /\ (InR(t, s)' <=> InR(t, s))
  BY <1>1, Zenon DEF Tables, Same, Core, InL, InR
<1>3. Calm(s, t)
  BY <1>1, <1>2, Zenon DEF Calm
<1>4. SideType(t)'
  BY RestType, Zenon DEF IdsInv
<1>5. ChanInv(t, s)' /\ Cur(t)' = Cur(t) /\ (Using(t)' <=> Using(t)) /\ Held(t)' = Held(t)
  BY <1>1, <1>2, Rest, Zenon DEF IdsInv, Same
<1>q. QED
  BY <1>3, <1>4, <1>5, Zenon DEF Rested
\* An id whose tables and commands stay keeps its invariant.
LEMMA IdKept ==
  ASSUME NEW s, NEW t, IdInv(s, t), lcids'[s] = lcids[s], rcids'[t] = rcids[t], Last(s)' = Last(s),
         InL(s)' <=> InL(s), InR(s, t)' <=> InR(s, t), Opening(s, t)' <=> Opening(s, t),
         Closing(s, t)' <=> Closing(s, t), Closed(s)' <=> Closed(s), Using(s)' <=> Using(s)
  PROVE  IdInv(s, t)'
BY Zenon DEF IdInv, Life

\* No command is sent or taken.
LEMMA Mild ==
  ASSUME NEW s, NEW t, IdsInv(s, t), Tables(s), Same(t), Way(s)' = Way(s), fifo'[t] = fifo[t],
         Using(s)' <=> Using(s)
  PROVE  /\ Calm(s, t) /\ Rested(s, t) /\ Kept(s, t) /\ Kept(t, s)
         /\ IdInv(s, t)' /\ IdInv(t, s)' /\ WayInv(s, t)' /\ WayInv(t, s)'
<1>1. fifo'[t] \in Seq(Command) /\ rx_queue'[t] = rx_queue[t]
  BY Zenon DEF IdsInv, SideType, Same, Core
<1>2. Calm(s, t) /\ Rested(s, t) /\ Held(t)' = Held(t)
  BY <1>1, Calms, Zenon
<1>3. Way(t)' = Way(t)
  BY <1>1, <1>2, WayStill, Zenon
<1>4. WayInv(s, t)' /\ WayInv(t, s)' /\ Kept(s, t) /\ Kept(t, s)
  BY <1>2, <1>3, WaySame, Zenon DEF IdsInv, Calm
<1>5. lcids'[t] = lcids[t] /\ rcids'[t] = rcids[t] /\ lcids'[s] = lcids[s] /\ rcids'[s] = rcids[s]
  BY Zenon DEF Same, Core, Tables
<1>6. IdInv(s, t)'
  BY <1>2, <1>4, <1>5, IdKept, Zenon DEF IdsInv, Calm, Kept
<1>7. IdInv(t, s)'
  BY <1>2, <1>4, <1>5, IdKept, Zenon DEF IdsInv, Calm, Kept, Rested
<1>q. QED
  BY <1>2, <1>4, <1>6, <1>7, Zenon
\* s sends command c of id n.
LEMMA Spoken ==
  ASSUME NEW s, NEW t, IdsInv(s, t), Tables(s), Same(t), Way(s)' = Way(s),
         NEW c \in Cmds, NEW n \in Nat, fifo'[t] = fifo[t] \o <<Cmd(c, n)>>,
         Cmd(c, n) \in Sent(Last(s), Last(t)), ~On(t, c, n),
         c = "OPEN" => ~Closing(s, t), c = "CLOSE_ACK" => ~Opening(s, t),
         c = "OPEN_ACK" => ~Closing(s, t), c = "OPEN_ACK" /\ n = Last(t) => ~Closed(t)
  PROVE  /\ Calm(s, t) /\ Rested(s, t) /\ More(s, t, c, n) /\ Kept(t, s)
         /\ WayInv(s, t)' /\ WayInv(t, s)'
<1>1. SideType(s) /\ SideType(t) /\ WayInv(s, t) /\ WayInv(t, s)
  BY Zenon DEF IdsInv
<1>2. Cmd(c, n) \in Command
  BY DEF Cmd, Command
<1>3. Held(t)' = Held(t) /\ rx_queue'[t] = rx_queue[t]
  BY Zenon DEF Same, Core, Held
<1>4. Way(t)' = Append(Way(t), Cmd(c, n)) /\ fifo'[t] \in Seq(Command)
  BY <1>1, <1>2, <1>3, WaySend, Zenon
<1>5. Calm(s, t) /\ Rested(s, t)
  BY <1>4, Calms, Zenon
<1>6. Last(s)' = Last(s) /\ Last(t)' = Last(t)
  BY <1>5, Zenon DEF Calm
<1>7. WayInv(t, s)' /\ Kept(t, s)
  BY <1>1, <1>6, WaySame, Zenon
<1>8. WayInv(s, t)' /\ More(s, t, c, n)
  BY <1>1, <1>4, <1>6, WayMore, Zenon
<1>q. QED
  BY <1>5, <1>7, <1>8, Zenon
\* s sends the CLOSE of its id.
LEMMA Closes ==
  ASSUME NEW s, NEW t, IdsInv(s, t), Tables(s), Same(t), Way(s)' = Way(s),
         fifo'[t] = fifo[t] \o <<Cmd("CLOSE", Last(s))>>, Using(s), ~Using(s)'
  PROVE  /\ Calm(s, t) /\ Rested(s, t) /\ More(s, t, "CLOSE", Last(s)) /\ Kept(t, s)
         /\ IdInv(s, t)' /\ IdInv(t, s)' /\ WayInv(s, t)' /\ WayInv(t, s)'
<1>1. ~Closing(s, t) /\ ~Closed(s) /\ InL(s)
  BY Zenon DEF IdsInv, IdInv, Life
<1>2. "CLOSE" \in Cmds /\ Last(s) \in Nat /\ ~On(t, "CLOSE", Last(s))
  BY <1>1, WayType, Zenon DEF IdsInv, Cmds, Closing
<1>3. Cmd("CLOSE", Last(s)) \in Sent(Last(s), Last(t))
  BY Zenon DEF Sent
<1>4. /\ Calm(s, t) /\ Rested(s, t) /\ More(s, t, "CLOSE", Last(s)) /\ Kept(t, s)
      /\ WayInv(s, t)' /\ WayInv(t, s)'
  BY <1>2, <1>3, Spoken
<1>5. lcids'[t] = lcids[t] /\ rcids'[t] = rcids[t] /\ lcids'[s] = lcids[s] /\ rcids'[s] = rcids[s]
  BY Zenon DEF Same, Core, Tables
<1>6. (Opening(s, t)' <=> Opening(s, t)) /\ Closing(s, t)' /\ (Closed(t)' <=> Closed(t))
  BY <1>4 DEF More
<1>7. IdInv(s, t)'
  BY <1>1, <1>4, <1>5, <1>6, Zenon DEF IdsInv, IdInv, Life, Calm, Kept
<1>8. IdInv(t, s)'
  BY <1>4, <1>5, <1>6, IdKept, Zenon DEF IdsInv, Calm, Kept, Rested
<1>q. QED
  BY <1>4, <1>7, <1>8, Zenon

-----------------------------------------------------------------------------
(* The channel of the side that moves. *)

\* Channel c of s is made r.
Becomes(s, c, r) ==
    /\ ch'[s] \in [Id -> Channel] /\ ch'[s][c] = r
    /\ \A d \in Id : d # c => ch'[s][d] = ch[s][d]
\* An EXCEPT of one channel does that.
LEMMA Updated ==
  ASSUME FunType, NEW s \in Side, SideType(s), NEW c \in Id, NEW r \in Channel,
         ch' = [ch EXCEPT ![s][c] = r]
  PROVE  Becomes(s, c, r)
<1>1. ch = [u \in Side |-> ch[u]] /\ ch[s] \in [Id -> Channel]
  BY DEF FunType, SideType
<1>2. ch'[s] = [ch[s] EXCEPT ![c] = r]
  BY <1>1
<1>q. QED
  BY <1>1, <1>2 DEF Becomes
\* A channel whose references and ids stay keeps its invariant.
LEMMA ChanKept ==
  ASSUME NEW s, NEW t, ChanInv(s, t), Calm(s, t), Tables(s), nch'[s] = nch[s],
         \A d \in Id : d # nch[s] => ch'[s][d] = ch[s][d],
         nch[s] # 0 => /\ Cur(s)'.refs = Cur(s).refs /\ Cur(s)'.lcid = Cur(s).lcid
                       /\ Cur(s)'.rcid = Cur(s).rcid,
         Made(s)' <=> Made(s)
  PROVE  ChanInv(s, t)'
<1>1. \A d \in Id : d # nch'[s] => ch'[s][d].refs = 0
  BY Zenon DEF ChanInv
<1>2. Num(InL(s))' = Num(InL(s)) /\ Num(InR(t, s))' = Num(InR(t, s)) /\ Num(Made(s))' = Num(Made(s))
  BY Zenon DEF Num, Calm
<1>3. nch'[s] # 0 => /\ Cur(s)'.refs = Num(InL(s))' + Num(InR(t, s))' + Num(Made(s))'
                     /\ ~InL(s)' => Cur(s)'.lcid = 0
                     /\ ~InR(t, s)' => Cur(s)'.rcid = 0
  BY <1>2, Zenon DEF ChanInv, Calm
<1>4. InL(s)' => nch'[s] # 0 /\ lcids'[s][Last(s)'] = nch'[s] /\ Cur(s)'.lcid = Last(s)'
  BY Zenon DEF ChanInv, Calm, Tables
<1>5. InR(t, s)' => nch'[s] # 0 /\ rcids'[s][Last(t)'] = nch'[s] /\ Cur(s)'.rcid = Last(t)'
  BY Zenon DEF ChanInv, Calm, Tables
<1>q. QED
  BY <1>1, <1>3, <1>4, <1>5, Zenon DEF ChanInv

-----------------------------------------------------------------------------
(* The steps of a, the side that opens, with b at the other end. *)

Ends(a, b) ==
    /\ FunType /\ a \in Side /\ b \in Side /\ a # b /\ Peer[a] = b /\ Peer[b] = a
    /\ a \in Openers /\ b \notin Openers /\ Reopen = FALSE
    /\ IdsInv(a, b) /\ OpenerInv(a, b) /\ AnswerInv(a, b) /\ PairInv(a, b)
Frame(t) == Same(t) /\ bound' = bound /\ slow' = slow

\* qcom_glink_create_ept of a finds no channel, and is about to create one.
LEMMA OpenerPrepares ==
  ASSUME NEW a, NEW b, Ends(a, b), CreateEpt(a), Frame(b)
  PROVE  EndsInv(a, b)'
<1>1. /\ MayOpen(a) /\ wpc'[a] = wpc[a] /\ wch'[a] = wch[a] /\ wcmd'[a] = wcmd[a]
      /\ ch' = ch /\ nch' = nch /\ next_id' = next_id /\ lcids' = lcids /\ rcids' = rcids
      /\ dev' = dev /\ fifo' = fifo /\ rx_queue' = rx_queue
      /\ uch' = [uch EXCEPT ![a] = Find(rcids[a])]
      /\ upc' = [upc EXCEPT ![a] = IF Find(rcids[a]) = 0 THEN "local" ELSE "remote"]
  BY Zenon DEF CreateEpt, tables, worker, recv, wire
<1>2. upc[a] = "idle" /\ next_id[a] <= MAXCH /\ DOMAIN lcids[a] = {} /\ DOMAIN rcids[a] = {}
  BY <1>1 DEF MayOpen, Ends
<1>3. Find(rcids[a]) = 0
  BY <1>2 DEF Find
<1>4. upc'[a] = "local"
  BY <1>1, <1>3, Zenon DEF Ends, FunType
<1>5. ~InL(a) /\ ~InR(b, a)
  BY <1>2, Zenon DEF InL, InR
<1>6. Cur(a)' = Cur(a) /\ Way(a)' = Way(a) /\ Tables(a) /\ fifo'[b] = fifo[b]
  BY <1>1, Zenon DEF Cur, Way, Held, Tables
<1>7. Using(a)' <=> Using(a)
  BY <1>1, <1>2, <1>4, <1>6 DEF Using
<1>8. /\ Calm(a, b) /\ Rested(a, b) /\ Kept(a, b) /\ Kept(b, a)
      /\ IdInv(a, b)' /\ IdInv(b, a)' /\ WayInv(a, b)' /\ WayInv(b, a)'
  BY <1>6, <1>7, Mild, Zenon DEF Ends, Frame
<1>9. SideType(a)'
  BY <1>1, Zenon DEF SideType, Ends, IdsInv
<1>10. Made(a)' <=> Made(a)
  BY <1>1, <1>2, <1>4 DEF Made, Making
<1>11. ChanInv(a, b)'
  BY <1>1, <1>6, <1>8, <1>10, ChanKept, Zenon DEF Ends, IdsInv
<1>12. OpenerInv(a, b)'
  BY <1>1, <1>2, <1>4, <1>5, <1>6, <1>8, Zenon DEF OpenerInv, Ends, Calm, Kept, Frame
<1>13. AnswerInv(a, b)'
  BY <1>8, RestAnswer, Zenon DEF Ends, Frame, Same, Calm
<1>14. upc'[b] = upc[b] /\ uch'[b] = uch[b] /\ nch'[b] = nch[b] /\ wpc'[b] = wpc[b] /\ bound' = bound
       /\ slow' = slow
  BY Zenon DEF Frame, Same, Core
<1>15. ~Opening(b, a) /\ ~Acked(a) /\ ~Opening(a, b) /\ ~Unopened(a, b)
  BY <1>2 DEF Ends, PairInv, Fresh
<1>16. ~Unopened(a, b)'
  BY <1>8, <1>14, <1>15, Zenon DEF Unopened, Calm
<1>17. PairInv(a, b)'
  BY <1>1, <1>2, <1>4, <1>8, <1>14, <1>15, <1>16, Zenon DEF PairInv, Ends, Calm, Kept
<1>q. QED
  BY <1>8, <1>9, <1>11, <1>12, <1>13, <1>17, Zenon DEF EndsInv, IdsInv, Rested

\* The fields of a channel, as a record.
LEMMA Fields ==
  ASSUME NEW r \in Channel
  PROVE  /\ r.refs \in Int /\ r.lcid \in 0 .. MAXCH /\ r.rcid \in 0 .. MAXCH /\ r.open_ack \in BOOLEAN
         /\ r.open_req \in BOOLEAN /\ r.rpdev \in BOOLEAN /\ r.cb \in BOOLEAN
         /\ r = [refs |-> r.refs, lcid |-> r.lcid, rcid |-> r.rcid, open_ack |-> r.open_ack,
                 open_req |-> r.open_req, rpdev |-> r.rpdev, cb |-> r.cb]
BY DEF Channel

\* The fields of a channel that is changed.
LEMMA FieldsOpen ==
  ASSUME NEW r \in Channel, NEW k \in 0 .. MAXCH
  PROVE  LET x == [r EXCEPT !.refs = @ + 1, !.lcid = k]
         IN /\ x \in Channel /\ x.refs = r.refs + 1 /\ x.lcid = k /\ x.rcid = r.rcid
            /\ x.open_ack = r.open_ack /\ x.open_req = r.open_req /\ x.rpdev = r.rpdev /\ x.cb = r.cb
<1> DEFINE y == [r EXCEPT !.refs = @ + 1]
           x == [y EXCEPT !.lcid = k]
<1>1. /\ y \in Channel /\ y.refs = r.refs + 1 /\ y.rcid = r.rcid
      /\ y.open_ack = r.open_ack /\ y.open_req = r.open_req /\ y.rpdev = r.rpdev /\ y.cb = r.cb
  BY DEF Channel
<1> HIDE DEF y
<1>2. /\ x \in Channel /\ x.refs = y.refs /\ x.lcid = k /\ x.rcid = y.rcid
      /\ x.open_ack = y.open_ack /\ x.open_req = y.open_req /\ x.rpdev = y.rpdev /\ x.cb = y.cb
  BY <1>1 DEF Channel
<1>3. [r EXCEPT !.refs = @ + 1, !.lcid = k] = x
  BY DEF y
<1>q. QED
  BY <1>1, <1>2, <1>3
\* The fields of a new channel.
LEMMA FieldsNew ==
  /\ NewChannel \in Channel /\ NewChannel.refs = 1 /\ NewChannel.lcid = 0 /\ NewChannel.rcid = 0
  /\ ~NewChannel.open_ack /\ ~NewChannel.open_req /\ ~NewChannel.rpdev /\ ~NewChannel.cb
BY GlinkChannelAssumption DEF NewChannel, Channel
\* The fields of a freed channel.
LEMMA FieldsUnused ==
  /\ Unused \in Channel /\ Unused.refs = 0 /\ Unused.lcid = 0 /\ Unused.rcid = 0
  /\ ~Unused.open_ack /\ ~Unused.open_req /\ ~Unused.rpdev /\ ~Unused.cb
BY FieldsNew DEF Unused, Channel

\* A table of one id is empty without it.
LEMMA Removed ==
  ASSUME NEW f, NEW i, DOMAIN f \subseteq {i}
  PROVE  DOMAIN Remove(f, i) = {}
BY DEF Remove
\* The channel found in a table of one id.
LEMMA Found ==
  ASSUME NEW f, NEW i \in Nat, DOMAIN f \subseteq {i}
  PROVE  /\ i \in DOMAIN f => Find(f) = f[i]
         /\ i \notin DOMAIN f => DOMAIN f = {} /\ Find(f) = 0
<1>1. CASE i \in DOMAIN f
  <2>1. DOMAIN f = {i} /\ DOMAIN f # {}
    BY <1>1
  <2>2. \A x \in {i} : (\A y \in {i} : x <= y) <=> x = i
    OBVIOUS
  <2>3. Min({i}) = i
    BY <2>2 DEF Min
  <2>q. QED
    BY <1>1, <2>1, <2>3 DEF Find
<1>2. CASE i \notin DOMAIN f
  BY <1>2 DEF Find
<1>q. QED
  BY <1>1, <1>2

\* s begins a new id: what is on its way to s ...
LEMMA NewTo ==
  ASSUME NEW s, NEW t, SideType(s), SideType(t), WayInv(t, s), ~Closed(s), ~Acked(s),
         Last(s)' = Last(s) + 1, Last(t)' = Last(t), Way(s)' = Way(s)
  PROVE  /\ WayInv(t, s)' /\ ~Closed(s)' /\ ~Acked(s)'
         /\ Opening(t, s)' <=> Opening(t, s)
         /\ Closing(t, s)' <=> Closing(t, s)
         /\ Zero(s)' <=> Zero(s)
<1> DEFINE q == Way(s)
           i == Last(t)
           j == Last(s)
<1>1. q \in Seq(Command) /\ i \in Nat /\ j \in Nat
  BY WayType, Zenon
<1>2. QueueInv(q, i, j) /\ ~Has(q, Cmd("CLOSE_ACK", j)) /\ ~Has(q, Cmd("OPEN_ACK", j))
  BY Zenon DEF WayInv, Closed, Acked, On
<1>3. QueueInv(q, i, j + 1) /\ ~Has(q, Cmd("CLOSE_ACK", j + 1)) /\ ~Has(q, Cmd("OPEN_ACK", j + 1))
  <2> HIDE DEF q, i, j
  <2>q. QED
    BY <1>1, <1>2, QueueTo, Zenon
<1>q. QED
  BY <1>3, Zenon DEF WayInv, Closed, Acked, Opening, Closing, Zero, On
\* ... and what is on its way to t, when s sends the OPEN, with an OPEN_ACK
\* before it or without.
LEMMA NewFrom ==
  ASSUME NEW s, NEW t, SideType(s), SideType(t), WayInv(s, t), ~Opening(s, t), ~Closing(s, t),
         Last(s)' = Last(s) + 1, Last(t)' = Last(t)
  PROVE  /\ Way(t)' = Append(Way(t), Cmd("OPEN", Last(s) + 1)) =>
              /\ WayInv(s, t)' /\ Opening(s, t)' /\ ~Closing(s, t)'
              /\ Closed(t)' <=> Closed(t)
              /\ Acked(t)' <=> Acked(t)
              /\ Zero(t)' <=> Zero(t)
         /\ (~Closed(t) /\ ~Acked(t) /\ Last(t) # 0
             /\ Way(t)' = Append(Append(Way(t), Cmd("OPEN_ACK", Last(t))), Cmd("OPEN", Last(s) + 1))) =>
              /\ WayInv(s, t)' /\ Opening(s, t)' /\ ~Closing(s, t)' /\ ~Closed(t)' /\ Acked(t)'
              /\ Zero(t)' <=> Zero(t)
<1> DEFINE q == Way(t)
           i == Last(s) + 1
           j == Last(t)
           x == Cmd("OPEN", i)
           y == Cmd("OPEN_ACK", j)
           r == Append(q, y)
<1>1. q \in Seq(Command) /\ Last(s) \in Nat /\ j \in Nat
  BY WayType, Zenon
<1>i. i \in Nat /\ x \in Command /\ y \in Command
  BY <1>1 DEF Cmd, Command, Cmds
<1>2. QueueInv(q, Last(s), j) /\ ~Has(q, Cmd("OPEN", Last(s))) /\ ~Has(q, Cmd("CLOSE", Last(s)))
  BY Zenon DEF WayInv, Opening, Closing, On
<1>3. QueueInv(q, i, j) /\ ~Has(q, x) /\ ~Has(q, Cmd("CLOSE", i))
  BY <1>1, <1>2, QueueFrom, Zenon
<1>4. x # Cmd("CLOSE_ACK", j) /\ x # Cmd("OPEN_ACK", j) /\ x # Cmd("OPEN_ACK", 0) /\ x # Cmd("CLOSE", i)
      /\ y # Cmd("OPEN", i) /\ y # Cmd("CLOSE_ACK", j) /\ y # Cmd("CLOSE", i)
      /\ (y = Cmd("OPEN_ACK", 0) => j = 0)
  BY CmdEq
<1>5. x \in Sent(i, j) /\ y \in Sent(i, j)
  BY Zenon DEF Sent
<1>w. Way(t) = q /\ (Closed(t) <=> Has(q, Cmd("CLOSE_ACK", j))) /\ (Acked(t) <=> Has(q, y))
      /\ (Zero(t) <=> Has(q, Cmd("OPEN_ACK", 0)))
  BY Zenon DEF Closed, Acked, Zero, On
<1>p. /\ WayInv(s, t)' <=> QueueInv(Way(t)', i, j)
      /\ Opening(s, t)' <=> Has(Way(t)', x)
      /\ Closing(s, t)' <=> Has(Way(t)', Cmd("CLOSE", i))
      /\ Closed(t)' <=> Has(Way(t)', Cmd("CLOSE_ACK", j))
      /\ Acked(t)' <=> Has(Way(t)', y)
      /\ Zero(t)' <=> Has(Way(t)', Cmd("OPEN_ACK", 0))
  BY Zenon DEF WayInv, Opening, Closing, Closed, Acked, Zero, On
<1> HIDE DEF q, i, j, x, y
<1>6. QueueInv(Append(q, x), i, j) /\ \A m : Has(Append(q, x), m) <=> Has(q, m) \/ m = x
  BY <1>1, <1>i, <1>3, <1>4, <1>5, QueueMore, Added, Zenon
<1>7. ASSUME ~Has(q, Cmd("CLOSE_ACK", j)), ~Has(q, y), j # 0
      PROVE  /\ QueueInv(Append(r, x), i, j)
             /\ \A m : Has(Append(r, x), m) <=> Has(q, m) \/ m = x \/ m = y
  <2>1. r \in Seq(Command) /\ \A m : Has(r, m) <=> Has(q, m) \/ m = y
    BY <1>1, <1>i, Added, Zenon
  <2>2. QueueInv(r, i, j)
    BY <1>1, <1>i, <1>3, <1>4, <1>5, <1>7, QueueMore, Zenon
  <2> HIDE DEF r
  <2>3. ~Has(r, x) /\ ~Has(r, Cmd("CLOSE", i))
    BY <2>1, <1>3, <1>4, Zenon DEF x, y
  <2>4. QueueInv(Append(r, x), i, j)
    BY <2>1, <2>2, <2>3, <1>1, <1>i, <1>4, <1>5, QueueMore, Zenon
  <2>5. \A m : Has(Append(r, x), m) <=> Has(r, m) \/ m = x
    BY <2>1, <1>i, Added, Zenon
  <2>q. QED
    BY <2>1, <2>4, <2>5, Zenon
<1>8. Way(t)' = Append(q, x) =>
              /\ WayInv(s, t)' /\ Opening(s, t)' /\ ~Closing(s, t)'
              /\ Closed(t)' <=> Closed(t)
              /\ Acked(t)' <=> Acked(t)
              /\ Zero(t)' <=> Zero(t)
  BY <1>3, <1>4, <1>6, <1>w, <1>p, Zenon DEF y
<1>9. ASSUME ~Closed(t), ~Acked(t), j # 0, Way(t)' = Append(r, x)
      PROVE  /\ WayInv(s, t)' /\ Opening(s, t)' /\ ~Closing(s, t)' /\ ~Closed(t)' /\ Acked(t)'
             /\ Zero(t)' <=> Zero(t)
  <2> HIDE DEF r
  <2>1. ~Has(q, Cmd("CLOSE_ACK", j)) /\ ~Has(q, y)
    BY <1>9, <1>w, Zenon
  <2>2. QueueInv(Way(t)', i, j) /\ \A m : Has(Way(t)', m) <=> Has(q, m) \/ m = x \/ m = y
    BY <2>1, <1>9, <1>7, Zenon
  <2>3. y # Cmd("CLOSE", i) /\ y # Cmd("CLOSE_ACK", j) /\ y # Cmd("OPEN_ACK", 0)
    BY <1>4, <1>9, Zenon
  <2>q. QED
    BY <2>1, <2>2, <2>3, <1>3, <1>4, <1>w, <1>p, Zenon
<1>q. QED
  BY <1>8, <1>9, Zenon DEF q, i, j, x, y

\* A condition counts once when it holds.
LEMMA Counts ==
  ASSUME NEW p
  PROVE  (p => Num(p) = 1) /\ (~p => Num(p) = 0) /\ Num(p) \in {0, 1}
BY DEF Num

\* An id in lcids of s is the one in use, and names the channel in use.
LEMMA LocalId ==
  ASSUME NEW s, NEW t, IdsInv(s, t), InL(s)
  PROVE  /\ nch[s] \in Id /\ nch[s] # 0 /\ lcids[s][Last(s)] = nch[s] /\ Cur(s).lcid = Last(s)
         /\ Last(s) \in Id /\ Last(s) \in DOMAIN lcids[s] /\ DOMAIN lcids[s] \subseteq {Last(s)}
<1>1. /\ nch[s] # 0 /\ lcids[s][Last(s)] = nch[s] /\ Cur(s).lcid = Last(s) /\ nch[s] \in 0 .. MAXCH
      /\ Last(s) \in Id /\ Last(s) \in DOMAIN lcids[s] /\ DOMAIN lcids[s] \subseteq {Last(s)}
  BY Zenon DEF IdsInv, ChanInv, IdInv, InL, SideType
<1>2. nch[s] \in Id
  BY <1>1 DEF Id
<1>q. QED
  BY <1>1, <1>2, Zenon

\* An id of t in rcids of s is the one in use, and names the channel in use.
LEMMA RemoteId ==
  ASSUME NEW s, NEW t, IdsInv(s, t), InR(t, s)
  PROVE  /\ nch[s] \in Id /\ nch[s] # 0 /\ rcids[s][Last(t)] = nch[s] /\ Cur(s).rcid = Last(t)
         /\ Last(t) \in DOMAIN rcids[s] /\ DOMAIN rcids[s] \subseteq {Last(t)}
<1>1. /\ nch[s] # 0 /\ rcids[s][Last(t)] = nch[s] /\ Cur(s).rcid = Last(t) /\ nch[s] \in 0 .. MAXCH
      /\ Last(t) \in DOMAIN rcids[s] /\ DOMAIN rcids[s] \subseteq {Last(t)}
  BY Zenon DEF IdsInv, ChanInv, IdInv, InR, SideType
<1>2. nch[s] \in Id
  BY <1>1 DEF Id
<1>q. QED
  BY <1>1, <1>2, Zenon

\* The OPEN a worker is at is on its way still.
LEMMA HeldOpen ==
  ASSUME NEW s, NEW t, SideType(s), SideType(t), WayInv(s, t), wpc[t] \in {"insert", "create"}
  PROVE  wcmd[t] = Cmd("OPEN", Last(s)) /\ wcmd[t] \in Command /\ Held(t) = <<wcmd[t]>> /\ Opening(s, t)
<1>1. wcmd[t] \in Command /\ wcmd[t].cmd = "OPEN" /\ Held(t) = <<wcmd[t]>>
  BY Zenon DEF SideType, Held
<1> DEFINE z == rx_queue[t] \o fifo[t]
           x == wcmd[t]
<1>2. z \in Seq(Command) /\ Way(t) = <<x>> \o z
  <2>1. rx_queue[t] \in Seq(Command) /\ fifo[t] \in Seq(Command)
    BY WayType, Zenon
  <2>q. QED
    BY <2>1, <1>1 DEF Way
<1> HIDE DEF z
<1>3. Has(Way(t), x)
  <2>1. <<x>> \o z # <<>> /\ Head(<<x>> \o z) = x
    BY <1>1, <1>2, Joined, Zenon
  <2>2. Way(t) \in Seq(Command)
    BY WayType, Zenon
  <2>q. QED
    BY <2>1, <2>2, <1>2, Front, Zenon
<1>4. x \in Sent(Last(s), Last(t))
  BY <1>3, Zenon DEF WayInv, QueueInv
<1>5. \A c, n : Cmd(c, n).cmd = c
  BY DEF Cmd
<1>6. x = Cmd("OPEN", Last(s))
  BY <1>1, <1>4, <1>5 DEF Sent
<1>q. QED
  BY <1>1, <1>3, <1>6, Zenon DEF Opening, On

\* qcom_glink_create_local: a new channel, a new id, its OPEN.
LEMMA OpenerOpens ==
  ASSUME NEW a, NEW b, Ends(a, b), CreateLocal(a), Frame(b)
  PROVE  EndsInv(a, b)'
<1> DEFINE n == nch[a] + 1
           r == [NewChannel EXCEPT !.refs = @ + 1, !.lcid = next_id[a]]
<1>0. FunType /\ a \in Side /\ b \in Side /\ a # b /\ Peer[a] = b /\ SideType(a) /\ SideType(b)
  BY Zenon DEF Ends, IdsInv
<1>1. /\ upc[a] = "local" /\ nch[a] < MAXCH /\ wpc' = wpc /\ wch' = wch /\ wcmd' = wcmd
      /\ rcids' = rcids /\ dev' = dev /\ rx_queue' = rx_queue
      /\ nch' = [nch EXCEPT ![a] = @ + 1] /\ uch' = [uch EXCEPT ![a] = nch'[a]]
      /\ upc' = [upc EXCEPT ![a] = "wait_local"]
      /\ next_id' = [next_id EXCEPT ![a] = @ + 1]
      /\ lcids' = [lcids EXCEPT ![a] = Insert(@, next_id[a], nch'[a])]
      /\ fifo' = [fifo EXCEPT ![Peer[a]] = @ \o <<Cmd("OPEN", next_id[a])>>]
  BY Zenon DEF CreateLocal, OpenReq, Send, Open, worker, recv
<1>2. /\ nch'[a] = n /\ uch'[a] = n /\ upc'[a] = "wait_local" /\ next_id'[a] = next_id[a] + 1
      /\ lcids'[a] = Insert(lcids[a], next_id[a], n) /\ fifo'[a] = fifo[a]
      /\ fifo'[b] = fifo[b] \o <<Cmd("OPEN", next_id[a])>>
      /\ rcids'[a] = rcids[a] /\ dev'[a] = dev[a] /\ rx_queue'[a] = rx_queue[a]
      /\ wpc'[a] = wpc[a] /\ wch'[a] = wch[a] /\ wcmd'[a] = wcmd[a]
  BY <1>0, <1>1, Zenon DEF FunType
<1>3. nch[a] \in 0 .. MAXCH /\ next_id[a] \in 1 .. MAXCH + 1 /\ next_id[a] <= MAXCH
      /\ ~InL(a) /\ ~InR(b, a) /\ MAXCH \in Nat /\ nch[a] < MAXCH /\ next_id'[a] = next_id[a] + 1
  BY <1>1, <1>2, GlinkChannelAssumption, Zenon DEF Ends, OpenerInv, IdsInv, SideType
<1>4. n \in Id /\ next_id[a] \in Id /\ Last(a) + 1 = next_id[a] /\ Last(a)' = next_id[a] /\ n # nch[a]
      /\ Last(a) \in Nat /\ next_id'[a] \in 1 .. MAXCH + 1 /\ n \in 0 .. MAXCH /\ n # 0
  BY <1>3 DEF Id, Last
<1>5. ch' = [ch EXCEPT ![a][n] = r]
  BY <1>1, <1>2, Zenon DEF CreateLocal, OpenReq
<1>6. r \in Channel /\ r.refs = 2 /\ r.lcid = next_id[a] /\ r.rcid = 0 /\ ~r.open_ack /\ ~r.open_req
      /\ ~r.cb
  <2>1. next_id[a] \in 0 .. MAXCH
    BY <1>3
  <2>2. /\ r \in Channel /\ r.refs = NewChannel.refs + 1 /\ r.lcid = next_id[a] /\ r.rcid = NewChannel.rcid
        /\ r.open_ack = NewChannel.open_ack /\ r.open_req = NewChannel.open_req /\ r.cb = NewChannel.cb
    BY <2>1, FieldsNew, FieldsOpen, Zenon
  <2> HIDE DEF r
  <2>3. r.refs = 2
    BY <2>2, FieldsNew
  <2>q. QED
    BY <2>2, <2>3, FieldsNew, Zenon
<1> HIDE DEF n, r
<1>7. ch'[a] \in [Id -> Channel] /\ ch'[a][n] = r /\ \A d \in Id : d # n => ch'[a][d] = ch[a][d]
  <2>1. n \in Id /\ r \in Channel
    BY <1>4, <1>6, Zenon
  <2>2. Becomes(a, n, r)
    BY <2>1, <1>0, <1>5, Updated, Zenon
  <2>q. QED
    BY <2>2, Zenon DEF Becomes
<1>8. Cur(a)' = r
  BY <1>2, <1>7, Zenon DEF Cur
\* the ids
<1>9. DOMAIN lcids[a] = {} /\ DOMAIN rcids[b] = {} /\ DOMAIN rcids[a] = {}
  BY <1>3 DEF Ends, IdsInv, IdInv, Life, InL, InR
<1>10. DOMAIN lcids'[a] = {next_id[a]} /\ lcids'[a][next_id[a]] = n
  <2>1. DOMAIN Insert(lcids[a], next_id[a], n) = {next_id[a]} /\ Insert(lcids[a], next_id[a], n)[next_id[a]] = n
    BY <1>9 DEF Insert
  <2>q. QED
    BY <1>2, <2>1, Zenon
<1>11. /\ Last(b)' = Last(b) /\ rcids'[b] = rcids[b] /\ lcids'[b] = lcids[b]
  BY Zenon DEF Frame, Same, Core, Last
<1>12. InL(a)' /\ ~InR(a, b)' /\ ~InR(b, a)' /\ ~InR(a, b)
  BY <1>2, <1>4, <1>9, <1>10, <1>11 DEF InL, InR
<1>13. /\ Cur(b)' = Cur(b) /\ Held(b)' = Held(b) /\ (InL(b)' <=> InL(b)) /\ (Using(b)' <=> Using(b))
       /\ ChanInv(b, a)'
  BY <1>12, Rest, Zenon DEF Frame, Same, Ends, IdsInv
<1>14. ~Opening(a, b) /\ ~Closing(a, b) /\ ~Closed(a) /\ ~Using(a)
  BY <1>3, Zenon DEF Ends, IdsInv, IdInv, Life
<1>15. ~Acked(a) /\ ~Opening(b, a) /\ ~Acked(b) /\ ~Zero(b)
  BY <1>1, <1>14 DEF Ends, PairInv
<1>16. Way(a)' = Way(a)
  BY <1>2, Zenon DEF Way, Held
<1>17. /\ WayInv(b, a)' /\ ~Closed(a)' /\ ~Acked(a)'
       /\ Opening(b, a)' <=> Opening(b, a)
       /\ Closing(b, a)' <=> Closing(b, a)
       /\ Zero(a)' <=> Zero(a)
  BY <1>0, <1>4, <1>11, <1>14, <1>15, <1>16, NewTo, Zenon DEF Ends, IdsInv
<1>18. Cmd("OPEN", next_id[a]) \in Command
  BY <1>3 DEF Cmd, Command, Cmds
<1>19. Way(b)' = Append(Way(b), Cmd("OPEN", Last(a) + 1)) /\ fifo'[b] \in Seq(Command)
  BY <1>0, <1>2, <1>4, <1>13, <1>18, WaySend, Zenon DEF Frame, Same
<1>20. /\ WayInv(a, b)' /\ Opening(a, b)' /\ ~Closing(a, b)'
       /\ Closed(b)' <=> Closed(b)
       /\ Acked(b)' <=> Acked(b)
       /\ Zero(b)' <=> Zero(b)
  BY <1>0, <1>4, <1>11, <1>14, <1>19, NewFrom, Zenon DEF Ends, IdsInv
<1>21. Using(a)'
  BY <1>2, Zenon DEF Using
\* the invariant
<1>22. SideType(a)' /\ SideType(b)'
  <2>1. SideType(b)'
    BY <1>0, <1>19, RestType, Zenon DEF Frame
  <2>2. SideType(a)'
    BY <1>0, <1>2, <1>4, <1>7, Zenon DEF SideType
  <2>q. QED
    BY <2>1, <2>2
<1>23. IdInv(a, b)'
  BY <1>4, <1>9, <1>10, <1>11, <1>12, <1>17, <1>20, <1>21 DEF IdInv, Life
<1>24. IdInv(b, a)'
  BY <1>2, <1>3, <1>11, <1>12, <1>13, <1>17, <1>20, IdKept, Zenon DEF Ends, IdsInv
<1>25. ChanInv(a, b)'
  <2>1. nch[a] # 0 => Cur(a).refs = 0
    <3>1. ~Made(a)
      BY <1>1 DEF Ends, OpenerInv, Made, Making
    <3>q. QED
      BY <3>1, <1>3 DEF Ends, IdsInv, ChanInv, Num
  <2>2. \A d \in Id : d # n => ch'[a][d].refs = 0
    <3>1. \A d \in Id : d # nch[a] => ch[a][d].refs = 0
      BY Zenon DEF Ends, IdsInv, ChanInv
    <3>2. \A d \in Id : d # 0
      BY DEF Id
    <3>q. QED
      BY <3>1, <3>2, <2>1, <1>7, Zenon DEF Cur
  <2>3. Made(a)'
    BY <1>2, <1>7, <1>6, Zenon DEF Made, Making
  <2>4. Cur(a)'.refs = Num(InL(a))' + Num(InR(b, a))' + Num(Made(a))'
    BY <2>3, <1>6, <1>8, <1>12 DEF Num
  <2>q. QED
    BY <2>2, <2>4, <1>2, <1>4, <1>6, <1>8, <1>10, <1>12, Zenon DEF ChanInv
<1>26. OpenerInv(a, b)'
  <2>1. dev[a] = 0 /\ wpc[a] \in {"idle", "insert"} /\ (Zero(a) => Last(a) = 0) /\ bound[a] = FALSE
    BY Zenon DEF Ends, OpenerInv
  <2>2. ~Zero(a)
    BY <2>1, <1>15, Zenon DEF Zero, Acked
  <2>3. wpc[a] # "insert"
    BY <1>15, HeldOpen, Zenon DEF Ends, IdsInv
  <2>q. QED
    BY <2>1, <2>2, <2>3, <1>2, <1>6, <1>8, <1>12, <1>17, Zenon DEF OpenerInv, Frame
<1>27. AnswerInv(a, b)'
  BY <1>12, RestAnswer, Zenon DEF Ends, Frame, Same
<1>28. PairInv(a, b)'
  <2>1. ~Using(b) /\ (InL(b) => Closed(b))
    BY <1>3, <1>15, Zenon DEF Ends, IdsInv, IdInv, Life
  <2>2. upc[b] = "idle"
    BY <2>1, <1>12, Zenon DEF Using, Ends, AnswerInv
  <2>3. upc'[b] = "idle"
    BY <2>2, Zenon DEF Frame, Same, Core
  <2>4. Fresh(a)'
    BY <1>2, <1>6, <1>8, <1>17, Zenon DEF Fresh
  <2>5. ~Unopened(a, b)'
    BY <1>12, Zenon DEF Unopened
  <2>q. QED
    BY <2>1, <2>3, <2>4, <2>5, <1>6, <1>8, <1>12, <1>13, <1>15, <1>17, <1>20, Zenon DEF PairInv
<1>q. QED
  BY <1>13, <1>17, <1>20, <1>22, <1>23, <1>24, <1>25, <1>26, <1>27, <1>28, Zenon DEF EndsInv, IdsInv

\* The callback of a channel is set or cleared, its open is acknowledged.
CbSet(s, c, v) ==
    LET r == ch[s][c]
        x == ch'[s][c]
    IN /\ ch'[s] \in [Id -> Channel] /\ \A d \in Id : d # c => ch'[s][d] = ch[s][d]
       /\ x.refs = r.refs /\ x.lcid = r.lcid /\ x.rcid = r.rcid /\ x.open_ack = r.open_ack
       /\ x.open_req = r.open_req /\ x.rpdev = r.rpdev /\ x.cb = v
\* An EXCEPT of the field cb does that.
LEMMA SetCb ==
  ASSUME FunType, NEW s \in Side, SideType(s), NEW c \in Id, NEW v \in BOOLEAN,
         ch' = [ch EXCEPT ![s][c].cb = v]
  PROVE  CbSet(s, c, v)
<1> DEFINE r == ch[s][c]
           x == [r EXCEPT !.cb = v]
<1>1. r \in Channel
  BY DEF SideType
<1>2. ch' = [ch EXCEPT ![s][c] = x]
  OBVIOUS
<1> HIDE DEF r
<1>3. /\ x \in Channel /\ x.refs = r.refs /\ x.lcid = r.lcid /\ x.rcid = r.rcid /\ x.open_ack = r.open_ack
      /\ x.open_req = r.open_req /\ x.rpdev = r.rpdev /\ x.cb = v
  BY <1>1 DEF Channel
<1> HIDE DEF x
<1>4. Becomes(s, c, x)
  BY <1>2, <1>3, Updated, Zenon
<1>q. QED
  BY <1>3, <1>4, Zenon DEF r, Becomes, CbSet
AckSet(s, c) ==
    LET r == ch[s][c]
        x == ch'[s][c]
    IN /\ ch'[s] \in [Id -> Channel] /\ \A d \in Id : d # c => ch'[s][d] = ch[s][d]
       /\ x.refs = r.refs /\ x.lcid = r.lcid /\ x.rcid = r.rcid /\ x.open_ack
       /\ x.open_req = r.open_req /\ x.rpdev = r.rpdev /\ x.cb = r.cb
\* An EXCEPT of the field open_ack does that.
LEMMA SetAck ==
  ASSUME FunType, NEW s \in Side, SideType(s), NEW c \in Id, ch' = [ch EXCEPT ![s][c].open_ack = TRUE]
  PROVE  AckSet(s, c)
<1> DEFINE r == ch[s][c]
           x == [r EXCEPT !.open_ack = TRUE]
<1>1. r \in Channel
  BY DEF SideType
<1>2. ch' = [ch EXCEPT ![s][c] = x]
  OBVIOUS
<1> HIDE DEF r
<1>3. /\ x \in Channel /\ x.refs = r.refs /\ x.lcid = r.lcid /\ x.rcid = r.rcid /\ x.open_ack
      /\ x.open_req = r.open_req /\ x.rpdev = r.rpdev /\ x.cb = r.cb
  BY <1>1, Zenon DEF Channel
<1> HIDE DEF x
<1>4. Becomes(s, c, x)
  BY <1>2, <1>3, Updated, Zenon
<1>q. QED
  BY <1>3, <1>4, Zenon DEF r, Becomes, AckSet

\* Both completions are done, and a sends its OPEN_ACK.
LEMMA OpenerDone ==
  ASSUME NEW a, NEW b, Ends(a, b), LocalDone(a), Frame(b)
  PROVE  EndsInv(a, b)'
<1> DEFINE n == Cur(a).rcid
<1>0. FunType /\ a \in Side /\ b \in Side /\ a # b /\ Peer[a] = b /\ SideType(a) /\ SideType(b)
      /\ IdsInv(a, b)
  BY Zenon DEF Ends, IdsInv
<1>1. /\ upc[a] = "wait_local" /\ ch[a][uch[a]].open_ack /\ ch[a][uch[a]].open_req
      /\ nch' = nch /\ next_id' = next_id /\ lcids' = lcids /\ rcids' = rcids /\ dev' = dev
      /\ rx_queue' = rx_queue /\ uch' = uch /\ wpc' = wpc /\ wch' = wch /\ wcmd' = wcmd
      /\ upc' = [upc EXCEPT ![a] = "open"] /\ ch' = [ch EXCEPT ![a][uch[a]].cb = TRUE]
      /\ fifo' = [fifo EXCEPT ![Peer[a]] = @ \o <<Cmd("OPEN_ACK", ch[a][uch[a]].rcid)>>]
  BY Zenon DEF LocalDone, Send, OpenAck, worker, recv
<1>2. uch[a] = nch[a] /\ Using(a)
  BY <1>1 DEF Ends, OpenerInv, Using
<1>3. InL(a) /\ ~Closing(a, b) /\ ~Closed(a) /\ (Opening(a, b) <=> ~InR(a, b))
  BY <1>0, <1>2, Zenon DEF IdsInv, IdInv, Life
<1>4. nch[a] \in Id /\ nch[a] # 0
  BY <1>0, <1>3, LocalId, Zenon
<1>5. /\ Cur(a).open_ack /\ Cur(a).open_req /\ upc'[a] = "open" /\ ch' = [ch EXCEPT ![a][nch[a]].cb = TRUE]
      /\ fifo'[b] = fifo[b] \o <<Cmd("OPEN_ACK", n)>> /\ fifo'[a] = fifo[a]
  BY <1>0, <1>1, <1>2, Zenon DEF Cur, FunType
<1>6. ~Fresh(a) /\ ~Acked(a) /\ ~Opening(b, a) /\ ~Opening(a, b) /\ ~Unopened(a, b) /\ ~Acked(b) /\ ~Zero(b)
      /\ Last(b) # 0
  BY <1>1, <1>3, <1>5, Zenon DEF Ends, PairInv, Fresh
<1>7. n \in Nat /\ (n = Last(b) \/ n = 0) /\ (n = Last(b) => InR(b, a)) /\ (n = 0 => ~InR(b, a))
  <2>1. InR(b, a) => n = Last(b)
    BY <1>0, Zenon DEF IdsInv, ChanInv
  <2>2. ~InR(b, a) => n = 0
    BY <1>0, <1>4, Zenon DEF IdsInv, ChanInv
  <2>3. n \in 0 .. MAXCH
    BY <1>0, <1>4, Zenon DEF SideType, Cur, Channel
  <2>q. QED
    BY <2>1, <2>2, <2>3, <1>6, GlinkChannelAssumption
<1>8. n = 0 => slow
  <2>1. InR(a, b)
    BY <1>3, <1>6, Zenon
  <2>2. ~slow => Using(b)
    BY <2>1, <1>1, <1>6, Zenon DEF Ends, PairInv
  <2>3. Using(b) => InR(b, a)
    BY <1>0, <1>6, Zenon DEF IdsInv, IdInv, Life
  <2>q. QED
    BY <2>2, <2>3, <1>7, Zenon
<1>9. InR(b, a) => InL(b) /\ ~Closed(b)
  BY <1>0, Zenon DEF IdsInv, IdInv, Life
<1> HIDE DEF n
<1>10. Tables(a) /\ Way(a)' = Way(a)
  BY <1>1, <1>5, Zenon DEF Tables, Way, Held
<1>11. Cmd("OPEN_ACK", n) \in Sent(Last(a), Last(b)) /\ ~On(b, "OPEN_ACK", n)
       /\ "OPEN_ACK" \in Cmds /\ (n = Last(b) => ~Closed(b))
  BY <1>6, <1>7, <1>9, Zenon DEF Sent, Acked, Zero, Cmds
<1>12. /\ Calm(a, b) /\ Rested(a, b) /\ More(a, b, "OPEN_ACK", n) /\ Kept(b, a)
       /\ WayInv(a, b)' /\ WayInv(b, a)'
  BY <1>0, <1>3, <1>5, <1>7, <1>10, <1>11, Spoken DEF Frame
<1>13. /\ Opening(a, b)' <=> Opening(a, b)
       /\ Closing(a, b)' <=> Closing(a, b)
       /\ Closed(b)' <=> Closed(b)
       /\ Acked(b)' <=> n = Last(b)
       /\ Zero(b)' <=> n = 0
  BY <1>6, <1>12 DEF More
<1>14. /\ ch'[a] \in [Id -> Channel] /\ \A d \in Id : d # nch[a] => ch'[a][d] = ch[a][d]
       /\ Cur(a)'.refs = Cur(a).refs /\ Cur(a)'.lcid = Cur(a).lcid /\ Cur(a)'.rcid = Cur(a).rcid
       /\ Cur(a)'.open_ack = Cur(a).open_ack /\ Cur(a)'.open_req = Cur(a).open_req /\ Cur(a)'.cb
  <2>1. CbSet(a, nch[a], TRUE)
    BY <1>0, <1>4, <1>5, SetCb, Zenon
  <2>q. QED
    BY <2>1, <1>1, Zenon DEF Cur, CbSet
<1>15. Using(a)'
  BY <1>5, Zenon DEF Using
<1>16. SideType(a)'
  BY <1>0, <1>1, <1>5, <1>14, Zenon DEF SideType
<1>17. IdInv(a, b)' /\ IdInv(b, a)'
  BY <1>0, <1>1, <1>2, <1>12, <1>13, <1>15, IdKept, Zenon DEF IdsInv, Calm, Kept, Rested, Frame, Same, Core
<1>18. ~Made(a)' /\ ~Made(a)
  BY <1>1, <1>5, Zenon DEF Made, Making, Cur, Ends, OpenerInv
<1>19. ChanInv(a, b)'
  BY <1>0, <1>1, <1>10, <1>12, <1>14, <1>18, ChanKept, Zenon DEF IdsInv
<1>20. OpenerInv(a, b)'
  BY <1>1, <1>5, <1>12, <1>14, Zenon DEF Ends, OpenerInv, Calm, Kept, Frame
<1>21. AnswerInv(a, b)'
  BY <1>12, RestAnswer, Zenon DEF Ends, Frame, Same, Calm
<1>22. ~Unopened(a, b)'
  BY <1>6, <1>12, Zenon DEF Unopened, Calm, Frame, Same, Core
<1>23. PairInv(a, b)'
  BY <1>5, <1>6, <1>7, <1>8, <1>9, <1>12, <1>13, <1>22 DEF PairInv, Kept, Calm, Frame
<1>q. QED
  BY <1>12, <1>16, <1>17, <1>19, <1>20, <1>21, <1>23, Zenon DEF EndsInv, IdsInv, Rested

\* qcom_glink_destroy_ept: the callback is cleared and the CLOSE sent.
LEMMA OpenerCloses ==
  ASSUME NEW a, NEW b, Ends(a, b), DestroyEpt(a), Frame(b)
  PROVE  EndsInv(a, b)'
<1>0. FunType /\ a \in Side /\ b \in Side /\ a # b /\ Peer[a] = b /\ SideType(a) /\ SideType(b)
      /\ IdsInv(a, b)
  BY Zenon DEF Ends, IdsInv
<1>1. /\ upc[a] = "open"
      /\ IF ch[a][uch[a]].cb THEN fifo' = [fifo EXCEPT ![Peer[a]] = @ \o <<Cmd("CLOSE", ch[a][uch[a]].lcid)>>]
         ELSE fifo' = fifo
      /\ nch' = nch /\ next_id' = next_id /\ lcids' = lcids /\ rcids' = rcids /\ dev' = dev
      /\ rx_queue' = rx_queue /\ uch' = uch /\ wpc' = wpc /\ wch' = wch /\ wcmd' = wcmd
      /\ upc' = [upc EXCEPT ![a] = "idle"] /\ ch' = [ch EXCEPT ![a][uch[a]].cb = FALSE]
  BY Zenon DEF DestroyEpt, Send, Close, worker, recv, wire
<1>2. uch[a] = nch[a] /\ Using(a)
  BY <1>1 DEF Ends, OpenerInv, Using
<1>3. InL(a)
  BY <1>0, <1>2, Zenon DEF IdsInv, IdInv, Life
<1>4. nch[a] \in Id /\ nch[a] # 0 /\ Cur(a).lcid = Last(a)
  BY <1>0, <1>3, LocalId, Zenon
<1>5. Cur(a).cb
  <2>1. OpenerInv(a, b)
    BY Zenon DEF Ends
  <2>2. nch[a] # 0 => (Cur(a).cb <=> upc[a] = "open")
    BY <2>1, Zenon DEF OpenerInv
  <2>q. QED
    BY <2>2, <1>1, <1>4, Zenon
<1>6. /\ upc'[a] = "idle" /\ ch' = [ch EXCEPT ![a][nch[a]].cb = FALSE]
      /\ fifo'[b] = fifo[b] \o <<Cmd("CLOSE", Last(a))>> /\ fifo'[a] = fifo[a]
  <2>1. ch[a][uch[a]].cb /\ ch[a][uch[a]].lcid = Last(a)
    BY <1>2, <1>4, <1>5, Zenon DEF Cur
  <2>2. fifo' = [fifo EXCEPT ![Peer[a]] = @ \o <<Cmd("CLOSE", Last(a))>>]
    BY <2>1, <1>1, Zenon
  <2>q. QED
    BY <2>2, <1>0, <1>1, <1>2, Zenon DEF FunType
<1>7. /\ ch'[a] \in [Id -> Channel] /\ \A d \in Id : d # nch[a] => ch'[a][d] = ch[a][d]
      /\ Cur(a)'.refs = Cur(a).refs /\ Cur(a)'.lcid = Cur(a).lcid /\ Cur(a)'.rcid = Cur(a).rcid
      /\ Cur(a)'.open_ack = Cur(a).open_ack /\ Cur(a)'.open_req = Cur(a).open_req /\ ~Cur(a)'.cb
  <2>1. CbSet(a, nch[a], FALSE)
    BY <1>0, <1>4, <1>6, SetCb, Zenon
  <2>q. QED
    BY <2>1, <1>1, Zenon DEF Cur, CbSet
<1>8. Tables(a) /\ Way(a)' = Way(a)
  BY <1>1, <1>6, Zenon DEF Tables, Way, Held
<1>9. wpc[a] # "wait"
  BY Zenon DEF Ends, OpenerInv
<1>10. ~Using(a)'
  BY <1>1, <1>6, <1>7, <1>9 DEF Using
<1>11. /\ Calm(a, b) /\ Rested(a, b) /\ More(a, b, "CLOSE", Last(a)) /\ Kept(b, a)
       /\ IdInv(a, b)' /\ IdInv(b, a)' /\ WayInv(a, b)' /\ WayInv(b, a)'
  BY <1>0, <1>2, <1>6, <1>8, <1>10, Closes, Zenon DEF Frame
<1>12. /\ Opening(a, b)' <=> Opening(a, b)
       /\ Closing(a, b)'
       /\ Closed(b)' <=> Closed(b)
       /\ Acked(b)' <=> Acked(b)
       /\ Zero(b)' <=> Zero(b)
  BY <1>11 DEF More
<1>13. SideType(a)'
  BY <1>0, <1>1, <1>6, <1>7, Zenon DEF SideType
<1>14. ~Made(a)' /\ ~Made(a)
  BY <1>1, <1>6 DEF Made, Making, Ends, OpenerInv
<1>15. ChanInv(a, b)'
  BY <1>0, <1>1, <1>7, <1>8, <1>11, <1>14, ChanKept, Zenon DEF IdsInv
<1>16. OpenerInv(a, b)'
  BY <1>1, <1>6, <1>7, <1>11, Zenon DEF Ends, OpenerInv, Calm, Kept, Frame
<1>17. AnswerInv(a, b)'
  BY <1>11, RestAnswer, Zenon DEF Ends, Frame, Same, Calm
<1>18. ~Opening(b, a) /\ ~Acked(a) /\ ~Opening(a, b) /\ ~Unopened(a, b) /\ (Acked(b) => InL(b)) /\ (Zero(b) => slow)
  BY <1>1 DEF Ends, PairInv, Fresh
<1>19. ~Unopened(a, b)'
  BY <1>18, <1>11, Zenon DEF Unopened, Calm, Frame, Same, Core
<1>20. PairInv(a, b)'
  BY <1>6, <1>11, <1>12, <1>18, <1>19 DEF PairInv, Kept, Calm, Frame
<1>q. QED
  BY <1>11, <1>13, <1>15, <1>16, <1>17, <1>20, Zenon DEF EndsInv, IdsInv, Rested

-----------------------------------------------------------------------------
(* The interrupt handler. *)

\* Commands move from one queue of a side to the next, and nothing else changes.
LEMMA Unmoved ==
  ASSUME NEW a, NEW b, Ends(a, b), Core(a), Core(b), bound' = bound, slow' = slow,
         Way(a)' = Way(a), Way(b)' = Way(b), rx_queue'[a] \in Seq(Command), rx_queue'[b] \in Seq(Command),
         fifo'[a] \in Seq(Command), fifo'[b] \in Seq(Command)
  PROVE  EndsInv(a, b)'
<1>1. Last(a)' = Last(a) /\ Last(b)' = Last(b)
  BY Zenon DEF Core, Last
<1>2. (InR(a, b)' <=> InR(a, b)) /\ (InR(b, a)' <=> InR(b, a))
  BY <1>1, Zenon DEF InR, Core
<1>3. IdsInv(a, b)
  BY Zenon DEF Ends
<1>4. /\ Cur(b)' = Cur(b) /\ (InL(b)' <=> InL(b)) /\ (Using(b)' <=> Using(b))
      /\ ChanInv(b, a)'
  BY <1>1, <1>2, <1>3, Rest, Zenon DEF IdsInv
<1>5. /\ Cur(a)' = Cur(a) /\ (InL(a)' <=> InL(a)) /\ (Using(a)' <=> Using(a))
      /\ ChanInv(a, b)'
  BY <1>1, <1>2, <1>3, Rest, Zenon DEF IdsInv
<1>6. WayInv(a, b)' /\ WayInv(b, a)' /\ Kept(a, b) /\ Kept(b, a)
  BY <1>1, <1>3, WaySame, Zenon DEF IdsInv
<1>7. lcids'[a] = lcids[a] /\ rcids'[a] = rcids[a] /\ lcids'[b] = lcids[b] /\ rcids'[b] = rcids[b]
  BY Zenon DEF Core
<1>8. IdInv(a, b)' /\ IdInv(b, a)'
  BY <1>1, <1>2, <1>3, <1>4, <1>5, <1>6, <1>7, IdKept, Zenon DEF IdsInv, Kept
<1>9. SideType(a)' /\ SideType(b)'
  BY <1>3, Zenon DEF IdsInv, SideType, Core
<1>10. OpenerInv(a, b)'
  BY <1>1, <1>2, <1>6, RestOpener, Zenon DEF Ends, Kept
<1>11. AnswerInv(a, b)'
  BY <1>1, <1>2, RestAnswer, Zenon DEF Ends
<1>12. upc'[a] = upc[a] /\ upc'[b] = upc[b] /\ wpc'[b] = wpc[b] /\ uch'[b] = uch[b] /\ nch'[b] = nch[b]
  BY Zenon DEF Core
<1>13. (Unopened(a, b)' <=> Unopened(a, b)) /\ (Fresh(a)' <=> Fresh(a))
  BY <1>2, <1>5, <1>6, <1>12, Zenon DEF Unopened, Fresh, Kept
<1>14. PairInv(a, b)
  BY Zenon DEF Ends
<1>15. PairInv(a, b)'
  BY <1>1, <1>2, <1>4, <1>5, <1>6, <1>12, <1>13, <1>14, Zenon DEF PairInv, Kept
<1>q. QED
  BY <1>4, <1>5, <1>6, <1>8, <1>9, <1>10, <1>11, <1>15, Zenon DEF EndsInv, IdsInv

\* One command of qcom_glink_native_intr.
Handled(s, m) ==
    /\ fifo[s] # <<>> /\ m = Head(fifo[s]) /\ fifo' = [fifo EXCEPT ![s] = Tail(fifo[s])]
    /\ nch' = nch /\ next_id' = next_id /\ lcids' = lcids /\ rcids' = rcids /\ dev' = dev
    /\ upc' = upc /\ uch' = uch /\ wpc' = wpc /\ wch' = wch /\ wcmd' = wcmd
    /\ IF m.cmd = "OPEN_ACK"
       THEN /\ rx_queue' = rx_queue
            /\ ch' = IF m.id \in DOMAIN lcids[s] THEN [ch EXCEPT ![s][lcids[s][m.id]].open_ack = TRUE] ELSE ch
       ELSE rx_queue' = [rx_queue EXCEPT ![s] = Append(rx_queue[s], m)] /\ ch' = ch
\* The step of the interrupt handler, spelled out.
LEMMA Handles ==
  ASSUME NEW s, Interrupt(s)
  PROVE  Handled(s, Head(fifo[s]))
<1> DEFINE m == Head(fifo[s])
           bad == m.cmd = "OPEN_ACK" /\ m.id \notin DOMAIN lcids[s]
<1>1. /\ fifo[s] # <<>> /\ fifo' = [fifo EXCEPT ![s] = Tail(fifo[s])]
      /\ nch' = nch /\ next_id' = next_id /\ lcids' = lcids /\ rcids' = rcids /\ dev' = dev
      /\ upc' = upc /\ uch' = uch /\ wpc' = wpc /\ wch' = wch /\ wcmd' = wcmd
  BY Zenon DEF Interrupt, user, worker
<1>2. /\ ch' = IF m.cmd = "OPEN_ACK" /\ ~bad THEN [ch EXCEPT ![s][lcids[s][m.id]].open_ack = TRUE] ELSE ch
      /\ rx_queue' = IF m.cmd = "OPEN_ACK" THEN rx_queue ELSE [rx_queue EXCEPT ![s] = Append(@, m)]
  BY Zenon DEF Interrupt
<1>3. CASE m.cmd = "OPEN_ACK"
  <2>1. rx_queue' = rx_queue
    BY <1>2, <1>3, Zenon
  <2>2. ch' = IF m.id \in DOMAIN lcids[s] THEN [ch EXCEPT ![s][lcids[s][m.id]].open_ack = TRUE] ELSE ch
    BY <1>2, <1>3, Zenon
  <2>q. QED
    BY <1>1, <1>3, <2>1, <2>2, Zenon DEF Handled
<1>4. CASE m.cmd # "OPEN_ACK"
  <2>1. rx_queue' = [rx_queue EXCEPT ![s] = Append(rx_queue[s], m)]
    BY <1>2, <1>4, Zenon
  <2>2. ch' = ch
    BY <1>2, <1>4, Zenon
  <2>q. QED
    BY <1>1, <1>4, <2>1, <2>2, Zenon DEF Handled
<1>q. QED
  BY <1>3, <1>4, Zenon

\* A command left to the worker stays on its way.
LEMMA LeftToWorker ==
  ASSUME NEW s, NEW m, FunType, s \in Side, SideType(s), Handled(s, m), m.cmd # "OPEN_ACK"
  PROVE  Core(s) /\ Way(s)' = Way(s) /\ rx_queue'[s] \in Seq(Command) /\ fifo'[s] \in Seq(Command)
<1>1. fifo[s] # <<>> /\ m = Head(fifo[s]) /\ fifo'[s] = Tail(fifo[s]) /\ rx_queue'[s] = Append(rx_queue[s], m)
      /\ Core(s) /\ Held(s)' = Held(s)
  BY Zenon DEF Handled, FunType, Core, Held
<1>2. fifo'[s] \in Seq(Command) /\ m \in Command /\ Way(s)' = Way(s)
  BY <1>1, WayRead, Zenon
<1>3. rx_queue'[s] \in Seq(Command)
  BY <1>1, <1>2, Joined, Zenon DEF SideType
<1>q. QED
  BY <1>1, <1>2, <1>3, Zenon

\* An OPEN_ACK is taken: it is the one of the last id of s, or of id 0.
LEMMA AckHeard ==
  ASSUME NEW s, NEW t, NEW m, FunType, s \in Side, t \in Side, s # t, IdsInv(s, t), Handled(s, m),
         m.cmd = "OPEN_ACK", Same(t)
  PROVE  /\ Calm(s, t) /\ Rested(s, t) /\ Kept(s, t) /\ Less(t, s, "OPEN_ACK", m.id)
         /\ WayInv(s, t)' /\ WayInv(t, s)'
         /\ On(s, "OPEN_ACK", m.id) /\ (m.id = Last(s) \/ m.id = 0)
         /\ fifo'[s] \in Seq(Command)
         /\ (Using(s)' <=> Using(s)) => IdInv(s, t)' /\ IdInv(t, s)'
<1>0. SideType(s) /\ SideType(t) /\ WayInv(s, t) /\ WayInv(t, s) /\ IdInv(s, t) /\ IdInv(t, s)
  BY Zenon DEF IdsInv
<1>1. fifo[s] # <<>> /\ m = Head(fifo[s]) /\ fifo'[s] = Tail(fifo[s]) /\ rx_queue'[s] = rx_queue[s]
      /\ fifo'[t] = fifo[t] /\ rx_queue'[t] = rx_queue[t] /\ Held(s)' = Held(s) /\ Tables(s)
  BY Zenon DEF Handled, FunType, Held, Tables
<1>2. Calm(s, t) /\ Rested(s, t) /\ Held(t)' = Held(t)
  BY <1>0, <1>1, Calms, Zenon DEF SideType
<1>3. Way(t)' = Way(t) /\ Last(s)' = Last(s) /\ Last(t)' = Last(t)
  BY <1>1, <1>2, WayStill, Zenon DEF Calm
<1>4. WayInv(s, t)' /\ Kept(s, t)
  BY <1>0, <1>3, WaySame, Zenon
<1> DEFINE p == Held(s) \o rx_queue[s]
           q == fifo[s]
<1>5. fifo'[s] \in Seq(Command) /\ m \in Command /\ p \in Seq(Command) /\ Way(s) = p \o q
      /\ Way(s)' = p \o Tail(q) /\ q \in Seq(Command)
  BY <1>0, <1>1, WayRead, Zenon DEF SideType
<1>6. m = Cmd("OPEN_ACK", m.id)
  BY <1>5 DEF Command, Cmd
<1> HIDE DEF p, q
<1>7. Head(q) = Cmd("OPEN_ACK", m.id) /\ q # <<>>
  BY <1>1, <1>6, Zenon DEF q
<1>8. WayInv(t, s)' /\ Less(t, s, "OPEN_ACK", m.id) /\ On(s, "OPEN_ACK", m.id)
  BY <1>0, <1>3, <1>5, <1>7, WayLess, Zenon
<1>9. Cmd("OPEN_ACK", m.id) \in Sent(Last(t), Last(s))
  BY <1>0, <1>8, Zenon DEF WayInv, QueueInv, On
<1>10. m.id = Last(s) \/ m.id = 0
  BY <1>9, CmdEq DEF Sent
<1>11. (Opening(t, s)' <=> Opening(t, s)) /\ (Closing(t, s)' <=> Closing(t, s)) /\ (Closed(s)' <=> Closed(s))
  BY <1>8 DEF Less
<1>12. (Using(s)' <=> Using(s)) => IdInv(s, t)' /\ IdInv(t, s)'
  BY <1>0, <1>1, <1>2, <1>4, <1>11, IdKept, Zenon DEF Calm, Kept, Rested, Same, Core, Tables
<1>q. QED
  BY <1>2, <1>4, <1>5, <1>8, <1>10, <1>12, Zenon

\* The interrupt handler of the side that opens.
LEMMA OpenerHears ==
  ASSUME NEW a, NEW b, Ends(a, b), Interrupt(a), Frame(b)
  PROVE  EndsInv(a, b)'
<1> DEFINE m == Head(fifo[a])
<1>0. FunType /\ a \in Side /\ b \in Side /\ a # b /\ SideType(a) /\ SideType(b) /\ IdsInv(a, b) /\ Same(b)
      /\ Handled(a, m)
  BY Handles, Zenon DEF Ends, IdsInv, Frame
<1> HIDE DEF m
<1>1. CASE m.cmd # "OPEN_ACK"
  <2>1. Core(a) /\ Way(a)' = Way(a) /\ rx_queue'[a] \in Seq(Command) /\ fifo'[a] \in Seq(Command)
    BY <1>0, <1>1, LeftToWorker, Zenon
  <2>2. fifo'[b] = fifo[b] /\ rx_queue'[b] = rx_queue[b] /\ Core(b) /\ Held(b)' = Held(b)
    BY <1>0, Zenon DEF Handled, FunType, Same, Core, Held
  <2>3. Way(b)' = Way(b) /\ fifo'[b] \in Seq(Command) /\ rx_queue'[b] \in Seq(Command)
    BY <1>0, <2>2, WayStill, Zenon DEF SideType
  <2>q. QED
    BY <2>1, <2>2, <2>3, Unmoved, Zenon DEF Frame
<1>2. CASE m.cmd = "OPEN_ACK"
  <2>1. /\ Calm(a, b) /\ Rested(a, b) /\ Kept(a, b) /\ Less(b, a, "OPEN_ACK", m.id)
        /\ WayInv(a, b)' /\ WayInv(b, a)'
        /\ On(a, "OPEN_ACK", m.id) /\ (m.id = Last(a) \/ m.id = 0)
        /\ fifo'[a] \in Seq(Command)
        /\ (Using(a)' <=> Using(a)) => IdInv(a, b)' /\ IdInv(b, a)'
    BY <1>0, <1>2, AckHeard, Zenon
  <2>2. m.id = Last(a) /\ Acked(a)
    <3>1. Zero(a) => Last(a) = 0
      BY Zenon DEF Ends, OpenerInv
    <3>q. QED
      BY <2>1, <3>1, Zenon DEF Zero, Acked
  <2>3. upc[a] = "wait_local" /\ ~Cur(a).open_ack
    BY <2>2, Zenon DEF Ends, PairInv
  <2>4. InL(a)
    BY <1>0, <2>3, Zenon DEF Using, IdsInv, IdInv, Life
  <2>5. nch[a] \in Id /\ nch[a] # 0 /\ lcids[a][Last(a)] = nch[a]
    BY <1>0, <2>4, LocalId, Zenon
  <2>6. ch' = [ch EXCEPT ![a][nch[a]].open_ack = TRUE]
    BY <1>0, <1>2, <2>2, <2>4, <2>5, Zenon DEF Handled, InL
  <2>7. /\ nch' = nch /\ next_id' = next_id /\ lcids' = lcids /\ rcids' = rcids /\ dev' = dev
        /\ upc' = upc /\ uch' = uch /\ wpc' = wpc /\ wch' = wch /\ wcmd' = wcmd
        /\ rx_queue' = rx_queue
    BY <1>0, <1>2, Zenon DEF Handled
  <2>8. /\ ch'[a] \in [Id -> Channel] /\ \A d \in Id : d # nch[a] => ch'[a][d] = ch[a][d]
        /\ Cur(a)'.refs = Cur(a).refs /\ Cur(a)'.lcid = Cur(a).lcid /\ Cur(a)'.rcid = Cur(a).rcid
        /\ Cur(a)'.open_ack /\ Cur(a)'.open_req = Cur(a).open_req /\ Cur(a)'.cb = Cur(a).cb
    <3>1. AckSet(a, nch[a])
      BY <1>0, <2>5, <2>6, SetAck, Zenon
    <3>q. QED
      BY <3>1, <2>7, Zenon DEF Cur, AckSet
  <2>9. Using(a)' /\ Using(a)
    BY <2>3, <2>7 DEF Using
  <2>10. IdInv(a, b)' /\ IdInv(b, a)'
    BY <2>1, <2>9, Zenon
  <2>11. SideType(a)'
    BY <1>0, <2>1, <2>7, <2>8, Zenon DEF SideType
  <2>12. Made(a)' <=> Made(a)
    BY <2>7, <2>8, Zenon DEF Made, Making, Cur
  <2>13. ChanInv(a, b)'
    BY <1>0, <2>1, <2>7, <2>8, <2>12, ChanKept, Zenon DEF IdsInv, Tables
  <2>14. /\ Opening(b, a)' <=> Opening(b, a)
         /\ Closing(b, a)' <=> Closing(b, a)
         /\ Closed(a)' <=> Closed(a)
         /\ Zero(a)' => Zero(a)
         /\ ~Acked(a)'
    BY <2>1, <2>2 DEF Less
  <2>15. OpenerInv(a, b)'
    BY <2>1, <2>7, <2>8, <2>14, Zenon DEF Ends, OpenerInv, Calm, Frame
  <2>16. AnswerInv(a, b)'
    BY <2>1, RestAnswer, Zenon DEF Ends, Frame, Same, Calm
  <2>17. ~Opening(a, b) /\ ~Unopened(a, b)
    BY <2>2, Zenon DEF Ends, PairInv, Fresh
  <2>18. ~Unopened(a, b)'
    BY <2>17, <2>1, Zenon DEF Unopened, Calm, Frame, Same, Core
  <2>19. PairInv(a, b) /\ upc'[b] = upc[b] /\ slow' = slow
    BY Zenon DEF Ends, Frame, Same, Core
  <2>20. PairInv(a, b)'
    BY <2>1, <2>7, <2>8, <2>14, <2>17, <2>18, <2>19, Zenon DEF PairInv, Kept, Calm, Rested
  <2>q. QED
    BY <2>1, <2>10, <2>11, <2>13, <2>15, <2>16, <2>20, Zenon DEF EndsInv, IdsInv, Rested
<1>q. QED
  BY <1>1, <1>2, Zenon
\* It ends.
LEMMA HearingEnds ==
  ASSUME NEW a, NEW b, Ends(a, b), InterruptEnd(a) \/ InterruptEnd(b)
  PROVE  EndsInv(a, b)'
<1>1. /\ bound' = bound /\ slow' = slow /\ ch' = ch /\ nch' = nch /\ next_id' = next_id /\ lcids' = lcids
      /\ rcids' = rcids /\ dev' = dev /\ fifo' = fifo /\ rx_queue' = rx_queue
      /\ upc' = upc /\ uch' = uch /\ wpc' = wpc /\ wch' = wch /\ wcmd' = wcmd
  BY Zenon DEF InterruptEnd, config, tables, user, worker
<1>2. Core(a) /\ Core(b) /\ Way(a)' = Way(a) /\ Way(b)' = Way(b)
  BY <1>1, Zenon DEF Core, Way, Held
<1>q. QED
  BY <1>1, <1>2, Unmoved, Zenon DEF Ends, IdsInv, SideType

-----------------------------------------------------------------------------
(* The worker. *)

\* It takes a command: whose id it has, and what is no longer on its way before it.
Takes(s, t, x) ==
    /\ rx_queue'[s] \in Seq(Command) /\ x \in Command
    /\ x.cmd = "OPEN" => x.id = Last(t) /\ Opening(t, s) /\ ~Closed(s)
    /\ x.cmd = "CLOSE" => x.id = Last(t) /\ Closing(t, s) /\ ~Opening(t, s) /\ ~Acked(s) /\ ~Zero(s)
    /\ x.cmd = "CLOSE_ACK" => x.id = Last(s) /\ Closed(s) /\ ~Acked(s)
    /\ Held(s)' = <<x>> => Way(s)' = Way(s)
    /\ Held(s)' = <<>> /\ Last(s)' = Last(s) /\ Last(t)' = Last(t) =>
         WayInv(t, s)' /\ Less(t, s, x.cmd, x.id)
\* Why: the order of the commands in the queue.
LEMMA WorkerTakes ==
  ASSUME NEW s, NEW t, SideType(s), SideType(t), WayInv(t, s), wpc[s] = "idle", rx_queue[s] # <<>>,
         rx_queue'[s] = Tail(rx_queue[s]), fifo'[s] = fifo[s]
  PROVE  Takes(s, t, Head(rx_queue[s]))
<1> DEFINE q == rx_queue[s] \o fifo[s]
           x == Head(rx_queue[s])
<1>1. Held(s) = <<>>
  BY Zenon DEF Held
<1>2. /\ q \in Seq(Command) /\ q # <<>> /\ Head(q) = x /\ x \in Command
      /\ rx_queue'[s] \in Seq(Command) /\ Way(s) = <<>> \o q
      /\ Held(s)' = <<x>> => Way(s)' = Way(s)
      /\ Held(s)' = <<>> => Way(s)' = <<>> \o Tail(q)
  BY <1>1, WayTake, Zenon
<1> HIDE DEF q, x
<1>3. x = Cmd(x.cmd, x.id)
  BY <1>2 DEF Command, Cmd
<1>4. Way(s) = q
  BY <1>2
<1>5. Has(Way(s), x) /\ \A m : Before(Way(s), m, x) => ~Has(Way(s), m)
  BY <1>2, <1>4, Front, Zenon
<1>6. Cmd(x.cmd, x.id) \in Sent(Last(t), Last(s))
  BY <1>3, <1>5, Zenon DEF WayInv, QueueInv
<1>7. /\ x.cmd = "OPEN" => x.id = Last(t)
      /\ x.cmd = "CLOSE" => x.id = Last(t)
      /\ x.cmd = "CLOSE_ACK" => x.id = Last(s)
  BY <1>6, CmdEq DEF Sent
<1> DEFINE W == Way(s)
<1>8. /\ Before(W, Cmd("OPEN", Last(t)), Cmd("CLOSE", Last(t)))
      /\ Before(W, Cmd("CLOSE_ACK", Last(s)), Cmd("OPEN", Last(t)))
      /\ Before(W, Cmd("OPEN_ACK", Last(s)), Cmd("CLOSE_ACK", Last(s)))
      /\ Before(W, Cmd("OPEN_ACK", Last(s)), Cmd("CLOSE", Last(t)))
      /\ Before(W, Cmd("OPEN_ACK", 0), Cmd("CLOSE", Last(t)))
  BY Zenon DEF WayInv, QueueInv
<1> HIDE DEF W
<1>w. Has(W, x) /\ \A m : Before(W, m, x) => ~Has(W, m)
  BY <1>5, Zenon DEF W
<1>9. x.cmd = "OPEN" => x.id = Last(t) /\ Opening(t, s) /\ ~Closed(s)
  <2>1. x.cmd = "OPEN" => x = Cmd("OPEN", Last(t))
    BY <1>3, <1>7, Zenon
  <2>q. QED
    BY <2>1, <1>7, <1>8, <1>w, Zenon DEF Opening, Closed, On, W
<1>10. x.cmd = "CLOSE" => x.id = Last(t) /\ Closing(t, s) /\ ~Opening(t, s) /\ ~Acked(s) /\ ~Zero(s)
  <2>1. x.cmd = "CLOSE" => x = Cmd("CLOSE", Last(t))
    BY <1>3, <1>7, Zenon
  <2>q. QED
    BY <2>1, <1>7, <1>8, <1>w, Zenon DEF Opening, Closing, Acked, Zero, On, W
<1>11. x.cmd = "CLOSE_ACK" => x.id = Last(s) /\ Closed(s) /\ ~Acked(s)
  <2>1. x.cmd = "CLOSE_ACK" => x = Cmd("CLOSE_ACK", Last(s))
    BY <1>3, <1>7, Zenon
  <2>q. QED
    BY <2>1, <1>7, <1>8, <1>w, Zenon DEF Closed, Acked, On, W
<1>12. ASSUME Held(s)' = <<>>, Last(s)' = Last(s), Last(t)' = Last(t)
       PROVE  WayInv(t, s)' /\ Less(t, s, x.cmd, x.id)
  <2>1. Way(s)' = <<>> \o Tail(q) /\ Way(s) = <<>> \o q /\ Head(q) = Cmd(x.cmd, x.id)
    BY <1>2, <1>3, <1>12, Zenon
  <2>2. <<>> \in Seq(Command)
    OBVIOUS
  <2>q. QED
    BY <2>1, <2>2, <1>2, <1>12, WayLess, Zenon
<1>q. QED
  BY <1>2, <1>9, <1>10, <1>11, <1>12, Zenon DEF Takes, x

\* The OPEN of b finds the channel a has opened.
LEMMA OpenerTakesOpen ==
  ASSUME NEW a, NEW b, Ends(a, b), RxOpen(a), Frame(b)
  PROVE  EndsInv(a, b)'
<1> DEFINE x == Head(rx_queue[a])
<1>0. FunType /\ a \in Side /\ b \in Side /\ a # b /\ SideType(a) /\ SideType(b) /\ IdsInv(a, b) /\ Same(b)
      /\ WayInv(b, a)
  BY Zenon DEF Ends, IdsInv, Frame
<1>1. /\ wpc[a] = "idle" /\ rx_queue[a] # <<>> /\ x.cmd = "OPEN"
      /\ rx_queue' = [rx_queue EXCEPT ![a] = Tail(rx_queue[a])]
      /\ wcmd' = [wcmd EXCEPT ![a] = x] /\ next_id' = next_id /\ lcids' = lcids /\ rcids' = rcids
      /\ dev' = dev /\ fifo' = fifo /\ upc' = upc /\ uch' = uch
  BY Zenon DEF RxOpen, Taken, wire, user
<1>2. rx_queue'[a] = Tail(rx_queue[a]) /\ wcmd'[a] = x
  BY <1>0, <1>1, Zenon DEF FunType
<1>3. Takes(a, b, x)
  BY <1>0, <1>1, <1>2, WorkerTakes, Zenon
<1>4. Opening(b, a) /\ x \in Command /\ rx_queue'[a] \in Seq(Command)
  BY <1>1, <1>3, Zenon DEF Takes
<1>5. upc[a] = "wait_local" /\ ~Cur(a).open_req
  BY <1>4, Zenon DEF Ends, PairInv
<1>6. InL(a)
  BY <1>0, <1>5, Zenon DEF Using, IdsInv, IdInv, Life
<1>7. nch[a] # 0 /\ lcids[a][Last(a)] = nch[a] /\ DOMAIN lcids[a] \subseteq {Last(a)} /\ Last(a) \in Nat
  BY <1>0, <1>6, WayType, Zenon DEF IdsInv, ChanInv, IdInv
<1>8. Find(lcids[a]) = nch[a]
  BY <1>6, <1>7, Found, Zenon DEF InL
<1>9. wch' = [wch EXCEPT ![a] = nch[a]] /\ ch' = ch /\ nch' = nch /\ wpc' = [wpc EXCEPT ![a] = "insert"]
  BY <1>7, <1>8 DEF RxOpen
<1>10. wch'[a] = nch[a] /\ wpc'[a] = "insert"
  BY <1>0, <1>9, Zenon DEF FunType
<1>11. Way(a)' = Way(a)
  <2>1. Held(a)' = <<x>>
    BY <1>2, <1>10, Zenon DEF Held
  <2>q. QED
    BY <2>1, <1>3, Zenon DEF Takes
<1>12. Using(a)' <=> Using(a)
  BY <1>1, <1>5 DEF Using
<1>13. /\ Calm(a, b) /\ Rested(a, b) /\ Kept(a, b) /\ Kept(b, a)
       /\ IdInv(a, b)' /\ IdInv(b, a)' /\ WayInv(a, b)' /\ WayInv(b, a)'
  BY <1>0, <1>1, <1>11, <1>12, Mild, Zenon DEF Tables
<1>14. SideType(a)'
  BY <1>0, <1>1, <1>2, <1>4, <1>9, <1>10, Zenon DEF SideType
<1>15. Made(a)' <=> Made(a)
  BY <1>1, <1>9, <1>10 DEF Made, Making
<1>16. Cur(a)' = Cur(a)
  BY <1>9, Zenon DEF Cur
<1>17. ChanInv(a, b)'
  BY <1>0, <1>1, <1>9, <1>13, <1>15, <1>16, ChanKept, Zenon DEF IdsInv, Tables
<1>18. OpenerInv(a, b)'
  BY <1>1, <1>9, <1>10, <1>13, <1>16, Zenon DEF Ends, OpenerInv, Calm, Frame, Kept
<1>19. AnswerInv(a, b)'
  BY <1>13, RestAnswer, Zenon DEF Ends, Frame, Same, Calm
<1>20. (Unopened(a, b)' <=> Unopened(a, b)) /\ (Fresh(a)' <=> Fresh(a))
  BY <1>1, <1>13, <1>16, Zenon DEF Unopened, Fresh, Kept, Calm, Frame, Same, Core
<1>21. PairInv(a, b) /\ upc'[b] = upc[b] /\ slow' = slow
  BY Zenon DEF Ends, Frame, Same, Core
<1>22. PairInv(a, b)'
  BY <1>1, <1>13, <1>16, <1>20, <1>21, Zenon DEF PairInv, Kept, Calm, Rested
<1>q. QED
  BY <1>13, <1>14, <1>17, <1>18, <1>19, <1>22, Zenon DEF EndsInv, IdsInv, Rested

\* A channel is entered in rcids.
EnterSet(s, c, k, v) ==
    LET r == ch[s][c]
        x == ch'[s][c]
    IN /\ ch'[s] \in [Id -> Channel] /\ \A d \in Id : d # c => ch'[s][d] = ch[s][d]
       /\ x.refs = r.refs /\ x.lcid = r.lcid /\ x.rcid = k /\ x.open_ack = r.open_ack
       /\ x.open_req /\ x.rpdev = (r.rpdev \/ v) /\ x.cb = r.cb
\* The EXCEPT of RxOpenInsert does that.
LEMMA SetEntered ==
  ASSUME FunType, NEW s \in Side, SideType(s), NEW c \in Id, NEW k \in 0 .. MAXCH, NEW v \in BOOLEAN,
         ch' = [ch EXCEPT ![s][c].rcid = k, ![s][c].open_req = TRUE, ![s][c].rpdev = @ \/ v]
  PROVE  EnterSet(s, c, k, v)
<1> DEFINE r == ch[s][c]
           x == [r EXCEPT !.rcid = k]
           y == [x EXCEPT !.open_req = TRUE]
           z == [y EXCEPT !.rpdev = y.rpdev \/ v]
<1>0. ch = [u \in Side |-> ch[u]] /\ ch[s] \in [Id -> Channel]
  BY Zenon DEF FunType, SideType
<1>1. r \in Channel
  BY <1>0
<1> DEFINE f == [ch EXCEPT ![s][c].rcid = k]
           g == [f EXCEPT ![s][c].open_req = TRUE]
<1>a. f = [ch EXCEPT ![s][c] = x]
  OBVIOUS
<1>b. ch' = [g EXCEPT ![s][c].rpdev = @ \/ v]
  OBVIOUS
<1>2. f = [ch EXCEPT ![s][c] = x] /\ ch' = [g EXCEPT ![s][c].rpdev = @ \/ v]
  BY <1>a, <1>b, Zenon
<1> HIDE DEF r
<1>3. /\ x \in Channel /\ x.refs = r.refs /\ x.lcid = r.lcid /\ x.rcid = k /\ x.open_ack = r.open_ack
      /\ x.rpdev = r.rpdev /\ x.cb = r.cb
  BY <1>1 DEF Channel
<1> HIDE DEF x
<1>4. /\ y \in Channel /\ y.refs = x.refs /\ y.lcid = x.lcid /\ y.rcid = x.rcid /\ y.open_ack = x.open_ack
      /\ y.open_req /\ y.rpdev = x.rpdev /\ y.cb = x.cb
  BY <1>3, Zenon DEF Channel
<1>y. y = [x EXCEPT !.open_req = TRUE]
  OBVIOUS
<1> HIDE DEF y
<1>5. /\ z \in Channel /\ z.refs = y.refs /\ z.lcid = y.lcid /\ z.rcid = y.rcid /\ z.open_ack = y.open_ack
      /\ z.open_req = y.open_req /\ z.rpdev = (y.rpdev \/ v) /\ z.cb = y.cb
  BY <1>4, Zenon DEF Channel
<1>z. z = [y EXCEPT !.rpdev = y.rpdev \/ v]
  OBVIOUS
<1> HIDE DEF z, f
<1>6. f = [u \in Side |-> f[u]] /\ f[s] = [ch[s] EXCEPT ![c] = x] /\ f[s][c] = x
  BY <1>0, <1>2, Zenon
<1>7. g = [f EXCEPT ![s] = [f[s] EXCEPT ![c] = y]]
  BY <1>6, <1>y, Zenon
<1> HIDE DEF g
<1>8. g = [u \in Side |-> g[u]] /\ g[s] = [f[s] EXCEPT ![c] = y]
  BY <1>6, <1>7, Zenon
<1>9. DOMAIN f[s] = Id
  BY <1>0, <1>6
<1>10. g[s][c] = y /\ DOMAIN g[s] = Id /\ \A d \in Id : d # c => g[s][d] = ch[s][d]
  BY <1>0, <1>6, <1>8, <1>9
<1>11. ch' = [g EXCEPT ![s] = [g[s] EXCEPT ![c] = z]]
  BY <1>2, <1>10, <1>z, Zenon
<1>12. ch'[s] = [g[s] EXCEPT ![c] = z]
  BY <1>8, <1>11, Zenon
<1>13. ch'[s] = [d \in Id |-> IF d = c THEN z ELSE ch[s][d]]
  BY <1>10, <1>12, Zenon
<1>14. ch'[s] \in [Id -> Channel] /\ ch'[s][c] = z /\ \A d \in Id : d # c => ch'[s][d] = ch[s][d]
  BY <1>0, <1>5, <1>13
<1>15. /\ z.refs = r.refs /\ z.lcid = r.lcid /\ z.rcid = k /\ z.open_ack = r.open_ack
       /\ z.open_req /\ z.rpdev = (r.rpdev \/ v) /\ z.cb = r.cb
  BY <1>3, <1>4, <1>5, Zenon
<1>q. QED
  BY <1>14, <1>15, Zenon DEF r, EnterSet
\* The OPEN of the channel is no longer on its way.
LEMMA HeldDone ==
  ASSUME NEW s, NEW t, SideType(s), SideType(t), WayInv(t, s), wpc[s] \in {"insert", "create"},
         Held(s)' = <<>>, rx_queue'[s] = rx_queue[s], fifo'[s] = fifo[s],
         Last(s)' = Last(s), Last(t)' = Last(t)
  PROVE  WayInv(t, s)' /\ Less(t, s, "OPEN", Last(t))
<1> DEFINE x == Cmd("OPEN", Last(t))
<1>1. Held(s) = <<x>> /\ x \in Command
  BY HeldOpen, Zenon
<1> HIDE DEF x
<1>2. PICK q \in Seq(Command) : /\ q # <<>> /\ Head(q) = x
                                /\ Way(s) = <<>> \o q /\ Way(s)' = <<>> \o Tail(q)
  BY <1>1, WayEnter, Zenon
<1>3. <<>> \in Seq(Command)
  OBVIOUS
<1>q. QED
  BY <1>2, <1>3, WayLess, Zenon DEF x

\* The channel a has opened is entered in rcids under the id of b.
LEMMA OpenerEnters ==
  ASSUME NEW a, NEW b, Ends(a, b), RxOpenInsert(a), Frame(b)
  PROVE  EndsInv(a, b)'
<1>0. FunType /\ a \in Side /\ b \in Side /\ a # b /\ SideType(a) /\ SideType(b) /\ IdsInv(a, b) /\ Same(b)
      /\ WayInv(b, a) /\ WayInv(a, b) /\ IdInv(a, b) /\ IdInv(b, a) /\ Core(b)
  BY Zenon DEF Ends, IdsInv, Frame, Same
<1>1. wpc[a] = "insert" /\ wch[a] = nch[a]
  BY Zenon DEF Ends, OpenerInv, RxOpenInsert
<1>2. wcmd[a] = Cmd("OPEN", Last(b)) /\ Opening(b, a)
  BY <1>0, <1>1, HeldOpen, Zenon
<1>3. upc[a] = "wait_local" /\ ~Cur(a).open_req /\ uch[a] = nch[a]
  BY <1>2 DEF Ends, PairInv, OpenerInv
<1>4. InL(b) /\ ~Closed(b) /\ ~InR(b, a) /\ InL(a) /\ Using(a)
  BY <1>0, <1>2, <1>3, Zenon DEF IdInv, Life, Using
<1>5. nch[a] \in Id /\ Last(b) \in Id /\ DOMAIN rcids[a] = {} /\ wcmd[a].id = Last(b) /\ nch[a] # 0
  <2>1. nch[a] \in Id /\ nch[a] # 0
    BY <1>0, <1>4, LocalId, Zenon
  <2>2. Last(b) \in Id /\ DOMAIN rcids[a] = {}
    BY <1>0, <1>4 DEF IdInv, InR
  <2>3. wcmd[a].id = Last(b)
    BY <1>2 DEF Cmd
  <2>q. QED
    BY <2>1, <2>2, <2>3
<1>6. /\ rcids' = [rcids EXCEPT ![a] = Insert(rcids[a], Last(b), nch[a])]
      /\ ch' = [ch EXCEPT ![a][nch[a]].rcid = Last(b), ![a][nch[a]].open_req = TRUE,
                          ![a][nch[a]].rpdev = @ \/ FALSE]
      /\ dev' = dev /\ WorkerIdle(a)
  BY <1>1, <1>5, Zenon DEF RxOpenInsert
<1>7. /\ nch' = nch /\ next_id' = next_id /\ lcids' = lcids /\ fifo' = fifo /\ rx_queue' = rx_queue
      /\ upc' = upc /\ uch' = uch
  BY Zenon DEF RxOpenInsert, wire, recv, user
<1>8. wpc'[a] = "idle" /\ rcids'[a] = Insert(rcids[a], Last(b), nch[a])
  BY <1>0, <1>6, Zenon DEF WorkerIdle, FunType
<1>9. DOMAIN rcids'[a] = {Last(b)} /\ rcids'[a][Last(b)] = nch[a]
  BY <1>5, <1>8 DEF Insert
<1>10. /\ ch'[a] \in [Id -> Channel] /\ \A d \in Id : d # nch[a] => ch'[a][d] = ch[a][d]
       /\ Cur(a)'.refs = Cur(a).refs /\ Cur(a)'.lcid = Cur(a).lcid /\ Cur(a)'.rcid = Last(b)
       /\ Cur(a)'.open_ack = Cur(a).open_ack /\ Cur(a)'.open_req /\ Cur(a)'.cb = Cur(a).cb
  <2>1. Last(b) \in 0 .. MAXCH
    BY <1>0, WayType, Zenon
  <2>2. EnterSet(a, nch[a], Last(b), FALSE)
    BY <1>0, <1>5, <1>6, <2>1, SetEntered, Zenon
  <2>q. QED
    BY <2>2, <1>7, Zenon DEF Cur, EnterSet
<1>11. Last(a)' = Last(a) /\ Last(b)' = Last(b) /\ lcids'[b] = lcids[b] /\ rcids'[b] = rcids[b]
  BY <1>0, <1>7, Zenon DEF Last, Core
<1>12. (InL(a)' <=> InL(a)) /\ (InR(a, b)' <=> InR(a, b)) /\ InR(b, a)'
  BY <1>7, <1>9, <1>11 DEF InL, InR
<1>13. /\ Cur(b)' = Cur(b) /\ Held(b)' = Held(b) /\ (InL(b)' <=> InL(b)) /\ (Using(b)' <=> Using(b))
       /\ ChanInv(b, a)'
  BY <1>0, <1>11, <1>12, Rest, Zenon DEF IdsInv
<1>14. SideType(b)' /\ SideType(a)'
  <2>1. SideType(b)'
    BY <1>0, <1>7, RestType, Zenon DEF SideType
  <2>2. SideType(a)'
    BY <1>0, <1>7, <1>8, <1>10, Zenon DEF SideType
  <2>q. QED
    BY <2>1, <2>2
<1>15. Way(b)' = Way(b)
  BY <1>7, <1>13, WayStill, Zenon
<1>16. WayInv(a, b)' /\ Kept(a, b)
  BY <1>0, <1>11, <1>15, WaySame, Zenon
<1>17. WayInv(b, a)' /\ Less(b, a, "OPEN", Last(b))
  <2>1. Held(a)' = <<>>
    BY <1>8 DEF Held
  <2>q. QED
    BY <2>1, <1>0, <1>1, <1>7, <1>11, HeldDone
<1>18. /\ ~Opening(b, a)'
       /\ Closing(b, a)' <=> Closing(b, a)
       /\ Closed(a)' <=> Closed(a)
       /\ Acked(a)' <=> Acked(a)
       /\ Zero(a)' <=> Zero(a)
  BY <1>17 DEF Less
<1>19. Using(a)'
  BY <1>3, <1>7 DEF Using
<1>20. IdInv(a, b)'
  BY <1>0, <1>4, <1>7, <1>11, <1>12, <1>16, <1>18, <1>19, IdKept, Zenon DEF Kept
<1>21. IdInv(b, a)'
  BY <1>0, <1>4, <1>5, <1>9, <1>11, <1>12, <1>13, <1>16, <1>18, Zenon DEF IdInv, Life, Kept
<1>22. ChanInv(a, b)'
  <2>1. Made(a) /\ ~Made(a)'
    BY <1>3, <1>7, <1>8, <1>10, Zenon DEF Made, Making, Cur
  <2>2. Cur(a).refs = Num(InL(a)) + Num(InR(b, a)) + Num(Made(a))
    BY <1>0, <1>5, Zenon DEF IdsInv, ChanInv
  <2>3. Cur(a)'.refs = Num(InL(a))' + Num(InR(b, a))' + Num(Made(a))'
    <3>1. Num(InL(a)) = 1 /\ Num(InR(b, a)) = 0 /\ Num(Made(a)) = 1
      BY <2>1, <1>4, Counts, Zenon
    <3>2. Num(InL(a))' = 1 /\ Num(InR(b, a))' = 1 /\ Num(Made(a))' = 0
      BY <2>1, <1>4, <1>12 DEF Num
    <3>q. QED
      BY <3>1, <3>2, <2>2, <1>10
  <2>4. lcids[a][Last(a)] = nch[a] /\ Cur(a).lcid = Last(a) /\ \A d \in Id : d # nch[a] => ch[a][d].refs = 0
    BY <1>0, <1>4, Zenon DEF IdsInv, ChanInv
  <2>q. QED
    BY <2>3, <2>4, <1>4, <1>5, <1>7, <1>9, <1>10, <1>11, <1>12, Zenon DEF ChanInv
<1>23. OpenerInv(a, b)'
  BY <1>3, <1>6, <1>7, <1>8, <1>10, <1>11, <1>12, <1>18, Zenon DEF Ends, OpenerInv, Frame
<1>24. AnswerInv(a, b)'
  BY <1>0, <1>11, <1>12, RestAnswer, Zenon DEF Ends, Frame
<1>25. ~Opening(a, b) /\ ~Unopened(a, b)
  BY <1>4, Zenon DEF Ends, PairInv
<1>26. ~Unopened(a, b)'
  BY <1>25, <1>12, Zenon DEF Unopened, Frame, Same, Core
<1>27. PairInv(a, b) /\ upc'[b] = upc[b] /\ slow' = slow
  BY Zenon DEF Ends, Frame, Same, Core
<1>28. Last(b) # 0
  BY <1>5 DEF Id
<1>29. PairInv(a, b)'
  BY <1>7, <1>10, <1>11, <1>12, <1>13, <1>16, <1>18, <1>25, <1>26, <1>27, <1>28, Zenon DEF PairInv, Kept
<1>q. QED
  BY <1>13, <1>14, <1>16, <1>17, <1>20, <1>21, <1>22, <1>23, <1>24, <1>29, Zenon DEF EndsInv, IdsInv

\* The device of a channel is dropped, and with it the callback of its endpoint.
Dropped(s, c, r, y) ==
    /\ y \in Channel /\ y.refs = r.refs /\ y.lcid = r.lcid /\ y.rcid = r.rcid
    /\ y.open_ack = r.open_ack /\ y.open_req = r.open_req /\ ~y.rpdev
    /\ y.cb <=> r.cb /\ ~EndpointChannel(s, c)
\* That is what DropDevice leaves of the channel.
LEMMA DeviceDropped ==
  ASSUME FunType, NEW s \in Side, SideType(s), NEW c \in Id, dev[s] \in {0, c}
  PROVE  \E y : Dropped(s, c, ch[s][c], y) /\ DropDevice(s, c)[s] = [ch[s] EXCEPT ![c] = y]
<1> DEFINE r == ch[s][c]
<1>0. ch = [u \in Side |-> ch[u]] /\ ch[s] \in [Id -> Channel]
  BY Zenon DEF FunType, SideType
<1>1. r \in Channel
  BY <1>0
<1>2. CASE ~EndpointChannel(s, c)
  <2> DEFINE y == [r EXCEPT !.rpdev = FALSE]
  <2>1. DropDevice(s, c) = [ch EXCEPT ![s][c] = y]
    BY <1>2 DEF DropDevice
  <2> HIDE DEF r
  <2>2. /\ y \in Channel /\ y.refs = r.refs /\ y.lcid = r.lcid /\ y.rcid = r.rcid
        /\ y.open_ack = r.open_ack /\ y.open_req = r.open_req /\ ~y.rpdev /\ y.cb = r.cb
    BY <1>1, Zenon DEF Channel
  <2> HIDE DEF y
  <2>3. DropDevice(s, c)[s] = [ch[s] EXCEPT ![c] = y]
    BY <1>0, <2>1
  <2>4. Dropped(s, c, r, y)
    BY <2>2, <1>2, Zenon DEF Dropped
  <2>q. QED
    BY <2>3, <2>4, Zenon DEF r
<1>3. CASE EndpointChannel(s, c)
  <2>0. dev[s] = c
    BY <1>3 DEF EndpointChannel
  <2> DEFINE x == [r EXCEPT !.cb = FALSE]
             f == [ch EXCEPT ![s][c] = x]
             y == [x EXCEPT !.rpdev = FALSE]
  <2>1. DropDevice(s, c) = [[ch EXCEPT ![s][dev[s]].cb = FALSE] EXCEPT ![s][c].rpdev = FALSE]
    BY <1>3, Zenon DEF DropDevice
  <2>2. f = [ch EXCEPT ![s][dev[s]].cb = FALSE]
    BY <2>0
  <2>3. DropDevice(s, c) = [f EXCEPT ![s][c].rpdev = FALSE]
    BY <2>1, <2>2, Zenon
  <2> HIDE DEF r
  <2>4. /\ x \in Channel /\ x.refs = r.refs /\ x.lcid = r.lcid /\ x.rcid = r.rcid
        /\ x.open_ack = r.open_ack /\ x.open_req = r.open_req /\ ~x.cb
    BY <1>1, Zenon DEF Channel
  <2> HIDE DEF x
  <2>5. /\ y \in Channel /\ y.refs = x.refs /\ y.lcid = x.lcid /\ y.rcid = x.rcid
        /\ y.open_ack = x.open_ack /\ y.open_req = x.open_req /\ ~y.rpdev /\ y.cb = x.cb
    BY <2>4, Zenon DEF Channel
  <2>6. f = [u \in Side |-> f[u]] /\ f[s] = [ch[s] EXCEPT ![c] = x] /\ f[s][c] = x
    BY <1>0, Zenon
  <2> HIDE DEF f
  <2>7. DropDevice(s, c) = [f EXCEPT ![s] = [f[s] EXCEPT ![c] = y]]
    BY <2>3, <2>6, Zenon
  <2>8. DropDevice(s, c)[s] = [f[s] EXCEPT ![c] = y]
    BY <2>6, <2>7, Zenon
  <2> HIDE DEF y
  <2>9. DropDevice(s, c)[s] = [ch[s] EXCEPT ![c] = y]
    BY <2>6, <2>8, <1>0, Zenon
  <2>10. Dropped(s, c, r, y)
    BY <2>4, <2>5, <1>3, Zenon DEF Dropped
  <2>q. QED
    BY <2>9, <2>10, Zenon DEF r
<1>q. QED
  BY <1>2, <1>3, Zenon

\* The reference of a table is released: that of rcids, that of lcids.
LEMMA PutFields ==
  ASSUME NEW z \in Channel
  PROVE  LET p == Put(z)
         IN /\ p \in Channel /\ p.refs = z.refs - 1
            /\ z.refs # 1 => /\ p.lcid = z.lcid /\ p.rcid = z.rcid /\ p.open_ack = z.open_ack
                             /\ p.open_req = z.open_req /\ p.rpdev = z.rpdev /\ p.cb = z.cb
            /\ z.refs = 1 => p = Unused
<1>1. CASE z.refs = 1
  BY <1>1, FieldsUnused DEF Put
<1>2. CASE z.refs # 1
  <2> DEFINE p == [z EXCEPT !.refs = @ - 1]
  <2>1. /\ p \in Channel /\ p.refs = z.refs - 1 /\ p.lcid = z.lcid /\ p.rcid = z.rcid /\ p.open_ack = z.open_ack
        /\ p.open_req = z.open_req /\ p.rpdev = z.rpdev /\ p.cb = z.cb
    BY DEF Channel
  <2>2. Put(z) = p
    BY <1>2 DEF Put
  <2>q. QED
    BY <1>2, <2>1, <2>2, Zenon
<1>q. QED
  BY <1>1, <1>2, Zenon
RemoteOut(s, c) ==
    LET r == ch[s][c]
        x == ch'[s][c]
    IN /\ ch'[s] \in [Id -> Channel] /\ \A d \in Id : d # c => ch'[s][d] = ch[s][d]
       /\ x.refs = r.refs - 1 /\ x.rcid = 0 /\ ~x.rpdev
       /\ r.refs # 1 => /\ x.lcid = r.lcid /\ x.open_ack = r.open_ack /\ x.open_req = r.open_req
                        /\ x.cb <=> r.cb /\ ~EndpointChannel(s, c)
       /\ r.refs = 1 => x.lcid = 0 /\ ~x.open_ack /\ ~x.open_req /\ ~x.cb
\* The reference of rcids is put.
LEMMA RemoteReleased ==
  ASSUME FunType, NEW s \in Side, SideType(s), NEW c \in Id, dev[s] \in {0, c},
         ch' = [ch EXCEPT ![s] = [DropDevice(s, c)[s] EXCEPT ![c] = Put([@ EXCEPT !.rcid = 0])]]
  PROVE  RemoteOut(s, c)
<1>0. ch = [u \in Side |-> ch[u]] /\ ch[s] \in [Id -> Channel] /\ MAXCH \in Nat
  BY GlinkChannelAssumption, Zenon DEF FunType, SideType
<1>1. PICK y : Dropped(s, c, ch[s][c], y) /\ DropDevice(s, c)[s] = [ch[s] EXCEPT ![c] = y]
  BY DeviceDropped, Zenon
<1> DEFINE z == [y EXCEPT !.rcid = 0]
           r == ch[s][c]
           x == Put(z)
           D == DropDevice(s, c)[s]
<1>2. y \in Channel
  BY <1>1, Zenon DEF Dropped
<1>3. /\ z \in Channel /\ z.refs = y.refs /\ z.lcid = y.lcid /\ z.rcid = 0 /\ z.open_ack = y.open_ack
      /\ z.open_req = y.open_req /\ z.rpdev = y.rpdev /\ z.cb = y.cb
  BY <1>0, <1>2 DEF Channel
<1>z. z = [y EXCEPT !.rcid = 0]
  OBVIOUS
<1>4. ch'[s] = [D EXCEPT ![c] = Put([D[c] EXCEPT !.rcid = 0])]
  BY <1>0, Zenon
<1>5. D = [ch[s] EXCEPT ![c] = y]
  BY <1>1
<1> HIDE DEF D, z
<1>6. D[c] = y
  BY <1>0, <1>5
<1>7. ch'[s] = [D EXCEPT ![c] = x]
  BY <1>4, <1>6, <1>z
<1>8. /\ x \in Channel /\ x.refs = z.refs - 1
      /\ z.refs # 1 => /\ x.lcid = z.lcid /\ x.rcid = z.rcid /\ x.open_ack = z.open_ack
                       /\ x.open_req = z.open_req /\ x.rpdev = z.rpdev /\ x.cb = z.cb
      /\ z.refs = 1 => x = Unused
  BY <1>3, PutFields
<1> HIDE DEF x
<1>9. ch'[s] \in [Id -> Channel] /\ ch'[s][c] = x /\ \A d \in Id : d # c => ch'[s][d] = ch[s][d]
  BY <1>0, <1>5, <1>7, <1>8, Zenon
<1>10. /\ x.refs = r.refs - 1 /\ x.rcid = 0 /\ ~x.rpdev
       /\ r.refs # 1 => /\ x.lcid = r.lcid /\ x.open_ack = r.open_ack /\ x.open_req = r.open_req
                        /\ x.cb <=> r.cb /\ ~EndpointChannel(s, c)
       /\ r.refs = 1 => x.lcid = 0 /\ ~x.open_ack /\ ~x.open_req /\ ~x.cb
  BY <1>1, <1>3, <1>8, FieldsUnused, Zenon DEF Dropped
<1>q. QED
  BY <1>9, <1>10, Zenon DEF RemoteOut
LocalOut(s, c) ==
    LET r == ch[s][c]
        x == ch'[s][c]
    IN /\ ch'[s] \in [Id -> Channel] /\ \A d \in Id : d # c => ch'[s][d] = ch[s][d]
       /\ x.refs = r.refs - 1 /\ x.lcid = 0 /\ ~x.rpdev
       /\ r.refs # 1 => /\ x.rcid = r.rcid /\ x.open_ack = r.open_ack /\ x.open_req = r.open_req
                        /\ x.cb <=> r.cb /\ ~EndpointChannel(s, c)
       /\ r.refs = 1 => x.rcid = 0 /\ ~x.open_ack /\ ~x.open_req /\ ~x.cb
\* The reference of lcids is put.
LEMMA LocalReleased ==
  ASSUME FunType, NEW s \in Side, SideType(s), NEW c \in Id, dev[s] \in {0, c},
         ch' = [ch EXCEPT ![s] = [DropDevice(s, c)[s] EXCEPT ![c] = Put([@ EXCEPT !.lcid = 0])]]
  PROVE  LocalOut(s, c)
<1>0. ch = [u \in Side |-> ch[u]] /\ ch[s] \in [Id -> Channel] /\ MAXCH \in Nat
  BY GlinkChannelAssumption, Zenon DEF FunType, SideType
<1>1. PICK y : Dropped(s, c, ch[s][c], y) /\ DropDevice(s, c)[s] = [ch[s] EXCEPT ![c] = y]
  BY DeviceDropped, Zenon
<1> DEFINE z == [y EXCEPT !.lcid = 0]
           r == ch[s][c]
           x == Put(z)
           D == DropDevice(s, c)[s]
<1>2. y \in Channel
  BY <1>1, Zenon DEF Dropped
<1>3. /\ z \in Channel /\ z.refs = y.refs /\ z.rcid = y.rcid /\ z.lcid = 0 /\ z.open_ack = y.open_ack
      /\ z.open_req = y.open_req /\ z.rpdev = y.rpdev /\ z.cb = y.cb
  BY <1>0, <1>2 DEF Channel
<1>z. z = [y EXCEPT !.lcid = 0]
  OBVIOUS
<1>4. ch'[s] = [D EXCEPT ![c] = Put([D[c] EXCEPT !.lcid = 0])]
  BY <1>0, Zenon
<1>5. D = [ch[s] EXCEPT ![c] = y]
  BY <1>1
<1> HIDE DEF D, z
<1>6. D[c] = y
  BY <1>0, <1>5
<1>7. ch'[s] = [D EXCEPT ![c] = x]
  BY <1>4, <1>6, <1>z
<1>8. /\ x \in Channel /\ x.refs = z.refs - 1
      /\ z.refs # 1 => /\ x.rcid = z.rcid /\ x.lcid = z.lcid /\ x.open_ack = z.open_ack
                       /\ x.open_req = z.open_req /\ x.rpdev = z.rpdev /\ x.cb = z.cb
      /\ z.refs = 1 => x = Unused
  BY <1>3, PutFields
<1> HIDE DEF x
<1>9. ch'[s] \in [Id -> Channel] /\ ch'[s][c] = x /\ \A d \in Id : d # c => ch'[s][d] = ch[s][d]
  BY <1>0, <1>5, <1>7, <1>8, Zenon
<1>10. /\ x.refs = r.refs - 1 /\ x.lcid = 0 /\ ~x.rpdev
       /\ r.refs # 1 => /\ x.rcid = r.rcid /\ x.open_ack = r.open_ack /\ x.open_req = r.open_req
                        /\ x.cb <=> r.cb /\ ~EndpointChannel(s, c)
       /\ r.refs = 1 => x.rcid = 0 /\ ~x.open_ack /\ ~x.open_req /\ ~x.cb
  BY <1>1, <1>3, <1>8, FieldsUnused, Zenon DEF Dropped
<1>q. QED
  BY <1>9, <1>10, Zenon DEF LocalOut

\* qcom_glink_rx_close of the side that opens: the id of b is taken out of rcids.
LEMMA OpenerTakesClose ==
  ASSUME NEW a, NEW b, Ends(a, b), RxClose(a), Frame(b)
  PROVE  EndsInv(a, b)'
<1> DEFINE x == Head(rx_queue[a])
<1>0. FunType /\ a \in Side /\ b \in Side /\ a # b /\ Peer[a] = b /\ SideType(a) /\ SideType(b)
      /\ IdsInv(a, b) /\ Same(b) /\ WayInv(b, a) /\ WayInv(a, b) /\ IdInv(a, b) /\ IdInv(b, a) /\ Core(b)
  BY Zenon DEF Ends, IdsInv, Frame, Same
<1>1. /\ wpc[a] = "idle" /\ rx_queue[a] # <<>> /\ x.cmd = "CLOSE"
      /\ rx_queue' = [rx_queue EXCEPT ![a] = Tail(rx_queue[a])]
      /\ nch' = nch /\ next_id' = next_id /\ lcids' = lcids
      /\ upc' = upc /\ uch' = uch /\ wpc' = wpc /\ wch' = wch /\ wcmd' = wcmd
  BY Zenon DEF RxClose, Taken, user, worker
<1>2. rx_queue'[a] = Tail(rx_queue[a])
  BY <1>0, <1>1, Zenon DEF FunType
<1>3. fifo'[a] = fifo[a]
  BY <1>0, Zenon DEF RxClose, Send, FunType, wire
<1>4. Takes(a, b, x)
  BY <1>0, <1>1, <1>2, <1>3, WorkerTakes, Zenon
<1>5. x.id = Last(b) /\ Closing(b, a) /\ ~Opening(b, a) /\ ~Acked(a) /\ ~Zero(a) /\ rx_queue'[a] \in Seq(Command)
  BY <1>1, <1>4, Zenon DEF Takes
<1>6. InL(b) /\ ~Closed(b) /\ InR(b, a) /\ ~Using(b)
  BY <1>0, <1>5, Zenon DEF IdInv, Life
<1>7. nch[a] \in Id /\ nch[a] # 0 /\ rcids[a][Last(b)] = nch[a] /\ Cur(a).rcid = Last(b) /\ Last(b) \in DOMAIN rcids[a]
      /\ DOMAIN rcids[a] \subseteq {Last(b)}
  BY <1>0, <1>6, RemoteId, Zenon
<1>8. dev[a] = 0 /\ Cur(a).open_req
  BY <1>6, Zenon DEF Ends, OpenerInv
<1>9. /\ DropCmds(a, nch[a]) = <<>> /\ ~EndpointChannel(a, nch[a])
  BY <1>8, Zenon DEF DropCmds, EndpointChannel
<1>10. /\ Send(a, DropCmds(a, nch[a]) \o <<Cmd("CLOSE_ACK", ch[a][nch[a]].rcid)>>)
       /\ rcids' = [rcids EXCEPT ![a] = Remove(@, ch[a][nch[a]].rcid)]
       /\ ch' = [ch EXCEPT ![a] = [DropDevice(a, nch[a])[a] EXCEPT ![nch[a]] = Put([@ EXCEPT !.rcid = 0])]]
       /\ dev' = IF ch[a][nch[a]].rpdev THEN [dev EXCEPT ![a] = 0] ELSE dev
  BY <1>5, <1>7, Zenon DEF RxClose
<1>11. Cmd("CLOSE_ACK", Last(b)) \in Command /\ Last(b) \in Nat
  BY <1>0, WayType, Zenon DEF Cmd, Command, Cmds
<1>12. fifo'[b] = fifo[b] \o <<Cmd("CLOSE_ACK", Last(b))>>
  <2>1. DropCmds(a, nch[a]) \o <<Cmd("CLOSE_ACK", ch[a][nch[a]].rcid)>> = <<Cmd("CLOSE_ACK", Last(b))>>
    <3>1. ch[a][nch[a]].rcid = Last(b)
      BY <1>7, Zenon DEF Cur
    <3>2. <<Cmd("CLOSE_ACK", Last(b))>> \in Seq(Command)
      BY <1>11, <1>0, Joined, Zenon DEF SideType
    <3>3. <<>> \o <<Cmd("CLOSE_ACK", Last(b))>> = <<Cmd("CLOSE_ACK", Last(b))>>
      BY <1>11, <3>2, Joined, Zenon
    <3>q. QED
      BY <3>1, <3>3, <1>9, Zenon
  <2>2. Send(a, <<Cmd("CLOSE_ACK", Last(b))>>)
    BY <2>1, <1>10, Zenon
  <2>q. QED
    BY <2>2, <1>0, Zenon DEF Send, FunType
<1>13. rcids'[a] = Remove(rcids[a], Last(b)) /\ dev'[a] = 0
  <2>1. rcids' = [rcids EXCEPT ![a] = Remove(rcids[a], Last(b))]
    BY <1>7, <1>10, Zenon DEF Cur
  <2>2. dev'[a] = 0
    BY <1>0, <1>8, <1>10 DEF FunType
  <2>q. QED
    BY <2>1, <2>2, <1>0, Zenon DEF FunType
<1>14. DOMAIN rcids'[a] = {}
  BY <1>7, <1>13, Removed, Zenon
<1>15. RemoteOut(a, nch[a])
  BY <1>0, <1>7, <1>8, <1>10, RemoteReleased, Zenon
<1>16. Made(a) => FALSE
  BY <1>1, <1>8 DEF Made, Making, Cur
<1>17. Cur(a).refs = Num(InL(a)) + 1
  <2>1. Num(InR(b, a)) = 1 /\ Num(Made(a)) = 0 /\ Num(InL(a)) \in {0, 1}
    BY <1>6, <1>16, Counts, Zenon
  <2>2. Cur(a).refs = Num(InL(a)) + Num(InR(b, a)) + Num(Made(a))
    BY <1>0, <1>7, Zenon DEF IdsInv, ChanInv
  <2>q. QED
    BY <2>1, <2>2
<1>18. /\ ch'[a] \in [Id -> Channel] /\ \A d \in Id : d # nch[a] => ch'[a][d] = ch[a][d]
       /\ Cur(a)'.refs = Num(InL(a)) /\ Cur(a)'.rcid = 0
       /\ InL(a) => /\ Cur(a)'.lcid = Cur(a).lcid /\ Cur(a)'.open_ack = Cur(a).open_ack
                    /\ Cur(a)'.open_req = Cur(a).open_req
                    /\ Cur(a)'.cb <=> Cur(a).cb
       /\ ~InL(a) => Cur(a)'.lcid = 0 /\ ~Cur(a)'.cb
  <2>1. Cur(a) = ch[a][nch[a]] /\ Cur(a)' = ch'[a][nch[a]]
    BY <1>1, Zenon DEF Cur
  <2>2. (InL(a) => Cur(a).refs # 1) /\ (~InL(a) => Cur(a).refs = 1) /\ Cur(a).refs - 1 = Num(InL(a))
    BY <1>17 DEF Num
  <2>q. QED
    BY <2>1, <2>2, <1>9, <1>15, Zenon DEF RemoteOut
<1>19. Last(a)' = Last(a) /\ Last(b)' = Last(b) /\ lcids'[b] = lcids[b] /\ rcids'[b] = rcids[b]
  BY <1>0, <1>1, Zenon DEF Last, Core
<1>20. (InL(a)' <=> InL(a)) /\ (InR(a, b)' <=> InR(a, b)) /\ ~InR(b, a)'
  BY <1>1, <1>14, <1>19 DEF InL, InR
<1>21. /\ Cur(b)' = Cur(b) /\ Held(b)' = Held(b) /\ (InL(b)' <=> InL(b)) /\ (Using(b)' <=> Using(b))
       /\ ChanInv(b, a)'
  BY <1>0, <1>19, <1>20, Rest, Zenon DEF IdsInv
<1>22. Way(b)' = Append(Way(b), Cmd("CLOSE_ACK", Last(b))) /\ fifo'[b] \in Seq(Command)
  BY <1>0, <1>11, <1>12, <1>21, WaySend, Zenon DEF Same
<1>23. SideType(b)' /\ SideType(a)'
  <2>1. SideType(b)'
    BY <1>0, <1>22, RestType, Zenon
  <2>2. SideType(a)'
    BY <1>0, <1>1, <1>3, <1>5, <1>18, Zenon DEF SideType
  <2>q. QED
    BY <2>1, <2>2
<1>24. ~Opening(a, b) /\ ~Unopened(a, b)
  BY <1>8, Zenon DEF Ends, PairInv, Fresh
<1>25. WayInv(a, b)' /\ More(a, b, "CLOSE_ACK", Last(b))
  <2>1. Cmd("CLOSE_ACK", Last(b)) \in Sent(Last(a), Last(b)) /\ "CLOSE_ACK" \in Cmds /\ ~On(b, "CLOSE_ACK", Last(b))
    BY <1>6, Zenon DEF Sent, Cmds, Closed
  <2>q. QED
    BY <2>1, <1>0, <1>11, <1>19, <1>22, <1>24, WayMore, Zenon
<1>26. WayInv(b, a)' /\ Less(b, a, "CLOSE", Last(b))
  <2>1. Held(a)' = <<>>
    BY <1>1 DEF Held
  <2>q. QED
    BY <2>1, <1>1, <1>4, <1>5, <1>19, Zenon DEF Takes
<1>27. /\ ~Opening(b, a)' /\ ~Closing(b, a)' /\ ~Acked(a)' /\ ~Zero(a)'
       /\ Closed(a)' <=> Closed(a)
  BY <1>5, <1>26 DEF Less
<1>28. /\ ~Opening(a, b)' /\ Closed(b)'
       /\ Closing(a, b)' <=> Closing(a, b)
       /\ Acked(b)' <=> Acked(b)
       /\ Zero(b)' <=> Zero(b)
  BY <1>24, <1>25 DEF More
<1>29. Using(a)' <=> Using(a)
  <2>1. ~InL(a) => ~Using(a)
    BY <1>0, Zenon DEF IdInv, Life
  <2>2. ~InL(a) => ~(upc[a] \in {"wait_local", "wait_remote", "open"})
    BY <2>1, Zenon DEF Using
  <2>q. QED
    BY <2>1, <2>2, <1>1, <1>7, <1>18 DEF Using
<1>30. IdInv(a, b)'
  BY <1>0, <1>1, <1>19, <1>20, <1>24, <1>27, <1>28, <1>29, IdKept, Zenon
<1>31. IdInv(b, a)'
  BY <1>0, <1>6, <1>14, <1>19, <1>20, <1>21, <1>27, <1>28, Zenon DEF IdInv, Life
<1>32. ChanInv(a, b)'
  <2>1. ~Made(a)'
    <3>1. upc[a] = "wait_local" => InL(a)
      BY <1>0, Zenon DEF Using, IdInv, Life
    <3>q. QED
      BY <3>1, <1>1, <1>8, <1>18, Zenon DEF Made, Making, Cur
  <2>2. Cur(a)'.refs = Num(InL(a))' + Num(InR(b, a))' + Num(Made(a))'
    BY <2>1, <1>18, <1>20 DEF Num
  <2>4. (InL(a) => lcids[a][Last(a)] = nch[a] /\ Cur(a).lcid = Last(a)) /\ \A d \in Id : d # nch[a] => ch[a][d].refs = 0
    BY <1>0, Zenon DEF IdsInv, ChanInv
  <2>q. QED
    BY <2>2, <2>4, <1>1, <1>7, <1>18, <1>19, <1>20, Zenon DEF ChanInv
<1>33. OpenerInv(a, b)'
  <2>1. OpenerInv(a, b) /\ bound' = bound
    BY Zenon DEF Ends, Frame
  <2>2. upc[a] = "open" => InL(a)
    BY <1>0, Zenon DEF Using, IdInv, Life
  <2>q. QED
    BY <2>1, <2>2, <1>1, <1>6, <1>7, <1>13, <1>18, <1>20, <1>27, Zenon DEF OpenerInv
<1>34. AnswerInv(a, b)'
  BY <1>0, <1>19, <1>20, RestAnswer, Zenon DEF Ends, Frame
<1>35. ~Unopened(a, b)'
  BY <1>24, <1>20, Zenon DEF Unopened, Frame, Same, Core
<1>36. PairInv(a, b) /\ upc'[b] = upc[b] /\ slow' = slow
  BY Zenon DEF Ends, Frame, Same, Core
<1>37. Last(b) # 0
  <2>1. Last(b) \in Id
    BY <1>0, <1>6, Zenon DEF IdInv
  <2>q. QED
    BY <2>1 DEF Id
<1>38. PairInv(a, b)'
  BY <1>1, <1>19, <1>20, <1>21, <1>24, <1>27, <1>28, <1>35, <1>36, <1>37, Zenon DEF PairInv
<1>q. QED
  BY <1>21, <1>23, <1>25, <1>26, <1>30, <1>31, <1>32, <1>33, <1>34, <1>38, Zenon DEF EndsInv, IdsInv

\* qcom_glink_rx_close_ack of the side that opens: its id is taken out of lcids.
LEMMA OpenerTakesCloseAck ==
  ASSUME NEW a, NEW b, Ends(a, b), RxCloseAck(a), Frame(b)
  PROVE  EndsInv(a, b)'
<1> DEFINE x == Head(rx_queue[a])
<1>0. FunType /\ a \in Side /\ b \in Side /\ a # b /\ Peer[a] = b /\ SideType(a) /\ SideType(b)
      /\ IdsInv(a, b) /\ Same(b) /\ WayInv(b, a) /\ WayInv(a, b) /\ IdInv(a, b) /\ IdInv(b, a) /\ Core(b)
  BY Zenon DEF Ends, IdsInv, Frame, Same
<1>1. /\ wpc[a] = "idle" /\ rx_queue[a] # <<>> /\ x.cmd = "CLOSE_ACK"
      /\ rx_queue' = [rx_queue EXCEPT ![a] = Tail(rx_queue[a])]
      /\ nch' = nch /\ next_id' = next_id /\ rcids' = rcids
      /\ upc' = upc /\ uch' = uch /\ wpc' = wpc /\ wch' = wch /\ wcmd' = wcmd
  BY Zenon DEF RxCloseAck, Taken, user, worker
<1>2. rx_queue'[a] = Tail(rx_queue[a])
  BY <1>0, <1>1, Zenon DEF FunType
<1>3. fifo'[a] = fifo[a]
  BY <1>0, Zenon DEF RxCloseAck, Send, FunType, wire
<1>4. Takes(a, b, x)
  BY <1>0, <1>1, <1>2, <1>3, WorkerTakes, Zenon
<1>5. x.id = Last(a) /\ Closed(a) /\ ~Acked(a) /\ rx_queue'[a] \in Seq(Command)
  BY <1>1, <1>4, Zenon DEF Takes
<1>6. InL(a) /\ ~Opening(a, b) /\ ~Closing(a, b) /\ ~InR(a, b) /\ ~Using(a)
  BY <1>0, <1>5, Zenon DEF IdInv, Life
<1>7. nch[a] \in Id /\ nch[a] # 0 /\ lcids[a][Last(a)] = nch[a] /\ Cur(a).lcid = Last(a) /\ Last(a) \in DOMAIN lcids[a]
      /\ DOMAIN lcids[a] \subseteq {Last(a)}
  BY <1>0, <1>6, LocalId, Zenon
<1>8. dev[a] = 0 /\ (InR(b, a) => Cur(a).open_req) /\ upc[a] = "idle"
  BY <1>6, Zenon DEF Ends, OpenerInv, Using
<1>9. /\ AckDropCmds(a, nch[a]) = <<>> /\ ~EndpointChannel(a, nch[a])
  BY <1>8, Zenon DEF AckDropCmds, EndpointChannel
<1>10. /\ UNCHANGED wire
       /\ lcids' = [lcids EXCEPT ![a] = Remove(@, ch[a][nch[a]].lcid)]
       /\ ch' = [ch EXCEPT ![a] = [DropDevice(a, nch[a])[a] EXCEPT ![nch[a]] = Put([@ EXCEPT !.lcid = 0])]]
       /\ dev' = IF ch[a][nch[a]].rpdev THEN [dev EXCEPT ![a] = 0] ELSE dev
  BY <1>5, <1>7, <1>9, Zenon DEF RxCloseAck
<1>12. fifo'[b] = fifo[b]
  BY <1>10, Zenon DEF wire
<1>13. lcids'[a] = Remove(lcids[a], Last(a)) /\ dev'[a] = 0
  <2>1. lcids' = [lcids EXCEPT ![a] = Remove(lcids[a], Last(a))]
    BY <1>7, <1>10, Zenon DEF Cur
  <2>2. dev'[a] = 0
    BY <1>0, <1>8, <1>10 DEF FunType
  <2>q. QED
    BY <2>1, <2>2, <1>0, Zenon DEF FunType
<1>14. DOMAIN lcids'[a] = {}
  BY <1>7, <1>13, Removed, Zenon
<1>15. LocalOut(a, nch[a])
  BY <1>0, <1>7, <1>8, <1>10, LocalReleased, Zenon
<1>16. ~Made(a) /\ ~Made(a)'
  BY <1>1, <1>8 DEF Made, Making
<1>17. Cur(a).refs = 1 + Num(InR(b, a))
  <2>1. Num(InL(a)) = 1 /\ Num(Made(a)) = 0 /\ Num(InR(b, a)) \in {0, 1}
    BY <1>6, <1>16, Counts, Zenon
  <2>2. Cur(a).refs = Num(InL(a)) + Num(InR(b, a)) + Num(Made(a))
    BY <1>0, <1>7, Zenon DEF IdsInv, ChanInv
  <2>q. QED
    BY <2>1, <2>2
<1>18. /\ ch'[a] \in [Id -> Channel] /\ \A d \in Id : d # nch[a] => ch'[a][d] = ch[a][d]
       /\ Cur(a)'.refs = Num(InR(b, a)) /\ Cur(a)'.lcid = 0
       /\ InR(b, a) => /\ Cur(a)'.rcid = Cur(a).rcid /\ Cur(a)'.open_req = Cur(a).open_req
       /\ ~InR(b, a) => Cur(a)'.rcid = 0
       /\ ~Cur(a)'.cb
  <2>1. Cur(a) = ch[a][nch[a]] /\ Cur(a)' = ch'[a][nch[a]]
    BY <1>1, Zenon DEF Cur
  <2>2. (InR(b, a) => Cur(a).refs # 1) /\ (~InR(b, a) => Cur(a).refs = 1) /\ Cur(a).refs - 1 = Num(InR(b, a))
    BY <1>17 DEF Num
  <2>3. ~Cur(a).cb
    BY <1>6, <1>7, Zenon DEF Using
  <2>q. QED
    BY <2>1, <2>2, <2>3, <1>9, <1>15, Zenon DEF LocalOut
<1>19. Last(a)' = Last(a) /\ Last(b)' = Last(b) /\ lcids'[b] = lcids[b] /\ rcids'[b] = rcids[b]
  BY <1>0, <1>1, Zenon DEF Last, Core
<1>20. ~InL(a)' /\ ~InR(a, b)' /\ (InR(b, a)' <=> InR(b, a))
  BY <1>1, <1>6, <1>14, <1>19 DEF InL, InR
<1>21. /\ Cur(b)' = Cur(b) /\ Held(b)' = Held(b) /\ (InL(b)' <=> InL(b)) /\ (Using(b)' <=> Using(b))
       /\ ChanInv(b, a)'
  BY <1>0, <1>6, <1>19, <1>20, Rest, Zenon DEF IdsInv
<1>22. Way(b)' = Way(b)
  BY <1>0, <1>12, <1>21, WayStill, Zenon DEF Same
<1>23. SideType(b)' /\ SideType(a)'
  <2>1. SideType(b)'
    BY <1>0, <1>12, RestType, Zenon DEF SideType
  <2>2. SideType(a)'
    BY <1>0, <1>1, <1>3, <1>5, <1>18, Zenon DEF SideType
  <2>q. QED
    BY <2>1, <2>2
<1>24. ~Opening(b, a) /\ ~Unopened(a, b) /\ ~Acked(b) /\ ~Zero(b)
  BY <1>6, <1>8, Zenon DEF Ends, PairInv, Fresh
<1>25. WayInv(a, b)' /\ Kept(a, b)
  BY <1>0, <1>19, <1>22, WaySame, Zenon
<1>26. WayInv(b, a)' /\ Less(b, a, "CLOSE_ACK", Last(a))
  <2>1. Held(a)' = <<>>
    BY <1>1 DEF Held
  <2>q. QED
    BY <2>1, <1>1, <1>4, <1>5, <1>19, Zenon DEF Takes
<1>27. /\ ~Opening(b, a)' /\ ~Acked(a)' /\ ~Closed(a)'
       /\ Closing(b, a)' <=> Closing(b, a)
       /\ Zero(a)' <=> Zero(a)
  BY <1>5, <1>24, <1>26 DEF Less
<1>28. /\ ~Opening(a, b)' /\ ~Closing(a, b)' /\ ~Acked(b)' /\ ~Zero(b)'
       /\ Closed(b)' <=> Closed(b)
  BY <1>6, <1>24, <1>25, Zenon DEF Kept
<1>29. ~Using(a)'
  BY <1>1, <1>8, <1>18 DEF Using
<1>30. IdInv(a, b)'
  BY <1>0, <1>14, <1>19, <1>20, <1>27, <1>28, <1>29, Zenon DEF IdInv, Life
<1>31. IdInv(b, a)'
  BY <1>0, <1>1, <1>19, <1>20, <1>21, <1>24, <1>27, <1>28, IdKept, Zenon
<1>32. ChanInv(a, b)'
  <2>2. Cur(a)'.refs = Num(InL(a))' + Num(InR(b, a))' + Num(Made(a))'
    BY <1>16, <1>18, <1>20 DEF Num
  <2>4. (InR(b, a) => rcids[a][Last(b)] = nch[a] /\ Cur(a).rcid = Last(b)) /\ \A d \in Id : d # nch[a] => ch[a][d].refs = 0
    BY <1>0, Zenon DEF IdsInv, ChanInv
  <2>q. QED
    BY <2>2, <2>4, <1>1, <1>7, <1>18, <1>19, <1>20, Zenon DEF ChanInv
<1>33. OpenerInv(a, b)'
  <2>1. OpenerInv(a, b) /\ bound' = bound
    BY Zenon DEF Ends, Frame
  <2>q. QED
    BY <2>1, <1>1, <1>8, <1>13, <1>18, <1>19, <1>20, <1>27, Zenon DEF OpenerInv
<1>34. AnswerInv(a, b)'
  BY <1>0, <1>6, <1>19, <1>20, RestAnswer, Zenon DEF Ends, Frame
<1>35. ~Unopened(a, b)'
  BY <1>20, Zenon DEF Unopened
<1>38. PairInv(a, b)'
  BY <1>1, <1>8, <1>27, <1>28, <1>35, Zenon DEF PairInv
<1>q. QED
  BY <1>21, <1>23, <1>25, <1>26, <1>30, <1>31, <1>32, <1>33, <1>34, <1>38, Zenon DEF EndsInv, IdsInv

=============================================================================
