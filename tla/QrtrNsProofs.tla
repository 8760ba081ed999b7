---------------------------- MODULE QrtrNsProofs ----------------------------
(***************************************************************************)
(* Theorems about QrtrNs for every set of processors, ports and services:  *)
(* types, what observers are told, what is forgotten, and last the clients *)
(* that a server counts.                                                   *)
(***************************************************************************)
EXTENDS QrtrNs, TLAPS

-----------------------------------------------------------------------------
(* The inductive invariant. *)

Commands == {"hello", "bye", "data", "new_server", "del_server", "del_client",
             "new_lookup", "del_lookup"}
Source == Addr \cup (Node \X {Ctrl})
Pkt == [cmd : Commands, from : Source, addr : Source,
        svc : Service \cup {AnySvc, None}]

EpType ==
  /\ ep \in [Link -> BOOLEAN] /\ say_hello \in [Link -> BOOLEAN]
  /\ nid \in [Link -> BOOLEAN] /\ hello_sent \in [Link -> BOOLEAN]
  /\ hello_rcvd \in [Link -> BOOLEAN]
SockType == open \subseteq Addr /\ state \in [Addr -> Node \cup {None, "multi"}]
TableType ==
  /\ servers \in [Node -> [Addr -> Service \cup {None}]]
  /\ lookups = [n \in Node |-> lookups[n]]
  /\ \A n \in Node : lookups[n] \subseteq
       [addr : {a \in Addr : a[1] = n}, svc : Service \cup {AnySvc}]
  /\ "replace" \notin Faults =>
       \A n \in Node, a \in Addr : servers[n][a] \in {None, Offers[a]}
ToldType ==
  /\ view \in [Addr -> SUBSET (Addr \X Service)]
  /\ clients \in [Addr -> SUBSET Addr]
CountType ==
  /\ bound \subseteq Node /\ bcast_sq \subseteq bound /\ greeted \subseteq bcast_sq
  /\ ops \in 0 .. MAXOPS /\ downs \in 0 .. MAXDOWN
ChanType == chan \in [Link -> Seq(Pkt)]
BoxType == nsq \in [Node -> Seq(Pkt)]

\* What a packet that n's qrtr and name service send says of n.
OfNode(n, p) ==
  /\ p.cmd = "hello" => p.from[1] = n
  /\ p.cmd \in {"new_server", "del_server", "del_client"} =>
       p.addr \in Addr /\ p.addr[1] = n
  /\ p.cmd = "new_server" =>
       p.svc \in Service /\ ("replace" \notin Faults => p.svc = Offers[p.addr])
  /\ p.cmd = "del_client" => p.addr \notin open

\* The packets of link l.
OnWire(l, p) ==
  /\ p.cmd \in {"hello", "data", "new_server", "del_server", "del_client"}
  /\ p.cmd = "data" => /\ p.from \in Addr /\ p.from[1] = l[1]
                       /\ p.addr \in Addr /\ p.addr[1] = l[2]
  /\ OfNode(l[1], p)

\* The packets in the queue of n's name service.
InBox(n, p) ==
  /\ p.cmd # "data"
  /\ p.cmd \in {"hello", "bye"} => p.from[1] \in Node \ {n}
  /\ p.cmd \in {"new_lookup", "del_lookup"} =>
       p.from \in Addr /\ p.from[1] = n /\ p.svc \in Service \cup {AnySvc}
  /\ p.cmd \notin {"hello", "bye", "new_lookup", "del_lookup"} =>
       OfNode(p.addr[1], p)
  /\ p.cmd = "new_server" /\ p.addr[1] = n => "early" \in Faults \/ n \in bcast_sq

Wires == \A l \in Link : \A p \in Range(chan[l]) : OnWire(l, p)
Boxes == \A n \in Node : \A p \in Range(nsq[n]) : InBox(n, p)

WireInv ==
  /\ EpType /\ SockType /\ TableType /\ ToldType /\ CountType
  /\ ChanType /\ BoxType /\ Wires /\ Boxes

\* An observer believes in the servers in the table that some lookup of it asks
\* for, and in no others.
Asked(n, o, s) == \E k \in lookups[n] : k.addr = o /\ Matches(k.svc, s)
ViewInv ==
  \A o \in open : \A a \in Addr : \A s \in Service :
    <<a, s>> \in view[o] <=> servers[o[1]][a] = s /\ Asked(o[1], o, s)

\* The endpoints: nothing is received without one, and no id is known.
LinkInv ==
  /\ \A l \in Link : ~ep[l] => chan[Back(l)] = <<>> /\ ~nid[l]
  /\ \A n \in Node \ bound : nsq[n] = <<>> /\ servers[n] = [a \in Addr |-> None]

\* Whether n's name service forgets, or learns of, the server on a with p.
Drops(a, p) == (p.cmd = "bye" /\ p.from[1] = a[1]) \/ (p.cmd = "del_client" /\ p.addr = a)
Adds(a, p) == p.cmd = "new_server" /\ p.addr = a

\* When n is done with its queue, it knows no server on a.
Forgets(n, a) ==
  \/ \E i \in DOMAIN nsq[n] : /\ Drops(a, nsq[n][i])
                              /\ \A j \in DOMAIN nsq[n] : j > i => ~Adds(a, nsq[n][j])
  \/ servers[n][a] = None /\ \A j \in DOMAIN nsq[n] : ~Adds(a, nsq[n][j])

Gone(n, a) == IF a[1] = n THEN a \notin open ELSE ~nid[<<n, a[1]>>]
GoneInv == \A n \in Node : \A a \in Addr : Gone(n, a) => Forgets(n, a)

-----------------------------------------------------------------------------
(* Queues. *)

\* What a queue holds after a packet is put at its end.
LEMMA Appended ==
  ASSUME NEW S, NEW q \in Seq(S), NEW e \in S
  PROVE  Append(q, e) \in Seq(S) /\ Range(Append(q, e)) = Range(q) \cup {e}
<1>1. /\ Append(q, e) \in Seq(S) /\ Len(Append(q, e)) = Len(q) + 1
      /\ \A i \in 1 .. Len(q) : Append(q, e)[i] = q[i]
      /\ Append(q, e)[Len(q) + 1] = e
      /\ DOMAIN q = 1 .. Len(q) /\ DOMAIN Append(q, e) = 1 .. Len(q) + 1 /\ Len(q) \in Nat
  OBVIOUS
<1>2. QED
  BY <1>1 DEF Range

\* One packet, or none.
LEMMA Single ==
  ASSUME NEW S, NEW x \in S, NEW c \in BOOLEAN
  PROVE  LET h == IF c THEN <<>> ELSE <<x>> IN h \in Seq(S) /\ Range(h) \subseteq {x}
  BY DEF Range

\* What a queue holds after several packets are put at its end.
LEMMA Joined ==
  ASSUME NEW S, NEW q \in Seq(S), NEW r \in Seq(S)
  PROVE  q \o r \in Seq(S) /\ Range(q \o r) = Range(q) \cup Range(r)
<1>1. /\ q \o r \in Seq(S) /\ Len(q \o r) = Len(q) + Len(r)
      /\ \A j \in 1 .. Len(q) + Len(r) :
           (q \o r)[j] = IF j <= Len(q) THEN q[j] ELSE r[j - Len(q)]
      /\ Len(q) \in Nat /\ Len(r) \in Nat /\ DOMAIN (q \o r) = 1 .. Len(q) + Len(r)
      /\ DOMAIN q = 1 .. Len(q) /\ DOMAIN r = 1 .. Len(r)
  OBVIOUS
<1>2. ASSUME NEW j \in DOMAIN (q \o r) PROVE (q \o r)[j] \in Range(q) \cup Range(r)
  <2>1. CASE j <= Len(q)
    BY <1>1, <2>1 DEF Range
  <2>2. CASE ~(j <= Len(q))
    <3>1. j - Len(q) \in DOMAIN r
      BY <1>1, <2>2
    <3>2. QED
      BY <1>1, <2>2, <3>1 DEF Range
  <2>3. QED
    BY <2>1, <2>2
<1>3. ASSUME NEW j \in DOMAIN q PROVE q[j] \in Range(q \o r)
  BY <1>1 DEF Range
<1>4. ASSUME NEW j \in DOMAIN r PROVE r[j] \in Range(q \o r)
  <2>1. j + Len(q) \in 1 .. Len(q) + Len(r) /\ ~(j + Len(q) <= Len(q))
        /\ j + Len(q) - Len(q) = j
    BY <1>1
  <2>2. (q \o r)[j + Len(q)] = r[j]
    BY <1>1, <2>1
  <2>3. QED
    BY <1>1, <2>1, <2>2 DEF Range
<1>5. QED
  BY Zenon, <1>1, <1>2, <1>3, <1>4 DEF Range

\* What it may hold after its head is taken.
LEMMA Taken ==
  ASSUME NEW S, NEW q \in Seq(S), q # <<>>
  PROVE  /\ Tail(q) \in Seq(S) /\ Range(Tail(q)) \subseteq Range(q)
         /\ Head(q) \in Range(q) /\ Head(q) \in S
<1>1. /\ Tail(q) \in Seq(S) /\ Len(q) \in Nat \ {0} /\ DOMAIN q = 1 .. Len(q)
      /\ Len(Tail(q)) = Len(q) - 1 /\ Head(q) = q[1]
      /\ \A i \in 1 .. Len(Tail(q)) : Tail(q)[i] = q[i + 1]
      /\ DOMAIN Tail(q) = 1 .. Len(Tail(q))
  OBVIOUS
<1>2. QED
  BY <1>1 DEF Range

\* What it may hold after it is cut.
LEMMA Cut ==
  ASSUME NEW S, NEW q \in Seq(S), NEW i \in 0 .. Len(q)
  PROVE  SubSeq(q, 1, i) \in Seq(S) /\ Range(SubSeq(q, 1, i)) \subseteq Range(q)
<1>1. /\ SubSeq(q, 1, i) \in Seq(S) /\ Len(SubSeq(q, 1, i)) = i
      /\ \A j \in 1 .. i : SubSeq(q, 1, i)[j] = q[j]
      /\ Len(q) \in Nat /\ DOMAIN q = 1 .. Len(q)
      /\ DOMAIN SubSeq(q, 1, i) = 1 .. Len(SubSeq(q, 1, i))
  OBVIOUS
<1>2. QED
  BY <1>1 DEF Range

\* What it holds after place i of it is taken out.
LEMMA Removed ==
  ASSUME NEW S, NEW q \in Seq(S), NEW i \in DOMAIN q
  PROVE  /\ TakeOut(q, i) \in Seq(S) /\ Len(TakeOut(q, i)) = Len(q) - 1
         /\ \A j \in 1 .. Len(q) - 1 :
              TakeOut(q, i)[j] = IF j < i THEN q[j] ELSE q[j + 1]
         /\ Range(TakeOut(q, i)) \subseteq Range(q)
<1> DEFINE a == SubSeq(q, 1, i - 1)
           b == SubSeq(q, i + 1, Len(q))
<1>1. Len(q) \in Nat /\ DOMAIN q = 1 .. Len(q) /\ i \in 1 .. Len(q)
  OBVIOUS
<1>2. /\ a \in Seq(S) /\ Len(a) = i - 1 /\ \A j \in 1 .. i - 1 : a[j] = q[j]
  BY <1>1
<1>3. /\ b \in Seq(S) /\ Len(b) = Len(q) - i
      /\ \A j \in 1 .. Len(q) - i : b[j] = q[j + i]
  BY <1>1
<1> HIDE DEF a, b
<1>4. /\ a \o b \in Seq(S) /\ Len(a \o b) = Len(a) + Len(b)
      /\ \A j \in 1 .. Len(a) + Len(b) :
           (a \o b)[j] = IF j <= Len(a) THEN a[j] ELSE b[j - Len(a)]
  <2>1. a \in Seq(S) /\ b \in Seq(S)
    BY Zenon, <1>2, <1>3
  <2>2. QED
    BY <2>1
<1>5. Len(a \o b) = Len(q) - 1 /\ \A j \in 1 .. Len(q) - 1 :
        (a \o b)[j] = IF j < i THEN q[j] ELSE q[j + 1]
  <2>1. Len(a) + Len(b) = Len(q) - 1
    BY <1>1, <1>2, <1>3
  <2>2. ASSUME NEW j \in 1 .. Len(q) - 1
        PROVE  (a \o b)[j] = IF j < i THEN q[j] ELSE q[j + 1]
    <3>1. (a \o b)[j] = IF j <= Len(a) THEN a[j] ELSE b[j - Len(a)]
      BY <2>1, <1>4
    <3>2. CASE j < i
      BY <3>1, <3>2, <1>1, <1>2
    <3>3. CASE ~(j < i)
      <4>1. j - Len(a) \in 1 .. Len(q) - i /\ j - Len(a) + i = j + 1 /\ ~(j <= Len(a))
        BY <3>3, <1>1, <1>2
      <4>2. QED
        BY <3>1, <3>3, <4>1, <1>3
    <3>4. QED
      BY Zenon, <3>2, <3>3
  <2>3. QED
    BY <2>1, <2>2, <1>4
<1>6. TakeOut(q, i) = a \o b
  BY DEF TakeOut, a, b
<1>7. Range(TakeOut(q, i)) \subseteq Range(q)
  <2>1. DOMAIN (a \o b) = 1 .. Len(q) - 1
    BY <1>4, <1>5
  <2>2. ASSUME NEW j \in 1 .. Len(q) - 1 PROVE (a \o b)[j] \in Range(q)
    <3>1. j \in DOMAIN q /\ j + 1 \in DOMAIN q
      BY <1>1
    <3>2. QED
      BY <3>1, <1>5 DEF Range
  <2>3. QED
    BY Zenon, <2>1, <2>2, <1>6 DEF Range
<1>8. QED
  BY <1>4, <1>5, <1>6, <1>7

\* A list of elements of S is a sequence.
LEMMA Listing ==
  ASSUME NEW S, NEW k \in Nat, NEW q \in [1 .. k -> S]
  PROVE  q \in Seq(S) /\ Range(q) \subseteq S
  BY DEF Range

-----------------------------------------------------------------------------
(* Types and packets. *)

\* A step that puts only fitting packets on the links keeps them fitting: a
\* closed socket does not come back.
LEMMA WiresKept ==
  ASSUME Wires, open' \subseteq open,
         \A l \in Link : \A x \in Range(chan'[l]) : x \in Range(chan[l]) \/ OnWire(l, x)'
  PROVE  Wires'
<1>1. ASSUME NEW l \in Link, NEW x, OnWire(l, x) PROVE OnWire(l, x)'
  BY Zenon, <1>1 DEF OnWire, OfNode
<1>2. QED
  BY Zenon, <1>1 DEF Wires

\* The same for the queues of the name services.
LEMMA BoxesKept ==
  ASSUME Boxes, open' \subseteq open, bcast_sq \subseteq bcast_sq',
         \A n \in Node : \A x \in Range(nsq'[n]) : x \in Range(nsq[n]) \/ InBox(n, x)'
  PROVE  Boxes'
<1>1. ASSUME NEW n \in Node, NEW x, InBox(n, x) PROVE InBox(n, x)'
  BY Zenon, <1>1 DEF InBox, OfNode
<1>2. QED
  BY Zenon, <1>1 DEF Boxes

\* What a send does to the links.
LEMMA Enqueued ==
  ASSUME ChanType, NEW ls, NEW p \in Pkt, Enqueue(ls, p)
  PROVE  /\ ChanType'
         /\ \A l \in Link : \A x \in Range(chan'[l]) :
              x \in Range(chan[l]) \/ (l \in ls /\ x = p)
<1>1. ASSUME NEW l \in Link
      PROVE  /\ chan'[l] \in Seq(Pkt)
             /\ \A x \in Range(chan'[l]) : x \in Range(chan[l]) \/ (l \in ls /\ x = p)
  <2>1. chan[l] \in Seq(Pkt)
    BY DEF ChanType
  <2>2. chan'[l] = chan[l] \/ (l \in ls /\ chan'[l] = Append(chan[l], p))
    BY Zenon DEF Enqueue
  <2>3. Append(chan[l], p) \in Seq(Pkt) /\ Range(Append(chan[l], p)) = Range(chan[l]) \cup {p}
    BY <2>1, Appended
  <2>4. QED
    BY Zenon, <2>1, <2>2, <2>3
<1>2. chan' = [l \in Link |-> chan'[l]]
  BY Zenon DEF Enqueue
<1>3. ChanType'
  BY Zenon, <1>1, <1>2 DEF ChanType
<1>4. QED
  BY <1>1, <1>3

\* What a local send does to the queues of the name services.
LEMMA Queued ==
  ASSUME BoxType, NEW n \in Node, NEW p \in Pkt, ToNs(n, p)
  PROVE  /\ BoxType'
         /\ \A k \in Node : \A x \in Range(nsq'[k]) :
              x \in Range(nsq[k]) \/ (k = n /\ x = p)
<1>1. ASSUME NEW k \in Node
      PROVE  /\ nsq'[k] \in Seq(Pkt)
             /\ \A x \in Range(nsq'[k]) : x \in Range(nsq[k]) \/ (k = n /\ x = p)
  <2>1. nsq[k] \in Seq(Pkt)
    BY DEF BoxType
  <2>2. nsq'[k] = nsq[k] \/ (k = n /\ nsq'[k] = Append(nsq[k], p))
    BY Zenon DEF ToNs, BoxType
  <2>3. Append(nsq[k], p) \in Seq(Pkt) /\ Range(Append(nsq[k], p)) = Range(nsq[k]) \cup {p}
    BY <2>1, Appended
  <2>4. QED
    BY Zenon, <2>1, <2>2, <2>3
<1>2. nsq' = [k \in Node |-> nsq'[k]]
  BY Zenon DEF ToNs, BoxType
<1>3. BoxType'
  BY Zenon, <1>1, <1>2 DEF BoxType
<1>4. QED
  BY <1>1, <1>3

\* The packets without a payload.
LEMMA PacketTypes ==
  /\ \A n \in Node : Hello(n) \in Pkt /\ Bye(n) \in Pkt
  /\ \A a, b \in Addr : DelClient(a) \in Pkt /\ Data(a, b) \in Pkt
  /\ \A n \in Node, a \in Addr, s \in Service : NewServer(NsOf(n), a, s) \in Pkt
  /\ \A a \in Addr, s \in Service : NewServer(a, a, s) \in Pkt
  /\ \A n \in Node, a \in Addr, s \in Service \cup {None} : DelServer(NsOf(n), a, s) \in Pkt
  /\ \A a \in Addr : DelServer(a, a, None) \in Pkt
  /\ \A a \in Addr, s \in Service \cup {AnySvc}, c \in {"new_lookup", "del_lookup"} :
       Packet(c, a, a, s) \in Pkt
  BY DEF Hello, Bye, DelClient, Data, NewServer, DelServer, Packet, NsOf, Pkt,
         Commands, Source

\* A link has two different ends, and there is one back.
LEMMA LinkEnds ==
  \A l \in Link : /\ l[1] \in Node /\ l[2] \in Node /\ l[1] # l[2]
                  /\ Back(l) \in Link /\ Back(l)[1] = l[2] /\ Back(l)[2] = l[1]
                  /\ l = <<l[1], l[2]>> /\ Back(Back(l)) = l
  BY DEF Link, Back

\* Init has no packets.
LEMMA WireInit ==
  ASSUME NsAssumption, Init
  PROVE  WireInv
<1>1. EpType /\ SockType /\ ToldType
  BY DEF Init, EpType, SockType, ToldType, NsAssumption
<1>2. TableType
  BY DEF Init, TableType
<1>3. CountType
  BY DEF Init, CountType, NsAssumption
<1>4. ChanType /\ BoxType
  BY DEF Init, ChanType, BoxType
<1>5. Range(<<>>) = {}
  BY DEF Range
<1>6. Wires /\ Boxes
  BY <1>5 DEF Init, Wires, Boxes
<1>7. QED
  BY <1>1, <1>2, <1>3, <1>4, <1>6 DEF WireInv

\* The registration of an endpoint and the id of its node put no packet anywhere.
LEMMA WireRegister ==
  ASSUME WireInv, NEW l \in Link, Register(l) \/ NodeAssign(l)
  PROVE  WireInv'
<1>1. EpType'
  <2>1. CASE Register(l)
    BY Zenon, <2>1 DEF Register, WireInv, EpType
  <2>2. CASE NodeAssign(l)
    BY <2>2 DEF NodeAssign, WireInv, EpType
  <2>3. QED
    BY <2>1, <2>2
<1>2. UNCHANGED <<bound, bcast_sq, greeted, chan, open, state, nsq, servers, lookups, view, clients, ops, downs>>
  BY Zenon DEF Register, NodeAssign, started, sockets, ns, told, bounds
<1>3. SockType' /\ TableType' /\ ToldType' /\ CountType' /\ ChanType' /\ BoxType'
  BY Zenon, <1>2 DEF WireInv, SockType, TableType, ToldType, CountType, ChanType, BoxType
<1>4. Wires' /\ Boxes'
  BY Zenon, <1>2, WiresKept, BoxesKept DEF WireInv
<1>5. QED
  BY <1>1, <1>3, <1>4 DEF WireInv

\* qrtr_hello_work and the start of a name service send HELLO.
LEMMA WireHello ==
  ASSUME WireInv, NEW l \in Link, HelloWork(l)
  PROVE  WireInv'
<1>0. l[1] \in Node /\ Hello(l[1]) \in Pkt
  BY LinkEnds, PacketTypes
<1>1. EpType'
  <2>1. say_hello' \in [Link -> BOOLEAN]
    BY DEF HelloWork, WireInv, EpType
  <2>2. hello_sent' \in [Link -> BOOLEAN]
    BY DEF HelloWork, WireInv, EpType
  <2>3. QED
    BY Zenon, <2>1, <2>2 DEF HelloWork, WireInv, EpType
<1>2. UNCHANGED <<bound, bcast_sq, greeted, open, state, nsq, servers, lookups, view, clients, ops, downs>>
  BY Zenon DEF HelloWork, started, sockets, ns, told, bounds
<1>3. SockType' /\ TableType' /\ ToldType' /\ CountType' /\ BoxType'
  BY Zenon, <1>2 DEF WireInv, SockType, TableType, ToldType, CountType, BoxType
<1>4. ChanType' /\ \A k \in Link : \A x \in Range(chan'[k]) :
        x \in Range(chan[k]) \/ (k \in {l} /\ x = Hello(l[1]))
  <2>1. CASE chan' = chan
    BY Zenon, <2>1 DEF WireInv, ChanType
  <2>2. CASE Enqueue({l}, Hello(l[1]))
    BY Zenon, <2>2, <1>0, Enqueued DEF WireInv
  <2>3. QED
    BY Zenon, <2>1, <2>2 DEF HelloWork
<1>5. OnWire(l, Hello(l[1]))'
  BY <1>0 DEF OnWire, OfNode, Hello, Packet, NsOf
<1>6. Wires'
  BY Zenon, <1>2, <1>4, <1>5, WiresKept DEF WireInv
<1>7. Boxes'
  BY Zenon, <1>2, BoxesKept DEF WireInv
<1>8. QED
  BY <1>1, <1>3, <1>4, <1>6, <1>7 DEF WireInv

\* What the steps of the start of a name service leave alone, and send.
LEMMA InitFrame ==
  ASSUME NEW n \in Node, NsInit(n)
  PROVE  /\ UNCHANGED <<ep, say_hello, nid, open, state, nsq, servers, lookups, view, clients,
                        ops, downs>>
         /\ bound \subseteq bound' /\ bcast_sq \subseteq bcast_sq'
         /\ chan' = chan \/ Enqueue({l \in Link : l[1] = n}, Hello(n))
  BY Zenon DEF NsInit, NsBind, NsAddress, NsHello, endpoint, sockets, ns, told, bounds

\* The start of a name service sends HELLO, too.
LEMMA WireNsInit ==
  ASSUME WireInv, NEW n \in Node, NsInit(n)
  PROVE  WireInv'
<1>0. Hello(n) \in Pkt
  BY Zenon, PacketTypes
<1>1. EpType'
  <2>1. UNCHANGED <<hello_sent, hello_rcvd>> \/
        (hello_sent' \in [Link -> BOOLEAN] /\ hello_rcvd' \in [Link -> BOOLEAN])
    BY Zenon DEF NsInit, NsBind, NsAddress, NsHello, endpoint, WireInv, EpType
  <2>2. QED
    BY Zenon, <2>1, InitFrame DEF WireInv, EpType
<1>2. UNCHANGED <<open, state, nsq, servers, lookups, view, clients, ops, downs>>
      /\ bcast_sq \subseteq bcast_sq'
  BY Zenon, InitFrame
<1>3. SockType' /\ TableType' /\ ToldType' /\ BoxType'
  BY Zenon, <1>2 DEF WireInv, SockType, TableType, ToldType, BoxType
<1>4. CountType'
  BY Zenon, <1>2 DEF NsInit, NsBind, NsAddress, NsHello, WireInv, CountType
<1>5. ChanType' /\ \A k \in Link : \A x \in Range(chan'[k]) :
        x \in Range(chan[k]) \/ (k[1] = n /\ x = Hello(n))
  <2>1. CASE chan' = chan
    BY Zenon, <2>1 DEF WireInv, ChanType
  <2>2. CASE Enqueue({l \in Link : l[1] = n}, Hello(n))
    <3> DEFINE ls == {l \in Link : l[1] = n}
    <3>1. Enqueue(ls, Hello(n)) /\ \A k \in ls : k[1] = n
      BY Zenon, <2>2
    <3> HIDE DEF ls
    <3>2. ChanType' /\ \A k \in Link : \A x \in Range(chan'[k]) :
            x \in Range(chan[k]) \/ (k \in ls /\ x = Hello(n))
      BY Zenon, <3>1, <1>0, Enqueued DEF WireInv
    <3>3. QED
      BY Zenon, <3>1, <3>2
  <2>3. QED
    BY Zenon, <2>1, <2>2, InitFrame
<1>6. \A k \in Link : k[1] = n => OnWire(k, Hello(n))'
  BY DEF OnWire, OfNode, Hello, Packet, NsOf
<1>7. Wires'
  BY Zenon, <1>2, <1>5, <1>6, WiresKept DEF WireInv
<1>8. Boxes'
  BY Zenon, <1>2, BoxesKept DEF WireInv
<1>9. QED
  BY <1>1, <1>3, <1>4, <1>5, <1>7, <1>8 DEF WireInv

\* A packet moves from its link to its socket or to the name service.
LEMMA WireReceive ==
  ASSUME WireInv, NEW l \in Link, Receive(l)
  PROVE  WireInv'
<1> DEFINE m == l[2]
           b == Back(l)
<1>1. PICK i \in DOMAIN chan[l] :
        LET p == chan[l][i]
            dup == p.cmd = "hello" /\ hello_rcvd[b]
        IN /\ chan' = [chan EXCEPT ![l] = TakeOut(@, i)]
           /\ IF p.cmd = "data"
                THEN /\ clients' = [clients EXCEPT ![p.addr] =
                          IF servers[m][p.addr] # None THEN @ \cup {p.from} ELSE @]
                     /\ UNCHANGED <<nsq, hello_rcvd>>
                ELSE /\ IF dup THEN UNCHANGED nsq ELSE ToNs(m, p)
                     /\ hello_rcvd' = [hello_rcvd EXCEPT ![b] =
                          @ \/ (p.cmd = "hello" /\ m \in bound)]
                     /\ UNCHANGED clients
           /\ UNCHANGED <<started, ep, say_hello, nid, hello_sent, sockets, ns,
                          view, bounds>>
  BY Zenon DEF Receive
<1> DEFINE p == chan[l][i]
<1> HIDE DEF m, b, p
<1>0. m \in Node /\ b \in Link /\ l[1] \in Node /\ l[1] # m
  BY LinkEnds DEF m, b
<1>2. UNCHANGED <<bound, bcast_sq, greeted, ep, say_hello, nid, hello_sent, open, state, servers,
                  lookups,
                  view, ops, downs>>
  BY Zenon, <1>1 DEF started, sockets, ns, bounds
<1>3. chan[l] \in Seq(Pkt)
  BY DEF WireInv, ChanType
<1>4. p \in Pkt /\ p \in Range(chan[l]) /\ OnWire(l, p)
  <2>1. p \in Range(chan[l])
    BY Zenon DEF p, Range
  <2>2. p \in Pkt
    BY <1>3 DEF p
  <2>3. QED
    BY Zenon, <2>1, <2>2 DEF WireInv, Wires
<1>5. /\ chan' = [chan EXCEPT ![l] = TakeOut(@, i)]
      /\ p.cmd = "data" => /\ clients' = [clients EXCEPT ![p.addr] =
                                IF servers[m][p.addr] # None THEN @ \cup {p.from} ELSE @]
                           /\ UNCHANGED <<nsq, hello_rcvd>>
      /\ p.cmd # "data" => /\ nsq' = nsq \/ ToNs(m, p)
                           /\ hello_rcvd' = [hello_rcvd EXCEPT ![b] =
                                @ \/ (p.cmd = "hello" /\ m \in bound)]
                           /\ UNCHANGED clients
  BY Zenon, <1>1 DEF p
<1>6. EpType'
  <2>1. hello_rcvd' \in [Link -> BOOLEAN]
    BY Zenon, <1>5 DEF WireInv, EpType
  <2>2. QED
    BY Zenon, <2>1, <1>2 DEF WireInv, EpType
<1>7. SockType' /\ TableType' /\ CountType'
  BY Zenon, <1>2 DEF WireInv, SockType, TableType, CountType
<1>8. ToldType'
  <2>1. CASE p.cmd = "data"
    <3>1. p.from \in Addr /\ p.addr \in Addr
      BY Zenon, <2>1, <1>4 DEF OnWire
    <3>2. QED
      BY <3>1, <2>1, <1>2, <1>5 DEF WireInv, ToldType
  <2>2. CASE p.cmd # "data"
    BY Zenon, <2>2, <1>2, <1>5 DEF WireInv, ToldType
  <2>3. QED
    BY <2>1, <2>2
<1>9. TakeOut(chan[l], i) \in Seq(Pkt) /\ Range(TakeOut(chan[l], i)) \subseteq Range(chan[l])
  BY <1>3, Removed
<1>10. ChanType' /\ \A k \in Link : Range(chan'[k]) \subseteq Range(chan[k])
  <2>1. chan \in [Link -> Seq(Pkt)]
    BY DEF WireInv, ChanType
  <2>2. chan'[l] = TakeOut(chan[l], i) /\ \A k \in Link \ {l} : chan'[k] = chan[k]
    BY Zenon, <1>5, <2>1
  <2>3. chan' = [k \in Link |-> chan'[k]]
    BY Zenon, <1>5, <2>1
  <2>4. \A k \in Link : chan'[k] \in Seq(Pkt) /\ Range(chan'[k]) \subseteq Range(chan[k])
    BY Zenon, <1>9, <2>1, <2>2
  <2>5. QED
    BY Zenon, <2>3, <2>4 DEF ChanType
<1>11. BoxType' /\ \A n \in Node : \A x \in Range(nsq'[n]) :
         x \in Range(nsq[n]) \/ (n = m /\ x = p /\ p.cmd # "data")
  <2>1. CASE nsq' = nsq
    BY Zenon, <2>1 DEF WireInv, BoxType
  <2>2. CASE p.cmd # "data" /\ ToNs(m, p)
    BY Zenon, <2>2, <1>0, <1>4, Queued DEF WireInv
  <2>3. QED
    BY Zenon, <2>1, <2>2, <1>5
<1>12. ASSUME NEW x, x = p, x.cmd # "data" PROVE InBox(m, x)'
  <2>1. OnWire(l, x)
    BY Zenon, <1>4, <1>12
  <2>2. QED
    BY <1>0, <1>2, <1>12, <2>1 DEF OnWire, InBox, OfNode
<1>13. Wires'
  BY Zenon, <1>2, <1>10, WiresKept DEF WireInv
<1>14. Boxes'
  BY Zenon, <1>2, <1>11, <1>12, BoxesKept DEF WireInv
<1>15. QED
  BY <1>6, <1>7, <1>8, <1>10, <1>11, <1>13, <1>14 DEF WireInv

\* An endpoint goes: packets are lost, and the name service is sent BYE.
LEMMA WireUnregister ==
  ASSUME NsAssumption, WireInv, NEW l \in Link, Unregister(l)
  PROVE  WireInv'
<1>0. l[1] \in Node /\ l[2] \in Node /\ l[1] # l[2] /\ Back(l) \in Link /\ Back(l) # l
      /\ Bye(l[2]) \in Pkt
  <2>1. l[1] \in Node /\ l[2] \in Node /\ l[1] # l[2] /\ Back(l) \in Link /\ Back(l)[1] = l[2]
    BY LinkEnds
  <2>2. QED
    BY Zenon, <2>1, PacketTypes
<1>1. UNCHANGED <<bound, bcast_sq, greeted, hello_sent, hello_rcvd, open, state, servers, lookups,
                  view, clients, ops>>
  BY Zenon DEF Unregister, started, sockets, ns, told
<1>2. EpType'
  BY <1>1 DEF Unregister, WireInv, EpType
<1>3. SockType' /\ TableType' /\ ToldType'
  BY Zenon, <1>1 DEF WireInv, SockType, TableType, ToldType
<1>4. CountType'
  BY <1>1 DEF WireInv, CountType, Unregister, NsAssumption
<1>5. ChanType' /\ \A k \in Link : Range(chan'[k]) \subseteq Range(chan[k])
  <2>1. PICK i \in 0 .. Len(chan[l]), j \in 0 .. Len(chan[Back(l)]) :
          chan' = [chan EXCEPT ![l] = SubSeq(@, 1, i), ![Back(l)] = SubSeq(@, 1, j)]
    BY Zenon DEF Unregister
  <2>2. chan \in [Link -> Seq(Pkt)] /\ chan[l] \in Seq(Pkt) /\ chan[Back(l)] \in Seq(Pkt)
    BY <1>0 DEF WireInv, ChanType
  <2>3. /\ chan'[l] = SubSeq(chan[l], 1, i) /\ chan'[Back(l)] = SubSeq(chan[Back(l)], 1, j)
        /\ \A k \in Link \ {l, Back(l)} : chan'[k] = chan[k]
        /\ chan' = [k \in Link |-> chan'[k]]
    BY Zenon, <1>0, <2>1, <2>2
  <2>4. /\ SubSeq(chan[l], 1, i) \in Seq(Pkt) /\ Range(SubSeq(chan[l], 1, i)) \subseteq Range(chan[l])
        /\ SubSeq(chan[Back(l)], 1, j) \in Seq(Pkt)
        /\ Range(SubSeq(chan[Back(l)], 1, j)) \subseteq Range(chan[Back(l)])
    BY <2>2, Cut
  <2>5. \A k \in Link : chan'[k] \in Seq(Pkt) /\ Range(chan'[k]) \subseteq Range(chan[k])
    BY Zenon, <2>2, <2>3, <2>4
  <2>6. QED
    BY Zenon, <2>3, <2>5 DEF ChanType
<1>6. BoxType' /\ \A n \in Node : \A x \in Range(nsq'[n]) :
         x \in Range(nsq[n]) \/ (n = l[1] /\ x = Bye(l[2]))
  <2>1. CASE nsq' = nsq
    BY Zenon, <2>1 DEF WireInv, BoxType
  <2>2. CASE ToNs(l[1], Bye(l[2]))
    BY Zenon, <2>2, <1>0, Queued DEF WireInv
  <2>3. QED
    BY Zenon, <2>1, <2>2 DEF Unregister
<1>7. InBox(l[1], Bye(l[2]))'
  BY <1>0 DEF InBox, Bye, Packet, NsOf
<1>8. Wires'
  BY Zenon, <1>1, <1>5, WiresKept DEF WireInv
<1>9. Boxes'
  BY Zenon, <1>1, <1>6, <1>7, BoxesKept DEF WireInv
<1>10. QED
  BY <1>2, <1>3, <1>4, <1>5, <1>6, <1>8, <1>9 DEF WireInv

\* What the operations of a socket have in common.
LEMMA OperationFrame ==
  ASSUME NsAssumption, WireInv, NEW a \in Addr, NEW who, Operation(a, who)
  PROVE  /\ EpType' /\ TableType' /\ CountType'
         /\ a[1] \in Node /\ a \in open /\ a[1] \in bound
         /\ UNCHANGED <<bound, bcast_sq, greeted, ep, say_hello, nid, hello_sent, hello_rcvd, servers,
                        lookups, downs>>
<1>1. UNCHANGED <<bound, bcast_sq, greeted, ep, say_hello, nid, hello_sent, hello_rcvd, servers,
                  lookups, downs>>
  BY Zenon DEF Operation, started, endpoint, ns
<1>2. a[1] \in Node /\ a \in open /\ a[1] \in bound
  BY DEF Operation, Addr
<1>3. EpType' /\ TableType'
  BY Zenon, <1>1 DEF WireInv, EpType, TableType
<1>4. CountType'
  BY <1>1 DEF WireInv, CountType, Operation, NsAssumption
<1>5. QED
  BY Zenon, <1>1, <1>2, <1>3, <1>4

\* A request to the own name service.
LEMMA WireRequest ==
  ASSUME NsAssumption, WireInv, NEW a \in Addr, NEW s,
         \/ s \in Service /\ Offer(a, s)
         \/ Withdraw(a)
         \/ s \in Service \cup {AnySvc} /\ (LookUp(a, s) \/ EndLookUp(a, s))
  PROVE  WireInv'
<1>0. \E who : Operation(a, who)
  BY Zenon DEF Offer, Withdraw, LookUp, EndLookUp
<1>1. /\ EpType' /\ TableType' /\ CountType'
      /\ a[1] \in Node /\ a \in open /\ a[1] \in bound /\ bcast_sq' = bcast_sq
  BY Zenon, <1>0, OperationFrame
<1>2. UNCHANGED <<chan, open, view, clients>>
  BY Zenon DEF Offer, Withdraw, LookUp, EndLookUp, sockets, told
<1>3. ToldType' /\ ChanType'
  BY Zenon, <1>2 DEF WireInv, ToldType, ChanType
<1>4. SockType'
  <2>1. state' = state \/ state' = [state EXCEPT ![a] = "multi"]
    BY Zenon DEF Offer, Withdraw, LookUp, EndLookUp, sockets
  <2>2. QED
    BY <2>1, <1>2 DEF WireInv, SockType
<1>5. \E p \in Pkt : ToNs(a[1], p) /\ InBox(a[1], p)'
  <2>1. CASE s \in Service /\ Offer(a, s)
    <3>1. NewServer(a, a, s) \in Pkt /\ ToNs(a[1], NewServer(a, a, s))
      BY Zenon, <2>1, PacketTypes DEF Offer
    <3>2. "replace" \in Faults \/ s = Offers[a]
      BY Zenon, <2>1 DEF Offer
    <3>3. "early" \in Faults \/ a[1] \in bcast_sq'
      BY Zenon, <1>1, <2>1 DEF Offer, Operation, WireInv, CountType
    <3>4. InBox(a[1], NewServer(a, a, s))'
      BY <2>1, <3>2, <3>3 DEF InBox, OfNode, NewServer, Packet
    <3>5. QED
      BY Zenon, <3>1, <3>4
  <2>2. CASE Withdraw(a)
    <3>1. DelServer(a, a, None) \in Pkt /\ ToNs(a[1], DelServer(a, a, None))
      BY Zenon, <2>2, PacketTypes DEF Withdraw
    <3>2. InBox(a[1], DelServer(a, a, None))'
      BY DEF InBox, OfNode, DelServer, Packet
    <3>3. QED
      BY Zenon, <3>1, <3>2
  <2>3. ASSUME NEW c \in {"new_lookup", "del_lookup"}, s \in Service \cup {AnySvc}
        PROVE  Packet(c, a, a, s) \in Pkt /\ InBox(a[1], Packet(c, a, a, s))'
    BY Zenon, <2>3, PacketTypes DEF InBox, Packet
  <2>4. CASE s \in Service \cup {AnySvc} /\ LookUp(a, s)
    BY Zenon, <2>3, <2>4 DEF LookUp
  <2>5. CASE s \in Service \cup {AnySvc} /\ EndLookUp(a, s)
    BY Zenon, <2>3, <2>5 DEF EndLookUp
  <2>6. QED
    BY Zenon, <2>1, <2>2, <2>4, <2>5
<1>6. PICK p \in Pkt : ToNs(a[1], p) /\ InBox(a[1], p)'
  BY <1>5
<1>7. BoxType' /\ \A k \in Node : \A x \in Range(nsq'[k]) :
        x \in Range(nsq[k]) \/ (k = a[1] /\ x = p)
  BY Zenon, <1>1, <1>6, Queued DEF WireInv
<1>8. Wires'
  BY Zenon, <1>2, WiresKept DEF WireInv
<1>9. Boxes'
  BY Zenon, <1>1, <1>2, <1>6, <1>7, BoxesKept DEF WireInv
<1>10. QED
  BY <1>1, <1>3, <1>4, <1>7, <1>8, <1>9 DEF WireInv

\* A message to a server.
LEMMA WireTalk ==
  ASSUME NsAssumption, WireInv, NEW a \in Addr, NEW b \in Servers, Talk(a, b)
  PROVE  WireInv'
<1>0. b \in Addr /\ b[1] \in Node /\ Data(a, b) \in Pkt
  <2>1. b \in Addr
    BY DEF NsAssumption
  <2>2. QED
    BY <2>1, PacketTypes DEF Addr
<1>1. /\ EpType' /\ TableType' /\ CountType'
      /\ a[1] \in Node /\ a \in open /\ a[1] \in bound /\ bcast_sq' = bcast_sq
  BY Zenon, OperationFrame DEF Talk
<1>2. UNCHANGED <<nsq, open, view, clients>>
  BY Zenon DEF Talk, told
<1>3. ToldType' /\ BoxType'
  BY Zenon, <1>2 DEF WireInv, ToldType, BoxType
<1>4. SockType'
  <2>1. state' = [state EXCEPT ![a] = IF @ \in {None, b[1]} THEN b[1] ELSE "multi"]
    BY Zenon DEF Talk
  <2>2. QED
    BY <1>0, <2>1, <1>2 DEF WireInv, SockType
<1>5. ChanType' /\ \A l \in Link : \A x \in Range(chan'[l]) :
        x \in Range(chan[l]) \/ (l \in {<<a[1], b[1]>>} /\ x = Data(a, b))
  BY Zenon, <1>0, Enqueued DEF Talk, WireInv
<1>6. ASSUME NEW l \in Link, l = <<a[1], b[1]>> PROVE OnWire(l, Data(a, b))'
  BY <1>0, <1>6 DEF OnWire, OfNode, Data, Packet
<1>7. Wires'
  BY Zenon, <1>2, <1>5, <1>6, WiresKept DEF WireInv
<1>8. Boxes'
  BY Zenon, <1>1, <1>2, BoxesKept DEF WireInv
<1>9. QED
  BY <1>1, <1>3, <1>4, <1>5, <1>7, <1>8 DEF WireInv

\* A socket is closed.
LEMMA WireClose ==
  ASSUME NsAssumption, WireInv, NEW a \in Addr, Close(a)
  PROVE  WireInv'
<1>0. DelClient(a) \in Pkt
  BY PacketTypes
<1>1. /\ EpType' /\ TableType' /\ CountType'
      /\ a[1] \in Node /\ a \in open /\ a[1] \in bound /\ bcast_sq' = bcast_sq
  BY Zenon, OperationFrame DEF Close
<1>2. open' = open \ {a} /\ state' = state /\ open' \subseteq open
  BY Zenon DEF Close
<1>3. SockType'
  BY Zenon, <1>2 DEF WireInv, SockType
<1>4. ToldType'
  BY DEF WireInv, ToldType, Close
<1> DEFINE ls == IF state[a] = "multi" THEN Broadcast(a[1])
                 ELSE {l \in Broadcast(a[1]) : l[2] = state[a]}
<1>5. Enqueue(ls, DelClient(a)) /\ \A l \in ls : l[1] = a[1]
  <2>1. Enqueue(ls, DelClient(a))
    BY Zenon DEF Close
  <2>2. \A l \in Broadcast(a[1]) : l[1] = a[1]
    BY DEF Broadcast
  <2>3. QED
    BY Zenon, <2>1, <2>2
<1> HIDE DEF ls
<1>6. ChanType' /\ \A l \in Link : \A x \in Range(chan'[l]) :
        x \in Range(chan[l]) \/ (l \in ls /\ x = DelClient(a))
  BY Zenon, <1>0, <1>5, Enqueued DEF WireInv
<1>7. BoxType' /\ \A k \in Node : \A x \in Range(nsq'[k]) :
        x \in Range(nsq[k]) \/ (k = a[1] /\ x = DelClient(a))
  BY Zenon, <1>0, <1>1, Queued DEF WireInv, Close
<1>8. ASSUME NEW l \in Link, l[1] = a[1] PROVE OnWire(l, DelClient(a))'
  BY <1>2, <1>8 DEF OnWire, OfNode, DelClient, Packet
<1>9. InBox(a[1], DelClient(a))'
  BY <1>2 DEF InBox, OfNode, DelClient, Packet
<1>10. Wires'
  BY Zenon, <1>2, <1>5, <1>6, <1>8, WiresKept DEF WireInv
<1>11. Boxes'
  BY Zenon, <1>1, <1>2, <1>7, <1>9, BoxesKept DEF WireInv
<1>12. QED
  BY <1>1, <1>3, <1>4, <1>6, <1>7, <1>10, <1>11 DEF WireInv

-----------------------------------------------------------------------------
(* qrtr_ns_worker and the packets it sends. *)

\* What a handler of the worker may do to the tables, the sockets and the links.
HandlerOk ==
  /\ hello_sent' \in [Link -> BOOLEAN] /\ TableType' /\ ToldType' /\ ChanType'
  /\ \A l \in Link : \A x \in Range(chan'[l]) : x \in Range(chan[l]) \/ OnWire(l, x)'

\* What no handler touches.
WorkerSame ==
  UNCHANGED <<bound, bcast_sq, greeted, ep, say_hello, nid, hello_rcvd, open, state, ops, downs>>

\* The announcements are packets for the local servers.
LEMMA AnnouncementTypes ==
  ASSUME NsAssumption, WireInv, NEW n \in Node, NEW q \in Announcements(n)
  PROVE  /\ q \in Seq(Pkt)
         /\ \A x \in Range(q) : \E a \in Addr :
              a[1] = n /\ servers[n][a] # None /\ x = NewServer(NsOf(n), a, servers[n][a])
<1> DEFINE B == {b \in Addr : b[1] = n /\ servers[n][b] # None}
           S == {NewServer(NsOf(n), a, servers[n][a]) : a \in B}
<1>1. PICK k \in 0 .. Cardinality(Port) : q \in [1 .. k -> S]
  BY Zenon DEF Announcements
<1>2. q \in Seq(S) /\ Range(q) \subseteq S
  <2>1. k \in Nat
    BY DEF NsAssumption
  <2>2. QED
    BY Zenon, <1>1, <2>1, Listing
<1>3. ASSUME NEW x \in S PROVE x \in Pkt
  <2>1. PICK a \in B : x = NewServer(NsOf(n), a, servers[n][a])
    BY Zenon
  <2>2. servers[n][a] \in Service
    BY DEF WireInv, TableType
  <2>3. QED
    BY Zenon, <2>1, <2>2, PacketTypes
<1>4. \A x \in S : \E a \in Addr :
        a[1] = n /\ servers[n][a] # None /\ x = NewServer(NsOf(n), a, servers[n][a])
  BY Zenon
<1> HIDE DEF S
<1>5. q \in Seq(Pkt)
  BY <1>2, <1>3
<1>6. QED
  BY Zenon, <1>2, <1>4, <1>5

\* The announcements that follow a HELLO are sent on its link.
LEMMA WireCmdHello ==
  ASSUME NsAssumption, WireInv, WorkerSame, NEW n \in Node, NEW p \in Pkt, InBox(n, p),
         CtrlCmdHello(n, p)
  PROVE  HandlerOk
<1> DEFINE l == <<n, p.from[1]>>
<1>0. l \in Link /\ l[1] = n
  BY DEF CtrlCmdHello, InBox, Link
<1>1. UNCHANGED <<servers, lookups, view, clients>>
  BY Zenon DEF CtrlCmdHello, ns, told
<1>2. TableType' /\ ToldType'
  BY Zenon, <1>1 DEF WireInv, TableType, ToldType
<1>3. hello_sent' \in [Link -> BOOLEAN]
  BY Zenon DEF CtrlCmdHello, WireInv, EpType
<1>4. CASE chan' = chan
  BY Zenon, <1>2, <1>3, <1>4 DEF HandlerOk, WireInv, ChanType
<1> DEFINE h == IF hello_sent[l] THEN <<>> ELSE <<Hello(n)>>
<1>5. ASSUME NEW q \in Announcements(n),
             chan' = [chan EXCEPT ![l] = IF ~ep[Back(l)] THEN @ ELSE @ \o h \o q]
      PROVE  HandlerOk
  <2>2. q \in Seq(Pkt)
    BY Zenon, <1>5, AnnouncementTypes
  <2>3. ASSUME NEW x \in Range(q) PROVE OnWire(l, x)'
    <3>1. PICK a \in Addr : a[1] = n /\ servers[n][a] # None /\ x = NewServer(NsOf(n), a, servers[n][a])
      BY Zenon, <1>5, AnnouncementTypes
    <3>2. servers[n][a] \in Service /\ ("replace" \notin Faults => servers[n][a] = Offers[a])
      BY <3>1 DEF WireInv, TableType
    <3>3. QED
      BY <1>0, <3>1, <3>2 DEF OnWire, OfNode, NewServer, Packet
  <2>5. Hello(n) \in Pkt /\ OnWire(l, Hello(n))'
    BY <1>0, PacketTypes DEF OnWire, OfNode, Hello, Packet, NsOf
  <2>6. h \in Seq(Pkt) /\ Range(h) \subseteq {Hello(n)}
    <3>1. hello_sent[l] \in BOOLEAN
      BY Zenon, <1>0 DEF WireInv, EpType
    <3>2. QED
      BY Zenon, <2>5, <3>1, Single
  <2> HIDE DEF h
  <2>7. chan \in [Link -> Seq(Pkt)] /\ chan[l] \in Seq(Pkt)
    BY <1>0 DEF WireInv, ChanType
  <2>8. chan[l] \o h \in Seq(Pkt) /\ Range(chan[l] \o h) = Range(chan[l]) \cup Range(h)
    BY Zenon, <2>6, <2>7, Joined
  <2>9. /\ chan[l] \o h \o q \in Seq(Pkt)
        /\ Range(chan[l] \o h \o q) = Range(chan[l] \o h) \cup Range(q)
    <3> DEFINE c == chan[l] \o h
    <3> HIDE DEF c
    <3>1. c \in Seq(Pkt)
      BY <2>8 DEF c
    <3>2. c \o q \in Seq(Pkt) /\ Range(c \o q) = Range(c) \cup Range(q)
      BY <2>2, <3>1, Joined
    <3>3. QED
      BY Zenon, <3>2 DEF c
  <2>10. /\ chan'[l] = chan[l] \/ chan'[l] = chan[l] \o h \o q
         /\ \A k \in Link \ {l} : chan'[k] = chan[k]
         /\ chan' = [k \in Link |-> chan'[k]]
    <3> DEFINE w == IF ~ep[Back(l)] THEN chan[l] ELSE chan[l] \o h \o q
    <3>1. chan' = [chan EXCEPT ![l] = w]
      BY Zenon, <1>5
    <3>2. w = chan[l] \/ w = chan[l] \o h \o q
      BY Zenon
    <3> HIDE DEF w
    <3>3. QED
      BY Zenon, <1>0, <2>7, <3>1, <3>2
  <2>11. \A k \in Link : chan'[k] \in Seq(Pkt)
    BY Zenon, <2>7, <2>9, <2>10
  <2>12. ChanType'
    BY Zenon, <2>10, <2>11 DEF ChanType
  <2>13. ASSUME NEW k \in Link, NEW x \in Range(chan'[k])
         PROVE  x \in Range(chan[k]) \/ OnWire(k, x)'
    BY Zenon, <2>3, <2>5, <2>6, <2>8, <2>9, <2>10
  <2>14. QED
    BY Zenon, <1>2, <1>3, <2>12, <2>13 DEF HandlerOk
<1>6. QED
  BY Zenon, <1>4, <1>5 DEF CtrlCmdHello

\* The two parts of the tables' types.
ServersOk ==
  /\ servers \in [Node -> [Addr -> Service \cup {None}]]
  /\ "replace" \notin Faults =>
       \A n \in Node, a \in Addr : servers[n][a] \in {None, Offers[a]}
LookupsOk ==
  /\ lookups = [n \in Node |-> lookups[n]]
  /\ \A n \in Node : lookups[n] \subseteq
       [addr : {a \in Addr : a[1] = n}, svc : Service \cup {AnySvc}]

LEMMA TableParts == TableType <=> ServersOk /\ LookupsOk
  BY Zenon DEF TableType, ServersOk, LookupsOk

\* server_del takes the server off the table, and tells nodes and observers.
LEMMA WireServerDel ==
  ASSUME WireInv, WorkerSame, NEW n \in Node, NEW a \in Addr, ServerDel(n, a)
  PROVE  /\ ServersOk' /\ view' \in [Addr -> SUBSET (Addr \X Service)] /\ ChanType'
         /\ \A l \in Link : \A x \in Range(chan'[l]) : x \in Range(chan[l]) \/ OnWire(l, x)'
<1>1. ServersOk'
  BY DEF WireInv, TableType, ServersOk, ServerDel
<1>2. view' \in [Addr -> SUBSET (Addr \X Service)]
  <2>1. \A o \in Addr : view[o] \subseteq Addr \X Service /\ view'[o] \subseteq view[o]
    BY DEF WireInv, ToldType, ServerDel
  <2>2. view' = [o \in Addr |-> view'[o]]
    BY Zenon DEF ServerDel
  <2>3. QED
    BY <2>1, <2>2
<1> DEFINE s == servers[n][a]
           ls == IF a[1] = n /\ s # None THEN NsBroadcast(n) ELSE {}
<1>3. Enqueue(ls, DelServer(NsOf(n), a, s))
  BY Zenon DEF ServerDel
<1>4. s \in Service \cup {None}
  BY DEF WireInv, TableType
<1>5. \A l \in ls : l[1] = a[1]
  BY DEF NsBroadcast, Broadcast
<1> HIDE DEF s, ls
<1>6. DelServer(NsOf(n), a, s) \in Pkt
  BY Zenon, <1>4, PacketTypes
<1>7. ChanType' /\ \A l \in Link : \A x \in Range(chan'[l]) :
        x \in Range(chan[l]) \/ (l \in ls /\ x = DelServer(NsOf(n), a, s))
  BY Zenon, <1>3, <1>6, Enqueued DEF WireInv
<1>8. ASSUME NEW l \in Link, l[1] = a[1], NEW x, x = DelServer(NsOf(n), a, s) PROVE OnWire(l, x)'
  BY <1>8 DEF OnWire, OfNode, DelServer, Packet
<1>9. QED
  BY Zenon, <1>1, <1>2, <1>5, <1>7, <1>8

\* ctrl_cmd_del_server, ctrl_cmd_del_client
LEMMA WireCmdDel ==
  ASSUME WireInv, WorkerSame, NEW n \in Node, NEW p \in Pkt, InBox(n, p),
         CtrlCmdDelServer(n, p) \/ CtrlCmdDelClient(n, p)
  PROVE  HandlerOk
<1>1. p.addr \in Addr /\ ServerDel(n, p.addr) /\ hello_sent' = hello_sent
  BY DEF CtrlCmdDelServer, CtrlCmdDelClient, InBox, OfNode
<1>2. /\ ServersOk' /\ view' \in [Addr -> SUBSET (Addr \X Service)] /\ ChanType'
      /\ \A l \in Link : \A x \in Range(chan'[l]) : x \in Range(chan[l]) \/ OnWire(l, x)'
  BY Zenon, <1>1, WireServerDel
<1>3. clients' \in [Addr -> SUBSET Addr]
  <2>1. clients \in [Addr -> SUBSET Addr]
    BY DEF WireInv, ToldType
  <2>2. CASE CtrlCmdDelServer(n, p)
    BY <1>1, <2>1, <2>2 DEF CtrlCmdDelServer
  <2>3. CASE CtrlCmdDelClient(n, p)
    BY <1>1, <2>1, <2>3 DEF CtrlCmdDelClient
  <2>4. QED
    BY <2>2, <2>3
<1>4. LookupsOk'
  <2>1. LookupsOk
    BY TableParts DEF WireInv
  <2>2. CASE CtrlCmdDelServer(n, p)
    BY Zenon, <2>1, <2>2 DEF CtrlCmdDelServer, LookupsOk
  <2>3. CASE CtrlCmdDelClient(n, p)
    <3>1. lookups' = [lookups EXCEPT ![n] = {k \in lookups[n] : k.addr # p.addr}]
      BY Zenon, <2>3 DEF CtrlCmdDelClient
    <3>2. \A m \in Node : lookups'[m] \subseteq lookups[m]
      BY <3>1, <2>1 DEF LookupsOk
    <3>3. lookups' = [m \in Node |-> lookups'[m]]
      BY Zenon, <3>1, <2>1 DEF LookupsOk
    <3>4. QED
      BY Zenon, <2>1, <3>2, <3>3 DEF LookupsOk
  <2>4. QED
    BY <2>2, <2>3
<1>5. TableType'
  BY Zenon, <1>2, <1>4, TableParts DEF TableType, ServersOk, LookupsOk
<1>6. QED
  BY Zenon, <1>1, <1>2, <1>3, <1>5 DEF HandlerOk, ToldType, WireInv, EpType

\* ctrl_cmd_new_server
LEMMA WireCmdNew ==
  ASSUME WireInv, WorkerSame, NEW n \in Node, NEW p \in Pkt, InBox(n, p),
         CtrlCmdNewServer(n, p)
  PROVE  HandlerOk
<1> DEFINE a == p.addr
           ls == IF a[1] = n THEN NsBroadcast(n) ELSE {}
<1>1. /\ a \in Addr /\ p.svc \in Service /\ ("replace" \notin Faults => p.svc = Offers[a])
      /\ UNCHANGED <<hello_sent, lookups, clients>>
  BY DEF CtrlCmdNewServer, InBox, OfNode
<1>2. ServersOk'
  BY <1>1 DEF CtrlCmdNewServer, ServerAdd, ServersOk, WireInv, TableType
<1>3. LookupsOk'
  BY Zenon, <1>1, TableParts DEF WireInv, LookupsOk
<1>4. view' \in [Addr -> SUBSET (Addr \X Service)]
  <2>1. ASSUME NEW o \in Addr PROVE view'[o] \subseteq Addr \X Service
    <3>1. view[o] \subseteq Addr \X Service /\ <<a, p.svc>> \in Addr \X Service
      BY <1>1 DEF WireInv, ToldType
    <3>2. view'[o] = view[o] \/ view'[o] = view[o] \cup {<<a, p.svc>>}
      BY Zenon DEF CtrlCmdNewServer
    <3>3. QED
      BY <3>1, <3>2
  <2>2. view' = [o \in Addr |-> view'[o]]
    BY Zenon DEF CtrlCmdNewServer
  <2>3. QED
    BY <2>1, <2>2
<1>5. Enqueue(ls, NewServer(NsOf(n), a, p.svc)) /\ \A l \in ls : l[1] = a[1]
  <2>1. Enqueue(ls, NewServer(NsOf(n), a, p.svc))
    BY Zenon DEF CtrlCmdNewServer
  <2>2. \A l \in ls : l[1] = a[1]
    BY DEF NsBroadcast, Broadcast
  <2>3. QED
    BY Zenon, <2>1, <2>2
<1> HIDE DEF a, ls
<1>6. NewServer(NsOf(n), a, p.svc) \in Pkt
  BY Zenon, <1>1, PacketTypes
<1>7. ChanType' /\ \A l \in Link : \A x \in Range(chan'[l]) :
        x \in Range(chan[l]) \/ (l \in ls /\ x = NewServer(NsOf(n), a, p.svc))
  BY Zenon, <1>5, <1>6, Enqueued DEF WireInv
<1>8. ASSUME NEW l \in Link, l[1] = a[1], NEW x, x = NewServer(NsOf(n), a, p.svc)
      PROVE  OnWire(l, x)'
  BY <1>1, <1>8 DEF OnWire, OfNode, NewServer, Packet
<1>9. TableType'
  BY Zenon, <1>2, <1>3 DEF TableType, ServersOk, LookupsOk
<1>10. ToldType' /\ hello_sent' \in [Link -> BOOLEAN]
  BY Zenon, <1>1, <1>4 DEF ToldType, WireInv, EpType
<1>11. QED
  BY Zenon, <1>5, <1>7, <1>8, <1>9, <1>10 DEF HandlerOk

\* ctrl_cmd_bye
LEMMA WireCmdBye ==
  ASSUME WireInv, WorkerSame, NEW n \in Node, NEW p \in Pkt, CtrlCmdBye(n, p)
  PROVE  HandlerOk
<1>1. UNCHANGED <<hello_sent, chan, lookups>>
  BY Zenon DEF CtrlCmdBye
<1>2. ServersOk'
  BY DEF CtrlCmdBye, ServersOk, WireInv, TableType
<1>3. LookupsOk'
  BY Zenon, <1>1, TableParts DEF WireInv, LookupsOk
<1>4. view' \in [Addr -> SUBSET (Addr \X Service)]
  <2>1. view \in [Addr -> SUBSET (Addr \X Service)]
    BY DEF WireInv, ToldType
  <2>2. \A o \in Addr : view'[o] \subseteq view[o]
    BY Zenon DEF CtrlCmdBye
  <2>3. view' = [o \in Addr |-> view'[o]]
    BY Zenon DEF CtrlCmdBye
  <2>4. QED
    BY <2>1, <2>2, <2>3
<1>5. clients' \in [Addr -> SUBSET Addr]
  <2>1. clients \in [Addr -> SUBSET Addr]
    BY DEF WireInv, ToldType
  <2>2. \A b \in Addr : clients'[b] \subseteq clients[b]
    BY Zenon DEF CtrlCmdBye
  <2>3. clients' = [b \in Addr |-> clients'[b]]
    BY Zenon DEF CtrlCmdBye
  <2>4. QED
    BY <2>1, <2>2, <2>3
<1>6. TableType'
  BY Zenon, <1>2, <1>3 DEF TableType, ServersOk, LookupsOk
<1>7. QED
  BY Zenon, <1>1, <1>4, <1>5, <1>6 DEF HandlerOk, ToldType, ChanType, WireInv, EpType

\* ctrl_cmd_new_lookup, ctrl_cmd_del_lookup
LEMMA WireCmdLookup ==
  ASSUME WireInv, WorkerSame, NEW n \in Node, NEW p \in Pkt, InBox(n, p),
         CtrlCmdNewLookup(n, p) \/ CtrlCmdDelLookup(n, p)
  PROVE  HandlerOk
<1>1. UNCHANGED <<hello_sent, chan, servers, clients>>
  BY Zenon DEF CtrlCmdNewLookup, CtrlCmdDelLookup
<1>2. p.from \in Addr /\ p.from[1] = n /\ p.svc \in Service \cup {AnySvc}
  BY DEF CtrlCmdNewLookup, CtrlCmdDelLookup, InBox
<1>3. ServersOk'
  BY Zenon, <1>1, TableParts DEF WireInv, ServersOk
<1>4. LookupsOk'
  <2> DEFINE e == [addr |-> p.from, svc |-> p.svc]
  <2>1. e \in [addr : {a \in Addr : a[1] = n}, svc : Service \cup {AnySvc}]
    BY Zenon, <1>2
  <2>2. LookupsOk
    BY TableParts DEF WireInv
  <2>3. PICK new : /\ lookups' = [lookups EXCEPT ![n] = new]
                   /\ new = lookups[n] \cup {e} \/ new = lookups[n] \ {e}
    BY Zenon DEF CtrlCmdNewLookup, CtrlCmdDelLookup
  <2> HIDE DEF e
  <2>4. /\ lookups'[n] = new /\ \A m \in Node \ {n} : lookups'[m] = lookups[m]
        /\ lookups' = [m \in Node |-> lookups'[m]]
    BY Zenon, <2>2, <2>3 DEF LookupsOk
  <2>5. new \subseteq [addr : {a \in Addr : a[1] = n}, svc : Service \cup {AnySvc}]
    BY Zenon, <2>1, <2>2, <2>3 DEF LookupsOk
  <2>6. QED
    BY Zenon, <2>2, <2>4, <2>5 DEF LookupsOk
<1>5. view' \in [Addr -> SUBSET (Addr \X Service)]
  <2>1. view \in [Addr -> SUBSET (Addr \X Service)]
    BY DEF WireInv, ToldType
  <2>2. CASE CtrlCmdNewLookup(n, p)
    <3> DEFINE T == {<<a, servers[n][a]>> : a \in {b \in Addr :
                      servers[n][b] # None /\ Matches(p.svc, servers[n][b])}}
    <3>1. T \subseteq Addr \X Service
      BY DEF WireInv, TableType
    <3>2. view' = [view EXCEPT ![p.from] = IF p.from \notin open THEN @ ELSE @ \cup T]
      BY Zenon, <2>2 DEF CtrlCmdNewLookup
    <3> HIDE DEF T
    <3>3. QED
      BY <1>2, <2>1, <3>1, <3>2
  <2>3. CASE CtrlCmdDelLookup(n, p)
    BY <1>2, <2>1, <2>3 DEF CtrlCmdDelLookup
  <2>4. QED
    BY <2>2, <2>3
<1>6. TableType'
  BY Zenon, <1>3, <1>4 DEF TableType, ServersOk, LookupsOk
<1>7. QED
  BY Zenon, <1>1, <1>5, <1>6 DEF HandlerOk, ToldType, ChanType, WireInv, EpType

\* The worker takes the first packet of its queue.
LEMMA WorkerTakes ==
  ASSUME BoxType, Boxes, NEW n \in Node, NsWorker(n)
  PROVE  /\ Head(nsq[n]) \in Pkt /\ InBox(n, Head(nsq[n])) /\ WorkerSame /\ BoxType'
         /\ nsq[n] \in Seq(Pkt) /\ nsq[n] # <<>> /\ nsq'[n] = Tail(nsq[n])
         /\ \A k \in Node \ {n} : nsq'[k] = nsq[k]
         /\ \A k \in Node : Range(nsq'[k]) \subseteq Range(nsq[k])
<1>1. nsq \in [Node -> Seq(Pkt)] /\ nsq[n] \in Seq(Pkt) /\ nsq[n] # <<>>
  BY DEF BoxType, NsWorker
<1>2. /\ Tail(nsq[n]) \in Seq(Pkt) /\ Range(Tail(nsq[n])) \subseteq Range(nsq[n])
      /\ Head(nsq[n]) \in Range(nsq[n]) /\ Head(nsq[n]) \in Pkt
  BY <1>1, Taken
<1>3. /\ nsq'[n] = Tail(nsq[n]) /\ \A k \in Node \ {n} : nsq'[k] = nsq[k]
      /\ nsq' = [k \in Node |-> nsq'[k]]
  BY Zenon, <1>1 DEF NsWorker
<1>4. \A k \in Node : nsq'[k] \in Seq(Pkt) /\ Range(nsq'[k]) \subseteq Range(nsq[k])
  BY Zenon, <1>1, <1>2, <1>3
<1>5. BoxType'
  BY Zenon, <1>3, <1>4 DEF BoxType
<1>6. WorkerSame
  BY Zenon DEF NsWorker, WorkerSame, started, sockets, bounds
<1>7. InBox(n, Head(nsq[n]))
  BY Zenon, <1>2 DEF Boxes
<1>8. QED
  BY Zenon, <1>1, <1>2, <1>3, <1>4, <1>5, <1>6, <1>7

\* The packets that the worker sends fit.
LEMMA WireWorker ==
  ASSUME NsAssumption, WireInv, NEW n \in Node, NsWorker(n)
  PROVE  WireInv'
<1>1. /\ Head(nsq[n]) \in Pkt /\ InBox(n, Head(nsq[n])) /\ WorkerSame /\ BoxType'
      /\ \A k \in Node : Range(nsq'[k]) \subseteq Range(nsq[k])
  BY Zenon, WorkerTakes DEF WireInv
<1> DEFINE p == Head(nsq[n])
<1>2. \/ CtrlCmdHello(n, p) \/ CtrlCmdBye(n, p) \/ CtrlCmdDelClient(n, p)
      \/ CtrlCmdNewServer(n, p) \/ CtrlCmdDelServer(n, p)
      \/ CtrlCmdNewLookup(n, p) \/ CtrlCmdDelLookup(n, p)
  BY Zenon DEF NsWorker
<1> HIDE DEF p
<1>3. p \in Pkt /\ InBox(n, p)
  BY Zenon, <1>1 DEF p
<1>4. HandlerOk
  BY Zenon, <1>1, <1>2, <1>3, WireCmdHello, WireCmdBye, WireCmdDel, WireCmdNew, WireCmdLookup
<1>5. UNCHANGED <<bound, bcast_sq, greeted, ep, say_hello, nid, hello_rcvd, open, state, ops, downs>>
  BY Zenon, <1>1 DEF WorkerSame
<1>6. EpType' /\ SockType' /\ CountType'
  BY Zenon, <1>4, <1>5 DEF WireInv, EpType, SockType, CountType, HandlerOk
<1>7. Wires'
  BY Zenon, <1>4, <1>5, WiresKept DEF WireInv, HandlerOk
<1>8. Boxes'
  BY Zenon, <1>1, <1>5, BoxesKept DEF WireInv
<1>9. QED
  BY Zenon, <1>1, <1>4, <1>6, <1>7, <1>8 DEF WireInv, HandlerOk

\* Every step keeps the types and the packets fitting.
LEMMA WireStep ==
  ASSUME NsAssumption, WireInv, [Next]_vars
  PROVE  WireInv'
<1>1. CASE UNCHANGED vars
  <2>1. UNCHANGED <<bound, bcast_sq, greeted, ep, say_hello, nid, hello_sent, hello_rcvd, chan,
                    open, state, nsq,
                    servers, lookups, view, clients, ops, downs>>
    BY Zenon, <1>1 DEF vars, started, endpoint, sockets, ns, told, bounds
  <2>2. /\ EpType' /\ SockType' /\ TableType' /\ ToldType' /\ CountType' /\ ChanType' /\ BoxType'
    BY Zenon, <2>1 DEF WireInv, EpType, SockType, TableType, ToldType, CountType, ChanType, BoxType
  <2>3. Wires' /\ Boxes'
    BY Zenon, <2>1, WiresKept, BoxesKept DEF WireInv
  <2>4. QED
    BY Zenon, <2>2, <2>3 DEF WireInv
<1>2. CASE Next
  <2>1. ASSUME NEW l \in Link,
               Register(l) \/ Unregister(l) \/ HelloWork(l) \/ NodeAssign(l) \/ Receive(l)
        PROVE  WireInv'
    BY Zenon, <2>1, WireRegister, WireUnregister, WireHello, WireReceive
  <2>2. ASSUME NEW n \in Node, NsInit(n) \/ NsWorker(n) PROVE WireInv'
    BY Zenon, <2>2, WireNsInit, WireWorker
  <2>3. ASSUME NEW a \in Addr,
               \/ \E s \in Service : Offer(a, s)
               \/ \E s \in Service \cup {AnySvc} : LookUp(a, s) \/ EndLookUp(a, s)
               \/ Withdraw(a)
        PROVE  WireInv'
    BY Zenon, <2>3, WireRequest
  <2>4. ASSUME NEW a \in Addr, (\E b \in Servers : Talk(a, b)) \/ Close(a) PROVE WireInv'
    BY Zenon, <2>4, WireTalk, WireClose
  <2>5. QED
    BY Zenon, <1>2, <2>1, <2>2, <2>3, <2>4 DEF Next
<1>3. QED
  BY <1>1, <1>2

\* The tables hold services of sockets and lookups of the own processor's.
THEOREM TablesTyped == Spec => []TypeOK
<1>1. WireInv => TypeOK
  <2>1. ASSUME WireInv PROVE DOMAIN chan = Link /\ DOMAIN nsq = Node
    BY Zenon, <2>1 DEF WireInv, ChanType, BoxType
  <2>2. QED
    BY Zenon, <2>1 DEF WireInv, TypeOK, EpType, SockType, TableType, ToldType, CountType
<1>2. Init => WireInv
  BY WireInit, NsAssumption
<1>3. WireInv /\ [Next]_vars => WireInv'
  BY WireStep, NsAssumption
<1>4. QED
  BY <1>1, <1>2, <1>3, PTL DEF Spec

-----------------------------------------------------------------------------
(* The observers. *)

\* A socket never offers a second service.
NoReplace == "replace" \notin Faults

\* No socket is used before its name service has said HELLO.
NoEarly == "early" \notin Faults

\* The observers that are told of a service are the ones that asked for it,
\* and are on the own processor.
LEMMA AudienceAsked ==
  ASSUME WireInv, NEW n \in Node, NEW o \in open, NEW s
  PROVE  (o \in Audience(n, s) <=> Asked(n, o, s)) /\ (Asked(n, o, s) => o[1] = n)
<1>1. o \in Audience(n, s) <=> Asked(n, o, s)
  BY Zenon DEF Audience, Asked
<1>2. Asked(n, o, s) => o[1] = n
  BY DEF Asked, WireInv, TableType
<1>3. QED
  BY <1>1, <1>2

\* A handler at n changes nothing for the observers of other processors.
LEMMA ViewElsewhere ==
  ASSUME ViewInv, WireInv, NEW n \in Node, open' \subseteq open,
         \A m \in Node \ {n} : servers'[m] = servers[m] /\ lookups'[m] = lookups[m],
         \A o \in open : o[1] # n => view'[o] = view[o],
         \A o \in open' : o[1] = n => \A a \in Addr : \A s \in Service :
           <<a, s>> \in view'[o] <=> servers'[n][a] = s /\ Asked(n, o, s)'
  PROVE  ViewInv'
<1>1. ASSUME NEW o \in open', NEW a \in Addr, NEW s \in Service
      PROVE  <<a, s>> \in view'[o] <=> servers'[o[1]][a] = s /\ Asked(o[1], o, s)'
  <2>1. o \in open /\ o \in Addr /\ o[1] \in Node
    BY DEF WireInv, SockType, Addr
  <2>2. CASE o[1] = n
    BY Zenon, <2>1, <2>2 DEF Asked
  <2>3. CASE o[1] # n
    <3>1. view'[o] = view[o] /\ servers'[o[1]] = servers[o[1]] /\ lookups'[o[1]] = lookups[o[1]]
      BY Zenon, <2>1, <2>3
    <3>2. <<a, s>> \in view[o] <=> servers[o[1]][a] = s /\ Asked(o[1], o, s)
      BY Zenon, <2>1 DEF ViewInv
    <3>3. Asked(o[1], o, s)' <=> Asked(o[1], o, s)
      BY Zenon, <3>1 DEF Asked
    <3>4. QED
      BY Zenon, <3>1, <3>2, <3>3
  <2>4. QED
    BY <2>2, <2>3
<1>2. QED
  BY Zenon, <1>1 DEF ViewInv

\* Steps that leave the tables and the observers of open sockets alone.
LEMMA ViewFrame ==
  ASSUME ViewInv, open' \subseteq open, servers' = servers, lookups' = lookups,
         \A o \in open' : view'[o] = view[o]
  PROVE  ViewInv'
<1>1. \A n, o, s : Asked(n, o, s)' <=> Asked(n, o, s)
  BY Zenon DEF Asked
<1>2. QED
  BY Zenon, <1>1 DEF ViewInv

\* server_del tells the observers of the service that the server is gone.
LEMMA ViewServerDel ==
  ASSUME ViewInv, WireInv, WorkerSame, NEW n \in Node, NEW d \in Addr, ServerDel(n, d),
         \A m \in Node \ {n} : lookups'[m] = lookups[m],
         \A o \in open, s \in Service : Asked(n, o, s)' <=> Asked(n, o, s),
         NsAssumption
  PROVE  ViewInv'
<1> DEFINE v == servers[n][d]
<1>0. open' = open /\ open \subseteq Addr /\ servers \in [Node -> [Addr -> Service \cup {None}]]
      /\ view \in [Addr -> SUBSET (Addr \X Service)] /\ None \notin Service
  BY Zenon DEF WorkerSame, WireInv, SockType, TableType, ToldType, NsAssumption
<1>1. \A m \in Node \ {n} : servers'[m] = servers[m]
  BY Zenon, <1>0 DEF ServerDel
<1>2. \A a \in Addr : servers'[n][a] = IF a = d THEN None ELSE servers[n][a]
  BY <1>0 DEF ServerDel
<1>3. ASSUME NEW o \in open
      PROVE  view'[o] = IF v # None /\ Asked(n, o, v) THEN view[o] \ {<<d, v>>} ELSE view[o]
  BY Zenon, <1>0, <1>3, AudienceAsked DEF ServerDel
<1>4. \A o \in open : o[1] # n => view'[o] = view[o]
  BY Zenon, <1>3, AudienceAsked
<1> HIDE DEF v
<1>5. ASSUME NEW o \in open', o[1] = n, NEW a \in Addr, NEW s \in Service
      PROVE  <<a, s>> \in view'[o] <=> servers'[n][a] = s /\ Asked(n, o, s)'
  <2>1. <<a, s>> \in view[o] <=> servers[n][a] = s /\ Asked(n, o, s)
    BY Zenon, <1>0, <1>5 DEF ViewInv
  <2>2. Asked(n, o, s)' <=> Asked(n, o, s)
    BY Zenon, <1>0
  <2>3. CASE a = d
    <3>1. servers'[n][a] # s
      BY Zenon, <1>0, <1>2, <2>3
    <3>2. <<a, s>> \notin view'[o]
      <4>1. CASE s # v
        BY Zenon, <2>1, <2>3, <1>0, <1>3, <4>1 DEF v
      <4>2. CASE s = v
        BY Zenon, <2>1, <2>3, <1>0, <1>3, <4>2 DEF v
      <4>3. QED
        BY <4>1, <4>2
    <3>3. QED
      BY Zenon, <3>1, <3>2
  <2>4. CASE a # d
    <3>1. servers'[n][a] = servers[n][a]
      BY Zenon, <1>2, <2>4
    <3>2. <<a, s>> # <<d, v>>
      BY <2>4
    <3>3. <<a, s>> \in view'[o] <=> <<a, s>> \in view[o]
      BY Zenon, <1>0, <1>3, <3>2
    <3>4. QED
      BY Zenon, <2>1, <2>2, <3>1, <3>3
  <2>5. QED
    BY <2>3, <2>4
<1>6. /\ open' \subseteq open
      /\ \A m \in Node \ {n} : servers'[m] = servers[m] /\ lookups'[m] = lookups[m]
  BY Zenon, <1>0, <1>1
<1>7. \A o \in open' : o[1] = n => \A a \in Addr : \A s \in Service :
        <<a, s>> \in view'[o] <=> servers'[n][a] = s /\ Asked(n, o, s)'
  BY Zenon, <1>5
<1>8. QED
  BY Zenon, <1>4, <1>6, <1>7, ViewElsewhere

\* ctrl_cmd_bye tells them that the servers of the node are gone.
LEMMA ViewBye ==
  ASSUME ViewInv, WireInv, WorkerSame, NEW n \in Node, NEW p \in Pkt, CtrlCmdBye(n, p),
         NsAssumption
  PROVE  ViewInv'
<1> DEFINE gone == {a \in Addr : a[1] = p.from[1] /\ servers[n][a] # None}
<1>0. open' = open /\ open \subseteq Addr /\ servers \in [Node -> [Addr -> Service \cup {None}]]
      /\ None \notin Service /\ lookups' = lookups
  BY Zenon DEF WorkerSame, WireInv, SockType, TableType, NsAssumption, CtrlCmdBye
<1>1. \A m \in Node \ {n} : servers'[m] = servers[m] /\ lookups'[m] = lookups[m]
  BY Zenon, <1>0 DEF CtrlCmdBye
<1>2. \A a \in Addr : servers'[n][a] = IF a \in gone THEN None ELSE servers[n][a]
  BY <1>0 DEF CtrlCmdBye
<1>3. ASSUME NEW o \in open
      PROVE  view'[o] = view[o] \ {<<a, servers[n][a]>> : a \in
                                    {b \in gone : Asked(n, o, servers[n][b])}}
  <2>1. view'[o] = view[o] \ {<<a, servers[n][a]>> : a \in
                               {b \in gone : o \in Audience(n, servers[n][b])}}
    BY Zenon, <1>0 DEF CtrlCmdBye
  <2>2. \A b \in gone : o \in Audience(n, servers[n][b]) <=> Asked(n, o, servers[n][b])
    BY Zenon, <1>0, AudienceAsked
  <2> HIDE DEF gone
  <2>3. QED
    BY Zenon, <2>1, <2>2
<1> HIDE DEF gone
<1>4. ASSUME NEW o \in open, o[1] # n PROVE view'[o] = view[o]
  <2>1. \A b \in gone : ~Asked(n, o, servers[n][b])
    BY Zenon, <1>4, AudienceAsked
  <2>2. QED
    BY Zenon, <1>3, <2>1
<1>5. ASSUME NEW o \in open', o[1] = n, NEW a \in Addr, NEW s \in Service
      PROVE  <<a, s>> \in view'[o] <=> servers'[n][a] = s /\ Asked(n, o, s)'
  <2>1. <<a, s>> \in view[o] <=> servers[n][a] = s /\ Asked(n, o, s)
    BY Zenon, <1>0, <1>5 DEF ViewInv
  <2>2. Asked(n, o, s)' <=> Asked(n, o, s)
    BY Zenon, <1>0 DEF Asked
  <2> DEFINE out == {<<c, servers[n][c]>> : c \in {b \in gone : Asked(n, o, servers[n][b])}}
  <2>3. <<a, s>> \in out <=> a \in gone /\ s = servers[n][a] /\ Asked(n, o, s)
    OBVIOUS
  <2>4. view'[o] = view[o] \ out
    BY Zenon, <1>0, <1>3
  <2> HIDE DEF out
  <2>5. CASE a \in gone
    BY Zenon, <2>1, <2>3, <2>4, <2>5, <1>0, <1>2
  <2>6. CASE a \notin gone
    BY Zenon, <2>1, <2>2, <2>3, <2>4, <2>6, <1>2
  <2>7. QED
    BY <2>5, <2>6
<1>6. open' \subseteq open
  BY Zenon, <1>0
<1>7. \A o \in open' : o[1] = n => \A a \in Addr : \A s \in Service :
        <<a, s>> \in view'[o] <=> servers'[n][a] = s /\ Asked(n, o, s)'
  BY Zenon, <1>5
<1>8. QED
  BY Zenon, <1>1, <1>4, <1>6, <1>7, ViewElsewhere

\* ctrl_cmd_new_server tells them of the server; what they knew of the address
\* is what they hear.
LEMMA ViewNew ==
  ASSUME NoReplace, NoEarly, ViewInv, WireInv, WorkerSame, NEW n \in Node, NEW p \in Pkt,
         InBox(n, p), CtrlCmdNewServer(n, p), NsAssumption
  PROVE  ViewInv'
<1> DEFINE d == p.addr
           v == p.svc
<1>0. open' = open /\ open \subseteq Addr /\ servers \in [Node -> [Addr -> Service \cup {None}]]
      /\ None \notin Service /\ lookups' = lookups
  BY Zenon DEF WorkerSame, WireInv, SockType, TableType, NsAssumption, CtrlCmdNewServer
<1>1. d \in Addr /\ v \in Service /\ v = Offers[d] /\ servers[n][d] \in {None, Offers[d]}
  <2>1. d \in Addr /\ v \in Service /\ v = Offers[d]
    BY DEF InBox, OfNode, CtrlCmdNewServer, NoReplace
  <2>2. QED
    BY Zenon, <2>1 DEF WireInv, TableType, NoReplace
<1>2. \A m \in Node \ {n} : servers'[m] = servers[m] /\ lookups'[m] = lookups[m]
  BY Zenon, <1>0 DEF CtrlCmdNewServer, ServerAdd
<1>3. \A a \in Addr : servers'[n][a] = IF a = d THEN v ELSE servers[n][a]
  BY <1>0, <1>1 DEF CtrlCmdNewServer, ServerAdd
<1>4. ASSUME NEW o \in open
      PROVE  view'[o] = IF Asked(n, o, v) THEN view[o] \cup {<<d, v>>} ELSE view[o]
  <2>1. d[1] = n => n \in bcast_sq
    BY Zenon DEF InBox, NoEarly, CtrlCmdNewServer
  <2>2. QED
    BY Zenon, <1>0, <2>1, AudienceAsked DEF CtrlCmdNewServer
<1> HIDE DEF d, v
<1>5. \A o \in open : o[1] # n => view'[o] = view[o]
  BY Zenon, <1>4, AudienceAsked
<1>6. ASSUME NEW o \in open', o[1] = n, NEW a \in Addr, NEW s \in Service
      PROVE  <<a, s>> \in view'[o] <=> servers'[n][a] = s /\ Asked(n, o, s)'
  <2>1. <<a, s>> \in view[o] <=> servers[n][a] = s /\ Asked(n, o, s)
    BY Zenon, <1>0, <1>6 DEF ViewInv
  <2>2. Asked(n, o, s)' <=> Asked(n, o, s)
    BY Zenon, <1>0 DEF Asked
  <2>3. <<a, s>> = <<d, v>> <=> a = d /\ s = v
    OBVIOUS
  <2>4. view'[o] = IF Asked(n, o, v) THEN view[o] \cup {<<d, v>>} ELSE view[o]
    BY Zenon, <1>0, <1>4
  <2>5. CASE a = d
    <3>1. servers[n][a] = s => s = v
      BY Zenon, <1>0, <1>1, <2>5
    <3>2. servers'[n][a] = v
      BY Zenon, <1>3, <2>5
    <3>3. QED
      BY Zenon, <2>1, <2>2, <2>3, <2>4, <2>5, <3>1, <3>2
  <2>6. CASE a # d
    <3>1. servers'[n][a] = servers[n][a]
      BY Zenon, <1>3, <2>6
    <3>2. QED
      BY Zenon, <2>1, <2>2, <2>3, <2>4, <2>6, <3>1
  <2>7. QED
    BY <2>5, <2>6
<1>7. open' \subseteq open
  BY Zenon, <1>0
<1>8. \A o \in open' : o[1] = n => \A a \in Addr : \A s \in Service :
        <<a, s>> \in view'[o] <=> servers'[n][a] = s /\ Asked(n, o, s)'
  BY Zenon, <1>6
<1>9. QED
  BY Zenon, <1>2, <1>5, <1>7, <1>8, ViewElsewhere

\* ctrl_cmd_new_lookup and ctrl_cmd_del_lookup change what one observer asks for.
LEMMA ViewLookup ==
  ASSUME ViewInv, WireInv, WorkerSame, NEW n \in Node, NEW p \in Pkt, InBox(n, p),
         CtrlCmdNewLookup(n, p) \/ CtrlCmdDelLookup(n, p), NsAssumption
  PROVE  ViewInv'
<1> DEFINE e == [addr |-> p.from, svc |-> p.svc]
<1>0. /\ open' = open /\ open \subseteq Addr /\ servers \in [Node -> [Addr -> Service \cup {None}]]
      /\ None \notin Service /\ servers' = servers /\ lookups = [m \in Node |-> lookups[m]]
      /\ view \in [Addr -> SUBSET (Addr \X Service)]
  BY Zenon DEF WorkerSame, WireInv, SockType, TableType, ToldType, NsAssumption,
               CtrlCmdNewLookup, CtrlCmdDelLookup
<1>1. p.from \in Addr /\ p.from[1] = n
  BY DEF CtrlCmdNewLookup, CtrlCmdDelLookup, InBox
<1>2. \A m \in Node \ {n} : servers'[m] = servers[m] /\ lookups'[m] = lookups[m]
  BY Zenon, <1>0 DEF CtrlCmdNewLookup, CtrlCmdDelLookup
<1>3. \A o \in Addr : o # p.from => view'[o] = view[o]
  BY Zenon, <1>0 DEF CtrlCmdNewLookup, CtrlCmdDelLookup
<1>4. e.addr = p.from /\ e.svc = p.svc
  OBVIOUS
<1>5. ASSUME NEW o \in open', o[1] = n, NEW a \in Addr, NEW s \in Service
      PROVE  <<a, s>> \in view'[o] <=> servers'[n][a] = s /\ Asked(n, o, s)'
  <2>1. <<a, s>> \in view[o] <=> servers[n][a] = s /\ Asked(n, o, s)
    BY Zenon, <1>0, <1>5 DEF ViewInv
  <2>2. lookups'[n] = lookups[n] \cup {e} \/ lookups'[n] = lookups[n] \ {e}
    BY Zenon, <1>0 DEF CtrlCmdNewLookup, CtrlCmdDelLookup
  <2>3. CASE o # p.from
    <3>1. Asked(n, o, s)' <=> Asked(n, o, s)
      BY Zenon, <2>2, <2>3, <1>4 DEF Asked
    <3>2. QED
      BY Zenon, <2>1, <2>3, <3>1, <1>0, <1>3
  <2>4. CASE o = p.from /\ CtrlCmdNewLookup(n, p)
    <3> DEFINE T == {<<c, servers[n][c]>> : c \in {b \in Addr :
                      servers[n][b] # None /\ Matches(p.svc, servers[n][b])}}
    <3>1. lookups'[n] = lookups[n] \cup {e}
      BY Zenon, <1>0, <2>4 DEF CtrlCmdNewLookup
    <3>2. Asked(n, o, s)' <=> Asked(n, o, s) \/ Matches(p.svc, s)
      BY Zenon, <3>1, <1>4, <2>4 DEF Asked
    <3>3. view'[o] = view[o] \cup T
      BY Zenon, <1>0, <2>4 DEF CtrlCmdNewLookup
    <3>4. <<a, s>> \in T <=> s = servers[n][a] /\ Matches(p.svc, s)
      <4>1. <<a, s>> \in T <=> servers[n][a] # None /\ Matches(p.svc, servers[n][a]) /\ s = servers[n][a]
        OBVIOUS
      <4>2. QED
        BY Zenon, <4>1, <1>0
    <3> HIDE DEF T
    <3>5. QED
      BY Zenon, <2>1, <3>2, <3>3, <3>4, <1>0
  <2>5. CASE o = p.from /\ CtrlCmdDelLookup(n, p)
    <3>1. lookups'[n] = lookups[n] \ {e}
      BY Zenon, <1>0, <2>5 DEF CtrlCmdDelLookup
    <3>2. Asked(n, o, s)' <=> \E k \in lookups[n] \ {e} : k.addr = p.from /\ Matches(k.svc, s)
      BY Zenon, <3>1, <2>5 DEF Asked
    <3>3. <<a, s>> \in view'[o] <=> <<a, s>> \in view[o] /\
             \E k \in lookups[n] \ {e} : k.addr = p.from /\ Matches(k.svc, s)
      <4>1. view'[o] = {x \in view[o] : \E k \in lookups[n] \ {e} : k.addr = p.from /\ Matches(k.svc, x[2])}
        BY Zenon, <1>0, <2>5 DEF CtrlCmdDelLookup
      <4>2. <<a, s>>[2] = s
        OBVIOUS
      <4>3. QED
        BY Zenon, <4>1, <4>2
    <3>4. Asked(n, o, s)' => Asked(n, o, s)
      BY Zenon, <3>2, <2>5 DEF Asked
    <3>5. QED
      BY Zenon, <2>1, <3>2, <3>3, <3>4, <1>0
  <2>6. QED
    BY Zenon, <2>3, <2>4, <2>5
<1>6. open' \subseteq open /\ \A o \in open : o[1] # n => view'[o] = view[o]
  BY Zenon, <1>0, <1>1, <1>3
<1>7. \A o \in open' : o[1] = n => \A a \in Addr : \A s \in Service :
        <<a, s>> \in view'[o] <=> servers'[n][a] = s /\ Asked(n, o, s)'
  BY Zenon, <1>5
<1>8. QED
  BY Zenon, <1>2, <1>6, <1>7, ViewElsewhere

\* Every step keeps the observers right.
LEMMA ViewStep ==
  ASSUME NoReplace, NoEarly, NsAssumption, WireInv, ViewInv, [Next]_vars
  PROVE  ViewInv'
<1>1. ASSUME NEW n \in Node, NsWorker(n) PROVE ViewInv'
  <2> DEFINE p == Head(nsq[n])
  <2>1. p \in Pkt /\ InBox(n, p) /\ WorkerSame
    BY Zenon, <1>1, WorkerTakes DEF WireInv
  <2>2. \/ CtrlCmdHello(n, p) \/ CtrlCmdBye(n, p) \/ CtrlCmdDelClient(n, p)
        \/ CtrlCmdNewServer(n, p) \/ CtrlCmdDelServer(n, p)
        \/ CtrlCmdNewLookup(n, p) \/ CtrlCmdDelLookup(n, p)
    BY Zenon, <1>1 DEF NsWorker
  <2> HIDE DEF p
  <2>3. CASE CtrlCmdHello(n, p)
    <3>1. open' \subseteq open /\ UNCHANGED <<servers, lookups, view>>
      BY Zenon, <2>1, <2>3 DEF CtrlCmdHello, ns, told, WorkerSame
    <3>2. QED
      BY Zenon, <3>1, ViewFrame
  <2>4. CASE CtrlCmdDelServer(n, p)
    <3>1. p.addr \in Addr /\ ServerDel(n, p.addr) /\ lookups' = lookups
      BY <2>1, <2>4 DEF CtrlCmdDelServer, InBox, OfNode
    <3>2. \A o \in open, s \in Service : Asked(n, o, s)' <=> Asked(n, o, s)
      BY Zenon, <3>1 DEF Asked
    <3>3. \A m \in Node \ {n} : lookups'[m] = lookups[m]
      BY Zenon, <3>1
    <3>4. QED
      BY Zenon, <2>1, <3>1, <3>2, <3>3, ViewServerDel
  <2>5. CASE CtrlCmdDelClient(n, p)
    <3>1. p.addr \in Addr /\ p.addr \notin open /\ ServerDel(n, p.addr)
          /\ lookups' = [lookups EXCEPT ![n] = {k \in @ : k.addr # p.addr}]
      BY <2>1, <2>5 DEF CtrlCmdDelClient, InBox, OfNode
    <3>2. lookups = [m \in Node |-> lookups[m]]
      BY Zenon DEF WireInv, TableType
    <3>3. lookups'[n] = {k \in lookups[n] : k.addr # p.addr}
          /\ \A m \in Node \ {n} : lookups'[m] = lookups[m]
      BY Zenon, <3>1, <3>2
    <3>4. \A o \in open, s \in Service : Asked(n, o, s)' <=> Asked(n, o, s)
      BY Zenon, <3>1, <3>3 DEF Asked
    <3>5. QED
      BY Zenon, <2>1, <3>1, <3>3, <3>4, ViewServerDel
  <2>6. QED
    BY Zenon, <2>1, <2>2, <2>3, <2>4, <2>5, ViewBye, ViewNew, ViewLookup
<1>2. ASSUME NEW a \in Addr, Close(a) PROVE ViewInv'
  <2>1. UNCHANGED <<servers, lookups>> /\ open' = open \ {a}
        /\ view' = [view EXCEPT ![a] = {}]
    BY Zenon, <1>2 DEF Close, Operation, ns
  <2>2. \A o \in open' : view'[o] = view[o]
    BY <2>1 DEF WireInv, ToldType, SockType
  <2>3. QED
    BY Zenon, <2>1, <2>2, ViewFrame
<1>3. ASSUME UNCHANGED <<open, servers, lookups, view>> PROVE ViewInv'
  BY Zenon, <1>3, ViewFrame
<1>4. ASSUME NEW l \in Link,
             Register(l) \/ Unregister(l) \/ HelloWork(l) \/ NodeAssign(l) \/ Receive(l)
      PROVE  UNCHANGED <<open, servers, lookups, view>>
  <2>1. CASE Receive(l)
    BY Zenon, <2>1 DEF Receive, sockets, ns
  <2>2. QED
    BY Zenon, <1>4, <2>1 DEF Register, Unregister, HelloWork, NodeAssign, sockets, ns, told
<1>5. ASSUME NEW n \in Node, NsInit(n) PROVE UNCHANGED <<open, servers, lookups, view>>
  BY Zenon, <1>5, InitFrame
<1>6. ASSUME NEW a \in Addr,
             \/ \E s \in Service : Offer(a, s)
             \/ \E s \in Service \cup {AnySvc} : LookUp(a, s) \/ EndLookUp(a, s)
             \/ \E b \in Servers : Talk(a, b)
             \/ Withdraw(a)
      PROVE  UNCHANGED <<open, servers, lookups, view>>
  BY Zenon, <1>6 DEF Offer, LookUp, EndLookUp, Talk, Withdraw, Operation, sockets, ns, told
<1>7. CASE UNCHANGED vars
  BY Zenon, <1>3, <1>7 DEF vars, sockets, ns, told
<1>8. CASE Next
  BY Zenon, <1>1, <1>2, <1>3, <1>4, <1>5, <1>6, <1>8 DEF Next
<1>9. QED
  BY <1>7, <1>8

\* ViewInv says what ViewExact says of each lookup.
LEMMA ViewInvExact ==
  ASSUME NsAssumption, WireInv, ViewInv
  PROVE  ViewExact
<1>1. ASSUME NEW n \in Node, NEW k \in lookups[n], k.addr \in open
      PROVE  {x \in view[k.addr] : Matches(k.svc, x[2])} =
             {<<a, servers[n][a]>> : a \in {b \in Addr :
                servers[n][b] # None /\ Matches(k.svc, servers[n][b])}}
  <2> DEFINE o == k.addr
             L == {x \in view[o] : Matches(k.svc, x[2])}
             R == {<<a, servers[n][a]>> : a \in {b \in Addr :
                     servers[n][b] # None /\ Matches(k.svc, servers[n][b])}}
  <2>1. o[1] = n /\ o \in Addr /\ view[o] \subseteq Addr \X Service /\ None \notin Service
        /\ \A a \in Addr : servers[n][a] \in Service \cup {None}
    BY DEF WireInv, TableType, ToldType, NsAssumption
  <2>2. ASSUME NEW a \in Addr, NEW s \in Service
        PROVE  <<a, s>> \in L <=> <<a, s>> \in R
    <3>1. <<a, s>> \in view[o] <=> servers[n][a] = s /\ Asked(n, o, s)
      BY Zenon, <1>1, <2>1 DEF ViewInv
    <3>2. Matches(k.svc, s) => Asked(n, o, s)
      BY Zenon DEF Asked
    <3>3. <<a, s>> \in L <=> <<a, s>> \in view[o] /\ Matches(k.svc, s)
      <4>1. <<a, s>>[2] = s
        OBVIOUS
      <4>2. QED
        BY Zenon, <4>1
    <3>4. <<a, s>> \in R <=> servers[n][a] = s /\ Matches(k.svc, s)
      <4>1. <<a, s>> \in R <=> servers[n][a] # None /\ Matches(k.svc, servers[n][a]) /\ s = servers[n][a]
        OBVIOUS
      <4>2. QED
        BY Zenon, <4>1, <2>1
    <3>5. QED
      BY Zenon, <3>1, <3>2, <3>3, <3>4
  <2>3. L \subseteq Addr \X Service
    BY <2>1
  <2>4. R \subseteq Addr \X Service
    BY <2>1
  <2> HIDE DEF L, R
  <2>5. L = R
    BY <2>2, <2>3, <2>4
  <2>6. QED
    BY Zenon, <2>5 DEF L, R
<1>2. QED
  BY Zenon, <1>1 DEF ViewExact

\* An observer believes in exactly the servers of the table that it asked for,
\* at any time, as long as no socket offers a second service, or is used before
\* its name service has said HELLO.
THEOREM ObserversExact ==
  ASSUME NoReplace, NoEarly
  PROVE  Spec => []ViewExact
<1>1. Init => WireInv /\ ViewInv
  <2>1. ASSUME Init PROVE ViewInv
    <3>1. \A o \in open : view[o] = {} /\ lookups[o[1]] = {}
      BY <2>1, NsAssumption DEF Init, NsAssumption, Addr
    <3>2. QED
      BY Zenon, <3>1 DEF ViewInv, Asked
  <2>2. QED
    BY <2>1, WireInit, NsAssumption
<1>2. WireInv /\ ViewInv /\ [Next]_vars => (WireInv /\ ViewInv)'
  BY WireStep, ViewStep, NsAssumption
<1>3. WireInv /\ ViewInv => ViewExact
  BY ViewInvExact, NsAssumption
<1>4. QED
  BY <1>1, <1>2, <1>3, PTL DEF Spec

-----------------------------------------------------------------------------
(* Endpoints that are gone. *)

\* Nothing is left in the queue of a node when its endpoint goes.
NoBacklog == "rx_queue" \notin Faults

\* A link takes a packet only if the endpoint at its other end is there.
LEMMA LinkEnqueue ==
  ASSUME NEW ls, NEW p, Enqueue(ls, p)
  PROVE  \A l \in Link : ~ep[l] => chan'[Back(l)] = chan[Back(l)]
<1>1. ASSUME NEW l \in Link, ~ep[l] PROVE chan'[Back(l)] = chan[Back(l)]
  <2>1. Back(l) \in Link /\ Back(Back(l)) = l
    BY LinkEnds
  <2>2. QED
    BY Zenon, <1>1, <2>1 DEF Enqueue
<1>2. QED
  BY <1>1

\* Steps that leave the endpoints and the tables of name services that are
\* not there alone.
LEMMA LinkFrame ==
  ASSUME LinkInv, ep' = ep, nid' = nid, bound \subseteq bound',
         \A l \in Link : ~ep[l] => chan'[Back(l)] = chan[Back(l)],
         \A n \in Node \ bound' : nsq'[n] = nsq[n] /\ servers'[n] = servers[n]
  PROVE  LinkInv'
  BY Zenon DEF LinkInv

\* A local send leaves the queues of absent name services alone.
LEMMA LinkToNs ==
  ASSUME WireInv, NEW m \in Node, NEW p, ToNs(m, p)
  PROVE  \A n \in Node \ bound : nsq'[n] = nsq[n]
  BY Zenon DEF ToNs, WireInv, BoxType

\* The endpoints of a step of the worker.
LEMMA LinkWorker ==
  ASSUME WireInv, LinkInv, NEW n \in Node, NsWorker(n)
  PROVE  LinkInv'
<1> DEFINE p == Head(nsq[n])
<1>1. /\ p \in Pkt /\ InBox(n, p) /\ WorkerSame /\ nsq[n] # <<>>
      /\ \A k \in Node \ {n} : nsq'[k] = nsq[k]
  BY Zenon, WorkerTakes DEF WireInv
<1>2. n \in bound
  BY Zenon, <1>1 DEF LinkInv
<1>3. \/ CtrlCmdHello(n, p) \/ CtrlCmdBye(n, p) \/ CtrlCmdDelClient(n, p)
      \/ CtrlCmdNewServer(n, p) \/ CtrlCmdDelServer(n, p)
      \/ CtrlCmdNewLookup(n, p) \/ CtrlCmdDelLookup(n, p)
  BY Zenon DEF NsWorker
<1> HIDE DEF p
<1>4. \A k \in Node \ {n} : servers'[k] = servers[k]
  <2>1. servers = [k \in Node |-> servers[k]]
    BY Zenon DEF WireInv, TableType
  <2>2. UNCHANGED servers \/ \E v : servers' = [servers EXCEPT ![n] = v]
    BY Zenon, <1>3 DEF CtrlCmdHello, CtrlCmdBye, CtrlCmdDelClient, CtrlCmdNewServer, CtrlCmdDelServer,
               CtrlCmdNewLookup, CtrlCmdDelLookup, ServerDel, ServerAdd, ns
  <2>3. QED
    BY Zenon, <2>1, <2>2
<1>5. \A l \in Link : ~ep[l] => chan'[Back(l)] = chan[Back(l)]
  <2>1. CASE chan' = chan
    BY Zenon, <2>1
  <2>2. ASSUME NEW ls, NEW x, Enqueue(ls, x)
        PROVE  \A l \in Link : ~ep[l] => chan'[Back(l)] = chan[Back(l)]
    BY Zenon, <2>2, LinkEnqueue
  <2>3. CASE CtrlCmdHello(n, p)
    <3> DEFINE k == <<n, p.from[1]>>
    <3>1. CASE chan' = chan
      BY Zenon, <3>1
    <3>2. ASSUME NEW w, chan' = [chan EXCEPT ![k] = w], ep[Back(k)]
          PROVE  \A l \in Link : ~ep[l] => chan'[Back(l)] = chan[Back(l)]
      <4>1. k \in Link
        BY <1>1, <2>3 DEF CtrlCmdHello, InBox, Link
      <4>2. ASSUME NEW l \in Link, ~ep[l] PROVE chan'[Back(l)] = chan[Back(l)]
        <5>1. Back(l) \in Link /\ Back(Back(l)) = l
          BY LinkEnds
        <5>2. Back(l) # k
          BY Zenon, <3>2, <4>2, <5>1
        <5>3. QED
          BY Zenon, <3>2, <5>1, <5>2 DEF WireInv, ChanType
      <4>3. QED
        BY <4>2
    <3>3. chan' = chan \/ (ep[Back(k)] /\ \E w : chan' = [chan EXCEPT ![k] = w])
      <4>1. CASE ~nid[k]
        BY Zenon, <2>3, <4>1 DEF CtrlCmdHello
      <4>2. CASE nid[k] /\ ~ep[Back(k)]
        <5>1. chan' = [chan EXCEPT ![k] = chan[k]]
          BY Zenon, <2>3, <4>2 DEF CtrlCmdHello
        <5>2. QED
          BY Zenon, <5>1 DEF WireInv, ChanType
      <4>3. CASE nid[k] /\ ep[Back(k)]
        BY Zenon, <2>3, <4>3 DEF CtrlCmdHello
      <4>4. QED
        BY Zenon, <4>1, <4>2, <4>3
    <3>4. QED
      BY Zenon, <3>1, <3>2, <3>3
  <2>4. QED
    BY Zenon, <1>3, <2>1, <2>2, <2>3 DEF CtrlCmdBye, CtrlCmdDelClient, CtrlCmdNewServer,
       CtrlCmdDelServer, CtrlCmdNewLookup, CtrlCmdDelLookup, ServerDel
<1>6. QED
  BY Zenon, <1>1, <1>2, <1>4, <1>5, LinkFrame DEF WorkerSame

\* What is in the queue of a node is lost with its endpoint.
LEMMA LinkUnregister ==
  ASSUME NoBacklog, WireInv, LinkInv, NEW l \in Link, Unregister(l)
  PROVE  LinkInv'
<1>0. Back(l) \in Link /\ Back(l) # l /\ l[1] \in Node
  BY LinkEnds DEF Back, Link
<1>1. PICK i \in 0 .. Len(chan[l]) : chan' = [chan EXCEPT ![l] = SubSeq(@, 1, i),
                                                       ![Back(l)] = SubSeq(@, 1, 0)]
  <2>1. PICK i \in 0 .. Len(chan[l]), j \in 0 .. Len(chan[Back(l)]) :
          /\ j > 0 => "rx_queue" \in Faults /\ nid[l]
          /\ chan' = [chan EXCEPT ![l] = SubSeq(@, 1, i), ![Back(l)] = SubSeq(@, 1, j)]
    BY Zenon DEF Unregister
  <2>2. j = 0
    <3>1. Len(chan[Back(l)]) \in Nat
      BY <1>0 DEF WireInv, ChanType
    <3>2. ~(j > 0)
      BY Zenon, <2>1 DEF NoBacklog
    <3>3. QED
      BY <3>1, <3>2
  <2>3. QED
    BY Zenon, <2>1, <2>2
<1>2. chan \in [Link -> Seq(Pkt)]
  BY DEF WireInv, ChanType
<1>3. /\ chan'[l] = SubSeq(chan[l], 1, i) /\ chan'[Back(l)] = SubSeq(chan[Back(l)], 1, 0)
      /\ \A k \in Link \ {l, Back(l)} : chan'[k] = chan[k]
  BY Zenon, <1>0, <1>1, <1>2
<1>4. chan'[Back(l)] = <<>> /\ (chan[l] = <<>> => chan'[l] = <<>>)
  BY <1>0, <1>2, <1>3
<1>5. /\ ep' = [ep EXCEPT ![l] = FALSE] /\ nid' = [nid EXCEPT ![l] = FALSE]
      /\ bound' = bound /\ servers' = servers
  BY Zenon DEF Unregister, started, ns
<1>6. ASSUME NEW k \in Link, ~ep'[k] PROVE chan'[Back(k)] = <<>> /\ ~nid'[k]
  <2>1. Back(k) \in Link /\ Back(Back(k)) = k
    BY LinkEnds
  <2>2. CASE k = l
    BY <2>2, <1>4, <1>5 DEF WireInv, EpType
  <2>3. CASE k # l
    <3>1. ~ep[k] /\ nid'[k] = nid[k]
      BY <2>3, <1>5, <1>6 DEF WireInv, EpType
    <3>2. chan[Back(k)] = <<>> /\ ~nid[k]
      BY Zenon, <3>1 DEF LinkInv
    <3>3. chan'[Back(k)] = <<>>
      BY Zenon, <2>1, <3>2, <1>3, <1>4
    <3>4. QED
      BY Zenon, <3>1, <3>2, <3>3
  <2>4. QED
    BY <2>2, <2>3
<1>7. \A n \in Node \ bound : nsq'[n] = nsq[n]
  BY Zenon, <1>0, LinkToNs DEF Unregister
<1>8. QED
  BY Zenon, <1>5, <1>6, <1>7 DEF LinkInv

\* The other steps of the endpoints.
LEMMA LinkEndpoint ==
  ASSUME WireInv, LinkInv, NEW l \in Link,
         Register(l) \/ HelloWork(l) \/ NodeAssign(l) \/ Receive(l)
  PROVE  LinkInv'
<1>0. Back(l) \in Link /\ Back(Back(l)) = l /\ l[2] \in Node
  BY LinkEnds
<1>1. CASE Register(l)
  <2>1. UNCHANGED <<chan, bound, nsq, servers>>
    BY Zenon, <1>1 DEF Register, started, ns
  <2>2. \A k \in Link : ~ep'[k] => ~ep[k] /\ nid'[k] = nid[k]
    BY Zenon, <1>1 DEF Register
  <2>3. QED
    BY Zenon, <2>1, <2>2 DEF LinkInv
<1>2. CASE NodeAssign(l)
  <2>1. UNCHANGED <<ep, chan, bound, nsq, servers>>
    BY Zenon, <1>2 DEF NodeAssign, started, ns
  <2>2. \A k \in Link : ~ep[k] => nid'[k] = nid[k]
    BY Zenon, <1>2 DEF NodeAssign, WireInv, EpType
  <2>3. QED
    BY Zenon, <2>1, <2>2 DEF LinkInv
<1>3. CASE HelloWork(l)
  <2>1. UNCHANGED <<ep, nid, bound, nsq, servers>>
    BY Zenon, <1>3 DEF HelloWork, started, ns
  <2>2. \A k \in Link : ~ep[k] => chan'[Back(k)] = chan[Back(k)]
    BY Zenon, <1>3, LinkEnqueue DEF HelloWork
  <2>3. QED
    BY Zenon, <2>1, <2>2, LinkFrame
<1>4. CASE Receive(l)
  <2>1. UNCHANGED <<ep, nid, bound, servers>>
    BY Zenon, <1>4 DEF Receive, started, ns
  <2>2. chan[l] # <<>> /\ \A k \in Link \ {l} : chan'[k] = chan[k]
    <3>1. PICK i \in DOMAIN chan[l] : chan' = [chan EXCEPT ![l] = TakeOut(@, i)]
      BY Zenon, <1>4 DEF Receive
    <3>2. chan[l] # <<>>
      BY <3>1
    <3>3. QED
      BY Zenon, <3>1, <3>2 DEF WireInv, ChanType
  <2>3. ASSUME NEW k \in Link, ~ep[k] PROVE chan'[Back(k)] = chan[Back(k)]
    <3>1. Back(k) \in Link /\ chan[Back(k)] = <<>>
      BY Zenon, <2>3, LinkEnds DEF LinkInv
    <3>2. QED
      BY Zenon, <2>2, <3>1
  <2>4. \A n \in Node \ bound : nsq'[n] = nsq[n]
    <3>1. UNCHANGED nsq \/ \E p : ToNs(l[2], p)
      BY Zenon, <1>4 DEF Receive
    <3>2. QED
      BY Zenon, <1>0, <3>1, LinkToNs
  <2>5. QED
    BY Zenon, <2>1, <2>3, <2>4, LinkFrame
<1>5. QED
  BY <1>1, <1>2, <1>3, <1>4

\* The steps of the sockets and the start of a name service.
LEMMA LinkSocket ==
  ASSUME WireInv, LinkInv,
         \/ \E n \in Node : NsInit(n)
         \/ \E a \in Addr :
              \/ \E s \in Service : Offer(a, s)
              \/ \E s \in Service \cup {AnySvc} : LookUp(a, s) \/ EndLookUp(a, s)
              \/ \E b \in Servers : Talk(a, b)
              \/ Withdraw(a) \/ Close(a)
  PROVE  LinkInv'
<1>1. ASSUME NEW n \in Node, NsInit(n) PROVE LinkInv'
  <2>1. UNCHANGED <<ep, nid, nsq, servers>> /\ bound \subseteq bound'
    BY Zenon, <1>1, InitFrame
  <2>2. \A k \in Link : ~ep[k] => chan'[Back(k)] = chan[Back(k)]
    BY Zenon, <1>1, InitFrame, LinkEnqueue
  <2>3. QED
    BY Zenon, <2>1, <2>2, LinkFrame
<1>2. ASSUME NEW a \in Addr,
             \/ \E s \in Service : Offer(a, s)
             \/ \E s \in Service \cup {AnySvc} : LookUp(a, s) \/ EndLookUp(a, s)
             \/ \E b \in Servers : Talk(a, b)
             \/ Withdraw(a) \/ Close(a)
      PROVE  LinkInv'
  <2>1. UNCHANGED <<ep, nid, servers, bound>>
    BY Zenon, <1>2 DEF Offer, LookUp, EndLookUp, Talk, Withdraw, Close, Operation,
       started, endpoint, ns
  <2>2. UNCHANGED chan \/ \E ls, p : Enqueue(ls, p)
    BY Zenon, <1>2 DEF Offer, LookUp, EndLookUp, Talk, Withdraw, Close
  <2>3. UNCHANGED nsq \/ \E p : ToNs(a[1], p)
    BY Zenon, <1>2 DEF Offer, LookUp, EndLookUp, Talk, Withdraw, Close
  <2>4. a[1] \in Node
    BY DEF Addr
  <2>5. \A k \in Link : ~ep[k] => chan'[Back(k)] = chan[Back(k)]
    BY Zenon, <2>2, LinkEnqueue
  <2>6. \A n \in Node \ bound : nsq'[n] = nsq[n]
    BY Zenon, <2>3, <2>4, LinkToNs
  <2>7. QED
    BY Zenon, <2>1, <2>5, <2>6, LinkFrame
<1>3. QED
  BY Zenon, <1>1, <1>2

\* Every step keeps what is said of the endpoints.
LEMMA LinkStep ==
  ASSUME NoBacklog, WireInv, LinkInv, [Next]_vars
  PROVE  LinkInv'
<1>1. CASE UNCHANGED vars
  <2>1. UNCHANGED <<ep, nid, chan, bound, nsq, servers>>
    BY Zenon, <1>1 DEF vars, started, endpoint, ns
  <2>2. QED
    BY Zenon, <2>1, LinkFrame
<1>2. CASE Next
  BY Zenon, <1>2, LinkUnregister, LinkEndpoint, LinkSocket, LinkWorker DEF Next
<1>3. QED
  BY <1>1, <1>2

\* What is forgotten stays so when the name service is sent a packet that does
\* not announce the server, or one that makes it forget the server.
LEMMA ForgetsAppend ==
  ASSUME WireInv, NEW n \in Node, NEW a \in Addr, NEW x \in Pkt,
         nsq'[n] = Append(nsq[n], x), servers'[n][a] = servers[n][a],
         (Forgets(n, a) /\ ~Adds(a, x)) \/ (Drops(a, x) /\ ~Adds(a, x))
  PROVE  Forgets(n, a)'
<1> DEFINE q == nsq[n]
           r == nsq'[n]
<1>1. /\ q \in Seq(Pkt) /\ Len(q) \in Nat /\ DOMAIN q = 1 .. Len(q)
      /\ DOMAIN r = 1 .. Len(q) + 1 /\ r[Len(q) + 1] = x
      /\ \A i \in 1 .. Len(q) : r[i] = q[i]
  <2>1. q \in Seq(Pkt)
    BY DEF WireInv, BoxType
  <2>2. r = Append(q, x)
    OBVIOUS
  <2> HIDE DEF q, r
  <2>3. QED
    BY <2>1, <2>2
<1> HIDE DEF q, r
<1>2. \A j \in DOMAIN r : (j \in DOMAIN q /\ r[j] = q[j]) \/ (j = Len(q) + 1 /\ r[j] = x)
  BY <1>1
<1>3. \A j \in DOMAIN q : j \in DOMAIN r
  BY <1>1
<1>4. CASE Drops(a, x) /\ ~Adds(a, x)
  <2>1. Len(q) + 1 \in DOMAIN r /\ \A j \in DOMAIN r : ~(j > Len(q) + 1)
    BY <1>1
  <2>2. QED
    BY Zenon, <1>1, <1>4, <2>1 DEF Forgets, r
<1>5. CASE ~Adds(a, x) /\ \E i \in DOMAIN q : /\ Drops(a, q[i])
                                             /\ \A j \in DOMAIN q : j > i => ~Adds(a, q[j])
  <2>1. PICK i \in DOMAIN q : Drops(a, q[i]) /\ \A j \in DOMAIN q : j > i => ~Adds(a, q[j])
    BY <1>5
  <2>2. \A j \in DOMAIN r : j > i => ~Adds(a, r[j])
    BY Zenon, <1>2, <1>5, <2>1
  <2>3. i \in DOMAIN r /\ Drops(a, r[i])
    BY Zenon, <1>1, <1>3, <2>1
  <2>4. QED
    BY Zenon, <2>2, <2>3 DEF Forgets, r
<1>6. CASE ~Adds(a, x) /\ servers[n][a] = None /\ \A j \in DOMAIN q : ~Adds(a, q[j])
  <2>1. \A j \in DOMAIN r : ~Adds(a, r[j])
    BY Zenon, <1>2, <1>6
  <2>2. QED
    BY Zenon, <1>6, <2>1 DEF Forgets, r
<1>7. QED
  BY Zenon, <1>4, <1>5, <1>6 DEF Forgets, q

\* Nothing changes for what is forgotten at n.
LEMMA ForgetsSame ==
  ASSUME NEW n \in Node, NEW a \in Addr, nsq'[n] = nsq[n], servers'[n][a] = servers[n][a],
         Forgets(n, a)
  PROVE  Forgets(n, a)'
  BY Zenon DEF Forgets

\* What is forgotten stays so when the name service handles a packet.
LEMMA ForgetsTail ==
  ASSUME WireInv, NEW n \in Node, NEW a \in Addr, nsq[n] # <<>>, nsq'[n] = Tail(nsq[n]),
         Drops(a, Head(nsq[n])) => servers'[n][a] = None,
         ~Adds(a, Head(nsq[n])) => servers'[n][a] \in {None, servers[n][a]},
         Forgets(n, a)
  PROVE  Forgets(n, a)'
<1> DEFINE q == nsq[n]
           r == nsq'[n]
<1>1. /\ Len(q) \in Nat \ {0} /\ DOMAIN q = 1 .. Len(q) /\ Head(q) = q[1]
      /\ DOMAIN r = 1 .. Len(q) - 1 /\ \A i \in 1 .. Len(q) - 1 : r[i] = q[i + 1]
  <2>1. q \in Seq(Pkt) /\ q # <<>>
    BY DEF WireInv, BoxType
  <2>2. r = Tail(q)
    OBVIOUS
  <2> HIDE DEF q, r
  <2>3. QED
    BY <2>1, <2>2
<1> HIDE DEF q, r
<1>2. \A j \in DOMAIN r : j + 1 \in DOMAIN q /\ r[j] = q[j + 1] /\ j + 1 > 1
  BY <1>1
<1>3. 1 \in DOMAIN q
  BY <1>1
<1>4. CASE \E i \in DOMAIN q : /\ Drops(a, q[i])
                               /\ \A j \in DOMAIN q : j > i => ~Adds(a, q[j])
  <2>1. PICK i \in DOMAIN q : Drops(a, q[i]) /\ \A j \in DOMAIN q : j > i => ~Adds(a, q[j])
    BY <1>4
  <2>2. CASE i = 1
    <3>1. servers'[n][a] = None
      BY Zenon, <1>1, <2>1, <2>2 DEF q
    <3>2. \A j \in DOMAIN r : ~Adds(a, r[j])
      BY Zenon, <1>2, <2>1, <2>2
    <3>3. QED
      BY Zenon, <3>1, <3>2 DEF Forgets, r
  <2>3. CASE i # 1
    <3>1. i - 1 \in DOMAIN r /\ r[i - 1] = q[i]
      BY <1>1, <2>3
    <3>2. ASSUME NEW j \in DOMAIN r, j > i - 1 PROVE ~Adds(a, r[j])
      <4>1. j + 1 > i
        BY <1>1, <3>2
      <4>2. QED
        BY Zenon, <1>2, <2>1, <4>1
    <3>3. QED
      BY Zenon, <2>1, <3>1, <3>2 DEF Forgets, r
  <2>4. QED
    BY <2>2, <2>3
<1>5. CASE servers[n][a] = None /\ \A j \in DOMAIN q : ~Adds(a, q[j])
  <2>1. ~Adds(a, Head(q))
    BY Zenon, <1>1, <1>3, <1>5
  <2>2. servers'[n][a] = None
    BY Zenon, <1>5, <2>1 DEF q
  <2>3. \A j \in DOMAIN r : ~Adds(a, r[j])
    BY Zenon, <1>2, <1>5
  <2>4. QED
    BY Zenon, <2>2, <2>3 DEF Forgets, r
<1>6. QED
  BY Zenon, <1>4, <1>5 DEF Forgets, q

\* A local send that does not announce a server that is gone keeps the invariant.
LEMMA GoneToNs ==
  ASSUME WireInv, GoneInv, NEW m \in Node, NEW x \in Pkt, ToNs(m, x), servers' = servers,
         \A n \in Node, a \in Addr : Gone(n, a)' =>
           \/ Gone(n, a)
           \/ (n = m /\ m \in bound /\ Drops(a, x)),
         \A a \in Addr : Gone(m, a)' => ~Adds(a, x)
  PROVE  GoneInv'
<1>1. ASSUME NEW n \in Node, NEW a \in Addr, Gone(n, a)' PROVE Forgets(n, a)'
  <2>1. nsq \in [Node -> Seq(Pkt)]
    BY DEF WireInv, BoxType
  <2>2. CASE n = m /\ m \in bound
    <3>1. nsq'[n] = Append(nsq[n], x)
      BY Zenon, <2>1, <2>2 DEF ToNs
    <3>2. ~Adds(a, x) /\ (Forgets(n, a) \/ Drops(a, x))
      BY Zenon, <1>1, <2>2 DEF GoneInv
    <3>3. servers'[n][a] = servers[n][a]
      BY Zenon
    <3>4. QED
      BY Zenon, <3>1, <3>2, <3>3, ForgetsAppend
  <2>3. CASE ~(n = m /\ m \in bound)
    <3>1. nsq'[n] = nsq[n]
      BY Zenon, <2>1, <2>3 DEF ToNs
    <3>2. Forgets(n, a)
      BY Zenon, <1>1, <2>3 DEF GoneInv
    <3>3. servers'[n][a] = servers[n][a]
      BY Zenon
    <3>4. QED
      BY Zenon, <3>1, <3>2, <3>3, ForgetsSame
  <2>4. QED
    BY <2>2, <2>3
<1>2. QED
  BY Zenon, <1>1 DEF GoneInv

\* Steps that leave the queues and tables alone.
LEMMA GoneFrame ==
  ASSUME GoneInv, nsq' = nsq, servers' = servers,
         \A n \in Node, a \in Addr : Gone(n, a)' => Gone(n, a)
  PROVE  GoneInv'
<1>1. ASSUME NEW n \in Node, NEW a \in Addr, Gone(n, a)' PROVE Forgets(n, a)'
  <2>1. Forgets(n, a)
    BY Zenon, <1>1 DEF GoneInv
  <2>2. QED
    BY Zenon, <2>1, ForgetsSame
<1>2. QED
  BY Zenon, <1>1 DEF GoneInv

\* Registration, the node's id and the HELLO work.
LEMMA GoneEndpoint ==
  ASSUME WireInv, LinkInv, GoneInv, NEW l \in Link,
         Register(l) \/ HelloWork(l) \/ NodeAssign(l)
  PROVE  GoneInv'
<1>1. UNCHANGED <<nsq, servers, open>>
  BY Zenon DEF Register, HelloWork, NodeAssign, sockets, ns
<1>2. \A k \in Link : ~nid'[k] => ~nid[k]
  <2>1. CASE Register(l)
    <3>1. ~ep[l] /\ ~ep[Back(l)] /\ Back(l) \in Link
      BY Zenon, <2>1, LinkEnds DEF Register
    <3>2. ~nid[l] /\ ~nid[Back(l)]
      BY Zenon, <3>1 DEF LinkInv
    <3>3. QED
      BY Zenon, <2>1, <3>2 DEF Register
  <2>2. CASE NodeAssign(l)
    BY <2>2 DEF NodeAssign, WireInv, EpType
  <2>3. CASE HelloWork(l)
    BY Zenon, <2>3 DEF HelloWork
  <2>4. QED
    BY <2>1, <2>2, <2>3
<1>3. ASSUME NEW n \in Node, NEW a \in Addr, Gone(n, a)' PROVE Gone(n, a)
  <2>1. a[1] # n => <<n, a[1]>> \in Link
    BY DEF Addr, Link
  <2>2. QED
    BY Zenon, <1>1, <1>2, <1>3, <2>1 DEF Gone
<1>4. QED
  BY Zenon, <1>1, <1>3, GoneFrame

\* A node that hears of a server has not lost the endpoint it came through.
LEMMA GoneReceive ==
  ASSUME WireInv, LinkInv, GoneInv, NEW l \in Link, Receive(l)
  PROVE  GoneInv'
<1> DEFINE m == l[2]
           b == Back(l)
<1>0. m \in Node /\ b \in Link /\ Back(b) = l /\ b = <<m, l[1]>> /\ l[1] # m
  BY LinkEnds DEF Back
<1> HIDE DEF m, b
<1>1. PICK i \in DOMAIN chan[l] :
        /\ nid[b] \/ ~ep[b]
        /\ UNCHANGED nsq \/ ToNs(m, chan[l][i])
        /\ UNCHANGED <<nid, open, servers>>
  BY Zenon DEF Receive, m, b, started, sockets, ns
<1>2. nid[b]
  <2>1. chan[l] # <<>>
    BY <1>1
  <2>2. QED
    BY Zenon, <1>0, <1>1, <2>1 DEF LinkInv
<1>3. \A n \in Node, a \in Addr : Gone(n, a)' => Gone(n, a)
  BY Zenon, <1>1 DEF Gone
<1>4. chan[l][i] \in Pkt /\ OnWire(l, chan[l][i])
  <2>1. chan[l] \in Seq(Pkt)
    BY DEF WireInv, ChanType
  <2>2. chan[l][i] \in Range(chan[l])
    BY Zenon DEF Range
  <2>3. QED
    BY <2>1, <2>2 DEF WireInv, Wires
<1>5. CASE UNCHANGED nsq
  BY Zenon, <1>1, <1>3, <1>5, GoneFrame
<1>6. CASE ToNs(m, chan[l][i])
  <2> DEFINE x == chan[l][i]
  <2>1. ASSUME NEW a \in Addr, Gone(m, a)' PROVE ~Adds(a, x)
    <3>1. Adds(a, x) => a[1] = l[1]
      BY <1>4 DEF Adds, OnWire, OfNode
    <3>2. Gone(m, a)
      BY Zenon, <1>3, <1>0, <2>1
    <3>3. QED
      BY Zenon, <1>0, <1>2, <3>1, <3>2 DEF Gone
  <2>2. x \in Pkt
    BY <1>4
  <2> HIDE DEF x
  <2>3. QED
    BY Zenon, <1>0, <1>1, <1>3, <1>6, <2>1, <2>2, GoneToNs DEF x
<1>7. QED
  BY Zenon, <1>1, <1>5, <1>6

\* A node that loses an endpoint is told BYE, unless it has no name service.
LEMMA GoneUnregister ==
  ASSUME WireInv, LinkInv, GoneInv, NEW l \in Link, Unregister(l)
  PROVE  GoneInv'
<1> DEFINE n0 == l[1]
           x == Bye(l[2])
<1>0. n0 \in Node /\ l[2] \in Node /\ x \in Pkt /\ l = <<n0, l[2]>> /\ n0 # l[2]
  BY LinkEnds, PacketTypes
<1>1. /\ UNCHANGED <<open, servers>> /\ nid' = [nid EXCEPT ![l] = FALSE]
      /\ IF nid[l] THEN ToNs(n0, x) ELSE UNCHANGED nsq
  BY Zenon DEF Unregister, started, sockets, ns
<1>2. x.cmd = "bye" /\ x.from[1] = l[2]
  BY DEF Bye, Packet, NsOf
<1> HIDE DEF n0, x
<1>3. ASSUME NEW n \in Node, NEW a \in Addr, Gone(n, a)'
      PROVE  Gone(n, a) \/ (nid[l] /\ n = n0 /\ a[1] = l[2])
  <2>1. a[1] # n => <<n, a[1]>> \in Link
    BY DEF Addr, Link
  <2>2. CASE a[1] = n
    BY Zenon, <1>1, <1>3, <2>2 DEF Gone
  <2>3. CASE a[1] # n /\ <<n, a[1]>> # l
    <3>1. nid'[<<n, a[1]>>] = nid[<<n, a[1]>>]
      BY Zenon, <1>1, <2>1, <2>3 DEF WireInv, EpType
    <3>2. QED
      BY Zenon, <1>3, <2>3, <3>1 DEF Gone
  <2>4. CASE a[1] # n /\ <<n, a[1]>> = l
    <3>1. n = n0 /\ a[1] = l[2]
      BY <2>4 DEF n0
    <3>2. QED
      BY Zenon, <2>4, <3>1 DEF Gone
  <2>5. QED
    BY Zenon, <2>2, <2>3, <2>4
<1>4. CASE ~nid[l]
  BY Zenon, <1>1, <1>3, <1>4, GoneFrame
<1>5. CASE nid[l] /\ n0 \in bound
  <2>1. \A n \in Node, a \in Addr : Gone(n, a)' =>
           Gone(n, a) \/ (n = n0 /\ n0 \in bound /\ Drops(a, x))
    BY Zenon, <1>2, <1>3, <1>5 DEF Drops
  <2>2. \A a \in Addr : ~Adds(a, x)
    BY <1>2 DEF Adds
  <2>3. QED
    BY Zenon, <1>0, <1>1, <1>5, <2>1, <2>2, GoneToNs
<1>6. CASE nid[l] /\ n0 \notin bound
  <2>1. nsq' = nsq
    BY Zenon, <1>0, <1>1, <1>6 DEF ToNs, WireInv, BoxType
  <2>2. ASSUME NEW n \in Node, NEW a \in Addr, Gone(n, a)' PROVE Forgets(n, a)'
    <3>1. CASE Gone(n, a)
      <4>1. Forgets(n, a)
        BY Zenon, <3>1 DEF GoneInv
      <4>2. QED
        BY Zenon, <1>1, <2>1, <4>1, ForgetsSame
    <3>2. CASE n = n0
      <4>1. nsq'[n] = <<>> /\ servers'[n][a] = None
        <5>1. nsq[n] = <<>> /\ servers[n] = [c \in Addr |-> None]
          BY Zenon, <1>0, <1>6, <3>2 DEF LinkInv
        <5>2. QED
          BY <1>1, <2>1, <5>1
      <4>2. DOMAIN <<>> = {}
        OBVIOUS
      <4>3. QED
        BY Zenon, <4>1, <4>2 DEF Forgets
    <3>3. QED
      BY Zenon, <1>3, <2>2, <3>1, <3>2
  <2>3. QED
    BY Zenon, <2>2 DEF GoneInv
<1>7. QED
  BY Zenon, <1>4, <1>5, <1>6

\* A closed socket announces nothing, and its name service is told.
LEMMA GoneSocket ==
  ASSUME NsAssumption, WireInv, GoneInv, NEW c \in Addr,
         \/ \E s \in Service : Offer(c, s)
         \/ \E s \in Service \cup {AnySvc} : LookUp(c, s) \/ EndLookUp(c, s)
         \/ \E b \in Servers : Talk(c, b)
         \/ Withdraw(c) \/ Close(c)
  PROVE  GoneInv'
<1>0. \E who : Operation(c, who)
  BY Zenon DEF Offer, LookUp, EndLookUp, Talk, Withdraw, Close
<1>1. c[1] \in Node /\ c \in open /\ c[1] \in bound /\ UNCHANGED <<nid, servers, bound>>
  BY Zenon, <1>0, OperationFrame
<1>2. ASSUME open' = open PROVE \A n \in Node, a \in Addr : Gone(n, a)' <=> Gone(n, a)
  BY Zenon, <1>1, <1>2 DEF Gone
<1>3. ASSUME NEW x \in Pkt, ToNs(c[1], x), open' = open, \A a \in Addr : Adds(a, x) => a = c
      PROVE  GoneInv'
  <2>1. ~Gone(c[1], c)
    BY Zenon, <1>1 DEF Gone
  <2>2. \A a \in Addr : Gone(c[1], a)' => ~Adds(a, x)
    BY Zenon, <1>1, <1>2, <1>3, <2>1
  <2>3. \A n \in Node, a \in Addr : Gone(n, a)' =>
           Gone(n, a) \/ (n = c[1] /\ c[1] \in bound /\ Drops(a, x))
    BY Zenon, <1>2, <1>3
  <2>4. QED
    BY Zenon, <1>1, <1>3, <2>2, <2>3, GoneToNs
<1>4. ASSUME NEW s \in Service, Offer(c, s) PROVE GoneInv'
  <2>1. NewServer(c, c, s) \in Pkt /\ ToNs(c[1], NewServer(c, c, s)) /\ open' = open
    BY Zenon, <1>4, PacketTypes DEF Offer
  <2>2. \A a \in Addr : Adds(a, NewServer(c, c, s)) => a = c
    BY DEF Adds, NewServer, Packet
  <2>3. QED
    BY Zenon, <1>3, <2>1, <2>2
<1>5. ASSUME NEW s \in Service \cup {AnySvc}, LookUp(c, s) \/ EndLookUp(c, s) PROVE GoneInv'
  <2>1. PICK d \in {"new_lookup", "del_lookup"} : ToNs(c[1], Packet(d, c, c, s))
    BY Zenon, <1>5 DEF LookUp, EndLookUp
  <2>2. Packet(d, c, c, s) \in Pkt /\ open' = open
    BY Zenon, <1>5, PacketTypes DEF LookUp, EndLookUp, sockets
  <2>3. \A a \in Addr : Adds(a, Packet(d, c, c, s)) => a = c
    BY DEF Adds, Packet
  <2>4. QED
    BY Zenon, <1>3, <2>1, <2>2, <2>3
<1>6. ASSUME Withdraw(c) PROVE GoneInv'
  <2>1. DelServer(c, c, None) \in Pkt /\ ToNs(c[1], DelServer(c, c, None)) /\ open' = open
    BY Zenon, <1>6, PacketTypes DEF Withdraw, sockets
  <2>2. \A a \in Addr : Adds(a, DelServer(c, c, None)) => a = c
    BY DEF Adds, DelServer, Packet
  <2>3. QED
    BY Zenon, <1>3, <2>1, <2>2
<1>7. ASSUME NEW b \in Servers, Talk(c, b) PROVE GoneInv'
  <2>1. UNCHANGED <<open, nsq>>
    BY Zenon, <1>7 DEF Talk
  <2>2. QED
    BY Zenon, <1>1, <1>2, <2>1, GoneFrame
<1>8. ASSUME Close(c) PROVE GoneInv'
  <2> DEFINE x == DelClient(c)
  <2>1. x \in Pkt /\ ToNs(c[1], x) /\ open' = open \ {c}
    BY Zenon, <1>8, PacketTypes DEF Close
  <2>2. x.cmd = "del_client" /\ x.addr = c
    BY DEF DelClient, Packet
  <2> HIDE DEF x
  <2>3. \A a \in Addr : ~Adds(a, x)
    BY <2>2 DEF Adds
  <2>4. \A n \in Node, a \in Addr : Gone(n, a)' =>
           Gone(n, a) \/ (n = c[1] /\ c[1] \in bound /\ Drops(a, x))
    BY Zenon, <1>1, <2>1, <2>2 DEF Gone, Drops
  <2>5. QED
    BY Zenon, <1>1, <2>1, <2>3, <2>4, GoneToNs
<1>9. QED
  BY Zenon, <1>4, <1>5, <1>6, <1>7, <1>8

\* What the handlers do to the table: BYE and DEL_CLIENT make n forget, and only
\* NEW_SERVER makes it learn.
LEMMA TableWorker ==
  ASSUME WireInv, NEW n \in Node, NsWorker(n), NEW a \in Addr
  PROVE  /\ Drops(a, Head(nsq[n])) => servers'[n][a] = None
         /\ ~Adds(a, Head(nsq[n])) => servers'[n][a] \in {None, servers[n][a]}
         /\ \A m \in Node \ {n} : servers'[m] = servers[m]
<1> DEFINE p == Head(nsq[n])
<1>1. p \in Pkt /\ InBox(n, p) /\ WorkerSame
  BY Zenon, WorkerTakes DEF WireInv
<1>2. \/ CtrlCmdHello(n, p) \/ CtrlCmdBye(n, p) \/ CtrlCmdDelClient(n, p)
      \/ CtrlCmdNewServer(n, p) \/ CtrlCmdDelServer(n, p)
      \/ CtrlCmdNewLookup(n, p) \/ CtrlCmdDelLookup(n, p)
  BY Zenon DEF NsWorker
<1>3. servers \in [Node -> [Addr -> Service \cup {None}]]
  BY DEF WireInv, TableType
<1> HIDE DEF p
<1>4. CASE CtrlCmdHello(n, p) \/ CtrlCmdNewLookup(n, p) \/ CtrlCmdDelLookup(n, p)
  <2>1. servers' = servers /\ ~Drops(a, p)
    BY Zenon, <1>4 DEF CtrlCmdHello, CtrlCmdNewLookup, CtrlCmdDelLookup, Drops, ns
  <2>2. QED
    BY Zenon, <2>1 DEF p
<1>5. CASE CtrlCmdBye(n, p)
  <2>1. p.cmd = "bye" /\ servers' = [servers EXCEPT ![n] = [c \in Addr |->
          IF c \in {d \in Addr : d[1] = p.from[1] /\ servers[n][d] # None} THEN None
          ELSE servers[n][c]]]
    BY Zenon, <1>5 DEF CtrlCmdBye
  <2>2. servers'[n][a] \in {None, servers[n][a]} /\ (a[1] = p.from[1] => servers'[n][a] = None)
    BY <1>3, <2>1
  <2>3. \A m \in Node \ {n} : servers'[m] = servers[m]
    BY Zenon, <1>3, <2>1
  <2>4. Drops(a, p) => a[1] = p.from[1]
    BY <2>1 DEF Drops
  <2>5. QED
    BY Zenon, <2>2, <2>3, <2>4 DEF p
<1>6. CASE CtrlCmdDelClient(n, p) \/ CtrlCmdDelServer(n, p)
  <2>1. servers' = [servers EXCEPT ![n][p.addr] = None] /\ p.cmd \in {"del_client", "del_server"}
        /\ p.addr \in Addr
    BY <1>1, <1>6 DEF CtrlCmdDelClient, CtrlCmdDelServer, ServerDel, InBox, OfNode
  <2>2. servers'[n][a] \in {None, servers[n][a]} /\ (a = p.addr => servers'[n][a] = None)
    BY <1>3, <2>1
  <2>3. \A m \in Node \ {n} : servers'[m] = servers[m]
    BY <1>3, <2>1
  <2>4. Drops(a, p) => a = p.addr
    BY <2>1 DEF Drops
  <2>5. QED
    BY Zenon, <2>2, <2>3, <2>4 DEF p
<1>7. CASE CtrlCmdNewServer(n, p)
  <2>1. servers' = [servers EXCEPT ![n][p.addr] = p.svc] /\ p.cmd = "new_server" /\ p.addr \in Addr
    BY <1>1, <1>7 DEF CtrlCmdNewServer, ServerAdd, InBox, OfNode
  <2>2. a # p.addr => servers'[n][a] = servers[n][a]
    BY <1>3, <2>1
  <2>3. \A m \in Node \ {n} : servers'[m] = servers[m]
    BY <1>3, <2>1
  <2>4. ~Drops(a, p) /\ (~Adds(a, p) => a # p.addr)
    BY <2>1 DEF Drops, Adds
  <2>5. QED
    BY Zenon, <2>2, <2>3, <2>4 DEF p
<1>8. QED
  BY Zenon, <1>2, <1>4, <1>5, <1>6, <1>7

\* The worker forgets what it is told to forget.
LEMMA GoneWorker ==
  ASSUME WireInv, GoneInv, NEW m \in Node, NsWorker(m)
  PROVE  GoneInv'
<1>1. /\ WorkerSame /\ nsq[m] # <<>> /\ nsq'[m] = Tail(nsq[m])
      /\ \A k \in Node \ {m} : nsq'[k] = nsq[k]
  BY Zenon, WorkerTakes DEF WireInv
<1>2. ASSUME NEW n \in Node, NEW a \in Addr, Gone(n, a)' PROVE Forgets(n, a)'
  <2>1. Gone(n, a)
    BY Zenon, <1>1, <1>2 DEF Gone, WorkerSame
  <2>2. Forgets(n, a)
    BY Zenon, <2>1 DEF GoneInv
  <2>3. CASE n = m
    BY Zenon, <1>1, <2>2, <2>3, TableWorker, ForgetsTail
  <2>4. CASE n # m
    <3>1. nsq'[n] = nsq[n] /\ servers'[n][a] = servers[n][a]
      BY Zenon, <1>1, <2>4, TableWorker
    <3>2. QED
      BY Zenon, <2>2, <3>1, ForgetsSame
  <2>5. QED
    BY <2>3, <2>4
<1>3. QED
  BY Zenon, <1>2 DEF GoneInv

\* Every step keeps it: what is gone is forgotten, now or with the queue.
LEMMA GoneStep ==
  ASSUME NsAssumption, WireInv, LinkInv, GoneInv, [Next]_vars
  PROVE  GoneInv'
<1>1. CASE UNCHANGED vars
  <2>1. UNCHANGED <<nsq, servers, open, nid>>
    BY Zenon, <1>1 DEF vars, endpoint, sockets, ns
  <2>2. \A n \in Node, a \in Addr : Gone(n, a)' => Gone(n, a)
    BY Zenon, <2>1 DEF Gone
  <2>3. QED
    BY Zenon, <2>1, <2>2, GoneFrame
<1>2. CASE Next
  <2>1. ASSUME NEW n \in Node, NsInit(n) PROVE GoneInv'
    <3>1. UNCHANGED <<nsq, servers, open, nid>>
      BY Zenon, <2>1, InitFrame
    <3>2. \A k \in Node, a \in Addr : Gone(k, a)' => Gone(k, a)
      BY Zenon, <3>1 DEF Gone
    <3>3. QED
      BY Zenon, <3>1, <3>2, GoneFrame
  <2>2. QED
    BY Zenon, <1>2, <2>1, GoneEndpoint, GoneReceive, GoneUnregister, GoneSocket, GoneWorker
       DEF Next
<1>3. QED
  BY <1>1, <1>2

\* Nothing is known and nobody is gone at first.
LEMMA GoneInit ==
  ASSUME NsAssumption, Init
  PROVE  LinkInv /\ GoneInv
<1>1. LinkInv
  <2>1. ASSUME NEW l \in Link PROVE chan[Back(l)] = <<>> /\ ~nid[l]
    BY LinkEnds DEF Init
  <2>2. \A n \in Node : nsq[n] = <<>> /\ servers[n] = [a \in Addr |-> None]
    BY Zenon DEF Init
  <2>3. QED
    BY Zenon, <2>1, <2>2 DEF LinkInv
<1>2. ASSUME NEW n \in Node, NEW a \in Addr PROVE Forgets(n, a)
  <2>1. servers[n][a] = None /\ nsq[n] = <<>>
    BY DEF Init
  <2>2. DOMAIN <<>> = {}
    OBVIOUS
  <2>3. QED
    BY Zenon, <2>1, <2>2 DEF Forgets
<1>3. QED
  BY Zenon, <1>1, <1>2 DEF GoneInv

\* When nothing is on its way, no name service knows a server of a node whose
\* endpoint is gone, nor one on a local port that was closed.
THEOREM GoneAreForgotten ==
  ASSUME NoBacklog
  PROVE  Spec => []GoneForgotten
<1> DEFINE Inv == WireInv /\ LinkInv /\ GoneInv
<1>1. Init => Inv
  BY WireInit, GoneInit, NsAssumption
<1>2. Inv /\ [Next]_vars => Inv'
  BY WireStep, LinkStep, GoneStep, NsAssumption
<1>3. Inv => GoneForgotten
  <2>1. ASSUME Inv, Quiet, NEW n \in Node, NEW a \in Addr, servers[n][a] # None
        PROVE  IF a[1] = n THEN a \in open ELSE ep[<<n, a[1]>>]
    <3>1. ~Forgets(n, a)
      <4>1. nsq[n] = <<>> /\ DOMAIN <<>> = {}
        BY <2>1 DEF Quiet
      <4>2. QED
        BY Zenon, <2>1, <4>1 DEF Forgets
    <3>2. ~Gone(n, a)
      BY Zenon, <2>1, <3>1 DEF GoneInv
    <3>3. a[1] # n => <<n, a[1]>> \in Link
      BY DEF Addr, Link
    <3>4. QED
      BY Zenon, <2>1, <3>2, <3>3 DEF Gone, LinkInv
  <2>2. QED
    BY Zenon, <2>1 DEF GoneForgotten
<1>4. QED
  BY <1>1, <1>2, <1>3, PTL DEF Spec


-----------------------------------------------------------------------------
(* The inductive invariant, beside WireInv and LinkInv. *)

\* A server that is not registered has no clients, and the clients are remote.
ClientInv ==
  \A b \in open :
    /\ servers[b[1]][b] = None => clients[b] = {}
    /\ \A a \in clients[b] : a[1] # b[1]

\* A BYE of node m waits at n.
ByeAt(n, m) == \E p \in Range(nsq[n]) : p.cmd = "bye" /\ p.from[1] = m
DelAt(q, a) == \E p \in Range(q) : p.cmd = "del_client" /\ p.addr = a

\* The client a will tell node n when it closes.
WillTell(a, n) ==
  LET k == <<a[1], n>>
  IN ~ep[k] \/ (a \in open /\ state[a] \in {n, "multi"} /\ nid[k] /\ hello_sent[k])

\* A socket has talked to nobody before the name service of its processor starts.
Untalked == \A a \in Addr : a[1] \notin bound => state[a] = None

\* What is bound to remove client a from server b.
Noted(a, b) ==
  LET n == b[1]
      m == a[1]
  IN /\ nid[<<n, m>>] \/ ByeAt(n, m)
     /\ ByeAt(n, m) \/ WillTell(a, n) \/ DelAt(nsq[n], a) \/ DelAt(chan[<<m, n>>], a)

\* Data of a is in queue q, and no DEL_CLIENT of a behind it.
Unclosed(q, a) ==
  \E i \in DOMAIN q : /\ q[i].cmd = "data" /\ q[i].from = a
                      /\ \A j \in DOMAIN q : j > i => ~(q[j].cmd = "del_client" /\ q[j].addr = a)
NotedData(l) ==
  \A a \in Addr : a[1] = l[1] /\ Unclosed(chan[l], a) => WillTell(a, l[2])

GhostInv ==
  /\ \A b \in open : \A a \in clients[b] : Noted(a, b)
  /\ \A l \in Link : NotedData(l)

-----------------------------------------------------------------------------
(* The clients that a server counts. *)

\* Steps that add no client and unregister no server that has one.
LEMMA ClientFrame ==
  ASSUME ClientInv,
         \A b \in open' : /\ b \in open /\ clients'[b] \subseteq clients[b]
                          /\ \/ servers'[b[1]][b] # None
                             \/ servers[b[1]][b] = None
                             \/ clients'[b] = {}
  PROVE  ClientInv'
<1>1. ASSUME NEW b \in open'
      PROVE  /\ servers'[b[1]][b] = None => clients'[b] = {}
             /\ \A a \in clients'[b] : a[1] # b[1]
  BY <1>1 DEF ClientInv
<1>2. QED
  BY Zenon, <1>1 DEF ClientInv

\* What the worker does to the clients of an open server: none is added, and
\* BYE and DEL_CLIENT take away those that they are about.
LEMMA ClientWorker ==
  ASSUME NsAssumption, WireInv, ClientInv, NEW n \in Node, NsWorker(n), NEW b \in open
  PROVE  /\ clients'[b] \subseteq clients[b]
         /\ servers'[b[1]][b] # None \/ servers[b[1]][b] = None \/ clients'[b] = {}
         /\ b[1] = n => \A a \in clients'[b] :
              ~(Head(nsq[n]).cmd = "bye" /\ Head(nsq[n]).from[1] = a[1])
         /\ b[1] = n => \A a \in clients'[b] :
              ~(Head(nsq[n]).cmd = "del_client" /\ Head(nsq[n]).addr = a)
<1> DEFINE p == Head(nsq[n])
<1>1. p \in Pkt /\ InBox(n, p) /\ WorkerSame
  BY Zenon, WorkerTakes DEF WireInv
<1>2. \/ CtrlCmdHello(n, p) \/ CtrlCmdBye(n, p) \/ CtrlCmdDelClient(n, p)
      \/ CtrlCmdNewServer(n, p) \/ CtrlCmdDelServer(n, p)
      \/ CtrlCmdNewLookup(n, p) \/ CtrlCmdDelLookup(n, p)
  BY Zenon DEF NsWorker
<1>3. /\ b \in Addr /\ b[1] \in Node /\ servers \in [Node -> [Addr -> Service \cup {None}]]
      /\ clients \in [Addr -> SUBSET Addr] /\ None \notin Service
  BY DEF WireInv, SockType, TableType, ToldType, Addr, NsAssumption
<1>4. servers[b[1]][b] = None => clients[b] = {}
  BY Zenon DEF ClientInv
<1> HIDE DEF p
<1>5. CASE CtrlCmdHello(n, p) \/ CtrlCmdNewLookup(n, p) \/ CtrlCmdDelLookup(n, p)
  <2>1. servers' = servers /\ clients' = clients /\ p.cmd \notin {"bye", "del_client"}
    BY Zenon, <1>5 DEF CtrlCmdHello, CtrlCmdNewLookup, CtrlCmdDelLookup, ns, told
  <2>2. QED
    BY <2>1 DEF p
<1>6. CASE CtrlCmdBye(n, p)
  <2>1. p.cmd = "bye" /\ servers' = [servers EXCEPT ![n] = [c \in Addr |->
          IF c \in {d \in Addr : d[1] = p.from[1] /\ servers[n][d] # None} THEN None
          ELSE servers[n][c]]]
    BY Zenon, <1>6 DEF CtrlCmdBye
  <2>2. clients' = [d \in Addr |-> IF d \in Local(n)
          THEN {a \in clients[d] : a[1] # p.from[1]} ELSE clients[d]]
    BY Zenon, <1>6 DEF CtrlCmdBye
  <2>3. p.from[1] # n
    BY <1>1, <2>1 DEF InBox
  <2>4. servers'[b[1]][b] = servers[b[1]][b]
    BY <1>3, <2>1, <2>3
  <2>5. b[1] = n /\ servers[n][b] # None => b \in Local(n)
    BY Zenon DEF Local
  <2>6. /\ clients'[b] \subseteq clients[b]
        /\ b[1] = n => \A a \in clients'[b] : p.from[1] # a[1]
    BY <1>3, <1>4, <2>2, <2>5
  <2>7. QED
    BY <2>1, <2>4, <2>6 DEF p
<1>7. CASE CtrlCmdDelClient(n, p)
  <2>1. /\ p.cmd = "del_client" /\ servers' = [servers EXCEPT ![n][p.addr] = None]
        /\ clients' = [d \in Addr |-> IF d \in Local(n) /\ d # p.addr
             THEN clients[d] \ {p.addr} ELSE clients[d]]
    BY Zenon, <1>7 DEF CtrlCmdDelClient, ServerDel
  <2>2. b # p.addr
    BY <1>1, <2>1 DEF InBox, OfNode
  <2>3. servers'[b[1]][b] = servers[b[1]][b]
    BY <1>3, <2>1, <2>2
  <2>4. b[1] = n /\ servers[n][b] # None => b \in Local(n)
    BY Zenon DEF Local
  <2>5. clients'[b] \subseteq clients[b] /\ (b[1] = n => p.addr \notin clients'[b])
    BY <1>3, <1>4, <2>1, <2>2, <2>4
  <2>6. QED
    BY Zenon, <2>1, <2>3, <2>5 DEF p
<1>8. CASE CtrlCmdNewServer(n, p)
  <2>1. /\ p.cmd = "new_server" /\ servers' = [servers EXCEPT ![n][p.addr] = p.svc]
        /\ clients' = clients
    BY Zenon, <1>8 DEF CtrlCmdNewServer, ServerAdd
  <2>2. p.svc \in Service
    BY <1>1, <2>1 DEF InBox, OfNode
  <2>3. servers'[b[1]][b] # None \/ servers[b[1]][b] = None
    BY <1>3, <2>1, <2>2
  <2>4. QED
    BY <2>1, <2>3 DEF p
<1>9. CASE CtrlCmdDelServer(n, p)
  <2>1. /\ p.cmd = "del_server" /\ servers' = [servers EXCEPT ![n][p.addr] = None]
        /\ clients' = IF p.addr[1] = n THEN [clients EXCEPT ![p.addr] = {}] ELSE clients
    BY Zenon, <1>9 DEF CtrlCmdDelServer, ServerDel
  <2>2. clients'[b] \subseteq clients[b]
    BY <1>3, <2>1
  <2>3. servers'[b[1]][b] = servers[b[1]][b] \/ clients'[b] = {}
    BY <1>3, <2>1
  <2>4. QED
    BY <2>1, <2>2, <2>3 DEF p
<1>10. QED
  BY Zenon, <1>2, <1>5, <1>6, <1>7, <1>8, <1>9

\* What qrtr_endpoint_post and qrtr_node_rx_work do with the packet in place i.
Takes(l, i) ==
  /\ \A j \in 1 .. i - 1 : chan[l][j].cmd # "data"
  /\ chan'[l] = TakeOut(chan[l], i) /\ \A k \in Link \ {l} : chan'[k] = chan[k]
  /\ chan[l][i].cmd = "data" =>
       /\ clients' = [clients EXCEPT ![chan[l][i].addr] =
            IF servers[l[2]][chan[l][i].addr] # None THEN @ \cup {chan[l][i].from} ELSE @]
       /\ nsq' = nsq
  /\ chan[l][i].cmd # "data" =>
       clients' = clients /\ ((nsq' = nsq /\ chan[l][i].cmd = "hello") \/ ToNs(l[2], chan[l][i]))

\* A packet is received by an endpoint that knows the id of its node.
LEMMA Received ==
  ASSUME WireInv, LinkInv, NEW l \in Link, Receive(l)
  PROVE  /\ nid[Back(l)]
         /\ UNCHANGED <<bound, ep, nid, hello_sent, open, state, servers>>
         /\ \E i \in DOMAIN chan[l] : Takes(l, i)
<1>0. chan \in [Link -> Seq(Pkt)] /\ Back(l) \in Link /\ Back(Back(l)) = l
  BY LinkEnds DEF WireInv, ChanType
<1>1. PICK i \in DOMAIN chan[l] :
        /\ nid[Back(l)] \/ ~ep[Back(l)]
        /\ \A j \in 1 .. (i - 1) : chan[l][j].cmd # "data"
        /\ chan' = [chan EXCEPT ![l] = TakeOut(@, i)]
        /\ IF chan[l][i].cmd = "data"
             THEN /\ clients' = [clients EXCEPT ![chan[l][i].addr] =
                       IF servers[l[2]][chan[l][i].addr] # None
                         THEN @ \cup {chan[l][i].from} ELSE @]
                  /\ nsq' = nsq
             ELSE /\ IF chan[l][i].cmd = "hello" /\ hello_rcvd[Back(l)]
                       THEN nsq' = nsq ELSE ToNs(l[2], chan[l][i])
                  /\ clients' = clients
  BY Zenon DEF Receive
<1>2. UNCHANGED <<bound, ep, nid, hello_sent, open, state, servers>>
  BY Zenon DEF Receive, started, sockets, ns
<1>3. nid[Back(l)]
  <2>1. chan[l] # <<>>
    <3>1. chan[l] \in Seq(Pkt)
      BY Zenon, <1>0
    <3>2. QED
      BY <3>1
  <2>2. QED
    BY Zenon, <1>0, <1>1, <2>1 DEF LinkInv
<1>4. chan'[l] = TakeOut(chan[l], i) /\ \A k \in Link \ {l} : chan'[k] = chan[k]
  BY Zenon, <1>0, <1>1
<1>5. Takes(l, i)
  BY Zenon, <1>1, <1>4 DEF Takes
<1>6. QED
  BY Zenon, <1>2, <1>3, <1>5

\* Only a registered server gets a client, and from another node.
LEMMA ClientReceive ==
  ASSUME WireInv, LinkInv, ClientInv, NEW l \in Link, Receive(l)
  PROVE  ClientInv'
<1>1. PICK i \in DOMAIN chan[l] : Takes(l, i)
  BY Zenon, Received
<1>2. UNCHANGED <<open, servers>>
  BY Zenon, Received
<1> DEFINE p == chan[l][i]
<1>3. OnWire(l, p) /\ l[1] # l[2]
  BY Zenon, LinkEnds DEF WireInv, Wires, Range
<1>4. clients \in [Addr -> SUBSET Addr]
  BY DEF WireInv, ToldType
<1>5. CASE p.cmd = "data"
  <2>1. p.addr \in Addr /\ p.from[1] = l[1] /\ p.addr[1] = l[2]
    BY <1>3, <1>5 DEF OnWire
  <2>2. clients' = [clients EXCEPT ![p.addr] =
          IF servers[l[2]][p.addr] # None THEN @ \cup {p.from} ELSE @]
    BY Zenon, <1>1, <1>5 DEF Takes
  <2> HIDE DEF p
  <2>3. ASSUME NEW b \in open
        PROVE  /\ servers[b[1]][b] = None => clients'[b] = {}
               /\ \A a \in clients'[b] : a[1] # b[1]
    <3>1. /\ servers[b[1]][b] = None => clients[b] = {}
          /\ \A a \in clients[b] : a[1] # b[1]
      BY Zenon DEF ClientInv
    <3>2. b \in Addr
      BY DEF WireInv, SockType
    <3>3. CASE b # p.addr
      BY <1>4, <2>1, <2>2, <3>1, <3>2, <3>3
    <3>4. CASE b = p.addr
      BY <1>3, <1>4, <2>1, <2>2, <3>1, <3>2, <3>4
    <3>5. QED
      BY <3>3, <3>4
  <2>4. QED
    BY Zenon, <1>2, <2>3 DEF ClientInv
<1>6. CASE p.cmd # "data"
  <2>1. clients' = clients
    BY Zenon, <1>1, <1>6 DEF Takes
  <2>2. QED
    BY Zenon, <1>2, <2>1 DEF ClientInv
<1>7. QED
  BY <1>5, <1>6

\* What a socket's operations do to the servers and clients.
LEMMA SocketFrame ==
  ASSUME NsAssumption, WireInv, NEW c \in Addr,
         \/ \E s \in Service : Offer(c, s)
         \/ \E s \in Service \cup {AnySvc} : LookUp(c, s) \/ EndLookUp(c, s)
         \/ \E b \in Servers : Talk(c, b)
         \/ Withdraw(c) \/ Close(c)
  PROVE  /\ UNCHANGED <<bound, ep, nid, hello_sent, servers>> /\ c[1] \in bound
         /\ ~Close(c) => UNCHANGED <<open, clients>>
         /\ open' \subseteq open /\ \A b \in open' : clients'[b] = clients[b]
<1>1. \E who : Operation(c, who)
  BY Zenon DEF Offer, LookUp, EndLookUp, Talk, Withdraw, Close
<1>2. UNCHANGED <<bound, ep, nid, hello_sent, servers>> /\ c[1] \in bound
  BY Zenon, <1>1, OperationFrame
<1>3. ~Close(c) => UNCHANGED <<open, clients>>
  BY Zenon DEF Offer, LookUp, EndLookUp, Talk, Withdraw, sockets, told
<1>4. ASSUME Close(c) PROVE open' \subseteq open /\ \A b \in open' : clients'[b] = clients[b]
  <2>1. open' = open \ {c} /\ clients' = [clients EXCEPT ![c] = {}]
    BY Zenon, <1>4 DEF Close
  <2>2. clients \in [Addr -> SUBSET Addr] /\ open \subseteq Addr
    BY DEF WireInv, ToldType, SockType
  <2>3. QED
    BY <2>1, <2>2
<1>5. QED
  BY Zenon, <1>2, <1>3, <1>4

\* What the steps of the endpoints other than Receive leave alone.
LEMMA EndpointFrame ==
  ASSUME \/ \E l \in Link : Register(l) \/ Unregister(l) \/ HelloWork(l) \/ NodeAssign(l)
         \/ \E n \in Node : NsInit(n)
  PROVE  UNCHANGED <<open, state, servers, clients>>
  BY Zenon, InitFrame DEF Register, Unregister, HelloWork, NodeAssign, sockets, ns, told

\* Every step keeps ClientInv.
LEMMA ClientStep ==
  ASSUME NsAssumption, WireInv, LinkInv, ClientInv, [Next]_vars
  PROVE  ClientInv'
<1>1. ASSUME UNCHANGED <<open, servers, clients>> PROVE ClientInv'
  BY Zenon, <1>1 DEF ClientInv
<1>2. CASE UNCHANGED vars
  BY Zenon, <1>1, <1>2 DEF vars, sockets, ns, told
<1>3. CASE Next
  <2>1. ASSUME NEW n \in Node, NsWorker(n) PROVE ClientInv'
    <3>1. open' = open
      BY Zenon, <2>1, WorkerTakes DEF WireInv, WorkerSame
    <3>2. QED
      BY Zenon, <2>1, <3>1, ClientWorker, ClientFrame
  <2>2. ASSUME NEW c \in Addr,
               \/ \E s \in Service : Offer(c, s)
               \/ \E s \in Service \cup {AnySvc} : LookUp(c, s) \/ EndLookUp(c, s)
               \/ \E b \in Servers : Talk(c, b)
               \/ Withdraw(c) \/ Close(c)
        PROVE  ClientInv'
    <3>1. /\ servers' = servers /\ open' \subseteq open
          /\ \A b \in open' : clients'[b] = clients[b]
      BY Zenon, <2>2, SocketFrame
    <3>2. QED
      BY Zenon, <3>1, ClientFrame
  <2>3. ASSUME \/ \E l \in Link : Register(l) \/ Unregister(l) \/ HelloWork(l) \/ NodeAssign(l)
               \/ \E n \in Node : NsInit(n)
        PROVE  ClientInv'
    BY Zenon, <1>1, <2>3, EndpointFrame
  <2>4. QED
    BY Zenon, <1>3, <2>1, <2>2, <2>3, ClientReceive DEF Next
<1>4. QED
  BY <1>2, <1>3

-----------------------------------------------------------------------------
(* Clients that are closed or cut off. *)

\* What was in the queue is the head or behind it.
LEMMA HeadOrTail ==
  ASSUME NEW S, NEW q \in Seq(S), q # <<>>, NEW x \in Range(q)
  PROVE  x = Head(q) \/ x \in Range(Tail(q))
<1>1. /\ Tail(q) \in Seq(S) /\ Len(q) \in Nat \ {0} /\ DOMAIN q = 1 .. Len(q)
      /\ Len(Tail(q)) = Len(q) - 1 /\ Head(q) = q[1]
      /\ \A i \in 1 .. Len(Tail(q)) : Tail(q)[i] = q[i + 1]
      /\ DOMAIN Tail(q) = 1 .. Len(Tail(q))
  OBVIOUS
<1>2. PICK i \in DOMAIN q : x = q[i]
  BY Zenon DEF Range
<1>3. CASE i = 1
  BY <1>1, <1>2, <1>3
<1>4. CASE i # 1
  <2>1. i - 1 \in 1 .. Len(Tail(q)) /\ (i - 1) + 1 = i
    BY <1>1, <1>4
  <2>2. Tail(q)[i - 1] = x
    BY <1>1, <1>2, <2>1
  <2>3. QED
    BY Zenon, <1>1, <2>1, <2>2 DEF Range
<1>5. QED
  BY <1>3, <1>4

\* What was in the queue is what was taken out of it, or still there.
LEMMA OutOrIn ==
  ASSUME NEW S, NEW q \in Seq(S), NEW i \in DOMAIN q, NEW j \in DOMAIN q, j # i
  PROVE  q[j] \in Range(TakeOut(q, i))
<1>1. /\ Len(q) \in Nat /\ DOMAIN q = 1 .. Len(q) /\ Len(TakeOut(q, i)) = Len(q) - 1
      /\ DOMAIN TakeOut(q, i) = 1 .. Len(TakeOut(q, i))
  BY Removed
<1>2. \A m \in 1 .. Len(q) - 1 : TakeOut(q, i)[m] = IF m < i THEN q[m] ELSE q[m + 1]
  BY Removed
<1>3. CASE j < i
  <2>1. j \in 1 .. Len(q) - 1 /\ TakeOut(q, i)[j] = q[j]
    BY <1>1, <1>2, <1>3
  <2>2. QED
    BY Zenon, <1>1, <2>1 DEF Range
<1>4. CASE j > i
  <2>1. j - 1 \in 1 .. Len(q) - 1 /\ ~(j - 1 < i) /\ (j - 1) + 1 = j
    BY <1>1, <1>4
  <2>2. TakeOut(q, i)[j - 1] = q[j]
    BY <1>2, <2>1
  <2>3. QED
    BY Zenon, <1>1, <2>1, <2>2 DEF Range
<1>5. QED
  BY <1>1, <1>3, <1>4

\* Data is unclosed in a longer queue only if it is in one of the parts.
LEMMA UnclosedJoin ==
  ASSUME NEW S, NEW q \in Seq(S), NEW r \in Seq(S), NEW a, Unclosed(q \o r, a)
  PROVE  \/ \E x \in Range(r) : x.cmd = "data" /\ x.from = a
         \/ Unclosed(q, a) /\ ~DelAt(r, a)
<1>1. /\ q \o r \in Seq(S) /\ Len(q \o r) = Len(q) + Len(r)
      /\ \A j \in 1 .. Len(q) + Len(r) :
           (q \o r)[j] = IF j <= Len(q) THEN q[j] ELSE r[j - Len(q)]
      /\ Len(q) \in Nat /\ Len(r) \in Nat /\ DOMAIN (q \o r) = 1 .. Len(q) + Len(r)
      /\ DOMAIN q = 1 .. Len(q) /\ DOMAIN r = 1 .. Len(r)
  OBVIOUS
<1> DEFINE Del(x) == x.cmd = "del_client" /\ x.addr = a
           Dat(x) == x.cmd = "data" /\ x.from = a
           w == q \o r
<1>2. PICK i \in DOMAIN w : Dat(w[i]) /\ \A j \in DOMAIN w : j > i => ~Del(w[j])
  BY Zenon DEF Unclosed
<1> HIDE DEF Del, Dat, w
<1>3. \A j \in DOMAIN q : j \in DOMAIN w /\ w[j] = q[j]
  BY <1>1 DEF w
<1>4. \A j \in DOMAIN r : j + Len(q) \in DOMAIN w /\ w[j + Len(q)] = r[j] /\ j + Len(q) > Len(q)
  <2>1. ASSUME NEW j \in DOMAIN r
        PROVE  j + Len(q) \in DOMAIN w /\ w[j + Len(q)] = r[j] /\ j + Len(q) > Len(q)
    <3>1. j + Len(q) \in 1 .. Len(q) + Len(r) /\ ~(j + Len(q) <= Len(q))
          /\ (j + Len(q)) - Len(q) = j
      BY <1>1
    <3>2. QED
      BY <1>1, <3>1 DEF w
  <2>2. QED
    BY Zenon, <2>1
<1>5. CASE i <= Len(q)
  <2>1. i \in DOMAIN q /\ w[i] = q[i]
    BY <1>1, <1>3, <1>5 DEF w
  <2>2. \A j \in DOMAIN q : j > i => ~Del(q[j])
    BY Zenon, <1>2, <1>3
  <2>3. \A j \in DOMAIN r : ~Del(r[j])
    <3>1. ASSUME NEW j \in DOMAIN r PROVE ~Del(r[j])
      <4>1. j + Len(q) > i
        BY <1>1, <1>5, <2>1
      <4>2. QED
        BY Zenon, <1>2, <1>4, <4>1
    <3>2. QED
      BY Zenon, <3>1
  <2>4. Unclosed(q, a)
    BY Zenon, <1>2, <2>1, <2>2 DEF Unclosed, Del, Dat
  <2>5. ~DelAt(r, a)
    BY Zenon, <2>3 DEF DelAt, Range, Del
  <2>6. QED
    BY <2>4, <2>5
<1>6. CASE ~(i <= Len(q))
  <2>1. i - Len(q) \in DOMAIN r /\ w[i] = r[i - Len(q)]
    BY <1>1, <1>6 DEF w
  <2>2. w[i] \in Range(r)
    BY Zenon, <2>1 DEF Range
  <2>3. QED
    BY Zenon, <1>2, <2>2 DEF Dat
<1>7. QED
  BY <1>5, <1>6

\* Taking a packet that no data is before leaves unclosed only what was so.
LEMMA UnclosedTake ==
  ASSUME NEW S, NEW q \in Seq(S), NEW i \in DOMAIN q, NEW a,
         \A j \in 1 .. i - 1 : q[j].cmd # "data", Unclosed(TakeOut(q, i), a)
  PROVE  Unclosed(q, a)
<1> DEFINE Del(x) == x.cmd = "del_client" /\ x.addr = a
           Dat(x) == x.cmd = "data" /\ x.from = a
           w == TakeOut(q, i)
<1>1. PICK m \in DOMAIN w : Dat(w[m]) /\ \A j \in DOMAIN w : j > m => ~Del(w[j])
  BY Zenon DEF Unclosed
<1>2. \A j \in 1 .. i - 1 : ~Dat(q[j])
  BY Zenon
<1>3. /\ Len(q) \in Nat /\ DOMAIN q = 1 .. Len(q) /\ Len(w) = Len(q) - 1
      /\ DOMAIN w = 1 .. Len(w)
      /\ \A j \in 1 .. Len(q) - 1 : w[j] = IF j < i THEN q[j] ELSE q[j + 1]
  BY Removed
<1> HIDE DEF Del, Dat, w
<1>4. ~(m < i)
  BY <1>1, <1>2, <1>3
<1>5. m + 1 \in DOMAIN q /\ w[m] = q[m + 1]
  BY <1>1, <1>3, <1>4
<1>6. ASSUME NEW j \in DOMAIN q, j > m + 1 PROVE ~Del(q[j])
  <2>1. j - 1 \in DOMAIN w /\ j - 1 > m /\ ~(j - 1 < i) /\ (j - 1) + 1 = j
    BY <1>1, <1>3, <1>4, <1>6
  <2>2. w[j - 1] = q[j]
    BY <1>3, <2>1
  <2>3. QED
    BY Zenon, <1>1, <2>1, <2>2
<1>7. QED
  BY Zenon, <1>1, <1>5, <1>6 DEF Unclosed, Del, Dat

\* A client that would tell a node still would, as long as its socket, its node's
\* handshake and what it noted stay.
LEMMA TellsKept ==
  ASSUME open' = open, ep' = ep, \A l \in Link : nid[l] => nid'[l],
         \A l \in Link : ep[l] /\ hello_sent[l] => hello_sent'[l],
         \A a \in Addr, n \in Node : state[a] \in {n, "multi"} => state'[a] \in {n, "multi"}
  PROVE  \A a \in Addr, n \in Node : a[1] # n /\ WillTell(a, n) => WillTell(a, n)'
<1>1. ASSUME NEW a \in Addr, NEW n \in Node, a[1] # n, WillTell(a, n) PROVE WillTell(a, n)'
  <2>1. <<a[1], n>> \in Link
    BY <1>1 DEF Addr, Link
  <2>2. QED
    BY Zenon, <1>1, <2>1 DEF WillTell
<1>2. QED
  BY Zenon, <1>1

\* Link l gets no data, or only of clients that would tell.
Grows(l) ==
  \E r \in Seq(Pkt) : /\ chan'[l] = chan[l] \o r
                      /\ \A x \in Range(r) : x.cmd = "data" => WillTell(x.from, l[2])'

\* The clients of open servers are addresses of other nodes.
LEMMA ClientEnds ==
  ASSUME WireInv, ClientInv, NEW b \in open, NEW a \in clients[b]
  PROVE  /\ a \in Addr /\ b \in Addr /\ a[1] \in Node /\ b[1] \in Node /\ a[1] # b[1]
         /\ <<b[1], a[1]>> \in Link /\ <<a[1], b[1]>> \in Link
         /\ Back(<<b[1], a[1]>>) = <<a[1], b[1]>> /\ Back(<<a[1], b[1]>>) = <<b[1], a[1]>>
<1>1. b \in Addr /\ clients \in [Addr -> SUBSET Addr]
  BY DEF WireInv, SockType, ToldType
<1>2. a \in Addr /\ a[1] # b[1]
  BY <1>1 DEF ClientInv
<1>3. QED
  BY <1>1, <1>2 DEF Addr, Link, Back

\* The data on a link that grows.
LEMMA DataGrows ==
  ASSUME WireInv, GhostInv, NEW l \in Link, Grows(l),
         \A a \in Addr, n \in Node : a[1] # n /\ WillTell(a, n) => WillTell(a, n)'
  PROVE  NotedData(l)' /\ Range(chan[l]) \subseteq Range(chan'[l])
<1>1. PICK r \in Seq(Pkt) : /\ chan'[l] = chan[l] \o r
                            /\ \A x \in Range(r) : x.cmd = "data" => WillTell(x.from, l[2])'
  BY Zenon DEF Grows
<1>2. chan[l] \in Seq(Pkt) /\ l[1] # l[2] /\ l[2] \in Node
  BY LinkEnds DEF WireInv, ChanType
<1>3. Range(chan[l]) \subseteq Range(chan'[l])
  <2>1. Range(chan[l] \o r) = Range(chan[l]) \cup Range(r)
    BY <1>2, Joined
  <2>2. QED
    BY Zenon, <1>1, <2>1
<1>4. ASSUME NEW a \in Addr, a[1] = l[1], Unclosed(chan'[l], a) PROVE WillTell(a, l[2])'
  <2>1. \/ \E x \in Range(r) : x.cmd = "data" /\ x.from = a
        \/ Unclosed(chan[l], a)
    BY Zenon, <1>1, <1>2, <1>4, UnclosedJoin
  <2>2. CASE \E x \in Range(r) : x.cmd = "data" /\ x.from = a
    BY Zenon, <1>1, <2>2
  <2>3. CASE Unclosed(chan[l], a)
    BY Zenon, <1>2, <1>4, <2>3 DEF GhostInv, NotedData
  <2>4. QED
    BY <2>1, <2>2, <2>3
<1>5. QED
  BY Zenon, <1>3, <1>4 DEF NotedData

\* Steps that only add to the links, and take from no queue what would remove a
\* client.
LEMMA GhostFrame ==
  ASSUME WireInv, ClientInv, GhostInv, \A l \in Link : Grows(l),
         open' \subseteq open, \A b \in open' : clients'[b] \subseteq clients[b],
         \A l \in Link : nid[l] => nid'[l],
         \A a \in Addr, n \in Node : a[1] # n /\ WillTell(a, n) => WillTell(a, n)',
         \A b \in open' : \A a \in clients'[b] : \A x \in Range(nsq[b[1]]) :
           \/ x \in Range(nsq'[b[1]])
           \/ ~(x.cmd = "bye" /\ x.from[1] = a[1]) /\ ~(x.cmd = "del_client" /\ x.addr = a)
  PROVE  GhostInv'
<1>1. \A l \in Link : NotedData(l)' /\ Range(chan[l]) \subseteq Range(chan'[l])
  BY Zenon, DataGrows
<1>2. ASSUME NEW b \in open', NEW a \in clients'[b] PROVE Noted(a, b)'
  <2>1. b \in open /\ a \in clients[b]
    BY Zenon
  <2>2. /\ a \in Addr /\ b \in Addr /\ b[1] \in Node /\ a[1] # b[1]
        /\ <<b[1], a[1]>> \in Link /\ <<a[1], b[1]>> \in Link
    BY Zenon, <2>1, ClientEnds
  <2>3. Noted(a, b)
    BY Zenon, <2>1 DEF GhostInv
  <2>4. ByeAt(b[1], a[1]) => ByeAt(b[1], a[1])'
    BY Zenon DEF ByeAt
  <2>5. DelAt(nsq[b[1]], a) => DelAt(nsq[b[1]], a)'
    BY Zenon DEF DelAt
  <2>6. DelAt(chan[<<a[1], b[1]>>], a) => DelAt(chan[<<a[1], b[1]>>], a)'
    BY Zenon, <1>1, <2>2 DEF DelAt
  <2>7. WillTell(a, b[1]) => WillTell(a, b[1])'
    BY Zenon, <2>2
  <2>8. nid[<<b[1], a[1]>>] => nid'[<<b[1], a[1]>>]
    BY Zenon, <2>2
  <2>9. QED
    BY Zenon, <2>3, <2>4, <2>5, <2>6, <2>7, <2>8 DEF Noted
<1>3. QED
  BY Zenon, <1>1, <1>2 DEF GhostInv

\* A link that nothing is put on, and one that a packet is put on.
LEMMA GrowsBy ==
  ASSUME WireInv, NEW l \in Link, NEW x \in Pkt,
         \/ chan'[l] = chan[l]
         \/ chan'[l] = Append(chan[l], x) /\ (x.cmd = "data" => WillTell(x.from, l[2])')
  PROVE  Grows(l)
<1>1. chan[l] \in Seq(Pkt)
  BY DEF WireInv, ChanType
<1>2. CASE chan'[l] = chan[l]
  <2>1. <<>> \in Seq(Pkt) /\ chan[l] = chan[l] \o <<>> /\ Range(<<>>) = {}
    BY <1>1 DEF Range
  <2>2. QED
    BY Zenon, <1>2, <2>1 DEF Grows
<1>3. CASE chan'[l] = Append(chan[l], x) /\ (x.cmd = "data" => WillTell(x.from, l[2])')
  <2>1. <<x>> \in Seq(Pkt) /\ Append(chan[l], x) = chan[l] \o <<x>> /\ Range(<<x>>) = {x}
    BY <1>1 DEF Range
  <2>2. \A y \in Range(<<x>>) : y.cmd = "data" => WillTell(y.from, l[2])'
    BY Zenon, <1>3, <2>1
  <2>3. QED
    BY Zenon, <1>3, <2>1, <2>2 DEF Grows
<1>4. QED
  BY <1>2, <1>3

\* A send of a control packet.
LEMMA GrowsEnqueue ==
  ASSUME WireInv, NEW ls, NEW x \in Pkt, x.cmd # "data", Enqueue(ls, x)
  PROVE  \A l \in Link : Grows(l)
<1>1. ASSUME NEW l \in Link PROVE Grows(l)
  <2>1. chan'[l] = chan[l] \/ chan'[l] = Append(chan[l], x)
    BY Zenon DEF Enqueue
  <2>2. QED
    BY Zenon, <2>1, GrowsBy
<1>2. QED
  BY Zenon, <1>1

\* A local send only adds to the queues of the name services.
LEMMA ToNsAdds ==
  ASSUME WireInv, NEW n \in Node, NEW x \in Pkt, ToNs(n, x)
  PROVE  /\ \A k \in Node : Range(nsq[k]) \subseteq Range(nsq'[k])
         /\ n \in bound => x \in Range(nsq'[n])
<1>1. nsq \in [Node -> Seq(Pkt)] /\ nsq[n] \in Seq(Pkt)
  BY DEF WireInv, BoxType
<1>2. /\ \A k \in Node : nsq'[k] = nsq[k] \/ (k = n /\ nsq'[n] = Append(nsq[n], x))
      /\ n \in bound => nsq'[n] = Append(nsq[n], x)
  BY Zenon, <1>1 DEF ToNs
<1>3. Range(Append(nsq[n], x)) = Range(nsq[n]) \cup {x}
  BY <1>1, Appended
<1>4. QED
  BY Zenon, <1>2, <1>3

\* Every step keeps it: a socket is used once the name service is there.
LEMMA UntalkedStep ==
  ASSUME NsAssumption, WireInv, LinkInv, Untalked, [Next]_vars
  PROVE  Untalked'
<1>1. ASSUME bound \subseteq bound', state' = state PROVE Untalked'
  BY Zenon, <1>1 DEF Untalked
<1>2. CASE UNCHANGED vars
  BY Zenon, <1>1, <1>2 DEF vars, started, sockets
<1>3. CASE Next
  <2>1. ASSUME NEW n \in Node, NsWorker(n) \/ NsInit(n) PROVE Untalked'
    BY Zenon, <1>1, <2>1, InitFrame, WorkerTakes DEF WireInv, WorkerSame
  <2>2. ASSUME NEW l \in Link,
               Register(l) \/ Unregister(l) \/ HelloWork(l) \/ NodeAssign(l) \/ Receive(l)
        PROVE  Untalked'
    <3>1. UNCHANGED <<bound, state>>
      BY Zenon, <2>2 DEF Register, Unregister, HelloWork, NodeAssign, Receive, started, sockets
    <3>2. QED
      BY Zenon, <1>1, <3>1
  <2>3. ASSUME NEW c \in Addr,
               \/ \E s \in Service : Offer(c, s)
               \/ \E s \in Service \cup {AnySvc} : LookUp(c, s) \/ EndLookUp(c, s)
               \/ \E b \in Servers : Talk(c, b)
               \/ Withdraw(c) \/ Close(c)
        PROVE  Untalked'
    <3>1. bound' = bound /\ c[1] \in bound
      BY Zenon, <2>3, SocketFrame
    <3>2. state' = state \/ \E v : state' = [state EXCEPT ![c] = v]
      BY Zenon, <2>3 DEF Offer, LookUp, EndLookUp, Talk, Withdraw, Close, sockets
    <3>3. QED
      BY Zenon, <3>1, <3>2 DEF Untalked, WireInv, SockType
  <2>4. QED
    BY Zenon, <1>3, <2>1, <2>2, <2>3 DEF Next
<1>4. QED
  BY <1>2, <1>3

\* The bind of a name service resets the handshake of its nodes, over which no
\* socket has talked yet.
LEMMA TellsBind ==
  ASSUME NsAssumption, WireInv, Untalked, NEW n \in Node, NsInit(n)
  PROVE  \A a \in Addr, k \in Node : a[1] # k /\ WillTell(a, k) => WillTell(a, k)'
<1>1. ASSUME NEW a \in Addr, NEW k \in Node, a[1] # k, WillTell(a, k) PROVE WillTell(a, k)'
  <2>1. <<a[1], k>> \in Link /\ <<a[1], k>>[1] = a[1]
    BY <1>1 DEF Addr, Link
  <2>2. UNCHANGED <<ep, nid, open, state>>
    BY Zenon, InitFrame
  <2>3. CASE NsBind(n)
    <3>1. a[1] = n => state[a] \notin {k, "multi"}
      BY Zenon, <2>3 DEF NsBind, Untalked, NsAssumption
    <3>2. a[1] # n => (hello_sent[<<a[1], k>>] => hello_sent'[<<a[1], k>>])
      BY Zenon, <2>1, <2>3 DEF NsBind
    <3>3. QED
      BY Zenon, <1>1, <2>2, <3>1, <3>2 DEF WillTell
  <2>4. CASE NsAddress(n) \/ NsHello(n)
    <3>1. hello_sent[<<a[1], k>>] => hello_sent'[<<a[1], k>>]
      BY Zenon, <2>1, <2>4 DEF NsAddress, NsHello, endpoint
    <3>2. QED
      BY Zenon, <1>1, <2>2, <3>1 DEF WillTell
  <2>5. QED
    BY Zenon, <2>3, <2>4 DEF NsInit
<1>2. QED
  BY Zenon, <1>1

\* The handshake of an endpoint, and the start of a name service.
LEMMA GhostHello ==
  ASSUME NsAssumption, WireInv, ClientInv, GhostInv, Untalked,
         \/ \E l \in Link : HelloWork(l) \/ NodeAssign(l)
         \/ \E n \in Node : NsInit(n)
  PROVE  GhostInv'
<1>1. UNCHANGED <<open, state, clients, ep, nsq>>
  BY Zenon, EndpointFrame, InitFrame DEF HelloWork, NodeAssign
<1>2. /\ nid \in [Link -> BOOLEAN] /\ hello_sent \in [Link -> BOOLEAN]
      /\ ep \in [Link -> BOOLEAN]
  BY DEF WireInv, EpType
<1>3. ASSUME \A l \in Link : nid[l] => nid'[l],
             \A l \in Link : ep[l] /\ hello_sent[l] => hello_sent'[l],
             \A l \in Link : Grows(l)
      PROVE  GhostInv'
  <2>1. \A a \in Addr, n \in Node : a[1] # n /\ WillTell(a, n) => WillTell(a, n)'
    BY Zenon, <1>1, <1>3, TellsKept
  <2>2. QED
    BY Zenon, <1>1, <1>3, <2>1, GhostFrame
<1>4. ASSUME NEW l \in Link, HelloWork(l) PROVE GhostInv'
  <2>1. nid' = nid /\ \A k \in Link : hello_sent[k] => hello_sent'[k]
    BY <1>2, <1>4 DEF HelloWork
  <2>2. Hello(l[1]) \in Pkt /\ Hello(l[1]).cmd # "data"
    BY LinkEnds, PacketTypes DEF Hello, Packet
  <2>3. chan' = chan \/ Enqueue({l}, Hello(l[1]))
    BY Zenon, <1>4 DEF HelloWork
  <2>4. \A k \in Link : Grows(k)
    BY Zenon, <2>2, <2>3, GrowsBy, GrowsEnqueue
  <2>5. QED
    BY Zenon, <1>3, <2>1, <2>4
<1>5. ASSUME NEW l \in Link, NodeAssign(l) PROVE GhostInv'
  <2>1. hello_sent' = hello_sent /\ chan' = chan /\ \A k \in Link : nid[k] => nid'[k]
    BY <1>2, <1>5 DEF NodeAssign
  <2>2. Hello(l[1]) \in Pkt
    BY LinkEnds, PacketTypes
  <2>3. \A k \in Link : Grows(k)
    BY Zenon, <2>1, <2>2, GrowsBy
  <2>4. QED
    BY Zenon, <1>3, <2>1, <2>3
<1>6. ASSUME NEW n \in Node, NsInit(n) PROVE GhostInv'
  <2>1. nid' = nid /\ \A a \in Addr, k \in Node : a[1] # k /\ WillTell(a, k) => WillTell(a, k)'
    BY Zenon, <1>6, InitFrame, TellsBind
  <2>2. Hello(n) \in Pkt /\ Hello(n).cmd # "data"
    BY PacketTypes DEF Hello, Packet
  <2>3. chan' = chan \/ Enqueue({l \in Link : l[1] = n}, Hello(n))
    BY Zenon, <1>6, InitFrame
  <2>4. \A k \in Link : Grows(k)
    BY Zenon, <2>2, <2>3, GrowsBy, GrowsEnqueue
  <2>5. QED
    BY Zenon, <1>1, <2>1, <2>4, GhostFrame
<1>7. QED
  BY Zenon, <1>4, <1>5, <1>6

\* The requests of a socket to its name service, and its data.
LEMMA GhostSocket ==
  ASSUME NsAssumption, WireInv, ClientInv, GhostInv, NEW c \in Addr,
         \/ \E s \in Service : Offer(c, s)
         \/ \E s \in Service \cup {AnySvc} : LookUp(c, s) \/ EndLookUp(c, s)
         \/ \E b \in Servers : Talk(c, b)
         \/ Withdraw(c),
         ~Close(c)
  PROVE  GhostInv'
<1>1. UNCHANGED <<bound, ep, nid, hello_sent, open, clients>>
  BY Zenon, SocketFrame
<1>2. c[1] \in Node /\ state \in [Addr -> Node \cup {None, "multi"}]
  BY DEF WireInv, SockType, Addr
<1>3. ASSUME \A a \in Addr, n \in Node : state[a] \in {n, "multi"} => state'[a] \in {n, "multi"}
      PROVE  \A a \in Addr, n \in Node : a[1] # n /\ WillTell(a, n) => WillTell(a, n)'
  BY Zenon, <1>1, <1>3, TellsKept
<1>4. ASSUME NEW x \in Pkt, ToNs(c[1], x), chan' = chan,
             state' = state \/ state' = [state EXCEPT ![c] = "multi"]
      PROVE  GhostInv'
  <2>1. \A a \in Addr, n \in Node : state[a] \in {n, "multi"} => state'[a] \in {n, "multi"}
    BY <1>2, <1>4
  <2>2. \A n \in Node : Range(nsq[n]) \subseteq Range(nsq'[n])
    BY Zenon, <1>2, <1>4, ToNsAdds
  <2>3. \A l \in Link : Grows(l)
    BY Zenon, <1>4, GrowsBy
  <2>4. open \subseteq Addr /\ \A b \in Addr : b[1] \in Node
    BY DEF WireInv, SockType, Addr
  <2>5. QED
    BY Zenon, <1>1, <1>3, <2>1, <2>2, <2>3, <2>4, GhostFrame
<1>5. ASSUME NEW s \in Service, Offer(c, s) PROVE GhostInv'
  BY Zenon, <1>4, <1>5, PacketTypes DEF Offer
<1>6. ASSUME NEW s \in Service \cup {AnySvc}, LookUp(c, s) \/ EndLookUp(c, s) PROVE GhostInv'
  <2>1. PICK d \in {"new_lookup", "del_lookup"} : ToNs(c[1], Packet(d, c, c, s))
    BY Zenon, <1>6 DEF LookUp, EndLookUp
  <2>2. Packet(d, c, c, s) \in Pkt /\ chan' = chan /\ state' = state
    BY Zenon, <1>6, PacketTypes DEF LookUp, EndLookUp, sockets
  <2>3. QED
    BY Zenon, <1>4, <2>1, <2>2
<1>7. ASSUME Withdraw(c) PROVE GhostInv'
  BY Zenon, <1>4, <1>7, PacketTypes DEF Withdraw, sockets
<1>8. ASSUME NEW b \in Servers, Talk(c, b) PROVE GhostInv'
  <2> DEFINE k == <<c[1], b[1]>>
             x == Data(c, b)
  <2>1. /\ nid[k] /\ Enqueue({k}, x) /\ nsq' = nsq /\ c[1] # b[1]
        /\ state' = [state EXCEPT ![c] = IF @ \in {None, b[1]} THEN b[1] ELSE "multi"]
    BY Zenon, <1>8 DEF Talk
  <2>2. b \in Addr /\ b[1] \in Node /\ c \in open
    BY Zenon, <1>8 DEF NsAssumption, Addr, Talk, Operation
  <2>3. x \in Pkt /\ x.from = c
    BY Zenon, <2>2, PacketTypes DEF Data, Packet
  <2>4. \A a \in Addr, n \in Node : state[a] \in {n, "multi"} => state'[a] \in {n, "multi"}
    BY Zenon, <1>2, <2>1, <2>2 DEF NsAssumption
  <2>5. state'[c] \in {b[1], "multi"}
    BY Zenon, <1>2, <2>1
  <2> HIDE DEF x
  <2>6. ASSUME NEW l \in Link PROVE Grows(l)
    <3>1. \/ chan'[l] = chan[l]
          \/ l = k /\ chan'[l] = Append(chan[l], x) /\ hello_sent[l]
      <4>1. x.cmd # "hello"
        BY DEF x, Data, Packet
      <4>2. QED
        BY Zenon, <2>1, <4>1 DEF Enqueue, Passes
    <3>2. CASE chan'[l] = chan[l]
      BY Zenon, <2>3, <3>2, GrowsBy
    <3>3. CASE l = k /\ chan'[l] = Append(chan[l], x) /\ hello_sent[l]
      <4>1. l = <<c[1], b[1]>> /\ l[2] = b[1]
        BY <3>3
      <4>2. WillTell(c, b[1])'
        BY Zenon, <1>1, <2>1, <2>2, <2>5, <3>3, <4>1 DEF WillTell
      <4>3. QED
        BY Zenon, <2>3, <3>3, <4>1, <4>2, GrowsBy
    <3>4. QED
      BY <3>1, <3>2, <3>3
  <2>7. QED
    BY Zenon, <1>1, <1>3, <2>1, <2>4, <2>6, GhostFrame
<1>9. QED
  BY Zenon, <1>5, <1>6, <1>7, <1>8

\* The worker sends no data.
LEMMA GrowsWorker ==
  ASSUME NsAssumption, WireInv, NEW n \in Node, NsWorker(n)
  PROVE  (\A l \in Link : Grows(l)) /\ \A l \in Link : hello_sent[l] => hello_sent'[l]
<1> DEFINE p == Head(nsq[n])
<1>1. p \in Pkt /\ InBox(n, p)
  BY Zenon, WorkerTakes DEF WireInv
<1>2. \/ CtrlCmdHello(n, p) \/ CtrlCmdBye(n, p) \/ CtrlCmdDelClient(n, p)
      \/ CtrlCmdNewServer(n, p) \/ CtrlCmdDelServer(n, p)
      \/ CtrlCmdNewLookup(n, p) \/ CtrlCmdDelLookup(n, p)
  BY Zenon DEF NsWorker
<1>3. chan \in [Link -> Seq(Pkt)] /\ hello_sent \in [Link -> BOOLEAN]
  BY DEF WireInv, ChanType, EpType
<1> HIDE DEF p
<1>4. CASE CtrlCmdBye(n, p) \/ CtrlCmdNewLookup(n, p) \/ CtrlCmdDelLookup(n, p)
  <2>1. chan' = chan /\ hello_sent' = hello_sent
    BY Zenon, <1>4 DEF CtrlCmdBye, CtrlCmdNewLookup, CtrlCmdDelLookup
  <2>2. QED
    BY Zenon, <1>1, <2>1, GrowsBy
<1>5. CASE CtrlCmdDelClient(n, p) \/ CtrlCmdNewServer(n, p) \/ CtrlCmdDelServer(n, p)
  <2>1. hello_sent' = hello_sent /\ p.cmd \in {"del_client", "new_server", "del_server"}
    BY <1>5 DEF CtrlCmdDelClient, CtrlCmdNewServer, CtrlCmdDelServer
  <2>2. p.addr \in Addr /\ (p.cmd = "new_server" => p.svc \in Service)
    BY <1>1, <2>1 DEF InBox, OfNode
  <2>3. servers[n][p.addr] \in Service \cup {None}
    BY <2>2 DEF WireInv, TableType
  <2>4. \E ls \in SUBSET Link : \E x \in Pkt : x.cmd # "data" /\ Enqueue(ls, x)
    <3>1. NsBroadcast(n) \in SUBSET Link /\ {} \in SUBSET Link
      BY Zenon DEF NsBroadcast, Broadcast
    <3>2. CASE CtrlCmdNewServer(n, p)
      <4>1. /\ NewServer(NsOf(n), p.addr, p.svc) \in Pkt
            /\ NewServer(NsOf(n), p.addr, p.svc).cmd # "data"
        BY Zenon, <2>2, <3>2, PacketTypes DEF CtrlCmdNewServer, NewServer, Packet
      <4>2. QED
        BY Zenon, <3>1, <3>2, <4>1 DEF CtrlCmdNewServer
    <3>3. CASE ServerDel(n, p.addr)
      <4>1. /\ DelServer(NsOf(n), p.addr, servers[n][p.addr]) \in Pkt
            /\ DelServer(NsOf(n), p.addr, servers[n][p.addr]).cmd # "data"
        BY Zenon, <2>2, <2>3, PacketTypes DEF DelServer, Packet
      <4>2. QED
        BY Zenon, <3>1, <3>3, <4>1 DEF ServerDel
    <3>4. QED
      BY Zenon, <1>5, <3>2, <3>3 DEF CtrlCmdDelClient, CtrlCmdDelServer
  <2>5. QED
    BY Zenon, <2>1, <2>4, GrowsEnqueue
<1>6. CASE CtrlCmdHello(n, p)
  <2> DEFINE l == <<n, p.from[1]>>
             h == IF hello_sent[l] THEN <<>> ELSE <<Hello(n)>>
  <2>1. l \in Link /\ Hello(n) \in Pkt /\ Hello(n).cmd # "data"
    BY <1>1, <1>6, PacketTypes DEF CtrlCmdHello, InBox, Link, Hello, Packet
  <2>2. \A k \in Link : hello_sent[k] => hello_sent'[k]
    BY Zenon, <1>3, <1>6 DEF CtrlCmdHello
  <2>3. CASE chan' = chan
    BY Zenon, <2>1, <2>2, <2>3, GrowsBy
  <2>4. ASSUME NEW q \in Announcements(n),
               chan' = [chan EXCEPT ![l] = IF ~ep[Back(l)] THEN @ ELSE @ \o h \o q]
        PROVE  \A k \in Link : Grows(k)
    <3>1. h \in Seq(Pkt) /\ Range(h) \subseteq {Hello(n)}
      <4>1. hello_sent[l] \in BOOLEAN
        BY Zenon, <2>1 DEF WireInv, EpType
      <4>2. QED
        BY Zenon, <2>1, <4>1, Single
    <3>2. q \in Seq(Pkt) /\ \A x \in Range(q) : x.cmd = "new_server"
      <4>1. q \in Seq(Pkt) /\ \A x \in Range(q) : \E a \in Addr : x = NewServer(NsOf(n), a, servers[n][a])
        <5>1. /\ q \in Seq(Pkt)
              /\ \A x \in Range(q) : \E a \in Addr :
                   a[1] = n /\ servers[n][a] # None /\ x = NewServer(NsOf(n), a, servers[n][a])
          BY Zenon, <2>4, AnnouncementTypes
        <5>2. QED
          BY Zenon, <5>1
      <4>2. QED
        BY <4>1 DEF NewServer, Packet
    <3> HIDE DEF h
    <3>3. h \o q \in Seq(Pkt) /\ Range(h \o q) = Range(h) \cup Range(q)
      BY <3>1, <3>2, Joined
    <3>4. chan[l] \o h \o q = chan[l] \o (h \o q)
      <4>1. chan[l] \in Seq(Pkt)
        BY <1>3, <2>1
      <4> DEFINE c == chan[l]
      <4> HIDE DEF c
      <4>2. c \in Seq(Pkt)
        BY <4>1 DEF c
      <4>3. c \o h \o q = c \o (h \o q)
        BY ONLY <3>1, <3>2, <4>2
      <4>4. QED
        BY <4>3 DEF c
    <3>5. \A x \in Range(h \o q) : x.cmd # "data"
      BY <2>1, <3>1, <3>2, <3>3
    <3>6. /\ chan'[l] = chan[l] \/ chan'[l] = chan[l] \o (h \o q)
          /\ \A k \in Link \ {l} : chan'[k] = chan[k]
      <4> DEFINE w == IF ~ep[Back(l)] THEN chan[l] ELSE chan[l] \o h \o q
      <4>1. chan' = [chan EXCEPT ![l] = w]
        BY Zenon, <2>4
      <4>2. w = chan[l] \/ w = chan[l] \o (h \o q)
        BY Zenon, <3>4
      <4> HIDE DEF w
      <4>3. QED
        BY Zenon, <1>3, <2>1, <4>1, <4>2
    <3>7. chan'[l] = chan[l] \o (h \o q) => Grows(l)
      BY Zenon, <3>3, <3>5 DEF Grows
    <3>8. QED
      BY Zenon, <2>1, <3>6, <3>7, GrowsBy
  <2>5. QED
    BY Zenon, <1>6, <2>2, <2>3, <2>4 DEF CtrlCmdHello
<1>7. QED
  BY Zenon, <1>2, <1>4, <1>5, <1>6

\* The worker takes BYE and DEL_CLIENT from its queue with the clients they are
\* about.
LEMMA GhostWorker ==
  ASSUME NsAssumption, WireInv, ClientInv, GhostInv, NEW n \in Node, NsWorker(n)
  PROVE  GhostInv'
<1>1. /\ UNCHANGED <<ep, nid, open, state>> /\ nsq[n] \in Seq(Pkt) /\ nsq[n] # <<>>
      /\ nsq'[n] = Tail(nsq[n]) /\ \A k \in Node \ {n} : nsq'[k] = nsq[k]
  BY Zenon, WorkerTakes DEF WireInv, WorkerSame
<1>2. (\A l \in Link : Grows(l)) /\ \A l \in Link : hello_sent[l] => hello_sent'[l]
  BY Zenon, GrowsWorker
<1>3. \A a \in Addr, m \in Node : a[1] # m /\ WillTell(a, m) => WillTell(a, m)'
  BY Zenon, <1>1, <1>2, TellsKept
<1>4. \A b \in open : clients'[b] \subseteq clients[b]
  BY Zenon, ClientWorker
<1>5. ASSUME NEW b \in open, NEW a \in clients'[b], NEW x \in Range(nsq[b[1]])
      PROVE  \/ x \in Range(nsq'[b[1]])
             \/ ~(x.cmd = "bye" /\ x.from[1] = a[1]) /\ ~(x.cmd = "del_client" /\ x.addr = a)
  <2>1. b[1] \in Node
    BY DEF WireInv, SockType, Addr
  <2>2. CASE b[1] # n
    BY Zenon, <1>1, <2>1, <2>2
  <2>3. CASE b[1] = n
    <3>1. x = Head(nsq[n]) \/ x \in Range(Tail(nsq[n]))
      BY Zenon, <1>1, <2>3, HeadOrTail
    <3>2. /\ ~(Head(nsq[n]).cmd = "bye" /\ Head(nsq[n]).from[1] = a[1])
          /\ ~(Head(nsq[n]).cmd = "del_client" /\ Head(nsq[n]).addr = a)
      BY Zenon, <2>3, ClientWorker
    <3>3. QED
      BY Zenon, <1>1, <2>3, <3>1, <3>2
  <2>4. QED
    BY <2>2, <2>3
<1>6. QED
  BY Zenon, <1>1, <1>2, <1>3, <1>4, <1>5, GhostFrame

\* A transport that comes up was down at both ends: a BYE is about to remove the
\* clients of the old connection.
LEMMA GhostRegister ==
  ASSUME WireInv, LinkInv, ClientInv, GhostInv, NEW l \in Link, Register(l)
  PROVE  GhostInv'
<1> DEFINE ends == {l, Back(l)}
<1>0. Back(l) \in Link
  BY LinkEnds
<1>1. /\ UNCHANGED <<chan, open, state, nsq, clients>>
      /\ \A k \in ends : ~ep[k] /\ chan[k] = <<>>
      /\ \A k \in Link \ ends : ep'[k] = ep[k] /\ nid'[k] = nid[k] /\ hello_sent'[k] = hello_sent[k]
  BY Zenon DEF Register, sockets, told
<1> HIDE DEF ends
<1>2. ASSUME NEW a \in Addr, NEW n \in Node, <<a[1], n>> \in Link \ ends, WillTell(a, n)
      PROVE  WillTell(a, n)'
  BY Zenon, <1>1, <1>2 DEF WillTell
<1>3. ASSUME NEW k \in Link PROVE NotedData(k)'
  <2>1. ASSUME NEW a \in Addr, a[1] = k[1], Unclosed(chan[k], a) PROVE WillTell(a, k[2])'
    <3>1. k \notin ends
      <4>1. DOMAIN <<>> = {}
        OBVIOUS
      <4>2. QED
        BY Zenon, <1>1, <2>1, <4>1 DEF Unclosed
    <3>2. k = <<a[1], k[2]>> /\ k[2] \in Node
      BY <2>1, LinkEnds
    <3>3. WillTell(a, k[2])
      BY Zenon, <2>1 DEF GhostInv, NotedData
    <3>4. QED
      BY Zenon, <1>2, <3>1, <3>2, <3>3
  <2>2. QED
    BY Zenon, <1>1, <2>1 DEF NotedData
<1>4. ASSUME NEW b \in open, NEW a \in clients[b] PROVE Noted(a, b)'
  <2> DEFINE k == <<b[1], a[1]>>
  <2>1. /\ a \in Addr /\ b[1] \in Node /\ k \in Link /\ <<a[1], b[1]>> \in Link
        /\ Back(k) = <<a[1], b[1]>>
    BY Zenon, ClientEnds
  <2>2. Noted(a, b)
    BY Zenon DEF GhostInv
  <2>3. ByeAt(b[1], a[1]) => ByeAt(b[1], a[1])'
    BY Zenon, <1>1 DEF ByeAt
  <2>4. CASE k \in ends
    <3>1. ~nid[k]
      BY Zenon, <1>1, <2>1, <2>4 DEF LinkInv
    <3>2. QED
      BY Zenon, <2>2, <2>3, <3>1 DEF Noted
  <2>5. CASE k \notin ends
    <3>1. <<a[1], b[1]>> \notin ends
      <4>1. Back(Back(l)) = l /\ Back(Back(k)) = k
        BY <2>1, LinkEnds
      <4>2. QED
        BY Zenon, <2>1, <2>5, <4>1 DEF ends
    <3>2. WillTell(a, b[1]) => WillTell(a, b[1])'
      BY Zenon, <1>2, <2>1, <3>1
    <3>3. nid'[k] = nid[k]
      BY Zenon, <1>1, <2>1, <2>5
    <3>4. QED
      BY Zenon, <1>1, <2>2, <2>3, <3>2, <3>3 DEF Noted, DelAt
  <2>6. QED
    BY <2>4, <2>5
<1>5. QED
  BY Zenon, <1>1, <1>3, <1>4 DEF GhostInv

\* A packet that is received: DEL_CLIENT stays on its way, data makes a client
\* that tells or has told.
LEMMA GhostReceive ==
  ASSUME WireInv, LinkInv, ClientInv, GhostInv, NEW l \in Link, Receive(l)
  PROVE  GhostInv'
<1>0. /\ chan[l] \in Seq(Pkt) /\ l[1] \in Node /\ l[2] \in Node /\ l[1] # l[2]
      /\ Back(l) = <<l[2], l[1]>> /\ l = <<l[1], l[2]>>
  BY Zenon, LinkEnds DEF WireInv, ChanType, Back
<1>1. nid[Back(l)] /\ UNCHANGED <<bound, ep, nid, hello_sent, open, state, servers>>
  BY Zenon, Received
<1>2. PICK i \in DOMAIN chan[l] : Takes(l, i)
  BY Zenon, Received
<1> DEFINE p == chan[l][i]
<1>3. p \in Pkt /\ OnWire(l, p)
  <2>1. OnWire(l, p)
    BY Zenon DEF WireInv, Wires, Range
  <2>2. QED
    BY <1>0, <2>1
<1>4. chan'[l] = TakeOut(chan[l], i) /\ \A k \in Link \ {l} : chan'[k] = chan[k]
  BY Zenon, <1>2 DEF Takes
<1>5. \A a \in Addr, n \in Node : WillTell(a, n) => WillTell(a, n)'
  BY Zenon, <1>1 DEF WillTell
<1>6. ASSUME NEW k \in Link PROVE NotedData(k)'
  <2>1. ASSUME NEW a \in Addr, a[1] = k[1], Unclosed(chan'[k], a) PROVE WillTell(a, k[2])'
    <3>1. Unclosed(chan[k], a)
      <4>1. CASE k = l
        <5>1. \A j \in 1 .. i - 1 : chan[l][j].cmd # "data"
          BY Zenon, <1>2 DEF Takes
        <5>2. Unclosed(TakeOut(chan[l], i), a)
          BY Zenon, <1>4, <2>1, <4>1
        <5>3. Unclosed(chan[l], a)
          BY Zenon, <1>0, <5>1, <5>2, UnclosedTake
        <5>4. QED
          BY Zenon, <4>1, <5>3
      <4>2. CASE k # l
        BY Zenon, <1>4, <2>1, <4>2
      <4>3. QED
        BY <4>1, <4>2
    <3>2. WillTell(a, k[2]) /\ k[2] \in Node
      BY Zenon, <2>1, <3>1, LinkEnds DEF GhostInv, NotedData
    <3>3. QED
      BY Zenon, <1>5, <3>2
  <2>2. QED
    BY Zenon, <2>1 DEF NotedData
<1>7. \A n \in Node : Range(nsq[n]) \subseteq Range(nsq'[n])
  <2>1. nsq' = nsq \/ ToNs(l[2], p)
    BY Zenon, <1>2 DEF Takes
  <2>2. QED
    BY Zenon, <1>0, <1>3, <2>1, ToNsAdds
<1>8. ASSUME NEW b \in open, NEW a \in clients[b] PROVE Noted(a, b)'
  <2>1. a \in Addr /\ b \in Addr /\ b[1] \in Node /\ <<a[1], b[1]>> \in Link
    BY Zenon, ClientEnds
  <2>2. Noted(a, b)
    BY Zenon DEF GhostInv
  <2>3. ByeAt(b[1], a[1]) => ByeAt(b[1], a[1])'
    BY Zenon, <1>7, <2>1 DEF ByeAt
  <2>4. DelAt(nsq[b[1]], a) => DelAt(nsq[b[1]], a)'
    BY Zenon, <1>7, <2>1 DEF DelAt
  <2>5. DelAt(chan[<<a[1], b[1]>>], a) =>
          DelAt(chan[<<a[1], b[1]>>], a)' \/ DelAt(nsq[b[1]], a)'
    <3>1. CASE <<a[1], b[1]>> # l
      BY Zenon, <1>4, <2>1, <3>1 DEF DelAt
    <3>2. CASE <<a[1], b[1]>> = l
      <4>1. SUFFICES ASSUME NEW j \in DOMAIN chan[l],
                            chan[l][j].cmd = "del_client", chan[l][j].addr = a
                     PROVE  DelAt(chan[l], a)' \/ DelAt(nsq[b[1]], a)'
        BY Zenon, <3>2 DEF DelAt, Range
      <4>2. CASE j # i
        <5>1. chan[l][j] \in Range(chan'[l])
          BY Zenon, <1>0, <1>4, <4>2, OutOrIn
        <5>2. QED
          BY Zenon, <4>1, <5>1 DEF DelAt
      <4>3. CASE j = i
        <5>1. ToNs(l[2], p) /\ b[1] = l[2]
          BY <1>2, <3>2, <4>1, <4>3 DEF Takes
        <5>2. l[2] \in bound
          <6>1. l[2] \notin bound => servers[l[2]] = [c \in Addr |-> None]
            BY Zenon, <1>0 DEF LinkInv
          <6>2. servers[b[1]][b] # None
            BY Zenon DEF ClientInv
          <6>3. QED
            BY <2>1, <5>1, <6>1, <6>2
        <5>3. p \in Range(nsq'[l[2]])
          BY Zenon, <1>0, <1>3, <5>1, <5>2, ToNsAdds
        <5>4. QED
          BY Zenon, <4>1, <4>3, <5>1, <5>3 DEF DelAt
      <4>4. QED
        BY <4>2, <4>3
    <3>3. QED
      BY <3>1, <3>2
  <2>6. QED
    BY Zenon, <1>1, <1>5, <2>1, <2>2, <2>3, <2>4, <2>5 DEF Noted
<1>9. ASSUME NEW a, NEW b, p.cmd = "data", a = p.from, b = p.addr PROVE Noted(a, b)'
  <2>3. a \in Addr /\ b \in Addr /\ a[1] = l[1] /\ b[1] = l[2]
    BY <1>3, <1>9 DEF OnWire
  <2>4. WillTell(a, l[2])' \/ DelAt(chan[l], a)'
    <3>1. CASE Unclosed(chan[l], a)
      BY Zenon, <1>0, <1>5, <2>3, <3>1 DEF GhostInv, NotedData
    <3>2. CASE ~Unclosed(chan[l], a)
      <4>1. PICK j \in DOMAIN chan[l] :
              j > i /\ chan[l][j].cmd = "del_client" /\ chan[l][j].addr = a
        BY Zenon, <1>9, <3>2 DEF Unclosed
      <4>2. j # i
        BY <1>0, <4>1
      <4>3. chan[l][j] \in Range(chan'[l])
        BY Zenon, <1>0, <1>4, <4>2, OutOrIn
      <4>4. QED
        BY Zenon, <4>1, <4>3 DEF DelAt
    <3>3. QED
      BY <3>1, <3>2
  <2>5. nid'[<<l[2], l[1]>>]
    BY Zenon, <1>0, <1>1
  <2>6. QED
    BY Zenon, <1>0, <2>3, <2>4, <2>5 DEF Noted
<1>10. ASSUME NEW b \in open, NEW a \in clients'[b] PROVE Noted(a, b)'
  <2>1. clients \in [Addr -> SUBSET Addr] /\ b \in Addr
    BY DEF WireInv, ToldType, SockType
  <2>2. a \in clients[b] \/ (p.cmd = "data" /\ b = p.addr /\ a = p.from)
    <3>1. CASE p.cmd = "data"
      <4>1. p.addr \in Addr
        BY <1>3, <3>1 DEF OnWire
      <4>2. clients' = [clients EXCEPT ![p.addr] =
              IF servers[l[2]][p.addr] # None THEN @ \cup {p.from} ELSE @]
        BY Zenon, <1>2, <3>1 DEF Takes
      <4> HIDE DEF p
      <4>3. QED
        BY <2>1, <3>1, <4>1, <4>2
    <3>2. CASE p.cmd # "data"
      BY Zenon, <1>2, <3>2 DEF Takes
    <3>3. QED
      BY <3>1, <3>2
  <2>3. QED
    BY Zenon, <1>8, <1>9, <2>2
<1>11. QED
  BY Zenon, <1>1, <1>6, <1>10 DEF GhostInv

\* An endpoint that goes away: its own name service gets a BYE, and the other
\* end has its own to come.
LEMMA GhostUnregister ==
  ASSUME NoBacklog, WireInv, LinkInv, ClientInv, GhostInv, NEW l \in Link, Unregister(l)
  PROVE  GhostInv'
<1>0. /\ l[1] \in Node /\ l[2] \in Node /\ l[1] # l[2] /\ Back(l) \in Link /\ Back(l) # l
      /\ Back(l) = <<l[2], l[1]>> /\ l = <<l[1], l[2]>> /\ Bye(l[2]) \in Pkt
  <2>1. /\ l[1] \in Node /\ l[2] \in Node /\ l[1] # l[2] /\ Back(l) \in Link
        /\ Back(l)[1] = l[2] /\ l = <<l[1], l[2]>>
    BY LinkEnds
  <2>2. QED
    BY Zenon, <2>1, PacketTypes DEF Back
<1>1. UNCHANGED <<bound, hello_sent, open, state, servers, clients>>
  BY Zenon DEF Unregister, started, sockets, ns, told
<1>2. /\ ~ep'[l] /\ \A k \in Link \ {l} : ep'[k] = ep[k] /\ nid'[k] = nid[k]
  BY DEF Unregister, WireInv, EpType
<1>3. chan'[Back(l)] = <<>> /\ \A k \in Link \ {l, Back(l)} : chan'[k] = chan[k]
  <2>1. chan \in [Link -> Seq(Pkt)] /\ chan[Back(l)] \in Seq(Pkt)
    BY <1>0 DEF WireInv, ChanType
  <2>2. PICK i \in 0 .. Len(chan[l]), j \in 0 .. Len(chan[Back(l)]) :
          /\ j > 0 => "rx_queue" \in Faults
          /\ chan' = [chan EXCEPT ![l] = SubSeq(@, 1, i), ![Back(l)] = SubSeq(@, 1, j)]
    BY Zenon DEF Unregister
  <2>3. /\ chan'[Back(l)] = SubSeq(chan[Back(l)], 1, j)
        /\ \A k \in Link \ {l, Back(l)} : chan'[k] = chan[k]
    BY Zenon, <1>0, <2>1, <2>2
  <2>4. j = 0
    BY <2>1, <2>2 DEF NoBacklog
  <2>5. SubSeq(chan[Back(l)], 1, 0) = <<>>
    BY <2>1
  <2>6. QED
    BY Zenon, <2>3, <2>4, <2>5
<1>4. /\ \A n \in Node : Range(nsq[n]) \subseteq Range(nsq'[n])
      /\ nid[l] /\ l[1] \in bound => ByeAt(l[1], l[2])'
  <2>1. Bye(l[2]).cmd = "bye" /\ Bye(l[2]).from[1] = l[2]
    BY DEF Bye, Packet, NsOf
  <2>2. IF nid[l] THEN ToNs(l[1], Bye(l[2])) ELSE nsq' = nsq
    BY Zenon DEF Unregister
  <2>3. ASSUME ToNs(l[1], Bye(l[2]))
        PROVE  /\ \A n \in Node : Range(nsq[n]) \subseteq Range(nsq'[n])
               /\ l[1] \in bound => Bye(l[2]) \in Range(nsq'[l[1]])
    BY Zenon, <1>0, <2>3, ToNsAdds
  <2>4. QED
    BY Zenon, <2>1, <2>2, <2>3 DEF ByeAt
<1>5. ASSUME NEW a \in Addr, NEW n \in Node, <<a[1], n>> \in Link, WillTell(a, n)
      PROVE  WillTell(a, n)'
  <2>1. CASE <<a[1], n>> = l
    BY Zenon, <1>2, <2>1 DEF WillTell
  <2>2. CASE <<a[1], n>> # l
    BY Zenon, <1>1, <1>2, <1>5, <2>2 DEF WillTell
  <2>3. QED
    BY <2>1, <2>2
<1>6. ASSUME NEW k \in Link PROVE NotedData(k)'
  <2>1. ASSUME NEW a \in Addr, a[1] = k[1], Unclosed(chan'[k], a) PROVE WillTell(a, k[2])'
    <3>1. k = <<a[1], k[2]>> /\ k[2] \in Node
      BY <2>1, LinkEnds
    <3>2. CASE k = l
      BY Zenon, <1>2, <3>1, <3>2 DEF WillTell
    <3>3. CASE k = Back(l)
      <4>1. DOMAIN <<>> = {}
        OBVIOUS
      <4>2. QED
        BY Zenon, <1>3, <2>1, <3>3, <4>1 DEF Unclosed
    <3>4. CASE k \notin {l, Back(l)}
      <4>1. WillTell(a, k[2])
        BY Zenon, <1>3, <2>1, <3>4 DEF GhostInv, NotedData
      <4>2. QED
        BY Zenon, <1>5, <3>1, <4>1
    <3>5. QED
      BY Zenon, <3>2, <3>3, <3>4
  <2>2. QED
    BY Zenon, <2>1 DEF NotedData
<1>7. ASSUME NEW b \in open, NEW a \in clients[b] PROVE Noted(a, b)'
  <2> DEFINE k == <<b[1], a[1]>>
  <2>1. /\ a \in Addr /\ b \in Addr /\ b[1] \in Node /\ k \in Link /\ <<a[1], b[1]>> \in Link
        /\ Back(k) = <<a[1], b[1]>>
    BY Zenon, ClientEnds
  <2>2. Noted(a, b)
    BY Zenon DEF GhostInv
  <2>3. ByeAt(b[1], a[1]) => ByeAt(b[1], a[1])'
    BY Zenon, <1>4, <2>1 DEF ByeAt
  <2>4. DelAt(nsq[b[1]], a) => DelAt(nsq[b[1]], a)'
    BY Zenon, <1>4, <2>1 DEF DelAt
  <2>5. WillTell(a, b[1]) => WillTell(a, b[1])'
    BY Zenon, <1>5, <2>1
  <2>6. CASE k = l
    <3>1. b[1] = l[1] /\ a[1] = l[2]
      BY <1>0, <2>6
    <3>2. l[1] \in bound
      <4>1. l[1] \notin bound => servers[l[1]] = [c \in Addr |-> None]
        BY Zenon, <1>0 DEF LinkInv
      <4>2. servers[b[1]][b] # None
        BY Zenon DEF ClientInv
      <4>3. QED
        BY <2>1, <3>1, <4>1, <4>2
    <3>3. ByeAt(b[1], a[1])'
      BY Zenon, <1>4, <2>2, <2>3, <2>6, <3>1, <3>2 DEF Noted
    <3>4. QED
      BY Zenon, <3>3 DEF Noted
  <2>7. CASE k # l
    <3>1. nid'[k] = nid[k]
      BY Zenon, <1>2, <2>1, <2>7
    <3>2. DelAt(chan[<<a[1], b[1]>>], a) =>
            DelAt(chan[<<a[1], b[1]>>], a)' \/ WillTell(a, b[1])'
      <4>1. CASE <<a[1], b[1]>> = l
        BY Zenon, <1>2, <4>1 DEF WillTell
      <4>2. CASE <<a[1], b[1]>> # l
        <5>1. <<a[1], b[1]>> # Back(l)
          <6>1. Back(Back(l)) = l /\ Back(Back(k)) = k
            BY <2>1, LinkEnds
          <6>2. QED
            BY Zenon, <2>1, <2>7, <6>1
        <5>2. QED
          BY Zenon, <1>3, <2>1, <4>2, <5>1 DEF DelAt
      <4>3. QED
        BY <4>1, <4>2
    <3>3. QED
      BY Zenon, <2>2, <2>3, <2>4, <2>5, <3>1, <3>2 DEF Noted
  <2>8. QED
    BY <2>6, <2>7
<1>8. QED
  BY Zenon, <1>1, <1>6, <1>7 DEF GhostInv

\* A socket that closes tells the node it talked to, or every node.
LEMMA GhostClose ==
  ASSUME NsAssumption, WireInv, LinkInv, ClientInv, GhostInv, NEW c \in Addr, Close(c)
  PROVE  GhostInv'
<1> DEFINE x == DelClient(c)
           ls == IF state[c] = "multi" THEN Broadcast(c[1])
                 ELSE {l \in Broadcast(c[1]) : l[2] = state[c]}
<1>0. c[1] \in Node /\ x \in Pkt /\ x.cmd = "del_client" /\ x.addr = c
  BY Zenon, PacketTypes DEF Addr, DelClient, Packet
<1>1. Enqueue(ls, x) /\ ToNs(c[1], x) /\ open' = open \ {c} /\ state' = state
  BY Zenon DEF Close
<1>2. /\ UNCHANGED <<ep, nid, hello_sent>> /\ \A b \in open' : b \in open /\ clients'[b] = clients[b]
  BY Zenon, SocketFrame
<1> HIDE DEF x
<1>3. \A k \in Link : chan'[k] = chan[k] \/ chan'[k] = Append(chan[k], x)
  BY Zenon, <1>1 DEF Enqueue
<1>4. ASSUME NEW a \in Addr, NEW n \in Node, a # c, WillTell(a, n) PROVE WillTell(a, n)'
  <2>1. a \in open => a \in open'
    BY Zenon, <1>1, <1>4
  <2>2. QED
    BY Zenon, <1>1, <1>2, <1>4, <2>1 DEF WillTell
<1>5. ASSUME NEW n \in Node, c[1] # n, WillTell(c, n)
      PROVE  LET k == <<c[1], n>>
             IN WillTell(c, n)' \/ chan'[k] = Append(chan[k], x) \/ ~ep[Back(k)]
  <2> DEFINE k == <<c[1], n>>
  <2>1. k \in Link /\ k[1] = c[1] /\ k[2] = n
    BY <1>0, <1>5 DEF Link
  <2>2. CASE ~ep[k]
    BY Zenon, <1>2, <2>2 DEF WillTell
  <2>3. CASE ep[k]
    <3>1. state[c] \in {n, "multi"} /\ nid[k] /\ hello_sent[k]
      BY Zenon, <1>5, <2>3 DEF WillTell
    <3> HIDE DEF k
    <3>2. k \in Broadcast(c[1])
      BY Zenon, <2>1, <2>3, <3>1 DEF Broadcast
    <3>3. k \in ls
      BY Zenon, <2>1, <3>1, <3>2
    <3>4. Passes(k, x.cmd)
      <4>1. x.cmd # "hello"
        BY <1>0
      <4>2. QED
        BY Zenon, <2>3, <3>1, <4>1 DEF Passes
    <3> HIDE DEF ls
    <3>5. ep[Back(k)] => chan'[k] = Append(chan[k], x)
      BY Zenon, <1>1, <2>1, <3>3, <3>4 DEF Enqueue
    <3>6. QED
      BY Zenon, <3>5 DEF k
  <2>4. QED
    BY Zenon, <2>2, <2>3
<1>6. ASSUME NEW k \in Link PROVE /\ NotedData(k)' /\ Range(chan[k]) \subseteq Range(chan'[k])
                                  /\ chan'[k] = Append(chan[k], x) => DelAt(chan[k], c)'
  <2>1. /\ chan[k] \in Seq(Pkt) /\ <<x>> \in Seq(Pkt) /\ Append(chan[k], x) = chan[k] \o <<x>>
        /\ Range(<<x>>) = {x}
    <3>1. chan[k] \in Seq(Pkt)
      BY DEF WireInv, ChanType
    <3>2. QED
      BY <1>0, <3>1 DEF Range
  <2>2. Range(Append(chan[k], x)) = Range(chan[k]) \cup {x}
    <3>1. chan[k] \in Seq(Pkt) /\ x \in Pkt
      BY Zenon, <1>0, <2>1
    <3>2. QED
      BY <3>1, Appended
  <2>3. k[1] # k[2] /\ k[2] \in Node /\ k = <<k[1], k[2]>> /\ Back(k) \in Link /\ Back(Back(k)) = k
    BY LinkEnds
  <2>4. ASSUME NEW a \in Addr, a[1] = k[1], Unclosed(chan'[k], a) PROVE WillTell(a, k[2])'
    <3>1. CASE chan'[k] = Append(chan[k], x)
      <4>1. ~\E y \in Range(<<x>>) : y.cmd = "data" /\ y.from = a
        BY <1>0, <2>1
      <4>2. Unclosed(chan[k] \o <<x>>, a)
        BY Zenon, <2>1, <2>4, <3>1
      <4>3. Unclosed(chan[k], a) /\ ~DelAt(<<x>>, a)
        BY Zenon, <2>1, <4>1, <4>2, UnclosedJoin
      <4>4. a # c
        BY Zenon, <1>0, <2>1, <4>3 DEF DelAt
      <4>5. QED
        BY Zenon, <1>4, <2>3, <2>4, <4>3, <4>4 DEF GhostInv, NotedData
    <3>2. CASE chan'[k] = chan[k] /\ chan'[k] # Append(chan[k], x)
      <4>1. WillTell(a, k[2]) /\ Unclosed(chan[k], a)
        BY Zenon, <2>4, <3>2 DEF GhostInv, NotedData
      <4>2. ep[Back(k)]
        <5>1. chan[k] # <<>>
          <6>1. DOMAIN <<>> = {}
            OBVIOUS
          <6>2. QED
            BY Zenon, <4>1, <6>1 DEF Unclosed
        <5>2. QED
          BY Zenon, <2>3, <5>1 DEF LinkInv
      <4>3. CASE a # c
        BY Zenon, <1>4, <2>3, <4>1, <4>3
      <4>4. CASE a = c
        <5>1. k = <<c[1], k[2]>> /\ c[1] # k[2]
          BY Zenon, <2>3, <2>4, <4>4
        <5>2. QED
          BY Zenon, <1>5, <2>3, <3>2, <4>1, <4>2, <4>4, <5>1
      <4>5. QED
        BY <4>3, <4>4
    <3>3. QED
      BY Zenon, <1>3, <3>1, <3>2
  <2>5. chan'[k] = Append(chan[k], x) => DelAt(chan[k], c)'
    BY Zenon, <1>0, <2>2 DEF DelAt
  <2>6. Range(chan[k]) \subseteq Range(chan'[k])
    BY Zenon, <1>3, <2>2
  <2>7. QED
    BY Zenon, <2>4, <2>5, <2>6 DEF NotedData
<1>7. \A n \in Node : Range(nsq[n]) \subseteq Range(nsq'[n])
  BY Zenon, <1>0, <1>1, ToNsAdds
<1>8. ASSUME NEW b \in open', NEW a \in clients'[b] PROVE Noted(a, b)'
  <2>1. b \in open /\ a \in clients[b]
    BY Zenon, <1>2
  <2> DEFINE k == <<a[1], b[1]>>
             j == <<b[1], a[1]>>
  <2>2. /\ a \in Addr /\ b \in Addr /\ a[1] # b[1] /\ b[1] \in Node /\ k \in Link /\ j \in Link
        /\ Back(k) = j
    BY Zenon, <2>1, ClientEnds
  <2>3. Noted(a, b)
    BY Zenon, <2>1 DEF GhostInv
  <2>4. ByeAt(b[1], a[1]) => ByeAt(b[1], a[1])'
    BY Zenon, <1>7, <2>2 DEF ByeAt
  <2>5. DelAt(nsq[b[1]], a) => DelAt(nsq[b[1]], a)'
    BY Zenon, <1>7, <2>2 DEF DelAt
  <2>6. DelAt(chan[k], a) => DelAt(chan[k], a)'
    BY Zenon, <1>6, <2>2 DEF DelAt
  <2>7. WillTell(a, b[1]) => WillTell(a, b[1])' \/ DelAt(chan[k], a)' \/ ~nid[j]
    <3>1. CASE a # c
      BY Zenon, <1>4, <2>2, <3>1
    <3>2. CASE a = c
      <4>1. WillTell(c, b[1]) => WillTell(c, b[1])' \/ chan'[k] = Append(chan[k], x) \/ ~ep[Back(k)]
        BY Zenon, <1>5, <2>2, <3>2
      <4>2. chan'[k] = Append(chan[k], x) => DelAt(chan[k], a)'
        BY Zenon, <1>6, <2>2, <3>2
      <4>3. ~ep[Back(k)] => ~nid[j]
        BY Zenon, <2>2 DEF LinkInv
      <4>4. QED
        BY Zenon, <3>2, <4>1, <4>2, <4>3
    <3>3. QED
      BY <3>1, <3>2
  <2>8. QED
    BY Zenon, <1>2, <2>3, <2>4, <2>5, <2>6, <2>7 DEF Noted
<1>9. QED
  BY Zenon, <1>6, <1>8 DEF GhostInv

\* Every step keeps it: what removes a ghost client is on its way.
LEMMA GhostStep ==
  ASSUME NoBacklog, NsAssumption, WireInv, LinkInv, ClientInv, Untalked, GhostInv, [Next]_vars
  PROVE  GhostInv'
<1>1. CASE UNCHANGED vars
  <2>1. UNCHANGED <<ep, nid, hello_sent, chan, open, state, nsq, clients>>
    BY Zenon, <1>1 DEF vars, endpoint, sockets, told
  <2>2. ASSUME NEW a, NEW n PROVE WillTell(a, n) => WillTell(a, n)'
    BY Zenon, <2>1 DEF WillTell
  <2>3. ASSUME NEW b \in open, NEW a \in clients[b] PROVE Noted(a, b)'
    <3>1. Noted(a, b)
      BY Zenon DEF GhostInv
    <3>2. QED
      BY Zenon, <2>1, <2>2, <3>1 DEF Noted, ByeAt, DelAt
  <2>4. ASSUME NEW l \in Link PROVE NotedData(l)'
    BY Zenon, <2>1, <2>2 DEF GhostInv, NotedData
  <2>5. QED
    BY Zenon, <2>1, <2>3, <2>4 DEF GhostInv
<1>2. CASE Next
  BY Zenon, <1>2, GhostRegister, GhostUnregister, GhostHello, GhostReceive, GhostSocket,
     GhostClose, GhostWorker DEF Next
<1>3. QED
  BY <1>1, <1>2

\* When nothing is on its way, a registered server counts no client that is
\* closed or whose node is gone.
THEOREM NoGhosts ==
  ASSUME NoBacklog
  PROVE  Spec => []NoGhostClients
<1> DEFINE Inv == WireInv /\ LinkInv /\ ClientInv /\ Untalked /\ GhostInv
<1>1. Init => Inv
  <2>1. ASSUME Init PROVE ClientInv /\ GhostInv
    <3>1. \A b \in open : clients[b] = {}
      <4>1. open \subseteq Addr
        BY <2>1, NsAssumption DEF Init, NsAssumption
      <4>2. QED
        BY Zenon, <2>1, <4>1 DEF Init
    <3>2. ASSUME NEW l \in Link, NEW a PROVE ~Unclosed(chan[l], a)
      <4>1. chan[l] = <<>> /\ DOMAIN <<>> = {}
        BY <2>1 DEF Init
      <4>2. QED
        BY Zenon, <4>1 DEF Unclosed
    <3>3. QED
      BY Zenon, <3>1, <3>2 DEF ClientInv, GhostInv, NotedData
  <2>2. Init => Untalked
    BY Zenon DEF Init, Untalked
  <2>3. QED
    BY <2>1, <2>2, WireInit, GoneInit, NsAssumption
<1>2. Inv /\ [Next]_vars => Inv'
  BY WireStep, LinkStep, ClientStep, UntalkedStep, GhostStep, NsAssumption
<1>3. Inv => NoGhostClients
  <2>1. ASSUME Inv, Quiet, NEW b \in open, NEW a \in clients[b]
        PROVE  LET l == <<b[1], a[1]>> IN ep[l] /\ (Connected(l) => a \in open)
    <3> DEFINE l == <<b[1], a[1]>>
               k == <<a[1], b[1]>>
    <3>1. l \in Link /\ k \in Link /\ b[1] \in Node /\ Back(l) = k
      BY Zenon, <2>1, ClientEnds
    <3>2. nsq[b[1]] = <<>> /\ chan[k] = <<>> /\ Range(<<>>) = {}
      BY <2>1, <3>1 DEF Quiet, Range
    <3>3. ~ByeAt(b[1], a[1]) /\ ~DelAt(nsq[b[1]], a) /\ ~DelAt(chan[k], a)
      BY Zenon, <3>2 DEF ByeAt, DelAt
    <3>4. nid[l] /\ WillTell(a, b[1])
      BY Zenon, <2>1, <3>3 DEF GhostInv, Noted
    <3>5. ep[l]
      BY Zenon, <2>1, <3>1, <3>4 DEF LinkInv
    <3>6. QED
      BY Zenon, <3>1, <3>4, <3>5 DEF WillTell, Connected
  <2>2. QED
    BY Zenon, <2>1 DEF NoGhostClients
<1>4. QED
  BY <1>1, <1>2, <1>3, PTL DEF Spec
=============================================================================
