------------------------------- MODULE QrtrNs -------------------------------
(***************************************************************************)
(* net/qrtr/ns.c, the name service, on every processor, with the part of   *)
(* net/qrtr/qrtr.c that carries its packets: the HELLO handshake, the      *)
(* broadcast, the receive queue of an endpoint's node and the BYE of an    *)
(* endpoint that goes away.  Each processor has at most one endpoint to    *)
(* each other one, and their net ids differ by at most one, so that no     *)
(* packet is forwarded (qrtr_must_forward).                                *)
(*                                                                         *)
(* A service stands for a service and its instance; AnySvc is the lookup   *)
(* with service 0.  The worker handles a packet in one step: the tables    *)
(* are its own, and the sends it makes are ordered as in the code.         *)
(***************************************************************************)
EXTENDS Naturals, Sequences, FiniteSets, Functions

CONSTANTS
  Node,         \* the processors
  Port,         \* the ports that sockets may be bound to
  Service,
  AnySvc, None, \* a lookup of every service; no server on a port
  Offers,       \* the service of the socket at each address
  Servers, Observers, Clients,  \* the addresses whose sockets offer services,
                                \* look services up, and talk to servers
  Late,         \* the processors whose name service starts after Init
  Faults,       \* "replace": a socket may offer another service;
                \* "rx_queue": packets may be in rx_queue at unregistration;
                \* "early": sockets may be used before qrtr_ns_init is done
  MAXOPS,       \* bound: operations of the sockets
  MAXDOWN       \* bound: unregistrations

Addr == Node \X Port
Link == {l \in Node \X Node : l[1] # l[2]}
Back(l) == <<l[2], l[1]>>

NsAssumption ==
  /\ IsFiniteSet(Port) /\ Cardinality(Port) \in Nat
  /\ Servers \subseteq Addr /\ Observers \subseteq Addr
  /\ Clients \subseteq Addr /\ Late \subseteq Node
  /\ AnySvc \notin Service /\ None \notin Service
  /\ None \notin Node /\ "multi" \notin Node \cup {None}
  /\ Faults \subseteq {"replace", "rx_queue", "early"}
  /\ MAXOPS \in Nat /\ MAXDOWN \in Nat

ASSUME NsAssumption

VARIABLES
  \* qrtr.c; l = <<n, m>> is the qrtr_node that n has for its endpoint to m
  bound,        \* the processors with a socket bound to QRTR_PORT_CTRL
  bcast_sq,     \* those whose name service has set its broadcast address
  greeted,      \* those whose qrtr_ns_init has broadcast its HELLO, and is done
  ep,           \* ep[l]: the endpoint is registered
  say_hello,    \* say_hello[l]: the work that sends the first HELLO is queued
  nid,          \* nid[l]: the node id is known (not QRTR_EP_NID_AUTO)
  hello_sent, hello_rcvd,
  chan,         \* chan[l]: the packets from n to m, m's rx_queue included
  open,         \* the addresses with a socket
  state,        \* ipc->state: None, the node it talks to, or "multi"
  \* ns.c
  nsq,          \* nsq[n]: the receive queue of n's name service
  servers,      \* servers[n][a]: the service n knows on address a
  lookups,      \* lookups[n]: the observers registered with n
  \* what the sockets have been told
  view,         \* view[a]: the servers that observer a believes to exist
  clients,      \* clients[a]: who has sent data to the registered server a
                \* and, as far as it was told, is still there
  ops, downs

started == <<bound, bcast_sq, greeted>>
endpoint == <<ep, say_hello, nid, hello_sent, hello_rcvd>>
sockets == <<open, state>>
ns == <<servers, lookups>>
told == <<view, clients>>
bounds == <<ops, downs>>
vars == <<started, endpoint, chan, sockets, nsq, ns, told, bounds>>

\* Control packets name the sender, and a server or client.
Packet(cmd, from, addr, svc) ==
  [cmd |-> cmd, from |-> from, addr |-> addr, svc |-> svc]
Ctrl == "ctrl"                  \* QRTR_PORT_CTRL
NsOf(n) == <<n, Ctrl>>
Hello(n) == Packet("hello", NsOf(n), NsOf(n), None)
Bye(n) == Packet("bye", NsOf(n), NsOf(n), None)
NewServer(from, a, s) == Packet("new_server", from, a, s)
DelServer(from, a, s) == Packet("del_server", from, a, s)
DelClient(a) == Packet("del_client", a, a, None)
Data(a, b) == Packet("data", a, b, None)

Init ==
  /\ bound = Node \ Late /\ bcast_sq = bound /\ greeted = bound
  /\ ep = [l \in Link |-> FALSE]
  /\ say_hello = [l \in Link |-> FALSE]
  /\ nid = [l \in Link |-> FALSE]
  /\ hello_sent = [l \in Link |-> FALSE]
  /\ hello_rcvd = [l \in Link |-> FALSE]
  /\ chan = [l \in Link |-> <<>>]
  /\ open = Servers \cup Observers \cup Clients
  /\ state = [a \in Addr |-> None]
  /\ nsq = [n \in Node |-> <<>>]
  /\ servers = [n \in Node |-> [a \in Addr |-> None]]
  /\ lookups = [n \in Node |-> {}]
  /\ view = [a \in Addr |-> {}]
  /\ clients = [a \in Addr |-> {}]
  /\ ops = 0 /\ downs = 0

-----------------------------------------------------------------------------
(* Sending: qrtr_node_enqueue, qrtr_bcast_enqueue, qrtr_local_enqueue. *)

\* Whether qrtr_node_enqueue hands a packet to the endpoint's transport.
Passes(l, cmd) == ep[l] /\ (hello_sent[l] <=> cmd # "hello")

\* chan after packet p goes out on the links in ls; a transport whose other end
\* is gone takes it and loses it.
Enqueue(ls, p) ==
  chan' = [l \in Link |->
    IF l \in ls /\ ep[Back(l)] /\ Passes(l, p.cmd) THEN Append(chan[l], p)
    ELSE chan[l]]

\* The links a broadcast takes: a node without an id gets only HELLO.
Broadcast(n) == {l \in Link : l[1] = n /\ ep[l] /\ nid[l]}

\* qrtr_local_enqueue to the control port.
ToNs(n, p) ==
  nsq' = [nsq EXCEPT ![n] = IF n \in bound THEN Append(@, p) ELSE @]

-----------------------------------------------------------------------------
(* Endpoints. *)

\* qrtr_endpoint_register at both ends of a transport that comes up.
Register(l) ==
  /\ ~ep[l] /\ ~ep[Back(l)] /\ chan[l] = <<>> /\ chan[Back(l)] = <<>>
  /\ LET ends == {l, Back(l)}
         Fresh(f, v) == [k \in Link |-> IF k \in ends THEN v ELSE f[k]]
     IN /\ ep' = Fresh(ep, TRUE) /\ say_hello' = Fresh(say_hello, TRUE)
        /\ nid' = Fresh(nid, FALSE)
        /\ hello_sent' = Fresh(hello_sent, FALSE)
        /\ hello_rcvd' = Fresh(hello_rcvd, FALSE)
  /\ UNCHANGED <<started, chan, sockets, nsq, ns, told, bounds>>

\* qrtr_hello_work
HelloWork(l) ==
  /\ say_hello[l]
  /\ say_hello' = [say_hello EXCEPT ![l] = FALSE]
  /\ IF l[1] \in bound
       THEN /\ Enqueue({l}, Hello(l[1]))
            /\ hello_sent' = [hello_sent EXCEPT ![l] = @ \/ ep[l]]
       ELSE UNCHANGED <<chan, hello_sent>>
  /\ UNCHANGED <<started, ep, nid, hello_rcvd, sockets, nsq, ns, told, bounds>>

\* qrtr_endpoint_post learns the id of the node from its first packet.
NodeAssign(l) ==
  /\ chan[Back(l)] # <<>> /\ ep[l] /\ ~nid[l]
  /\ nid' = [nid EXCEPT ![l] = TRUE]
  /\ UNCHANGED <<started, ep, say_hello, hello_sent, hello_rcvd, chan, sockets,
                 nsq, ns, told, bounds>>

\* The queue without the packet in place i.
TakeOut(q, i) == SubSeq(q, 1, i - 1) \o SubSeq(q, i + 1, Len(q))

\* Data goes from qrtr_endpoint_post to its socket, past the control packets
\* that wait in rx_queue for qrtr_node_rx_work to give them to the name
\* service.  A node without its endpoint still works off its queue.
Receive(l) ==
  LET m == l[2]
      b == Back(l)
  IN \E i \in DOMAIN chan[l] :
       LET p == chan[l][i]
           dup == p.cmd = "hello" /\ hello_rcvd[b]
       IN /\ nid[b] \/ ~ep[b]
          /\ i = 1 \/ p.cmd = "data"
          /\ \A j \in 1..(i - 1) : chan[l][j].cmd # "data"
          /\ chan' = [chan EXCEPT ![l] = TakeOut(@, i)]
          /\ IF p.cmd = "data"
               THEN /\ clients' = [clients EXCEPT ![p.addr] =
                         IF servers[m][p.addr] # None THEN @ \cup {p.from} ELSE @]
                    /\ UNCHANGED <<nsq, hello_rcvd>>
               ELSE /\ IF dup THEN UNCHANGED nsq ELSE ToNs(m, p)
                    /\ hello_rcvd' = [hello_rcvd EXCEPT ![b] =
                         @ \/ (p.cmd = "hello" /\ m \in bound)]
                    /\ UNCHANGED clients
          /\ UNCHANGED <<started, ep, say_hello, nid, hello_sent, sockets, ns,
                         view, bounds>>

\* qrtr_endpoint_unregister at n.  The BYE goes straight to the name service.
\* What was in n's rx_queue is handled later, what the transport held in
\* either direction is lost or not.
Unregister(l) ==
  /\ ep[l] /\ downs < MAXDOWN
  /\ downs' = downs + 1
  /\ ep' = [ep EXCEPT ![l] = FALSE]
  /\ say_hello' = [say_hello EXCEPT ![l] = FALSE]
  /\ \E i \in 0..Len(chan[l]), j \in 0..Len(chan[Back(l)]) :
       /\ j > 0 => "rx_queue" \in Faults /\ nid[l]
       /\ chan' = [chan EXCEPT ![l] = SubSeq(@, 1, i),
                               ![Back(l)] = SubSeq(@, 1, j)]
  /\ IF nid[l] THEN ToNs(l[1], Bye(l[2])) ELSE UNCHANGED nsq
  /\ nid' = [nid EXCEPT ![l] = FALSE]
  /\ UNCHANGED <<started, hello_sent, hello_rcvd, sockets, ns, told, ops>>

\* qrtr_ns_init: the bind to the control port resets the handshake of every
\* node.  From now on the worker handles what comes in.
NsBind(n) ==
  /\ n \notin bound
  /\ bound' = bound \cup {n}
  /\ hello_sent' = [l \in Link |-> hello_sent[l] /\ l[1] # n]
  /\ hello_rcvd' = [l \in Link |-> hello_rcvd[l] /\ l[1] # n]
  /\ UNCHANGED <<bcast_sq, greeted, ep, say_hello, nid, chan, sockets, nsq, ns, told,
                 bounds>>

\* ... the broadcast address gets its family, without which a send to it fails,
NsAddress(n) ==
  /\ n \in bound \ bcast_sq
  /\ bcast_sq' = bcast_sq \cup {n}
  /\ UNCHANGED <<bound, greeted, endpoint, chan, sockets, nsq, ns, told, bounds>>

\* Mutant: no HELLO is broadcast.
NsHelloSilent(n) ==
  /\ n \in bcast_sq \ greeted
  /\ greeted' = greeted \cup {n}
  /\ UNCHANGED <<bound, bcast_sq, endpoint, chan, sockets, nsq, ns, told, bounds>>

\* ... and HELLO goes to every endpoint that has not got one since the bind.
NsHello(n) ==
  /\ n \in bcast_sq \ greeted
  /\ greeted' = greeted \cup {n}
  /\ Enqueue({l \in Link : l[1] = n}, Hello(n))
  /\ hello_sent' = [l \in Link |-> hello_sent[l] \/ (l[1] = n /\ ep[l])]
  /\ UNCHANGED <<bound, bcast_sq, ep, say_hello, nid, hello_rcvd, sockets, nsq, ns,
                 told, bounds>>

NsInit(n) == NsBind(n) \/ NsAddress(n) \/ NsHello(n)

-----------------------------------------------------------------------------
(* Sockets.  Each operation below is a qrtr_sendmsg to the control port of  *)
(* the own processor, or to a server, or the qrtr_release of the socket.    *)

\* The bind of a name service resets the sockets that were open (ENETRESET),
\* so a socket is used only after it; after all of qrtr_ns_init, unless "early".
Operation(a, who) ==
  /\ a \in open \cap who /\ a[1] \in bound /\ ops < MAXOPS
  /\ "early" \in Faults \/ a[1] \in greeted
  /\ ops' = ops + 1
  /\ UNCHANGED <<started, endpoint, ns, downs>>

Offer(a, s) ==
  /\ Operation(a, Servers)
  /\ "replace" \in Faults \/ s = Offers[a]
  /\ ToNs(a[1], NewServer(a, a, s))
  /\ state' = [state EXCEPT ![a] = "multi"]
  /\ UNCHANGED <<chan, open, told>>

Withdraw(a) ==
  /\ Operation(a, Servers)
  /\ ToNs(a[1], DelServer(a, a, None))
  /\ UNCHANGED <<chan, sockets, told>>

LookUp(a, s) ==
  /\ Operation(a, Observers)
  /\ ToNs(a[1], Packet("new_lookup", a, a, s))
  /\ UNCHANGED <<chan, sockets, told>>

EndLookUp(a, s) ==
  /\ Operation(a, Observers)
  /\ ToNs(a[1], Packet("del_lookup", a, a, s))
  /\ UNCHANGED <<chan, sockets, told>>

\* Mutant: the socket does not note whom it talked to.
TalkUnnoted(a, b) ==
  /\ Operation(a, Clients)
  /\ a[1] # b[1] /\ servers[a[1]][b] # None
  /\ nid[<<a[1], b[1]>>]
  /\ Enqueue({<<a[1], b[1]>>}, Data(a, b))
  /\ UNCHANGED <<open, state, nsq, told>>

\* A message to a server that the own name service knows.
Talk(a, b) ==
  /\ Operation(a, Clients)
  /\ a[1] # b[1] /\ servers[a[1]][b] # None
  /\ nid[<<a[1], b[1]>>]
  /\ state' = [state EXCEPT ![a] = IF @ \in {None, b[1]} THEN b[1] ELSE "multi"]
  /\ Enqueue({<<a[1], b[1]>>}, Data(a, b))
  /\ UNCHANGED <<open, nsq, told>>

\* Mutant: the own name service is left out.
CloseNoLocal(a) ==
  /\ Operation(a, Addr)
  /\ Enqueue(IF state[a] = "multi" THEN Broadcast(a[1])
             ELSE {l \in Broadcast(a[1]) : l[2] = state[a]}, DelClient(a))
  /\ open' = open \ {a}
  /\ view' = [view EXCEPT ![a] = {}]
  /\ clients' = [clients EXCEPT ![a] = {}]
  /\ UNCHANGED <<state, nsq>>

\* qrtr_send_del_client: to every node, or to the one that was talked to,
\* and always to the own name service.
Close(a) ==
  /\ Operation(a, Addr)
  /\ Enqueue(IF state[a] = "multi" THEN Broadcast(a[1])
             ELSE {l \in Broadcast(a[1]) : l[2] = state[a]}, DelClient(a))
  /\ ToNs(a[1], DelClient(a))
  /\ open' = open \ {a}
  /\ view' = [view EXCEPT ![a] = {}]
  /\ clients' = [clients EXCEPT ![a] = {}]
  /\ UNCHANGED state

-----------------------------------------------------------------------------
(* qrtr_ns_worker. *)

Matches(want, s) == want = AnySvc \/ want = s

\* The sockets that hear of a server of service s coming or going.
Audience(n, s) == {k.addr : k \in {l \in lookups[n] : Matches(l.svc, s)}} \cap open

\* The local servers.
Local(n) == {a \in open : a[1] = n /\ servers[n][a] # None}

\* service_announce_new to a node that said HELLO: the servers of third
\* processors are not forwardable, those of that node are not sent back.  The
\* code goes through the ports in order; any order is modelled.
Announcements(n) ==
  LET S == {NewServer(NsOf(n), a, servers[n][a]) : a \in
              {b \in Addr : b[1] = n /\ servers[n][b] # None}}
  IN {q \in UNION {[1 .. k -> S] : k \in 0 .. Cardinality(Port)} :
        IsInjective(q) /\ Range(q) = S}

\* Mutant: the announcements only follow a HELLO of our own.
CtrlCmdHelloOnce(n, p) ==
  LET l == <<n, p.from[1]>>
  IN /\ p.cmd = "hello"
     /\ IF nid[l] /\ ~hello_sent[l]
          THEN /\ hello_sent' = [hello_sent EXCEPT ![l] = TRUE]
               /\ \E q \in Announcements(n) :
                    chan' = [chan EXCEPT ![l] =
                      IF ~ep[Back(l)] THEN @ ELSE @ \o <<Hello(n)>> \o q]
          ELSE UNCHANGED <<hello_sent, chan>>
     /\ UNCHANGED <<ns, told>>

CtrlCmdHello(n, p) ==
  LET l == <<n, p.from[1]>>
  IN /\ p.cmd = "hello"
     /\ IF nid[l]
          THEN /\ hello_sent' = [hello_sent EXCEPT ![l] = TRUE]
               /\ \E q \in Announcements(n) :
                    chan' = [chan EXCEPT ![l] = IF ~ep[Back(l)] THEN @ ELSE
                      @ \o (IF hello_sent[l] THEN <<>> ELSE <<Hello(n)>>) \o q]
          ELSE UNCHANGED <<hello_sent, chan>>
     /\ UNCHANGED <<ns, told>>

\* Mutant: the observers are not told.
CtrlCmdByeSilent(n, p) ==
  LET m == p.from[1]
  IN /\ p.cmd = "bye"
     /\ servers' = [servers EXCEPT ![n] =
          [a \in Addr |-> IF a[1] = m THEN None ELSE @[a]]]
     /\ clients' = [b \in Addr |-> IF b \in Local(n)
          THEN {a \in clients[b] : a[1] # m} ELSE clients[b]]
     /\ UNCHANGED <<hello_sent, chan, lookups, view>>

\* The servers of the node go, and the local servers hear BYE.
CtrlCmdBye(n, p) ==
  LET m == p.from[1]
      gone == {a \in Addr : a[1] = m /\ servers[n][a] # None}
  IN /\ p.cmd = "bye"
     /\ servers' = [servers EXCEPT ![n] =
          [a \in Addr |-> IF a \in gone THEN None ELSE @[a]]]
     /\ view' = [o \in Addr |-> view[o] \
          {<<a, servers[n][a]>> : a \in
             {b \in gone : o \in Audience(n, servers[n][b])}}]
     /\ clients' = [b \in Addr |-> IF b \in Local(n)
          THEN {a \in clients[b] : a[1] # m} ELSE clients[b]]
     /\ UNCHANGED <<hello_sent, chan, lookups>>

\* Where the name service's own broadcasts go.
NsBroadcast(n) == IF n \in bcast_sq THEN Broadcast(n) ELSE {}

\* server_del: the table, the broadcast for a local server, the observers.
ServerDel(n, a) ==
  LET s == servers[n][a]
  IN /\ servers' = [servers EXCEPT ![n][a] = None]
     /\ Enqueue(IF a[1] = n /\ s # None THEN NsBroadcast(n) ELSE {},
                DelServer(NsOf(n), a, s))
     /\ view' = [o \in Addr |-> IF s # None /\ o \in Audience(n, s)
          THEN view[o] \ {<<a, s>>} ELSE view[o]]

CtrlCmdDelClient(n, p) ==
  /\ p.cmd = "del_client"
  /\ lookups' = [lookups EXCEPT ![n] = {k \in @ : k.addr # p.addr}]
  /\ ServerDel(n, p.addr)
  /\ clients' = [b \in Addr |-> IF b \in Local(n) /\ b # p.addr
       THEN clients[b] \ {p.addr} ELSE clients[b]]
  /\ UNCHANGED hello_sent

\* server_add puts the server on the port, whatever was there before.
ServerAdd(n, a, s) == servers' = [servers EXCEPT ![n][a] = s]

\* Mutant: the notification is filled in before the table is.
CtrlCmdNewServerEarly(n, p) ==
  LET a == p.addr
  IN /\ p.cmd = "new_server"
     /\ ServerAdd(n, a, p.svc)
     /\ Enqueue(IF a[1] = n THEN NsBroadcast(n) ELSE {},
                NewServer(NsOf(n), a, p.svc))
     /\ view' = [o \in Addr |-> IF o \in Audience(n, p.svc)
          THEN view[o] \cup {<<a, servers[n][a]>>} ELSE view[o]]
     /\ UNCHANGED <<hello_sent, lookups, clients>>

\* A local server is broadcast, and the observers are told; not when the send
\* fails for want of an address.
CtrlCmdNewServer(n, p) ==
  LET a == p.addr
      fails == a[1] = n /\ n \notin bcast_sq
  IN /\ p.cmd = "new_server"
     /\ ServerAdd(n, a, p.svc)
     /\ Enqueue(IF a[1] = n THEN NsBroadcast(n) ELSE {},
                NewServer(NsOf(n), a, p.svc))
     /\ view' = [o \in Addr |-> IF ~fails /\ o \in Audience(n, p.svc)
          THEN view[o] \cup {<<a, p.svc>>} ELSE view[o]]
     /\ UNCHANGED <<hello_sent, lookups, clients>>

\* A server that has withdrawn has no clients.
CtrlCmdDelServer(n, p) ==
  /\ p.cmd = "del_server"
  /\ ServerDel(n, p.addr)
  /\ clients' = IF p.addr[1] = n THEN [clients EXCEPT ![p.addr] = {}] ELSE clients
  /\ UNCHANGED <<hello_sent, lookups>>

\* The observer is listed and told of every server that matches.
CtrlCmdNewLookup(n, p) ==
  /\ p.cmd = "new_lookup"
  /\ lookups' = [lookups EXCEPT ![n] = @ \cup {[addr |-> p.from, svc |-> p.svc]}]
  /\ view' = [view EXCEPT ![p.from] = IF p.from \notin open THEN @ ELSE
       @ \cup {<<a, servers[n][a]>> : a \in {b \in Addr :
           servers[n][b] # None /\ Matches(p.svc, servers[n][b])}}]
  /\ UNCHANGED <<hello_sent, chan, servers, clients>>

\* An observer forgets the servers that no lookup of it asks for any more.
CtrlCmdDelLookup(n, p) ==
  LET rest == lookups[n] \ {[addr |-> p.from, svc |-> p.svc]}
      Wanted(x) == \E k \in rest : k.addr = p.from /\ Matches(k.svc, x[2])
  IN /\ p.cmd = "del_lookup"
     /\ lookups' = [lookups EXCEPT ![n] = rest]
     /\ view' = [view EXCEPT ![p.from] = {x \in @ : Wanted(x)}]
     /\ UNCHANGED <<hello_sent, chan, servers, clients>>

NsWorker(n) ==
  /\ nsq[n] # <<>>
  /\ nsq' = [nsq EXCEPT ![n] = Tail(@)]
  /\ LET p == Head(nsq[n])
     IN \/ CtrlCmdHello(n, p) \/ CtrlCmdBye(n, p)
        \/ CtrlCmdDelClient(n, p)
        \/ CtrlCmdNewServer(n, p) \/ CtrlCmdDelServer(n, p)
        \/ CtrlCmdNewLookup(n, p) \/ CtrlCmdDelLookup(n, p)
  /\ UNCHANGED <<started, ep, say_hello, nid, hello_rcvd, sockets, bounds>>

-----------------------------------------------------------------------------

Next ==
  \/ \E l \in Link : Register(l) \/ Unregister(l) \/ HelloWork(l)
                      \/ NodeAssign(l) \/ Receive(l)
  \/ \E n \in Node : NsInit(n) \/ NsWorker(n)
  \/ \E a \in Addr :
       \/ \E s \in Service : Offer(a, s)
       \/ \E s \in Service \cup {AnySvc} : LookUp(a, s) \/ EndLookUp(a, s)
       \/ \E b \in Servers : Talk(a, b)
       \/ Withdraw(a) \/ Close(a)

Spec == Init /\ [][Next]_vars

\* What happens without a socket or a driver: the kernel runs queued work, the
\* transports deliver, an endpoint takes in what it gets, and a name service
\* that starts late goes on with its start.
Background ==
  \/ \E l \in Link : HelloWork(l) \/ NodeAssign(l) \/ Receive(l)
  \/ \E n \in Late : NsInit(n)
  \/ \E n \in Node : NsWorker(n)

\* Some of it happens as long as there is any.
Fairness == WF_vars(Background)

FairSpec == Spec /\ Fairness

-----------------------------------------------------------------------------
(* Properties. *)

\* The tables of ns.c hold services of sockets, and lookups only of sockets of
\* the own processor: every handler stores a server before it is announced.
TypeOK ==
  /\ bound \subseteq Node /\ bcast_sq \subseteq bound /\ greeted \subseteq bcast_sq
  /\ \A f \in {ep, say_hello, nid, hello_sent, hello_rcvd} : f \in [Link -> BOOLEAN]
  /\ DOMAIN chan = Link /\ DOMAIN nsq = Node
  /\ open \subseteq Addr /\ state \in [Addr -> Node \cup {None, "multi"}]
  /\ servers \in [Node -> [Addr -> Service \cup {None}]]
  /\ \A n \in Node : lookups[n] \subseteq
       [addr : {a \in Addr : a[1] = n}, svc : Service \cup {AnySvc}]
  /\ view \in [Addr -> SUBSET (Addr \X Service)]
  /\ clients \in [Addr -> SUBSET Addr]
  /\ ops \in 0..MAXOPS /\ downs \in 0..MAXDOWN

\* An observer believes in exactly the servers in its name service's table
\* that match its lookup, at any time.
ViewExact ==
  \A n \in Node : \A k \in lookups[n] : k.addr \in open =>
    {x \in view[k.addr] : Matches(k.svc, x[2])} =
    {<<a, servers[n][a]>> : a \in {b \in Addr :
        servers[n][b] # None /\ Matches(k.svc, servers[n][b])}}

\* No packet is on its way or waits to be handled.
Quiet ==
  /\ greeted = Node
  /\ \A l \in Link : chan[l] = <<>> /\ ~say_hello[l]
  /\ \A n \in Node : nsq[n] = <<>>

Connected(l) == ep[l] /\ ep[Back(l)]

\* When nothing is on its way, connected processors agree on the servers of
\* both, whatever the order of HELLO, announcements and closing sockets was, as
\* long as no socket is used before its name service has broadcast its HELLO.
Converged ==
  Quiet => \A l \in Link : Connected(l) =>
    \A a \in Addr : a[1] = l[2] => servers[l[1]][a] = servers[l[2]][a]

\* When nothing is on its way, no name service knows a server of a node whose
\* endpoint is gone, nor one on a local port that was closed.
GoneForgotten ==
  Quiet => \A n \in Node : \A a \in Addr : servers[n][a] # None =>
    IF a[1] = n THEN a \in open ELSE ep[<<n, a[1]>>]

\* When nothing is on its way, a registered server counts no client that is
\* closed or whose node is gone.
NoGhostClients ==
  Quiet => \A b \in open : servers[b[1]][b] # None =>
    \A a \in clients[b] : LET l == <<b[1], a[1]>>
                          IN ep[l] /\ (Connected(l) => a \in open)

\* A server that stays registered with its own name service gets into the
\* table of every processor that stays connected, whatever the order in
\* which the endpoints and the name services start, under the same proviso.
ServerFound ==
  \A a \in Servers : \A n \in Node \ {a[1]} :
    []<>(servers[a[1]][a] # None /\ Connected(<<n, a[1]>>) =>
           servers[n][a] = servers[a[1]][a])
=============================================================================
