---------------------------- MODULE MCQrtrFlow ----------------------------
(* Instances of QrtrFlow: processors a and b, sockets sa on a and sb on b. *)
EXTENDS QrtrFlow, TLC

CONSTANTS a, b, sa, sa2, sb, t1, t2

MCPeer == a :> b @@ b :> a

\* Two threads of a, with a socket each, send to one socket of b.
OneWayHome == sa :> a @@ sa2 :> a @@ sb :> b
OneWaySockOf == t1 :> sa @@ t2 :> sa2

\* Exchanging the two threads together with their sockets changes nothing.
OneWaySymmetry == {t1 :> t2 @@ t2 :> t1 @@ sa :> sa2 @@ sa2 :> sa}

\* One thread of each side sends to the other's socket.
TwoWayHome == sa :> a @@ sb :> b
TwoWaySockOf == t1 :> sa @@ t2 :> sb
=============================================================================
