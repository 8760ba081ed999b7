------------------------------ MODULE MCQrtrNs ------------------------------
(* Two processors for QrtrNs: a server on n1, an observer or client on n2. *)
EXTENDS QrtrNs, TLC

CONSTANTS n1, n2, p1, p2, svc1, svc2

OneServer == {<<n1, p1>>}
BothServers == {<<n1, p1>>, <<n2, p1>>}
RemoteObserver == {<<n2, p2>>}
NoSocket == {}
MCOffers == [p \in Addr |-> IF p[1] = n1 THEN svc1 ELSE svc2]
=============================================================================
