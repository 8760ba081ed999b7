------------------------------- MODULE MCRpmh -------------------------------
(* Instances of Rpmh for TLC. *)
EXTENDS Rpmh

CONSTANTS w1, v1, x1, y1, y2, y3, y4

MCWriter == {w1}
MCAddrOf == [t \in MCWriter |-> x1]
MCVotes == {<<2, 1>>, <<1, 1>>}

\* The apps RSC (two active TCSs) and a display RSC (none).
AppsRsc == [active |-> 2, wake |-> 2, sleep |-> 2]
DisplayRsc == [active |-> 0, wake |-> 1, sleep |-> 1]
OneRsc == {AppsRsc}
BothRscs == {AppsRsc, DisplayRsc}

\* Three BCMs in two clock domains; MAX_RPMH_PAYLOAD = 2 makes two messages,
\* the first of which ends where its domain ends.
MCBcm == <<y1, y2, y3>>
MCVcd == [b \in {y1, y2, y3} |-> IF b = y3 THEN 2 ELSE 1]
MCChanges == {{y1, y2, y3}, {y3}}

\* Two domains of two BCMs; MAX_RPMH_PAYLOAD = 3 falls within the second.
SplitBcm == <<y1, y2, y3, y4>>
SplitVcd == [b \in {y1, y2, y3, y4} |-> IF b \in {y1, y2} THEN 1 ELSE 2]
SplitChanges == {{y1, y2, y3, y4}}
=============================================================================
