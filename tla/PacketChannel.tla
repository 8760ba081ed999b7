--------------------------- MODULE PacketChannel ---------------------------
(***************************************************************************)
(* What qrtr.c expects of the transport below an endpoint: the packets     *)
(* that ep->xmit accepts reach the qrtr_endpoint_post of the other         *)
(* processor whole, once, and in the order in which they were sent.        *)
(* Packets are numbered in the order in which they were accepted.          *)
(***************************************************************************)
EXTENDS Naturals, Sequences

VARIABLES
  accepted,     \* how many packets ep->xmit has accepted
  posted        \* the packets handed to qrtr_endpoint_post, in order

vars == <<accepted, posted>>

Init ==
  /\ accepted = 0
  /\ posted = <<>>

Accept ==
  /\ accepted' = accepted + 1
  /\ UNCHANGED posted

Post ==
  /\ Len(posted) < accepted
  /\ posted' = Append(posted, Len(posted) + 1)
  /\ UNCHANGED accepted

Next == Accept \/ Post

Spec == Init /\ [][Next]_vars

FairSpec == Spec /\ WF_vars(Post)

=============================================================================
