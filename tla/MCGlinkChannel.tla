--------------------------- MODULE MCGlinkChannel ---------------------------
(* Instances of GlinkChannel: the thread of side p opens the channel. *)
EXTENDS GlinkChannel

CONSTANTS p, q

MCPeer == [s \in {p, q} |-> IF s = p THEN q ELSE p]
=============================================================================
