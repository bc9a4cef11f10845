--------------------------- MODULE MCControlDoor ----------------------------
(* Constants of the runs on ControlDoor: one host that plays from one port *)
(* or from two in turn, banned by its socket address or by its bare host.  *)
EXTENDS ControlDoor

MCPeer == {<<"h", 1>>}
MCPeers == {"h"} \X {1, 2}
MCTargets == {"h"} \X {0, 1}
=============================================================================
