---------------------------- MODULE MCTransport -----------------------------
(***************************************************************************)
(* The transport for TLC, below the payloads: the link of commands with a  *)
(* gap set that never overflows, which implements CommandDelivery          *)
(* (ReliableLink); the replay window alone, under numbers that arrive in   *)
(* any order and any number of times (ReplayWindow); the two ends of the   *)
(* sealed traffic that keep such windows (WireSeal); and the assembler of  *)
(* fragments (FragmentAssembler) twice, two types that share the budget    *)
(* and the table of groups, and one type whose numbers wrap under two      *)
(* sessions.  setting, chosen initially, says which of the five a          *)
(* behaviour is of; the others stay in their initial state.                *)
(***************************************************************************)
EXTENDS ReliableLink, WireSeal, FragmentAssembler

VARIABLE setting

Wrapping == INSTANCE FragmentAssembler WITH
    Types <- {"full"}, Sizes <- {2}, MaxId <- 7, MaxGroups <- 1, MaxWire <- 2, MaxSessions <- 2

MCInit ==
    /\ Init /\ SealInit /\ (setting = "seal" \/ ordered)
    /\ \/ setting \in {"link", "window", "seal", "sharing"} /\ ChunkInit
       \/ setting = "wrapping" /\ Wrapping!ChunkInit

MCNext ==
    /\ UNCHANGED setting
    /\ \/ setting = "link" /\ Next /\ UNCHANGED <<windowVars, sealVars, chunkVars>>
       \/ setting = "window" /\ WindowNext /\ UNCHANGED <<vars, sealVars, chunkVars>>
       \/ setting = "seal" /\ SealNext /\ UNCHANGED <<vars, chunkVars>>
       \/ setting = "sharing" /\ ChunkNext /\ UNCHANGED <<vars, windowVars, sealVars>>
       \/ setting = "wrapping" /\ Wrapping!ChunkNext /\ UNCHANGED <<vars, windowVars, sealVars>>

MCSpec ==
    /\ MCInit /\ [][MCNext]_<<setting, vars, windowVars, sealVars, chunkVars>>
    /\ Fairness /\ SealFairness
=============================================================================
