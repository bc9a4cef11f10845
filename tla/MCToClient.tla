----------------------------- MODULE MCToClient -----------------------------
(***************************************************************************)
(* What the server sends to a client, for TLC: the reliable datagrams with *)
(* their acknowledgements (ReliableLink), and the replication of state     *)
(* (LayerSync) on two instances: the one of the configuration, two layers  *)
(* that share a frame while the report handler interleaves with the pass,  *)
(* and Heal, one layer with two entities, tick-synchronous, in which lost  *)
(* deltas are healed.  The schedules are scaled from LAYER_INTERVAL_TICKS  *)
(* and LAYER_RESYNC_TICKS.  setting, chosen initially, says which of the   *)
(* three a behaviour is of; the other module stays in its initial state.   *)
(* The properties of LayerSync are checked in its two settings alike: the  *)
(* first layer has one schedule in both, for CalmHeals.                    *)
(***************************************************************************)
EXTENDS LayerSync, ReliableLink

VARIABLE setting

OnChangeInterval == 99
EveryTick == <<1>>
EveryTickAndOnChange == <<1, OnChangeInterval>>
Resync3 == <<3>>
Resync32 == <<3, 2>>

Heal == INSTANCE LayerSync WITH
    NLayers <- 1, PerLayer <- 2, MaxVal <- 1, Interval <- EveryTick, Resync <- Resync3,
    ConfirmAge <- 4, MaxTick <- 5, MaxChanges <- 2, MaxDelay <- 1,
    Ordered <- FALSE, Prompt <- TRUE

(* Entities and values of one layer are alike: one world stands for those  *)
(* that only name them otherwise.                                          *)
Representative(world) ==
    /\ <<1, 2>> \in DOMAIN world => <<1, 1>> \in DOMAIN world
    /\ <<1, 1>> \in DOMAIN world => world[<<1, 1>>] = 0

MCInit ==
    /\ Init
    /\ \/ setting = "heal" /\ Heal!LayerInit /\ Representative(past[1])
       \/ setting = "content" /\ LayerInit
       \/ setting = "link" /\ LayerInit /\ past[1] = Empty

MCNext ==
    /\ UNCHANGED setting
    /\ \/ setting = "heal" /\ Heal!LayerNext /\ UNCHANGED vars
       \/ setting = "content" /\ LayerNext /\ UNCHANGED vars
       \/ setting = "link" /\ Next /\ UNCHANGED layerVars

MCSpec == MCInit /\ [][MCNext]_<<setting, layerVars, vars>>
=============================================================================
