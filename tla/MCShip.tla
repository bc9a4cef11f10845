------------------------------- MODULE MCShip -------------------------------
(***************************************************************************)
(* The three parts of a ship's fight in one run: its guns (Gunnery), its   *)
(* water (Flooding), and the hulls and shells of the simulation (Battle).  *)
(* subject, chosen initially, says which one a behaviour is of; the others *)
(* stay in their initial state.                                            *)
(***************************************************************************)
EXTENDS Gunnery, Flooding, Battle

VARIABLE subject

(* Two ways between the first two compartments, one into the second.       *)
MCDoors == <<<<1, 2>>, <<2, 1>>, <<3, 2>>>>

MCInit ==
    /\ subject \in {"guns", "water", "battle"}
    /\ GunInit /\ FloodInit /\ BattleInit

MCNext ==
    /\ UNCHANGED subject
    /\ \/ subject = "guns" /\ GunNext /\ UNCHANGED <<floodVars, battleVars>>
       \/ subject = "water" /\ FloodNext /\ UNCHANGED <<gunVars, battleVars>>
       \/ subject = "battle" /\ BattleNext /\ UNCHANGED <<gunVars, floodVars>>

Loop == subject = "guns" /\ AnyTick /\ UNCHANGED <<subject, floodVars, battleVars>>

MCSpec == MCInit /\ [][MCNext]_<<subject, gunVars, floodVars, battleVars>> /\ WF_gunVars(Loop)
=============================================================================
