------------------------------ MODULE Flooding ------------------------------
(***************************************************************************)
(* The water in one ship: compartment.rs, the water of ship.rs             *)
(* update_compartments, and the breaches the damage graph reports.         *)
(*                                                                         *)
(* Every compartment lists bulkheads of its own, so what joins two         *)
(* compartments is two doors, one for each way water can go, and each is   *)
(* sealed by itself.                                                       *)
(***************************************************************************)
EXTENDS Naturals, FiniteSets, SequencesExt

CONSTANTS
    Compartments,
    Pumped,         \* the compartments a pump station sits in
    Doors,          \* <<from, to>>, in the order the ship collects transfers
    Depth,          \* max_water_level
    Intake,         \* what a breach lets in during a tick
    PumpOut         \* what a pump takes out during a tick

DoorSet == {Doors[i] : i \in DOMAIN Doors}

ASSUME FloodingAssumption ==
    /\ IsFiniteSet(Compartments) /\ Pumped \subseteq Compartments
    /\ Doors \in Seq(Compartments \X Compartments)
    /\ Depth \in Nat \ {0} /\ Intake \in Nat /\ PumpOut \in Nat

VARIABLES
    water,     \* water_level
    breached,  \* is_breached, of the ship and of the damage graph alike
    sealed,    \* is_sealed of those: a breach clears the flag anyway
    pumping,   \* pump_active
    wrecked,   \* the doors that are destroyed
    shut       \* is_sealed of the others: a wreck is open whatever it says

floodVars == <<water, breached, sealed, pumping, wrecked, shut>>

FloodInit ==
    /\ water = [c \in Compartments |-> 0]
    /\ breached = {} /\ sealed = {} /\ pumping = {}
    /\ shut = DoorSet /\ wrecked = {}

Open(c) == c \in breached \ sealed
Passable(d) == d \notin shut

-----------------------------------------------------------------------------
(* Ship::apply_damage: the graph reports a compartment once, when its wear *)
(* is complete, and only a reported one is opened; the doors near the      *)
(* blast that have taken enough break.                                     *)
Breach(worn, broken) ==
    /\ worn \cap breached = {}
    /\ breached' = breached \cup worn
    /\ sealed' = sealed \ worn
    /\ wrecked' = wrecked \cup broken
    /\ shut' = shut \ broken
    /\ UNCHANGED <<water, pumping>>

(* SetCompartmentSeal, SealBulkhead and OpenBulkhead, ActivatePump and     *)
(* DeactivatePump: each sets one flag from a seat of its trade.            *)
Put(flags, x, on) == IF on THEN flags \cup {x} ELSE flags \ {x}

SetCompartmentSeal(c, on) ==
    /\ sealed' = Put(sealed, c, on) \cap breached
    /\ UNCHANGED <<water, breached, pumping, shut, wrecked>>

SetBulkheadSeal(d, on) ==
    /\ shut' = Put(shut, d, on) \ wrecked
    /\ UNCHANGED <<water, breached, sealed, pumping, wrecked>>

SetPump(c, on) ==
    /\ pumping' = Put(pumping, c, on)
    /\ UNCHANGED <<water, breached, sealed, shut, wrecked>>

-----------------------------------------------------------------------------
Least(a, b) == IF a < b THEN a ELSE b
Less(a, b) == IF a < b THEN 0 ELSE a - b

(* Compartment::update: intake first, then the pump.                       *)
CompartmentUpdated(c) ==
    LET taken == IF Open(c) THEN Least(water[c] + Intake, Depth) ELSE water[c]
    IN  IF c \in pumping THEN Less(taken, PumpOut) ELSE taken

(* compute_water_spread: how much each door may ask for, all of them seen  *)
(* from the levels before any water moves.                                 *)
Asks(level) ==
    [i \in DOMAIN Doors |->
        LET d == Doors[i]
        IN  IF Passable(d) /\ level[d[1]] > level[d[2]]
            THEN Least(level[d[1]], Depth - level[d[2]]) ELSE 0]

(* A transfer is cut again to what the source still has and the receiver   *)
(* still holds.                                                            *)
MovedUncut(level, d, amount) ==  \* mutant: the receiver's room is not looked at again
    LET moved == Least(amount, level[d[1]])
    IN  [level EXCEPT ![d[1]] = @ - moved, ![d[2]] = Least(@ + moved, Depth)]
Moved(level, d, amount) ==
    LET moved == Least(Least(amount, level[d[1]]), Depth - level[d[2]])
        drained == [level EXCEPT ![d[1]] = @ - moved]
    IN  [drained EXCEPT ![d[2]] = @ + moved]

Poured(level, flow) ==
    FoldLeftDomain(LAMBDA before, i : Moved(before, Doors[i], flow[i]), level, Doors)

FloodTick ==
    LET first == [c \in Compartments |-> CompartmentUpdated(c)]
        cap == Asks(first)
    IN  /\ \E flow \in {f \in [DOMAIN Doors -> 0..Depth] : \A i \in DOMAIN Doors : f[i] <= cap[i]} :
              water' = Poured(first, flow)
        /\ UNCHANGED <<breached, sealed, pumping, shut, wrecked>>

FloodNext ==
    \/ \E worn \in SUBSET Compartments, broken \in SUBSET DoorSet : Breach(worn, broken)
    \/ \E on \in BOOLEAN :
          \/ \E c \in Compartments : SetCompartmentSeal(c, on)
          \/ \E c \in Pumped : SetPump(c, on)
          \/ \E d \in DoorSet : SetBulkheadSeal(d, on)
    \/ FloodTick

FloodSpec == FloodInit /\ [][FloodNext]_floodVars

-----------------------------------------------------------------------------
FloodTypeOK ==
    /\ water \in [Compartments -> 0..Depth]
    /\ breached \subseteq Compartments /\ sealed \subseteq breached
    /\ pumping \subseteq Pumped
    /\ wrecked \subseteq DoorSet /\ shut \subseteq DoorSet \ wrecked

Total(level) == SumFunction(level)

(* Bug 90 ("the receiver never gained the water"): the ship takes water    *)
(* only through open breaches and loses it only through pumps, whatever    *)
(* moves between compartments in the same tick, and a compartment gains    *)
(* water only through its own breach or a door that leads into it.         *)
WaterOnlyThroughBreaches ==
    [][/\ Total(water') <= Total(water) + Intake * Cardinality({c \in Compartments : Open(c)})
       /\ Total(water') + PumpOut * Cardinality(pumping) >= Total(water)
       /\ \A c \in Compartments :
             water'[c] > water[c] =>
                 \/ Open(c)
                 \/ \E d \in DoorSet : d[2] = c /\ Passable(d)]_floodVars
=============================================================================
