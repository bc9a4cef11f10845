------------------------------- MODULE Battle -------------------------------
(***************************************************************************)
(* The tick of the simulation (sim/src/tick.rs): hulls that are struck,    *)
(* sink and leave, and the shells and rams that strike them.               *)
(*                                                                         *)
(* A tick lands the damage the last one collected, updates the hulls, lets *)
(* them collide, and flies the shells; each part is an action here, as     *)
(* each takes the locks of the ship and shell tables by itself.  What a    *)
(* hull loses, which hulls touch and what a shell meets are the world's    *)
(* choice.                                                                 *)
(***************************************************************************)
EXTENDS Naturals, FiniteSets

CONSTANTS
    Ships, Shells,
    Explosive,      \* the shells with an explosion radius
    HullHealth,     \* max_health
    SinkTicks,      \* the 30 s of sink_timer, in ticks
    MaxRicochets    \* BallisticsConfig::max_ricochets

ASSUME BattleAssumption ==
    /\ Explosive \subseteq Shells
    /\ HullHealth \in Nat \ {0} /\ SinkTicks \in Nat \ {0, 1} /\ MaxRicochets \in Nat

Ram == "ram"
ASSUME RamAssumption == Ram \notin Shells

Clear == "clear"  \* what a shell meets: nothing, something solid, or a ship
Rock == "rock"
ASSUME TargetAssumption == Ships \cap {Clear, Rock} = {}

VARIABLES
    phase,    \* the part of the tick that is next; commands between two ticks
    hull,     \* the ship table
    before,   \* pre_sinking of the running tick
    pending,  \* pending_damage
    shell,    \* the projectile list
    began,    \* history: ShipSinkingStarted events of a ship
    gone,     \* history: ShipSunk events of a ship
    age       \* history: updates of a ship since its health was lost

battleVars == <<phase, hull, before, pending, shell, began, gone, age>>

Phases == {"commands", "update", "contacts", "fly"}

BattleInit ==
    /\ phase = "commands"
    /\ hull = [s \in Ships |-> [here |-> TRUE, health |-> HullHealth, sinking |-> FALSE, timer |-> 0]]
    /\ before = {} /\ pending = {}
    /\ shell = [b \in Shells |-> [flies |-> FALSE, owner |-> Clear, bounces |-> 0]]
    /\ began = [s \in Ships |-> 0] /\ gone = [s \in Ships |-> 0] /\ age = [s \in Ships |-> 0]

Present == {s \in Ships : hull[s].here}
Flying == {b \in Shells : shell[b].flies}

-----------------------------------------------------------------------------
(* A hull by itself.                                                       *)

(* apply_health_damage: the guard of bug 191.                              *)
StruckAnew(h, loss) ==  \* mutant: every hit on a lost hull winds the timer up
    LET left == IF loss < h.health THEN h.health - loss ELSE 0
    IN  IF left = 0 THEN [h EXCEPT !.health = 0, !.sinking = TRUE, !.timer = SinkTicks]
        ELSE [h EXCEPT !.health = left]
Struck(h, loss) ==
    LET left == IF loss < h.health THEN h.health - loss ELSE 0
    IN  IF left = 0 /\ ~h.sinking
        THEN [h EXCEPT !.health = 0, !.sinking = TRUE, !.timer = SinkTicks]
        ELSE [h EXCEPT !.health = left]

(* check_sinking; sunk hulls leave the table (bug 57).                     *)
Doomed(h) ==
    IF h.health = 0 /\ ~h.sinking THEN [h EXCEPT !.sinking = TRUE, !.timer = SinkTicks] ELSE h

Settled(h) ==
    LET d == Doomed(h)
    IN  IF ~h.here \/ ~d.sinking THEN d
        ELSE [d EXCEPT !.timer = d.timer - 1, !.here = d.timer > 1]

-----------------------------------------------------------------------------
(* A command fires: fire_projectile below its cap.                         *)
Shoot(s, b) ==
    /\ phase = "commands" /\ s \in Present /\ shell[b].owner = Clear
    /\ shell' = [shell EXCEPT ![b] = [flies |-> TRUE, owner |-> s, bounces |-> 0]]
    /\ UNCHANGED <<phase, hull, before, pending, began, gone, age>>

(* pre_sinking is captured before the damage of the last tick lands, as    *)
(* landing may itself turn a hull into a sinking one (bug 701).            *)
CapturedLate(now, landed) ==  \* mutant: captured once the damage has landed
    {s \in Ships : landed[s].here /\ landed[s].sinking}
Captured(now, landed) == {s \in Ships : now[s].here /\ now[s].sinking}

(* tick, apply_pending_damage.  A ricochet goes on from the hull it left.  *)
Land(loss) ==
    LET hit == {p.target : p \in pending}
        bounced == {p.shell : p \in {q \in pending : q.bounce}}
        landed == [s \in Ships |->
                     IF s \in hit /\ hull[s].here THEN Struck(hull[s], loss[s]) ELSE hull[s]]
    IN  /\ phase = "commands" /\ phase' = "update"
        /\ hull' = landed
        /\ before' = Captured(hull, landed)
        /\ shell' = [b \in Shells |->
                       IF b \in bounced THEN [shell[b] EXCEPT !.bounces = @ + 1] ELSE shell[b]]
        /\ pending' = {}
        /\ UNCHANGED <<began, gone, age>>

(* update_ships_parallel: the edge is told against the capture.            *)
Tells(s) == hull'[s].here /\ s \notin before /\ hull'[s].sinking

UpdateShips ==
    /\ phase = "update" /\ phase' = "contacts"
    /\ hull' = [s \in Ships |-> IF hull[s].here THEN Settled(hull[s]) ELSE hull[s]]
    /\ began' = [s \in Ships |-> IF Tells(s) THEN began[s] + 1 ELSE began[s]]
    /\ gone' = [s \in Ships |-> IF hull[s].here /\ ~hull'[s].here THEN gone[s] + 1 ELSE gone[s]]
    /\ age' = [s \in Ships |-> IF hull[s].here /\ hull[s].health = 0 THEN age[s] + 1 ELSE age[s]]
    /\ UNCHANGED <<before, pending, shell>>

(* resolve_ship_contacts: hulls that close in on each other, either of     *)
(* which may come off unhurt.                                              *)
Contacts(rammed) ==
    /\ phase = "contacts" /\ phase' = "fly"
    /\ rammed # {} => Cardinality(Present) > 1
    /\ pending' = pending \cup {[target |-> s, shell |-> Ram, bounce |-> FALSE] : s \in rammed}
    /\ UNCHANGED <<hull, before, shell, began, gone, age>>

(* collect_damage: a shell the armour turns away keeps flying while it has *)
(* ricochets left, unless it explodes.                                     *)
MayBounce(b) == b \notin Explosive /\ shell[b].bounces < MaxRicochets

Splashed(b, meets, splash) ==
    {s \in Present \ {meets[b], shell[b].owner} : b \in Explosive /\ meets[b] # Clear /\ s \in splash}

(* update_projectiles drops the shells at rest or out of time;             *)
(* check_collisions finds what the others meet, never their own ship.      *)
Fly(old, meets, turned, splash) ==
    LET struck == {b \in Flying \ old : meets[b] # Clear}
        direct == {b \in struck : meets[b] # Rock}
        bounce == {b \in direct \cap turned : MayBounce(b)}
    IN  /\ phase = "fly" /\ phase' = "commands"
        /\ \A b \in direct : meets[b] # shell[b].owner
        /\ shell' = [b \in Shells |->
                       IF b \in old \cup (struck \ bounce)
                       THEN [shell[b] EXCEPT !.flies = FALSE] ELSE shell[b]]
        /\ pending' = pending
             \cup {[target |-> meets[b], shell |-> b, bounce |-> b \in bounce] : b \in direct}
             \cup UNION {{[target |-> s, shell |-> b, bounce |-> FALSE] :
                             s \in Splashed(b, meets, splash)} : b \in struck}
        /\ UNCHANGED <<hull, before, began, gone, age>>

BattleNext ==
    \/ \E s \in Ships, b \in Shells : Shoot(s, b)
    \/ \E loss \in [{p.target : p \in pending} -> 0..HullHealth] : Land(loss)
    \/ UpdateShips
    \/ \E rammed \in SUBSET Present : Contacts(rammed)
    \/ \E old \in SUBSET Flying, splash \in SUBSET Present :
          \E meets \in [Flying \ old -> Present \cup {Clear, Rock}], turned \in SUBSET (Flying \ old) :
             Fly(old, meets, turned, splash)

BattleSpec == BattleInit /\ [][BattleNext]_battleVars

-----------------------------------------------------------------------------
BattleTypeOK ==
    /\ phase \in Phases
    /\ hull \in [Ships -> [here : BOOLEAN, health : 0..HullHealth, sinking : BOOLEAN,
                           timer : 0..SinkTicks]]
    /\ before \subseteq Ships
    /\ pending \subseteq [target : Ships, shell : Shells \cup {Ram}, bounce : BOOLEAN]
    /\ shell \in [Shells -> [flies : BOOLEAN, owner : Ships \cup {Clear}, bounces : Nat]]
    /\ began \in [Ships -> Nat] /\ gone \in [Ships -> Nat] /\ age \in [Ships -> Nat]

(* Between two ticks a ship has told that it is lost exactly once if its   *)
(* health is gone and not at all before ("the bell rings exactly once when *)
(* the loss becomes certain", sim tick.rs 2025), it has told that it sank  *)
(* exactly once if it left the table, and it leaves SinkTicks updates      *)
(* after the loss, whatever lands on the wreck in the meantime.            *)
LossRunsItsCourse ==
    phase = "commands" =>
        \A s \in Ships :
            /\ began[s] = IF hull[s].health = 0 THEN 1 ELSE 0
            /\ gone[s] = IF hull[s].here THEN 0 ELSE 1
            /\ hull[s].here <=> age[s] < SinkTicks
=============================================================================
