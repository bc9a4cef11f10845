------------------------------ MODULE Gunnery -------------------------------
(***************************************************************************)
(* The guns of one ship: station.rs, the fire and reload commands of       *)
(* net.rs, and the deferred shots of server/tick.rs.                       *)
(*                                                                         *)
(* The game loop drains commands and then runs a tick.  A shot whose       *)
(* turret is not on its target is booked; the tick slews the turret and    *)
(* the booking is resolved right after it, long after the command was      *)
(* answered.  Between the two the seat, the aim, the health and the        *)
(* compartment of the gun can all change.                                  *)
(***************************************************************************)
EXTENDS Naturals, FiniteSets

CONSTANTS
    Guns, Players,
    Low, High,      \* yaw_range, in slew steps of a tick; turrets start at 0
    Bearings,       \* bearings a player asks for, those out of range included
    Rounds,         \* max_ammo
    Cycle,          \* ticks of a reload; the cooldown of a shot lasts as long
    Rest,           \* ticks between two repairs of a station
    Health,         \* max_health
    Patience,       \* AIM_TIMEOUT_TICKS
    Ammo,           \* valid ammo types; 0 is every gun's default
    MaxOrders       \* bound: orders to fire ever given

ASSUME GunneryAssumption ==
    /\ Low \in Nat /\ High \in Nat /\ Low <= High /\ Bearings \subseteq Nat
    /\ Rounds \in Nat /\ Cycle \in Nat \ {0} /\ Rest \in Nat /\ Health \in Nat \ {0}
    /\ Patience \in Nat \ {0} /\ 0 \in Ammo /\ MaxOrders \in Nat

Nobody == "nobody"
ASSUME NobodyAssumption == Nobody \notin Players

Orders == 1..MaxOrders

VARIABLES
    afloat,   \* TickSystem::get_ship finds the ship
    drowned,  \* the guns whose compartment is flooded or burns
    gun,      \* StationState of each gun
    booked,   \* deferred_shots
    orders,   \* history: orders to fire given so far
    fired,    \* history: the shells each order brought
    reply     \* the ack of the last reload command

gunVars == <<afloat, drowned, gun, booked, orders, fired, reply>>

NoReply == [gun |-> Nobody, ok |-> FALSE, shell |-> 0]

GunInit ==
    /\ afloat = TRUE /\ drowned = {}
    /\ gun = [g \in Guns |->
                [seat |-> Nobody, up |-> TRUE, health |-> Health, rest |-> 0,
                 yaw |-> 0, aim |-> 0, rounds |-> Rounds, shell |-> 0,
                 loaded |-> Cycle, cooldown |-> 0]]
    /\ booked = {}
    /\ orders = 0 /\ fired = [o \in Orders |-> 0]
    /\ reply = NoReply

-----------------------------------------------------------------------------
(* A station by itself.                                                    *)

Within(b) == IF b < Low THEN Low ELSE IF b > High THEN High ELSE b

Ready(s) ==
    /\ s.up /\ s.health > 0 /\ s.cooldown = 0 /\ s.loaded = Cycle /\ s.rounds > 0

Shot(s) == [s EXCEPT !.rounds = @ - 1, !.loaded = 0, !.cooldown = Cycle]

OnTarget(s) == s.yaw = s.aim

Slewed(s) ==
    [s EXCEPT !.yaw = Within(IF s.yaw < s.aim THEN @ + 1 ELSE IF s.yaw > s.aim THEN @ - 1 ELSE @)]

(* A finished cycle loads one round, and starts over while there is room.  *)
Cycled(s) ==
    IF s.loaded = Cycle THEN s
    ELSE IF s.loaded + 1 < Cycle THEN [s EXCEPT !.loaded = @ + 1]
    ELSE IF s.rounds >= Rounds THEN [s EXCEPT !.loaded = Cycle]
    ELSE [s EXCEPT !.rounds = @ + 1, !.loaded = IF s.rounds + 1 < Rounds THEN 0 ELSE Cycle]

Cooled(s) == [s EXCEPT !.cooldown = IF @ = 0 THEN 0 ELSE @ - 1]
Rested(s) == [s EXCEPT !.rest = IF @ = 0 THEN 0 ELSE @ - 1]

(* Station::update.                                                        *)
StationUpdated(s, dead) ==
    IF s.health = 0 THEN Rested(s)
    ELSE IF dead THEN [Rested(s) EXCEPT !.up = FALSE]
    ELSE Cycled(Slewed(Cooled([Rested(s) EXCEPT !.up = TRUE])))

(* Station::apply_damage.                                                  *)
Damaged(s, left) ==
    IF left > 0 THEN [s EXCEPT !.health = left]
    ELSE [s EXCEPT !.health = 0, !.up = FALSE, !.seat = Nobody]

-----------------------------------------------------------------------------
(* The commands of the drain.                                              *)

Manned(p, g) == afloat /\ gun[g].seat = p

Enter(p, g) ==
    /\ afloat
    /\ \A h \in Guns : gun[h].seat # p
    /\ gun[g].up /\ gun[g].health > 0 /\ gun[g].seat = Nobody
    /\ gun' = [gun EXCEPT ![g].seat = p]
    /\ reply' = NoReply
    /\ UNCHANGED <<afloat, drowned, booked, orders, fired>>

(* ExitStation, and the seats despawn_player clears.                       *)
Exit(p, g) ==
    /\ Manned(p, g)
    /\ gun' = [gun EXCEPT ![g].seat = Nobody]
    /\ reply' = NoReply
    /\ UNCHANGED <<afloat, drowned, booked, orders, fired>>

NextOrder ==
    /\ orders < MaxOrders
    /\ orders' = orders + 1
    /\ reply' = NoReply

(* try_fire_station and spawn_projectile: the shell may be refused at the  *)
(* cap of the projectile list, the round is spent.                         *)
TryFire(s, o) ==
    IF Ready(s)
    THEN \E shells \in {0, 1} : fired' = [fired EXCEPT ![o] = @ + shells]
    ELSE UNCHANGED fired
Tried(s) == IF Ready(s) THEN Shot(s) ELSE s

(* StationAction::Fire, and FireWeapon without a target.                   *)
Fire(p, g) ==
    /\ Manned(p, g) /\ NextOrder
    /\ TryFire(gun[g], orders')
    /\ gun' = [gun EXCEPT ![g] = Tried(@)]
    /\ UNCHANGED <<afloat, drowned, booked>>

(* defer_shot: an older booking of the gun goes.                           *)
Booked(g, o) ==
    {b \in booked : b.gun # g} \cup {[gun |-> g, left |-> Patience, order |-> o]}

(* FireWeapon with a target.                                               *)
FireAt(p, g, b) ==
    LET aimed == [gun[g] EXCEPT !.aim = Within(b)]
    IN  /\ Manned(p, g) /\ NextOrder
        /\ \/ /\ ~OnTarget(aimed)
              /\ booked' = Booked(g, orders')
              /\ gun' = [gun EXCEPT ![g] = aimed]
              /\ UNCHANGED fired
           \/ /\ OnTarget(aimed)
              /\ TryFire(aimed, orders')
              /\ gun' = [gun EXCEPT ![g] = Tried(aimed)]
              /\ UNCHANGED booked
        /\ UNCHANGED <<afloat, drowned>>

(* StationAction::SetYaw.                                                  *)
Aim(p, g, b) ==
    /\ Manned(p, g)
    /\ gun' = [gun EXCEPT ![g].aim = Within(b)]
    /\ reply' = NoReply
    /\ UNCHANGED <<afloat, drowned, booked, orders, fired>>

(* ReloadWeapon: the result of Station::reload does not reach the ack.     *)
HasRoom(s) == s.rounds < Rounds /\ s.loaded = Cycle

Reload(p, g, t) ==
    /\ Manned(p, g)
    /\ gun' = IF HasRoom(gun[g])
              THEN [gun EXCEPT ![g].rounds = @ + 1, ![g].shell = t, ![g].loaded = 0]
              ELSE gun
    /\ reply' = [gun |-> g, ok |-> TRUE, shell |-> t]
    /\ UNCHANGED <<afloat, drowned, booked, orders, fired>>

(* SetStationBehavior: Active, or one of the two that take the gun down.   *)
Behave(p, g, active) ==
    /\ Manned(p, g)
    /\ gun' = [gun EXCEPT ![g].up = active]
    /\ reply' = NoReply
    /\ UNCHANGED <<afloat, drowned, booked, orders, fired>>

(* RepairStation, by a player at another post: a repair of nothing too.    *)
Mend(g, gain) ==
    /\ afloat /\ gun[g].rest = 0
    /\ LET health == IF gun[g].health + gain > Health THEN Health ELSE gun[g].health + gain
       IN  gun' = [gun EXCEPT ![g].rest = Rest, ![g].health = health,
                              ![g].up = @ \/ health > 0]
    /\ reply' = NoReply
    /\ UNCHANGED <<afloat, drowned, booked, orders, fired>>

-----------------------------------------------------------------------------
(* A tick: the damage of the last one lands, the stations move, and the    *)
(* bookings are resolved.  `moved' is what Station::update left.           *)

(* The bookings that stay: the turret is still on its way, with time left. *)
Unhurried(moved) ==  \* mutant: the deadline does not come nearer
    {b \in booked : ~OnTarget(moved[b.gun])}
AlsoFired(moved) ==  \* mutant: arrival does not consume the booking
    {[b EXCEPT !.left = @ - 1] : b \in {c \in booked : c.left > 1}}
Waiting(moved) ==
    {[b EXCEPT !.left = @ - 1] :
        b \in {c \in booked : ~OnTarget(moved[c.gun]) /\ c.left > 1}}

Arrived(moved) == {b \in booked : OnTarget(moved[b.gun]) /\ Ready(moved[b.gun])}

(* Every shell may be refused at the cap.                                  *)
Resolve(moved) ==
    /\ booked' = Waiting(moved)
    /\ \E spawned \in SUBSET {b.order : b \in Arrived(moved)} :
          fired' = [o \in Orders |-> IF o \in spawned THEN fired[o] + 1 ELSE fired[o]]
    /\ gun' = [g \in Guns |-> IF \E b \in Arrived(moved) : b.gun = g THEN Shot(moved[g]) ELSE moved[g]]

StationTick(left) ==
    /\ afloat
    /\ \A g \in Guns : left[g] <= gun[g].health
    /\ drowned' \in SUBSET Guns
    /\ Resolve([g \in Guns |->
                  StationUpdated(IF left[g] < gun[g].health THEN Damaged(gun[g], left[g]) ELSE gun[g],
                          g \in drowned')])
    /\ reply' = NoReply
    /\ UNCHANGED <<afloat, orders>>

(* The tick in which the ship leaves the simulation.                       *)
Sink ==
    /\ afloat
    /\ afloat' = FALSE
    /\ booked' = {}
    /\ reply' = NoReply
    /\ UNCHANGED <<drowned, gun, orders, fired>>

(* The loop ticks on, with nothing of this ship in it.                     *)
Gone == ~afloat /\ UNCHANGED gunVars

AnyTick == Sink \/ Gone \/ \E left \in [Guns -> 0..Health] : StationTick(left)

GunNext ==
    \/ \E g \in Guns :
          \/ \E p \in Players :
                \/ Enter(p, g) \/ Exit(p, g) \/ Fire(p, g)
                \/ \E b \in Bearings : FireAt(p, g, b) \/ Aim(p, g, b)
                \/ \E t \in Ammo : Reload(p, g, t)
                \/ \E active \in BOOLEAN : Behave(p, g, active)
          \/ \E gain \in 0..1 : Mend(g, gain)
    \/ AnyTick

GunSpec == GunInit /\ [][GunNext]_gunVars

(* The loop's interval ticks for as long as the server runs.               *)
GunFairness == WF_gunVars(AnyTick)
FairGunSpec == GunSpec /\ GunFairness

-----------------------------------------------------------------------------
GunTypeOK ==
    /\ afloat \in BOOLEAN /\ drowned \subseteq Guns
    /\ gun \in [Guns -> [seat : Players \cup {Nobody}, up : BOOLEAN, health : 0..Health,
                         rest : 0..Rest, yaw : Nat, aim : Nat, rounds : 0..Rounds,
                         shell : Ammo, loaded : 0..Cycle, cooldown : 0..Cycle]]
    /\ booked \subseteq [gun : Guns, left : 1..Patience, order : Orders]
    /\ orders \in 0..MaxOrders /\ fired \in [Orders -> Nat]

(* "the arrival must spawn exactly one shell" (server/tick.rs 480): an     *)
(* order to fire, answered at once or booked, booked again by a later one, *)
(* left behind by its gunner or met by a reload, never brings two shells,  *)
(* and no gun has two bookings.                                            *)
OneShellPerOrder ==
    /\ \A o \in Orders : fired[o] <= 1
    /\ \A b \in booked : fired[b.order] = 0 /\ \A c \in booked : b.gun = c.gun => b = c

(* The reload cycle runs by itself (bug 158) and only stops when the       *)
(* magazine is full, so the room a reload command asks for and the end of  *)
(* the cycle it waits for never meet: no command ever changes the load.    *)
ReadyMeansFull == \A g \in Guns : gun[g].loaded = Cycle => gun[g].rounds = Rounds

(* "the deadline must refuse the shot instead of queueing it forever"      *)
(* (server/tick.rs 521): every booking ends, whatever becomes of the gun.  *)
BookingEnds ==
    \A o \in Orders : (\E b \in booked : b.order = o) ~> ~(\E b \in booked : b.order = o)

(* "an ack that says 'ok' for a request that loaded nothing is how this    *)
(* stayed invisible" (net.rs 389): a reload acked with success loaded what *)
(* it asked for.                                                           *)
AckedReloadLoads == reply.ok => gun[reply.gun].shell = reply.shell
=============================================================================
