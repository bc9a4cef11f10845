----------------------------- MODULE ShipProofs -----------------------------
(***************************************************************************)
(* What holds of the guns (Gunnery) for any number of guns, players and    *)
(* orders, any magazine, cycle and patience; and of the loss of a hull     *)
(* (Battle) for any number of ships and shells, any health and any length  *)
(* of the sinking clock; and of the water (Flooding) for any compartments, *)
(* doors, depth and rates.                                                 *)
(***************************************************************************)
EXTENDS Gunnery, Battle, Flooding, FiniteSetTheorems, WellFoundedInduction, TLAPS

Station == [seat : Players \cup {Nobody}, up : BOOLEAN, health : 0..Health,
            rest : 0..Rest, yaw : Nat, aim : Nat, rounds : 0..Rounds,
            shell : Ammo, loaded : 0..Cycle, cooldown : 0..Cycle]

(* A gun is sound when its values are of their types and a finished cycle  *)
(* means a full magazine.                                                  *)
Sound(s) == s \in Station /\ (s.loaded = Cycle => s.rounds = Rounds)

GunsSound == afloat \in BOOLEAN /\ drowned \subseteq Guns
             /\ DOMAIN gun = Guns /\ gun = [g \in Guns |-> gun[g]] /\ \A g \in Guns : Sound(gun[g])

(* No order has brought a shell before it was given, and no two bookings   *)
(* are of one gun or of one order.                                         *)
OrdersSound ==
    /\ orders \in 0..MaxOrders /\ fired \in [Orders -> 0..1]
    /\ booked \subseteq [gun : Guns, left : 1..Patience, order : Orders]
    /\ \A o \in Orders : o > orders => fired[o] = 0
    /\ \A b \in booked : b.order <= orders /\ fired[b.order] = 0
    /\ \A b, c \in booked : b.gun = c.gun \/ b.order = c.order => b = c

-----------------------------------------------------------------------------
LEMMA WithinNat == ASSUME NEW b \in Nat PROVE Within(b) \in Nat
  BY GunneryAssumption DEF Within

(* The parts of an update, each of which leaves a sound gun sound.         *)
LEMMA ShotSound ==
  ASSUME NEW s, Sound(s), Ready(s) PROVE Sound(Shot(s))
<1>1. s.rounds > 0
  BY DEF Ready
<1>2. s.rounds - 1 \in 0..Rounds /\ Cycle # 0 /\ 0 \in 0..Cycle /\ Cycle \in 0..Cycle
  BY <1>1, GunneryAssumption DEF Sound, Station
<1> QED
  BY <1>2 DEF Sound, Station, Shot

LEMMA RestedSound == ASSUME NEW s, Sound(s) PROVE Sound(Rested(s))
  BY GunneryAssumption DEF Sound, Station, Rested

LEMMA CooledSound == ASSUME NEW s, Sound(s) PROVE Sound(Cooled(s))
  BY GunneryAssumption DEF Sound, Station, Cooled

LEMMA SlewedSound == ASSUME NEW s, Sound(s) PROVE Sound(Slewed(s))
<1> DEFINE next == IF s.yaw < s.aim THEN s.yaw + 1
                   ELSE IF s.yaw > s.aim THEN s.yaw - 1 ELSE s.yaw
<1>1. next \in Nat
  BY DEF Sound, Station
<1>2. Within(next) \in Nat
  BY <1>1, WithinNat
<1>3. Slewed(s) = [s EXCEPT !.yaw = Within(next)]
  BY DEF Slewed
<1> QED
  BY <1>2, <1>3 DEF Sound, Station

LEMMA CycledSound == ASSUME NEW s, Sound(s) PROVE Sound(Cycled(s))
<1>1. CASE s.loaded = Cycle
  BY <1>1 DEF Cycled
<1>2. CASE s.loaded # Cycle /\ s.loaded + 1 < Cycle
  BY <1>2, GunneryAssumption DEF Cycled, Sound, Station
<1>3. CASE s.loaded # Cycle /\ ~(s.loaded + 1 < Cycle) /\ s.rounds >= Rounds
  BY <1>3, GunneryAssumption DEF Cycled, Sound, Station
<1>4. CASE s.loaded # Cycle /\ ~(s.loaded + 1 < Cycle) /\ ~(s.rounds >= Rounds)
  <2> DEFINE progress == IF s.rounds + 1 < Rounds THEN 0 ELSE Cycle
  <2>1. Cycled(s) = [s EXCEPT !.rounds = s.rounds + 1, !.loaded = progress]
    BY <1>4 DEF Cycled
  <2>2. s.rounds + 1 \in 0..Rounds /\ progress \in 0..Cycle
    BY <1>4, GunneryAssumption DEF Sound, Station
  <2>3. progress = Cycle => s.rounds + 1 = Rounds
    BY <1>4, GunneryAssumption DEF Sound, Station
  <2> HIDE DEF progress
  <2> QED
    BY <2>1, <2>2, <2>3 DEF Sound, Station
<1> QED
  BY <1>1, <1>2, <1>3, <1>4

LEMMA UpdatedSound ==
  ASSUME NEW s, NEW dead \in BOOLEAN, Sound(s) PROVE Sound(StationUpdated(s, dead))
<1>1. Sound(Rested(s))
  BY RestedSound
<1>2. Sound([Rested(s) EXCEPT !.up = FALSE]) /\ Sound([Rested(s) EXCEPT !.up = TRUE])
  BY <1>1 DEF Sound, Station
<1>3. Sound(Cycled(Slewed(Cooled([Rested(s) EXCEPT !.up = TRUE]))))
  BY <1>2, CooledSound, SlewedSound, CycledSound
<1> QED
  BY <1>1, <1>2, <1>3 DEF StationUpdated

LEMMA DamagedSound ==
  ASSUME NEW s, NEW left \in 0..Health, Sound(s) PROVE Sound(Damaged(s, left))
<1>1. CASE left > 0
  BY <1>1 DEF Sound, Station, Damaged
<1>2. CASE ~(left > 0)
  <2>1. Damaged(s, left) = [s EXCEPT !.health = 0, !.up = FALSE, !.seat = Nobody]
    BY <1>2 DEF Damaged
  <2>2. 0 \in 0..Health
    BY GunneryAssumption
  <2> QED
    BY <2>1, <2>2 DEF Sound, Station
<1> QED
  BY <1>1, <1>2

LEMMA TriedSound == ASSUME NEW s, Sound(s) PROVE Sound(Tried(s))
  BY ShotSound DEF Tried

(* Replacing one gun by a sound one keeps the guns sound.                  *)
LEMMA OneGun ==
  ASSUME GunsSound, NEW g \in Guns, NEW s, Sound(s), gun' = [gun EXCEPT ![g] = s],
         UNCHANGED <<afloat, drowned>>
  PROVE  GunsSound'
  BY DEF GunsSound, Sound, Station

-----------------------------------------------------------------------------
(* Guns: every step replaces guns by what one of the operations makes.     *)
LEMMA GunsInit == GunInit => GunsSound
  BY GunneryAssumption DEF GunInit, GunsSound, Sound, Station

LEMMA GunsStep == GunsSound /\ [GunNext]_gunVars => GunsSound'
<1> SUFFICES ASSUME GunsSound, [GunNext]_gunVars PROVE GunsSound'
  OBVIOUS
<1> USE DEF Station
<1>0. \A g \in Guns : Sound(gun[g])
  BY DEF GunsSound
<1>1. ASSUME NEW g \in Guns, NEW p \in Players, Enter(p, g) PROVE GunsSound'
  <2>1. Sound([gun[g] EXCEPT !.seat = p])
    BY <1>0 DEF Sound
  <2>2. gun' = [gun EXCEPT ![g] = [gun[g] EXCEPT !.seat = p]]
    BY <1>1 DEF Enter
  <2> QED
    BY <1>1, <2>1, <2>2, OneGun DEF Enter
<1>2. ASSUME NEW g \in Guns, NEW p \in Players, Exit(p, g) PROVE GunsSound'
  <2>1. Sound([gun[g] EXCEPT !.seat = Nobody])
    BY <1>0 DEF Sound
  <2>2. gun' = [gun EXCEPT ![g] = [gun[g] EXCEPT !.seat = Nobody]]
    BY <1>2 DEF Exit
  <2> QED
    BY <1>2, <2>1, <2>2, OneGun DEF Exit
<1>3. ASSUME NEW g \in Guns, NEW p \in Players, Fire(p, g) PROVE GunsSound'
  BY <1>0, <1>3, TriedSound, OneGun DEF Fire
<1>4. ASSUME NEW g \in Guns, NEW p \in Players, NEW b \in Bearings, FireAt(p, g, b)
      PROVE GunsSound'
  <2> DEFINE aimed == [gun[g] EXCEPT !.aim = Within(b)]
  <2>1. Within(b) \in Nat
    BY WithinNat, GunneryAssumption
  <2>2. Sound(aimed)
    BY <1>0, <2>1 DEF Sound
  <2>3. Sound(Tried(aimed))
    BY <2>2, TriedSound
  <2>4. gun' = [gun EXCEPT ![g] = aimed] \/ gun' = [gun EXCEPT ![g] = Tried(aimed)]
    BY <1>4 DEF FireAt
  <2> QED
    BY <1>4, <2>2, <2>3, <2>4, OneGun DEF FireAt
<1>5. ASSUME NEW g \in Guns, NEW p \in Players, NEW b \in Bearings, Aim(p, g, b)
      PROVE GunsSound'
  <2>1. Within(b) \in Nat
    BY WithinNat, GunneryAssumption
  <2>2. Sound([gun[g] EXCEPT !.aim = Within(b)])
    BY <1>0, <2>1 DEF Sound
  <2>3. gun' = [gun EXCEPT ![g] = [gun[g] EXCEPT !.aim = Within(b)]]
    BY <1>5 DEF Aim
  <2> QED
    BY <1>5, <2>2, <2>3, OneGun DEF Aim
<1>6. ASSUME NEW g \in Guns, NEW p \in Players, NEW t \in Ammo, Reload(p, g, t)
      PROVE GunsSound'
  (* A sound gun has no room when its cycle is complete.                   *)
  <2>1. ~HasRoom(gun[g])
    BY <1>0, GunneryAssumption DEF HasRoom, Sound
  <2>2. gun' = gun
    BY <1>6, <2>1 DEF Reload
  <2> QED
    BY <1>6, <2>2 DEF Reload, GunsSound
<1>7. ASSUME NEW g \in Guns, NEW p \in Players, NEW active \in BOOLEAN, Behave(p, g, active)
      PROVE GunsSound'
  <2>1. Sound([gun[g] EXCEPT !.up = active])
    BY <1>0 DEF Sound
  <2>2. gun' = [gun EXCEPT ![g] = [gun[g] EXCEPT !.up = active]]
    BY <1>7 DEF Behave
  <2> QED
    BY <1>7, <2>1, <2>2, OneGun DEF Behave
<1>8. ASSUME NEW g \in Guns, NEW gain \in 0..1, Mend(g, gain) PROVE GunsSound'
  <2> DEFINE health == IF gun[g].health + gain > Health THEN Health ELSE gun[g].health + gain
             up == gun[g].up \/ health > 0
             mended == [gun[g] EXCEPT !.rest = Rest, !.health = health, !.up = up]
  <2>1. health \in 0..Health /\ Rest \in 0..Rest
    BY <1>0, GunneryAssumption DEF Sound
  <2>2. up \in BOOLEAN
    OBVIOUS
  <2>3. Sound(mended)
    BY <1>0, <2>1, <2>2 DEF Sound
  <2>4. gun' = [gun EXCEPT ![g] = mended]
    BY <1>8 DEF Mend
  <2> QED
    BY <1>8, <2>3, <2>4, OneGun DEF Mend
<1>9. ASSUME NEW left \in [Guns -> 0..Health], StationTick(left) PROVE GunsSound'
  <2> DEFINE moved == [g \in Guns |->
                 StationUpdated(IF left[g] < gun[g].health THEN Damaged(gun[g], left[g]) ELSE gun[g],
                                g \in drowned')]
  <2>1. \A g \in Guns : Sound(moved[g])
    <3> SUFFICES ASSUME NEW g \in Guns PROVE Sound(moved[g])
      OBVIOUS
    <3>1. Sound(IF left[g] < gun[g].health THEN Damaged(gun[g], left[g]) ELSE gun[g])
      BY <1>0, DamagedSound
    <3> DEFINE hit == IF left[g] < gun[g].health THEN Damaged(gun[g], left[g]) ELSE gun[g]
               dead == g \in drowned'
    <3>2. moved[g] = StationUpdated(hit, dead)
      OBVIOUS
    <3>3. dead \in BOOLEAN
      OBVIOUS
    <3> HIDE DEF hit, dead, moved
    <3>4. Sound(hit) => Sound(StationUpdated(hit, dead))
      BY <3>3, UpdatedSound
    <3> QED
      BY <3>1, <3>2, <3>4 DEF hit
  <2>2. \A g \in Guns : (\E b \in Arrived(moved) : b.gun = g) => Ready(moved[g])
    BY DEF Arrived
  <2>3. gun' = [g \in Guns |->
                  IF \E b \in Arrived(moved) : b.gun = g THEN Shot(moved[g]) ELSE moved[g]]
    BY <1>9 DEF StationTick, Resolve
  <2>4. \A g \in Guns : Sound(gun'[g])
    BY <2>1, <2>2, <2>3, ShotSound
  <2> QED
    BY <1>9, <2>3, <2>4 DEF StationTick, GunsSound
<1>10. CASE Sink
  BY <1>10 DEF Sink, GunsSound
<1>11. CASE UNCHANGED gunVars
  BY <1>11 DEF gunVars, GunsSound
<1> QED
  BY <1>1, <1>2, <1>3, <1>4, <1>5, <1>6, <1>7, <1>8, <1>9, <1>10, <1>11
     DEF GunNext, AnyTick, Gone

(* Orders and bookings.                                                    *)
LEMMA OrdersInit == GunInit => OrdersSound
  BY GunneryAssumption DEF GunInit, OrdersSound, Orders

(* A new order is later than any other, so it has no shell and no booking. *)
LEMMA NewOrder ==
  ASSUME OrdersSound, NextOrder
  PROVE  /\ orders' \in Orders /\ orders' \in 0..MaxOrders /\ orders' = orders + 1
         /\ fired[orders'] = 0
         /\ \A b \in booked : b.order # orders'
  BY GunneryAssumption DEF OrdersSound, NextOrder, Orders

LEMMA TryFireSound ==
  ASSUME OrdersSound, NextOrder, NEW s, TryFire(s, orders'), UNCHANGED booked
  PROVE  OrdersSound'
<1>1. PICK shells \in {0, 1} : fired' = [fired EXCEPT ![orders'] = @ + shells]
  <2>1. CASE Ready(s)
    BY <2>1 DEF TryFire
  <2>2. CASE ~Ready(s)
    BY <2>2, NewOrder DEF TryFire, OrdersSound
  <2> QED
    BY <2>1, <2>2
<1>2. fired' \in [Orders -> 0..1]
  BY <1>1, NewOrder DEF OrdersSound
<1>3. \A o \in Orders : o > orders' => fired'[o] = 0
  BY <1>1, NewOrder DEF OrdersSound, Orders
<1>4. \A b \in booked' : b.order <= orders' /\ fired'[b.order] = 0
  <2>1. \A b \in booked : b.order \in Orders /\ b.order <= orders'
    BY GunneryAssumption, NewOrder DEF OrdersSound, Orders
  <2>2. \A b \in booked : fired'[b.order] = fired[b.order]
    BY <1>1, <2>1, NewOrder DEF OrdersSound
  <2> QED
    BY <2>1, <2>2 DEF OrdersSound
<1> QED
  BY <1>2, <1>3, <1>4, NewOrder DEF OrdersSound

LEMMA OrdersStep == OrdersSound /\ [GunNext]_gunVars => OrdersSound'
<1> SUFFICES ASSUME OrdersSound, [GunNext]_gunVars PROVE OrdersSound'
  OBVIOUS
<1>1. ASSUME NEW g \in Guns, NEW p \in Players, Fire(p, g) PROVE OrdersSound'
  BY <1>1, TryFireSound DEF Fire
<1>2. ASSUME NEW g \in Guns, NEW p \in Players, NEW b \in Bearings, FireAt(p, g, b)
      PROVE OrdersSound'
  <2> DEFINE aimed == [gun[g] EXCEPT !.aim = Within(b)]
             entry == [gun |-> g, left |-> Patience, order |-> orders']
  <2>1. CASE NextOrder /\ TryFire(aimed, orders') /\ UNCHANGED booked
    BY <2>1, TryFireSound
  <2>2. CASE NextOrder /\ booked' = Booked(g, orders') /\ UNCHANGED fired
    <3>1. booked' = {c \in booked : c.gun # g} \cup {entry}
      BY <2>2 DEF Booked
    <3>2. entry \in [gun : Guns, left : 1..Patience, order : Orders]
      BY <2>2, NewOrder, GunneryAssumption
    <3>3. \A c, d \in booked' : c.gun = d.gun \/ c.order = d.order => c = d
      BY <2>2, <3>1, NewOrder DEF OrdersSound
    <3>4. \A c \in booked' : c.order <= orders' /\ fired'[c.order] = 0
      BY <2>2, <3>1, NewOrder DEF OrdersSound, Orders
    <3>5. \A o \in Orders : o > orders' => fired'[o] = 0
      BY <2>2, NewOrder DEF OrdersSound, Orders
    <3> QED
      BY <2>2, <3>1, <3>2, <3>3, <3>4, <3>5, NewOrder DEF OrdersSound
  <2> QED
    BY <1>2, <2>1, <2>2 DEF FireAt
<1>3. ASSUME NEW left \in [Guns -> 0..Health], StationTick(left) PROVE OrdersSound'
  <2> DEFINE moved == [g \in Guns |->
                 StationUpdated(IF left[g] < gun[g].health THEN Damaged(gun[g], left[g]) ELSE gun[g],
                                g \in drowned')]
             Lowered(b) == [b EXCEPT !.left = b.left - 1]
             kept == {b \in booked : ~OnTarget(moved[b.gun]) /\ b.left > 1}
  <2>1. Resolve(moved) /\ UNCHANGED orders
    BY <1>3 DEF StationTick
  <2> HIDE DEF moved
  <2>2. booked' = {Lowered(b) : b \in kept}
    BY <2>1 DEF Resolve, Waiting
  <2>3. PICK spawned \in SUBSET {b.order : b \in Arrived(moved)} :
           fired' = [o \in Orders |-> IF o \in spawned THEN fired[o] + 1 ELSE fired[o]]
    BY <2>1 DEF Resolve
  <2>4. \A o \in spawned : \E b \in booked : b.order = o /\ OnTarget(moved[b.gun])
    BY <2>3 DEF Arrived
  <2>5. \A b \in kept : /\ b \in booked /\ Lowered(b).gun = b.gun
                         /\ Lowered(b).order = b.order /\ Lowered(b).left = b.left - 1
                         /\ Lowered(b) \in [gun : Guns, left : 1..Patience, order : Orders]
    BY GunneryAssumption DEF OrdersSound
  <2>6. \A b \in kept : b.order \notin spawned
    BY <2>4 DEF OrdersSound
  <2>7. fired' \in [Orders -> 0..1]
    <3>1. \A o \in spawned : fired[o] = 0
      BY <2>4 DEF OrdersSound
    <3> QED
      BY <2>3, <3>1 DEF OrdersSound
  <2>8. \A o \in Orders : o > orders => fired'[o] = 0
    <3>1. \A o \in spawned : o <= orders
      BY <2>4 DEF OrdersSound
    <3>2. \A o \in Orders : o > orders => o \notin spawned
      BY <3>1 DEF OrdersSound, Orders
    <3> QED
      BY <2>3, <3>2 DEF OrdersSound
  <2> HIDE DEF kept, Lowered
  <2>9. \A b \in booked' : b.order <= orders /\ fired'[b.order] = 0
    <3>1. \A b \in kept : b.order <= orders /\ fired'[b.order] = 0
      BY <2>3, <2>5, <2>6 DEF OrdersSound
    <3> QED
      BY <2>2, <2>5, <3>1
  <2>10. \A b, c \in booked' : b.gun = c.gun \/ b.order = c.order => b = c
    BY <2>2, <2>5 DEF OrdersSound
  <2>11. booked' \subseteq [gun : Guns, left : 1..Patience, order : Orders]
    BY <2>2, <2>5
  <2> QED
    BY <2>1, <2>7, <2>8, <2>9, <2>10, <2>11 DEF OrdersSound
<1>4. CASE Sink
  BY <1>4 DEF Sink, OrdersSound
<1>5. CASE UNCHANGED <<booked, orders, fired>>
  BY <1>5 DEF OrdersSound
<1>6. ASSUME NEW g \in Guns, NEW p \in Players,
             \/ Enter(p, g) \/ Exit(p, g)
             \/ \E b \in Bearings : Aim(p, g, b)
             \/ \E t \in Ammo : Reload(p, g, t)
             \/ \E active \in BOOLEAN : Behave(p, g, active)
      PROVE  UNCHANGED <<booked, orders, fired>>
  BY <1>6 DEF Enter, Exit, Aim, Reload, Behave
<1>7. ASSUME NEW g \in Guns, NEW gain \in 0..1, Mend(g, gain) PROVE UNCHANGED <<booked, orders, fired>>
  BY <1>7 DEF Mend
<1>8. CASE AnyTick
  BY <1>3, <1>4, <1>5, <1>8 DEF AnyTick, Gone, gunVars
<1>9. CASE UNCHANGED gunVars
  BY <1>5, <1>9 DEF gunVars
<1> QED
  BY <1>1, <1>2, <1>5, <1>6, <1>7, <1>8, <1>9 DEF GunNext

(* The guns, their bookings and the orders keep to their types.            *)
THEOREM GunTypesCorrect == GunSpec => []GunTypeOK
<1>1. GunsSound /\ OrdersSound => GunTypeOK
  BY DEF GunsSound, Sound, Station, OrdersSound, GunTypeOK
<1> QED
  BY GunsInit, GunsStep, OrdersInit, OrdersStep, <1>1, PTL DEF GunSpec

(* An order to fire never brings two shells, and no gun has two bookings:  *)
(* what a booking promises was not fired before, and arrival ends it       *)
(* (server/tick.rs defer_shot, resolve_deferred_shots).                    *)
THEOREM OrdersFireOnce == GunSpec => []OneShellPerOrder
<1>1. OrdersSound => OneShellPerOrder
  BY DEF OrdersSound, OneShellPerOrder
<1> QED
  BY OrdersInit, OrdersStep, <1>1, PTL DEF GunSpec

(* A completed reload cycle means a full magazine: a reload command, which *)
(* asks for a completed cycle and for room, never loads anything           *)
(* (station.rs reload, station.rs update).                                 *)
THEOREM CycleEndsFull == GunSpec => []ReadyMeansFull
<1>1. GunsSound => ReadyMeansFull
  BY DEF GunsSound, Sound, ReadyMeansFull
<1> QED
  BY GunsInit, GunsStep, <1>1, PTL DEF GunSpec

-----------------------------------------------------------------------------
(* The hulls.                                                              *)

HullRecord == [here : BOOLEAN, health : 0..HullHealth, sinking : BOOLEAN, timer : 0..SinkTicks]

Types ==
    /\ phase \in Phases
    /\ hull \in [Ships -> HullRecord] /\ before \subseteq Ships
    /\ began \in [Ships -> Nat] /\ gone \in [Ships -> Nat] /\ age \in [Ships -> Nat]

(* A hull without health sinks, and its clock and its age add up to the    *)
(* length of the clock: nothing has wound it up again.                     *)
Clocked(s) ==
    /\ hull[s].sinking <=> hull[s].health = 0
    /\ hull[s].sinking => hull[s].timer + age[s] = SinkTicks
    /\ ~hull[s].sinking => age[s] = 0 /\ hull[s].here
    /\ hull[s].here <=> age[s] < SinkTicks

(* A hull that sinks is fresh when the loss was turned up by the damage    *)
(* this tick landed: it was afloat when the tick captured the hulls.       *)
Fresh(s) == phase = "update" /\ s \notin before /\ hull[s].here

(* The loss is told of every hull that sinks and is not fresh.             *)
Told(s) ==
    /\ Fresh(s) => began[s] = 0 /\ age[s] = 0
    /\ ~Fresh(s) => /\ began[s] = IF hull[s].sinking THEN 1 ELSE 0
                    /\ hull[s].sinking => age[s] > 0
    /\ gone[s] = IF hull[s].here THEN 0 ELSE 1

LossInv == Types /\ \A s \in Ships : Clocked(s) /\ Told(s)

-----------------------------------------------------------------------------
LEMMA LossInit == BattleInit => LossInv
  BY BattleAssumption DEF BattleInit, LossInv, Types, HullRecord, Phases, Clocked, Told, Fresh

(* What a strike leaves: a hull that sank before keeps its clock.          *)
LEMMA StruckHull ==
  ASSUME NEW h \in HullRecord, NEW loss \in 0..HullHealth, h.sinking <=> h.health = 0
  PROVE  /\ Struck(h, loss) \in HullRecord
         /\ Struck(h, loss).sinking <=> Struck(h, loss).health = 0
         /\ Struck(h, loss).here = h.here
         /\ h.sinking => Struck(h, loss).sinking /\ Struck(h, loss).timer = h.timer
         /\ ~h.sinking /\ Struck(h, loss).sinking => Struck(h, loss).timer = SinkTicks
<1> DEFINE left == IF loss < h.health THEN h.health - loss ELSE 0
<1>1. left \in 0..HullHealth /\ SinkTicks \in 0..SinkTicks /\ (h.health = 0 => left = 0)
  BY BattleAssumption DEF HullRecord
<1>2. CASE left = 0 /\ ~h.sinking
  <2>1. Struck(h, loss) = [h EXCEPT !.health = 0, !.sinking = TRUE, !.timer = SinkTicks]
    BY <1>2 DEF Struck
  <2> QED
    BY <1>1, <1>2, <2>1, BattleAssumption DEF HullRecord
<1>3. CASE ~(left = 0 /\ ~h.sinking)
  <2>1. Struck(h, loss) = [h EXCEPT !.health = left]
    BY <1>3 DEF Struck
  <2> QED
    BY <1>1, <1>3, <2>1, BattleAssumption DEF HullRecord
<1> QED
  BY <1>2, <1>3

(* What an update leaves of a hull that is there.                          *)
LEMMA SettledHull ==
  ASSUME NEW h \in HullRecord, h.here, h.sinking <=> h.health = 0, h.sinking => h.timer > 0
  PROVE  /\ Settled(h) \in HullRecord /\ Settled(h).health = h.health
         /\ Settled(h).sinking <=> h.sinking
         /\ ~h.sinking => Settled(h).here
         /\ h.sinking => /\ Settled(h).timer = h.timer - 1
                         /\ Settled(h).here <=> h.timer > 1
<1>1. Doomed(h) = h
  BY DEF Doomed
<1>2. CASE ~h.sinking
  BY <1>1, <1>2 DEF Settled
<1>3. CASE h.sinking
  <2>1. Settled(h) = [h EXCEPT !.timer = h.timer - 1, !.here = h.timer > 1]
    BY <1>1, <1>3 DEF Settled
  <2>2. h.timer - 1 \in 0..SinkTicks /\ (h.timer > 1) \in BOOLEAN
    BY <1>3, BattleAssumption DEF HullRecord
  <2> QED
    BY <1>3, <2>1, <2>2 DEF HullRecord
<1> QED
  BY <1>2, <1>3

LEMMA LossStep == LossInv /\ [BattleNext]_battleVars => LossInv'
<1> SUFFICES ASSUME LossInv, [BattleNext]_battleVars PROVE LossInv'
  OBVIOUS
<1>0. /\ Types
      /\ \A s \in Ships : /\ hull[s] \in HullRecord /\ began[s] \in Nat
                           /\ gone[s] \in Nat /\ age[s] \in Nat
  BY DEF LossInv, Types
<1>1. ASSUME NEW loss \in [{p.target : p \in pending} -> 0..HullHealth], Land(loss)
      PROVE  LossInv'
  <2> DEFINE struck(s) == s \in {p.target : p \in pending} /\ hull[s].here
  <2>1. /\ phase = "commands" /\ phase' = "update"
        /\ hull' = [s \in Ships |-> IF struck(s) THEN Struck(hull[s], loss[s]) ELSE hull[s]]
        /\ before' = {s \in Ships : hull[s].here /\ hull[s].sinking}
        /\ UNCHANGED <<began, gone, age>>
    BY <1>1 DEF Land, Captured
  <2>2. ASSUME NEW s \in Ships
        PROVE  hull'[s] \in HullRecord /\ Clocked(s)' /\ Told(s)'
    <3>1. CASE struck(s)
      <4>1. hull'[s] = Struck(hull[s], loss[s]) /\ loss[s] \in 0..HullHealth
        BY <2>1, <3>1
      <4>2. hull[s].sinking <=> hull[s].health = 0
        BY DEF LossInv, Clocked
      <4>3. /\ hull'[s] \in HullRecord
            /\ hull'[s].sinking <=> hull'[s].health = 0
            /\ hull'[s].here = hull[s].here
            /\ hull[s].sinking => hull'[s].sinking /\ hull'[s].timer = hull[s].timer
            /\ ~hull[s].sinking /\ hull'[s].sinking => hull'[s].timer = SinkTicks
        BY <1>0, <4>1, <4>2, StruckHull
      <4>4. Clocked(s) /\ Told(s) /\ ~Fresh(s)
        BY <2>1 DEF LossInv, Fresh
      <4>5. Clocked(s)'
        BY <1>0, <2>1, <4>2, <4>3, <4>4, BattleAssumption DEF Clocked, Told
      <4>6. Fresh(s)' <=> ~hull[s].sinking
        BY <2>1, <3>1, <4>3 DEF Fresh
      <4>7. Told(s)'
        BY <1>0, <2>1, <4>2, <4>3, <4>4, <4>6 DEF Clocked, Told
      <4> QED
        BY <4>3, <4>5, <4>7
    <3>2. CASE ~struck(s)
      <4>1. hull'[s] = hull[s]
        BY <2>1, <3>2
      <4>2. Clocked(s) /\ Told(s) /\ ~Fresh(s)
        BY <2>1 DEF LossInv, Fresh
      <4>3. Fresh(s)' <=> hull[s].here /\ ~hull[s].sinking
        BY <2>1, <4>1 DEF Fresh
      <4> QED
        BY <1>0, <2>1, <4>1, <4>2, <4>3 DEF Clocked, Told
    <3> QED
      BY <3>1, <3>2
  <2>3. Types'
    BY <1>0, <2>1, <2>2 DEF Types, Phases
  <2> QED
    BY <2>2, <2>3 DEF LossInv
<1>2. CASE UpdateShips
  <2>1. /\ phase = "update" /\ phase' = "contacts" /\ UNCHANGED before
        /\ hull' = [s \in Ships |-> IF hull[s].here THEN Settled(hull[s]) ELSE hull[s]]
        /\ began' = [s \in Ships |-> IF Tells(s) THEN began[s] + 1 ELSE began[s]]
        /\ gone' = [s \in Ships |-> IF hull[s].here /\ ~hull'[s].here THEN gone[s] + 1 ELSE gone[s]]
        /\ age' = [s \in Ships |-> IF hull[s].here /\ hull[s].health = 0 THEN age[s] + 1 ELSE age[s]]
    BY <1>2 DEF UpdateShips
  <2>2. ASSUME NEW s \in Ships
        PROVE  hull'[s] \in HullRecord /\ Clocked(s)' /\ Told(s)'
    <3>1. /\ began'[s] = IF hull'[s].here /\ s \notin before /\ hull'[s].sinking
                         THEN began[s] + 1 ELSE began[s]
          /\ gone'[s] = IF hull[s].here /\ ~hull'[s].here THEN gone[s] + 1 ELSE gone[s]
          /\ age'[s] = IF hull[s].here /\ hull[s].health = 0 THEN age[s] + 1 ELSE age[s]
      BY <2>1 DEF Tells
    <3>2. Clocked(s) /\ Told(s)
      BY DEF LossInv
    <3>3. CASE hull[s].here
      <4>1. hull'[s] = Settled(hull[s])
        BY <2>1, <3>3
      <4>2. hull[s].sinking => hull[s].timer > 0
        BY <1>0, <3>2, <3>3, BattleAssumption DEF Clocked, HullRecord
      <4>3. /\ hull'[s] \in HullRecord /\ hull'[s].health = hull[s].health
            /\ hull'[s].sinking <=> hull[s].sinking
            /\ ~hull[s].sinking => hull'[s].here
            /\ hull[s].sinking => /\ hull'[s].timer = hull[s].timer - 1
                                  /\ hull'[s].here <=> hull[s].timer > 1
        BY <1>0, <3>2, <3>3, <4>1, <4>2, SettledHull DEF Clocked
      <4>4. Clocked(s)'
        BY <1>0, <3>1, <3>2, <3>3, <4>2, <4>3, BattleAssumption DEF Clocked, HullRecord
      <4>5. ~Fresh(s)' /\ (Fresh(s) <=> s \notin before)
        BY <2>1, <3>3 DEF Fresh
      <4>6. s \in before => began'[s] = began[s]
        BY <3>1
      <4>7. s \notin before /\ hull[s].sinking => hull'[s].here
        BY <1>0, <3>2, <4>3, <4>5, BattleAssumption DEF Clocked, Told, HullRecord
      <4>8. Told(s)'
        BY <1>0, <3>1, <3>2, <3>3, <4>3, <4>5, <4>6, <4>7 DEF Clocked, Told
      <4> QED
        BY <4>3, <4>4, <4>8
    <3>4. CASE ~hull[s].here
      <4>1. hull'[s] = hull[s]
        BY <2>1, <3>4
      <4> QED
        BY <1>0, <2>1, <3>1, <3>2, <3>4, <4>1 DEF Clocked, Told, Fresh
    <3> QED
      BY <3>3, <3>4
  <2>3. Types'
    BY <1>0, <2>1, <2>2 DEF Types, Phases
  <2> QED
    BY <2>2, <2>3 DEF LossInv
<1>3. ASSUME NEW rammed, Contacts(rammed) PROVE LossInv'
  BY <1>3 DEF Contacts, LossInv, Types, Phases, Clocked, Told, Fresh
<1>4. ASSUME NEW old, NEW meets, NEW turned, NEW splash, Fly(old, meets, turned, splash)
      PROVE  LossInv'
  BY <1>4 DEF Fly, LossInv, Types, Phases, Clocked, Told, Fresh
<1>5. ASSUME NEW s \in Ships, NEW b \in Shells, Shoot(s, b) PROVE LossInv'
  BY <1>5 DEF Shoot, LossInv, Types, Clocked, Told, Fresh
<1>6. CASE UNCHANGED battleVars
  BY <1>6 DEF battleVars, LossInv, Types, Clocked, Told, Fresh
<1> QED
  BY <1>1, <1>2, <1>3, <1>4, <1>5, <1>6 DEF BattleNext

(* A loss is told once, runs its course in SinkTicks updates, and ends     *)
(* with one report of the sinking, whatever lands on the wreck (bugs 57,   *)
(* 191 and 701 of sim/src/tick.rs and ship.rs).                            *)
THEOREM LossIsCertain == BattleSpec => []LossRunsItsCourse
<1>1. LossInv => LossRunsItsCourse
  BY DEF LossInv, Types, HullRecord, Clocked, Told, Fresh, LossRunsItsCourse
<1> QED
  BY LossInit, LossStep, <1>1, PTL DEF BattleSpec

-----------------------------------------------------------------------------
(***************************************************************************)
(* Water.  The total of a ship and the passage through its doors are folds *)
(* over finite sets: that such a fold exists, and induction over it.       *)
(***************************************************************************)
(* Induction over the subsets of a finite set, from one that is smaller by *)
(* one element: a least counterexample would not be one.                   *)
LEMMA SubsetInduction ==
  ASSUME NEW S, IsFiniteSet(S), NEW P, {} \in P,
         \A T \in SUBSET S : T # {} /\ (\A x \in T : T \ {x} \in P) => T \in P
  PROVE  \A T \in SUBSET S : T \in P
<1> SUFFICES ASSUME NEW Z \in SUBSET S, Z \notin P PROVE FALSE
  OBVIOUS
<1> DEFINE Below == StrictSubsetOrdering(S)
           Bad == {T \in FiniteSubsetsOf(S) : T \notin P}
<1>1. IsWellFoundedOn(Below, FiniteSubsetsOf(S))
  BY FS_StrictSubsetOrderingWellFounded
<1>2. Z \in Bad
  <2>1. IsFiniteSet(Z)
    BY FS_Subset
  <2> QED
    BY <2>1 DEF FiniteSubsetsOf
<1> HIDE DEF Below
<1>3. PICK T \in Bad : \A U \in Bad : <<U, T>> \notin Below
  <2>1. Bad \subseteq FiniteSubsetsOf(S) /\ Bad # {}
    BY <1>2
  <2> HIDE DEF Bad
  <2> QED
    BY <1>1, <2>1, WFMin
<1>4. T \in SUBSET S /\ IsFiniteSet(T) /\ T \notin P
  BY DEF FiniteSubsetsOf
<1>5. T # {}
  BY <1>4
<1>6. PICK x \in T : T \ {x} \notin P
  BY <1>4, <1>5
<1>7. T \ {x} \in Bad
  BY <1>4, <1>6, FS_RemoveElement DEF FiniteSubsetsOf
<1>8. <<T \ {x}, T>> \in Below
  BY <1>4, <1>6, <1>7 DEF Below, StrictSubsetOrdering
<1> QED
  BY <1>3, <1>7, <1>8

LEMMA Minimum ==
    ASSUME NEW S \in SUBSET Nat, S # {}
    PROVE  \E m \in S : \A k \in S : m <= k
<1> DEFINE Before == {pq \in Nat \X Nat : pq[1] < pq[2]}
<1>1. Before = OpToRel(<, Nat)
  BY DEF OpToRel
<1>2. PICK m \in S : \A k \in S : <<k, m>> \notin Before
  <2>1. IsWellFoundedOn(Before, Nat)
    BY <1>1, NatLessThanWellFounded
  <2> QED
    BY <2>1, WFMin
<1>3. ASSUME NEW k \in S PROVE m <= k
  <2>1. k \in Nat /\ m \in Nat /\ ~(k < m)
    BY <1>2
  <2> QED
    BY <2>1
<1> QED
  BY <1>3

(* A fold over a finite set: what a recursive definition asks for exists.  *)
IsFold(it, D, base, pick, step) ==
    \A s \in D : it[s] = IF s = {} THEN base ELSE step[pick[s]][it[s \ {pick[s]}]]

LEMMA FoldExists ==
  ASSUME NEW S, IsFiniteSet(S), NEW V, NEW base \in V,
         NEW pick, \A s \in SUBSET S : s # {} => pick[s] \in s,
         NEW step, \A x \in S, v \in V : step[x][v] \in V
  PROVE  \E it \in [SUBSET S -> V] : IsFold(it, SUBSET S, base, pick, step)
<1> DEFINE Level(n) == {s \in SUBSET S : Cardinality(s) <= n}
           Good(n) == \E it \in [Level(n) -> V] : IsFold(it, Level(n), base, pick, step)
<1>0. ASSUME NEW s \in SUBSET S
      PROVE  /\ IsFiniteSet(s) /\ Cardinality(s) \in Nat
             /\ Cardinality(s) <= Cardinality(S)
             /\ Cardinality(s) = 0 <=> s = {}
             /\ s # {} => pick[s] \in s /\ s \ {pick[s]} \in SUBSET S
                          /\ Cardinality(s \ {pick[s]}) = Cardinality(s) - 1
  BY FS_Subset, FS_CardinalityType, FS_EmptySet, FS_RemoveElement
<1>5. /\ \A s \in Level(0) : s = {}
      /\ \A n \in Nat : \A s \in Level(n) : s \in Level(n + 1)
      /\ \A n \in Nat : \A s \in Level(n + 1) : s # {} => s \ {pick[s]} \in Level(n) /\ pick[s] \in S
      /\ Cardinality(S) \in Nat /\ Level(Cardinality(S)) = SUBSET S
  <2>1. ASSUME NEW s \in Level(0) PROVE s = {}
    <3>1. s \in SUBSET S /\ Cardinality(s) <= 0
      OBVIOUS
    <3>2. Cardinality(s) \in Nat
      BY <1>0, <3>1
    <3>3. Cardinality(s) = 0 => s = {}
      BY <1>0, <3>1
    <3> QED
      BY <3>1, <3>2, <3>3
  <2>2. ASSUME NEW n \in Nat, NEW s \in Level(n) PROVE s \in Level(n + 1)
    <3>1. s \in SUBSET S /\ Cardinality(s) <= n
      OBVIOUS
    <3>2. Cardinality(s) \in Nat
      BY <1>0, <3>1
    <3> QED
      BY <3>1, <3>2
  <2>3. ASSUME NEW n \in Nat, NEW s \in Level(n + 1), s # {}
        PROVE  s \ {pick[s]} \in Level(n) /\ pick[s] \in S
    <3>1. s \in SUBSET S /\ Cardinality(s) <= n + 1
      OBVIOUS
    <3>2. /\ Cardinality(s) \in Nat /\ pick[s] \in s /\ s \ {pick[s]} \in SUBSET S
          /\ Cardinality(s \ {pick[s]}) = Cardinality(s) - 1
      BY <1>0, <2>3, <3>1
    <3> QED
      BY <3>1, <3>2
  <2>4. Cardinality(S) \in Nat /\ Level(Cardinality(S)) = SUBSET S
    <3>1. \A s \in SUBSET S : Cardinality(s) <= Cardinality(S)
      BY <1>0
    <3> QED
      BY <1>0, <3>1
  <2> QED
    BY <2>1, <2>2, <2>3, <2>4
<1> HIDE DEF Level
<1>1. Good(0)
  <2> DEFINE it == [s \in Level(0) |-> base]
  <2>1. it \in [Level(0) -> V] /\ \A s \in Level(0) : s = {}
    BY <1>5
  <2>2. IsFold(it, Level(0), base, pick, step)
    BY <2>1 DEF IsFold
  <2> QED
    BY <2>1, <2>2
<1>2. ASSUME NEW n \in Nat, Good(n) PROVE Good(n + 1)
  <2> PICK g \in [Level(n) -> V] : IsFold(g, Level(n), base, pick, step)
    BY <1>2
  <2> PICK N : N = Level(n)
    OBVIOUS
  <2> PICK M : M = Level(n + 1)
    OBVIOUS
  <2> DEFINE it == [s \in M |-> IF s = {} THEN base ELSE step[pick[s]][g[s \ {pick[s]}]]]
  <2>1. \A s \in M : s # {} => s \ {pick[s]} \in N /\ pick[s] \in S
    BY <1>5
  <2>2. \A s \in N : s \in M /\ it[s] = g[s]
    <3>1. \A s \in N : s \in M
      BY <1>5
    <3> QED
      BY <3>1 DEF IsFold
  <2>3. it \in [M -> V]
    BY <2>1
  <2>4. IsFold(it, M, base, pick, step)
    BY <2>1, <2>2 DEF IsFold
  <2> QED
    BY <2>3, <2>4
<1>3. \A n \in Nat : Good(n)
  <2> SUFFICES ASSUME NEW n \in Nat, ~Good(n) PROVE FALSE
    OBVIOUS
  <2> DEFINE Bad == {k \in Nat : ~Good(k)}
  <2> HIDE DEF Good
  <2>1. PICK m \in Bad : \A k \in Bad : m <= k
    BY Minimum
  <2>2. m \in Nat /\ m # 0 /\ ~Good(m)
    BY <1>1
  <2>3. m - 1 \in Nat /\ Good(m - 1)
    BY <2>1, <2>2
  <2>4. Good((m - 1) + 1)
    BY <1>2, <2>3
  <2> QED
    BY <2>2, <2>4
<1>4. Good(Cardinality(S))
  <2> HIDE DEF Good
  <2> QED
    BY <1>3, <1>5
<1> QED
  BY <1>4, <1>5

-----------------------------------------------------------------------------
(* The total of a ship's water, as the sum over its compartments one by    *)
(* one.                                                                    *)
Pick(S) == [s \in SUBSET S |-> CHOOSE x \in s : TRUE]

IsSum(it, S, f) ==
    /\ it \in [SUBSET S -> Nat] /\ it[{}] = 0
    /\ \A s \in SUBSET S : s # {} =>
         Pick(S)[s] \in s /\ it[s] = f[Pick(S)[s]] + it[s \ {Pick(S)[s]}]

LEMMA TotalIsSum ==
  ASSUME NEW S, IsFiniteSet(S), NEW f \in [S -> Nat]
  PROVE  \E it : IsSum(it, S, f) /\ Total(f) = it[S]
<1> PICK pick : pick = Pick(S)
  OBVIOUS
<1>1. \A s \in SUBSET S : s # {} => pick[s] \in s /\ pick[s] = CHOOSE x \in s : TRUE
  <2>1. \A s : s # {} => (CHOOSE x \in s : TRUE) \in s
    OBVIOUS
  <2> QED
    BY <2>1 DEF Pick
<1> DEFINE Asked(it) == it = [s \in SUBSET DOMAIN f |-> IF s = {} THEN 0
                               ELSE f[CHOOSE x \in s : TRUE] + it[s \ {CHOOSE x \in s : TRUE}]]
           it == CHOOSE it : Asked(it)
<1>2. Total(f) = it[S]
  BY DEF Total, SumFunction, SumFunctionOnSet, FoldFunctionOnSet, MapThenFoldSet
<1>3. \E t : Asked(t)
  <2> DEFINE step == [x \in S |-> [v \in Nat |-> f[x] + v]]
  <2>1. \A x \in S, v \in Nat : step[x][v] \in Nat /\ step[x][v] = f[x] + v
    OBVIOUS
  <2> HIDE DEF step
  <2>2. PICK t \in [SUBSET S -> Nat] : IsFold(t, SUBSET S, 0, pick, step)
    <3>1. 0 \in Nat
      OBVIOUS
    <3> QED
      BY <1>1, <2>1, <3>1, FoldExists
  <2>3. ASSUME NEW s \in SUBSET S
        PROVE  t[s] = IF s = {} THEN 0 ELSE f[CHOOSE x \in s : TRUE] + t[s \ {CHOOSE x \in s : TRUE}]
    <3>1. t[s] = IF s = {} THEN 0 ELSE step[pick[s]][t[s \ {pick[s]}]]
      BY <2>2 DEF IsFold
    <3>2. s # {} => t[s \ {pick[s]}] \in Nat /\ pick[s] \in S
      BY <1>1
    <3> QED
      BY <1>1, <2>1, <3>1, <3>2
  <2>4. Asked(t)
    BY <2>3
  <2> QED
    BY <2>4
<1>4. Asked(it)
  <2> HIDE DEF Asked
  <2> QED
    BY <1>3
<1> HIDE DEF it
<1>5. /\ it[{}] = 0
      /\ \A s \in SUBSET S : s # {} => it[s] = f[pick[s]] + it[s \ {pick[s]}]
      /\ it = [s \in SUBSET S |-> it[s]]
  <2>1. it = [s \in SUBSET S |-> IF s = {} THEN 0 ELSE f[CHOOSE x \in s : TRUE] + it[s \ {CHOOSE x \in s : TRUE}]]
    BY <1>4
  <2>2. \A s \in SUBSET S :
           it[s] = IF s = {} THEN 0 ELSE f[CHOOSE x \in s : TRUE] + it[s \ {CHOOSE x \in s : TRUE}]
    BY <2>1
  <2>3. it = [s \in SUBSET S |-> it[s]]
    BY <2>1
  <2> QED
    BY <1>1, <2>2, <2>3
<1>6. \A s \in SUBSET S : it[s] \in Nat
  <2> DEFINE P == {s \in SUBSET S : it[s] \in Nat}
  <2>1. {} \in P
    BY <1>5
  <2>2. ASSUME NEW T \in SUBSET S, T # {}, \A x \in T : T \ {x} \in P PROVE T \in P
    <3>1. pick[T] \in T /\ it[T] = f[pick[T]] + it[T \ {pick[T]}]
      BY <1>1, <1>5, <2>2
    <3>2. it[T \ {pick[T]}] \in Nat /\ f[pick[T]] \in Nat
      BY <2>2, <3>1
    <3> QED
      BY <3>1, <3>2
  <2> HIDE DEF P
  <2>3. \A s \in SUBSET S : s \in P
    BY <2>1, <2>2, SubsetInduction
  <2> QED
    BY <2>3 DEF P
<1>7. IsSum(it, S, f)
  BY <1>1, <1>5, <1>6 DEF IsSum
<1> QED
  BY <1>2, <1>7

LEMMA TotalIsNat ==
  ASSUME NEW S, IsFiniteSet(S), NEW f \in [S -> Nat]
  PROVE  Total(f) \in Nat
<1> PICK it : IsSum(it, S, f) /\ Total(f) = it[S]
  BY TotalIsSum
<1> QED
  BY DEF IsSum

LEMMA SumBound ==
  ASSUME NEW S, IsFiniteSet(S), NEW f \in [S -> Nat], NEW g \in [S -> Nat], NEW A \in SUBSET S,
         NEW k \in Nat, \A x \in S : f[x] <= g[x] + (IF x \in A THEN k ELSE 0)
  PROVE  Total(f) <= Total(g) + k * Cardinality(A)
<1> PICK F : IsSum(F, S, f) /\ Total(f) = F[S]
  BY TotalIsSum
<1> PICK G : IsSum(G, S, g) /\ Total(g) = G[S]
  BY TotalIsSum
<1> PICK pick : pick = Pick(S)
  OBVIOUS
<1> DEFINE P == {s \in SUBSET S : F[s] <= G[s] + k * Cardinality(s \cap A)}
<1>1. {} \in P
  <2>1. Cardinality({} \cap A) = 0 /\ F[{}] = 0 /\ G[{}] = 0
    BY FS_EmptySet DEF IsSum
  <2> QED
    BY <2>1
<1>2. ASSUME NEW T \in SUBSET S, T # {}, \A x \in T : T \ {x} \in P PROVE T \in P
  <2> PICK x : x = pick[T]
    OBVIOUS
  <2> PICK U : U = T \ {x}
    OBVIOUS
  <2>1. /\ x \in T /\ x \in S /\ U \in SUBSET S /\ F[T] = f[x] + F[U] /\ G[T] = g[x] + G[U]
        /\ F[U] \in Nat /\ G[U] \in Nat /\ f[x] \in Nat /\ g[x] \in Nat
    BY <1>2 DEF IsSum
  <2>2. F[U] <= G[U] + k * Cardinality(U \cap A)
    BY <1>2, <2>1
  <2>3. /\ IsFiniteSet(T \cap A) /\ Cardinality(U \cap A) \in Nat
        /\ Cardinality(T \cap A) = Cardinality(U \cap A) + IF x \in A THEN 1 ELSE 0
    <3>1. IsFiniteSet(T \cap A) /\ U \cap A = (T \cap A) \ {x}
      BY FS_Subset
    <3>2. /\ IsFiniteSet((T \cap A) \ {x}) /\ Cardinality(T \cap A) \in Nat
          /\ Cardinality((T \cap A) \ {x}) \in Nat
          /\ Cardinality((T \cap A) \ {x}) =
               IF x \in T \cap A THEN Cardinality(T \cap A) - 1 ELSE Cardinality(T \cap A)
      BY <3>1, FS_RemoveElement, FS_CardinalityType
    <3>3. PICK c : c = Cardinality(T \cap A)
      OBVIOUS
    <3>4. PICK b : b = Cardinality(U \cap A)
      OBVIOUS
    <3>5. c \in Nat /\ b \in Nat /\ b = IF x \in A THEN c - 1 ELSE c
      BY <2>1, <3>1, <3>2, <3>3, <3>4
    <3> QED
      BY <3>1, <3>3, <3>4, <3>5
  <2>4. \A c \in Nat : k * c \in Nat /\ k * (c + 1) = k * c + k /\ k * (c + 0) = k * c
    OBVIOUS
  <2>5. f[x] <= g[x] + (IF x \in A THEN k ELSE 0)
    BY <2>1
  <2>6. F[T] <= G[T] + k * Cardinality(T \cap A)
    <3> PICK c \in Nat : c = Cardinality(U \cap A)
      BY <2>3
    <3> PICK d : d = k * c
      OBVIOUS
    <3>1. d \in Nat /\ k * Cardinality(T \cap A) = IF x \in A THEN d + k ELSE d
      BY <2>3, <2>4
    <3> QED
      BY <2>1, <2>2, <2>5, <3>1
  <2> QED
    BY <2>6
<1> HIDE DEF P
<1>3. S \in P
  BY <1>1, <1>2, SubsetInduction
<1>4. S \cap A = A /\ IsFiniteSet(A) /\ Cardinality(A) \in Nat
  BY FS_Subset, FS_CardinalityType
<1>6. F[S] <= G[S] + k * Cardinality(A)
  BY <1>3, <1>4 DEF P
<1> QED
  BY <1>6

DifferAt(h, f, x) == Total(h) + f[x] = Total(f) + h[x]

LEMMA SumChange ==
  ASSUME NEW S, IsFiniteSet(S), NEW f \in [S -> Nat], NEW h \in [S -> Nat], NEW x \in S,
         \A y \in S : y # x => h[y] = f[y]
  PROVE  DifferAt(h, f, x)
<1> PICK v \in Nat : v = h[x]
  OBVIOUS
<1> PICK F : IsSum(F, S, f) /\ Total(f) = F[S]
  BY TotalIsSum
<1> PICK H : IsSum(H, S, h) /\ Total(h) = H[S]
  BY TotalIsSum
<1> PICK pick : pick = Pick(S)
  OBVIOUS
<1> DEFINE P == {s \in SUBSET S : IF x \in s THEN H[s] + f[x] = F[s] + v ELSE H[s] = F[s]}
<1>0. h[x] = v /\ f[x] \in Nat /\ \A y \in S : y # x => h[y] = f[y]
  OBVIOUS
<1>1. {} \in P
  BY DEF IsSum
<1>2. ASSUME NEW T \in SUBSET S, T # {}, \A y \in T : T \ {y} \in P PROVE T \in P
  <2> PICK y : y = pick[T]
    OBVIOUS
  <2> PICK U : U = T \ {y}
    OBVIOUS
  <2>1. /\ y \in T /\ y \in S /\ U \in SUBSET S /\ F[T] = f[y] + F[U] /\ H[T] = h[y] + H[U]
        /\ F[U] \in Nat /\ H[U] \in Nat /\ f[y] \in Nat /\ h[y] \in Nat
    BY <1>2 DEF IsSum
  <2>2. IF x \in U THEN H[U] + f[x] = F[U] + v ELSE H[U] = F[U]
    BY <1>2, <2>1
  <2> QED
    BY <1>0, <2>1, <2>2
<1> HIDE DEF P
<1>3. S \in P
  BY <1>1, <1>2, SubsetInduction
<1> QED
  BY <1>3 DEF P, DifferAt

-----------------------------------------------------------------------------
(* The water of a tick, door after door.                                   *)
Levels == [Compartments -> 0..Depth]

LEMMA DoorsAndDepth ==
  /\ IsFiniteSet(Compartments) /\ Depth \in Nat /\ Intake \in Nat /\ PumpOut \in Nat
  /\ IsFiniteSet(DOMAIN Doors) /\ DOMAIN Doors \in SUBSET Nat
  /\ \A i \in DOMAIN Doors :
       /\ Doors[i] = <<Doors[i][1], Doors[i][2]>> /\ Doors[i] \in DoorSet
       /\ Doors[i][1] \in Compartments /\ Doors[i][2] \in Compartments
<1>1. DOMAIN Doors = 1..Len(Doors) /\ Len(Doors) \in Nat
  BY FloodingAssumption
<1>2. IsFiniteSet(DOMAIN Doors)
  BY <1>1, FS_Interval
<1>3. ASSUME NEW i \in DOMAIN Doors
      PROVE  /\ Doors[i] = <<Doors[i][1], Doors[i][2]>> /\ Doors[i] \in DoorSet
             /\ Doors[i][1] \in Compartments /\ Doors[i][2] \in Compartments
  <2>1. Doors[i] \in Compartments \X Compartments
    BY <1>1, FloodingAssumption
  <2> QED
    BY <2>1 DEF DoorSet
<1> QED
  BY <1>1, <1>2, <1>3, FloodingAssumption

(* What goes through one door leaves the sum as it is, no level out of its *)
(* bounds, and only the compartment behind the door with more.             *)
Passes(after, level, b, amount) ==
    /\ after \in Levels /\ Total(after) = Total(level)
    /\ \A c \in Compartments : c # b \/ amount = 0 => after[c] <= level[c]

LEMMA MovedKeeps ==
  ASSUME NEW level \in Levels, NEW a \in Compartments, NEW b \in Compartments, NEW amount \in Nat
  PROVE  Passes(Moved(level, <<a, b>>, amount), level, b, amount)
<1> PICK m : m = Least(Least(amount, level[a]), Depth - level[b])
  OBVIOUS
<1> PICK after : after = Moved(level, <<a, b>>, amount)
  OBVIOUS
<1>0. Depth \in Nat /\ IsFiniteSet(Compartments) /\ level \in [Compartments -> Nat]
  BY DoorsAndDepth DEF Levels
<1>1. /\ \A c \in Compartments : level[c] \in Nat /\ level[c] <= Depth
      /\ m \in Nat /\ m <= level[a] /\ m <= Depth - level[b] /\ (amount = 0 => m = 0)
  BY <1>0 DEF Levels, Least
<1> PICK half : half = [level EXCEPT ![a] = level[a] - m]
  OBVIOUS
<1>2. after = [half EXCEPT ![b] = half[b] + m]
  BY DEF Moved
<1>3. DOMAIN level = Compartments /\ level = [c \in Compartments |-> level[c]]
  BY <1>0
<1>5. /\ half \in Levels /\ after \in Levels
      /\ half[a] = level[a] - m /\ \A c \in Compartments : c # a => half[c] = level[c]
      /\ after[b] = half[b] + m /\ \A c \in Compartments : c # b => after[c] = half[c]
  <2>1. level[a] - m \in 0..Depth
    BY <1>0, <1>1
  <2>2. half \in Levels /\ half[a] = level[a] - m /\ \A c \in Compartments : c # a => half[c] = level[c]
    BY <1>0, <2>1 DEF Levels
  <2>3. half[b] + m \in 0..Depth
    BY <1>0, <1>1, <2>2
  <2> QED
    BY <1>2, <2>2, <2>3 DEF Levels
<1>6. \A c \in Compartments : half[c] \in Nat /\ after[c] \in Nat
  BY <1>0, <1>5 DEF Levels
<1>7. Total(after) = Total(level)
  <2>1. half \in [Compartments -> Nat] /\ after \in [Compartments -> Nat]
    BY <1>0, <1>5 DEF Levels
  <2>2. DifferAt(half, level, a) /\ DifferAt(after, half, b)
    BY <1>0, <1>5, <2>1, SumChange
  <2>3. Total(level) \in Nat /\ Total(half) \in Nat /\ Total(after) \in Nat
    BY <1>0, <2>1, TotalIsNat
  <2> QED
    BY <1>1, <1>5, <1>6, <2>2, <2>3 DEF DifferAt
<1>8. \A c \in Compartments : c # b \/ amount = 0 => after[c] <= level[c]
  BY <1>1, <1>5, <1>6
<1> QED
  BY <1>5, <1>7, <1>8 DEF Passes

(* The fold of a tick, as the levels after each set of doors.              *)
IsPouring(it, first, flow) ==
    /\ it \in [SUBSET DOMAIN Doors -> Levels] /\ it[{}] = first
    /\ \A s \in SUBSET DOMAIN Doors : s # {} =>
         \E i \in s : it[s] = Moved(it[s \ {i}], Doors[i], flow[i])

LEMMA MaxIsIn ==
  ASSUME NEW s \in SUBSET DOMAIN Doors, s # {}
  PROVE  Max(s) \in s
<1>1. DOMAIN Doors = 1..Len(Doors) /\ Len(Doors) \in Nat
  BY FloodingAssumption
<1> DEFINE Above == {n \in Nat : \A i \in s : i <= n}
<1>2. Above \in SUBSET Nat /\ Above # {}
  BY <1>1
<1>3. PICK m \in Above : \A k \in Above : m <= k
  BY <1>2, Minimum
<1>4. m \in s
  <2> SUFFICES ASSUME m \notin s PROVE FALSE
    OBVIOUS
  <2>1. PICK i \in s : TRUE
    OBVIOUS
  <2>2. m \in Nat /\ \A j \in s : j \in Nat /\ j <= m /\ j # m /\ j >= 1
    BY <1>1
  <2>3. m - 1 \in Nat /\ \A j \in s : j <= m - 1
    BY <2>1, <2>2
  <2>4. m - 1 \in Above
    BY <2>3
  <2> QED
    BY <1>3, <2>2, <2>4
<1>5. \E x \in s : \A y \in s : x >= y
  BY <1>1, <1>3, <1>4
<1> QED
  BY <1>5 DEF Max

LEMMA PouredIsFold ==
  ASSUME NEW first \in Levels, NEW flow \in [DOMAIN Doors -> Nat]
  PROVE  \E it : IsPouring(it, first, flow) /\ Poured(first, flow) = it[DOMAIN Doors]
<1> PICK D : D = DOMAIN Doors
  OBVIOUS
<1> DEFINE own == [i \in D |-> i]
           Asked(it) == it = [s \in SUBSET DOMAIN own |-> IF s = {} THEN first
                               ELSE Moved(it[s \ {Max(s)}], Doors[own[Max(s)]], flow[own[Max(s)]])]
           it == CHOOSE it : Asked(it)
<1>1. Poured(first, flow) = it[DOMAIN own]
  BY DEF Poured, FoldLeftDomain, FoldLeft, MapThenFoldSet
<1>2. ASSUME NEW s \in SUBSET D, s # {}
      PROVE  Max(s) \in s /\ Max(s) \in D /\ own[Max(s)] = Max(s)
  <2>1. Max(s) \in s
    BY <1>2, MaxIsIn
  <2> QED
    BY <2>1
<1> DEFINE pick == [s \in SUBSET D |-> Max(s)]
           step == [i \in D |-> [v \in Levels |-> Moved(v, Doors[i], flow[i])]]
<1>3. \A s \in SUBSET D : s # {} => pick[s] \in s /\ pick[s] = Max(s)
  BY <1>2
<1>4. \A i \in D, v \in Levels : step[i][v] \in Levels /\ step[i][v] = Moved(v, Doors[i], flow[i])
  <2>1. ASSUME NEW i \in D, NEW v \in Levels PROVE Moved(v, Doors[i], flow[i]) \in Levels
    <3>1. /\ Doors[i] = <<Doors[i][1], Doors[i][2]>>
          /\ Doors[i][1] \in Compartments /\ Doors[i][2] \in Compartments /\ flow[i] \in Nat
      BY DoorsAndDepth
    <3>2. Passes(Moved(v, <<Doors[i][1], Doors[i][2]>>, flow[i]), v, Doors[i][2], flow[i])
      BY <3>1, MovedKeeps
    <3> QED
      BY <3>1, <3>2 DEF Passes
  <2> QED
    BY <2>1
<1> HIDE DEF pick, step
<1>5. \E t \in [SUBSET D -> Levels] : IsFold(t, SUBSET D, first, pick, step)
  BY <1>3, <1>4, DoorsAndDepth, FoldExists
<1>6. \E t : Asked(t)
  <2> PICK t \in [SUBSET D -> Levels] : IsFold(t, SUBSET D, first, pick, step)
    BY <1>5
  <2>1. ASSUME NEW s \in SUBSET D
        PROVE  t[s] = IF s = {} THEN first
                      ELSE Moved(t[s \ {Max(s)}], Doors[own[Max(s)]], flow[own[Max(s)]])
    <3>1. t[s] = IF s = {} THEN first ELSE step[pick[s]][t[s \ {pick[s]}]]
      BY DEF IsFold
    <3>2. CASE s = {}
      BY <3>1, <3>2
    <3>3. CASE s # {}
      <4> PICK x : x = Max(s)
        OBVIOUS
      <4>1. x \in D /\ own[x] = x /\ pick[s] = x /\ s \ {x} \in SUBSET D
        BY <1>2, <1>3, <3>3
      <4>2. t[s] = step[x][t[s \ {x}]]
        BY <3>1, <3>3, <4>1
      <4>3. t[s] = Moved(t[s \ {x}], Doors[x], flow[x])
        BY <1>4, <4>1, <4>2
      <4> QED
        BY <3>3, <4>1, <4>3
    <3> QED
      BY <3>2, <3>3
  <2>2. DOMAIN own = D
    OBVIOUS
  <2> HIDE DEF own
  <2>3. Asked(t)
    BY <2>1, <2>2
  <2> QED
    BY <2>3
<1>7. Asked(it)
  <2> HIDE DEF Asked
  <2> QED
    BY <1>6
<1> HIDE DEF it
<1>8. /\ it[{}] = first
      /\ \A s \in SUBSET D : s # {} => it[s] = Moved(it[s \ {Max(s)}], Doors[Max(s)], flow[Max(s)])
      /\ it = [s \in SUBSET D |-> it[s]] /\ DOMAIN own = D
  <2>1. DOMAIN own = D
    OBVIOUS
  <2>2. /\ it = [s \in SUBSET D |-> it[s]]
        /\ \A s \in SUBSET D : it[s] = IF s = {} THEN first
             ELSE Moved(it[s \ {Max(s)}], Doors[own[Max(s)]], flow[own[Max(s)]])
    <3> HIDE DEF own
    <3> QED
      BY <1>7, <2>1
  <2>3. ASSUME NEW s \in SUBSET D, s # {}
        PROVE  it[s] = Moved(it[s \ {Max(s)}], Doors[Max(s)], flow[Max(s)])
    BY <1>2, <2>2, <2>3
  <2> QED
    BY <2>1, <2>2, <2>3
<1> DEFINE P == {s \in SUBSET D : it[s] \in Levels}
<1>9. {} \in P
  BY <1>8
<1>10. ASSUME NEW T \in SUBSET D, T # {}, \A x \in T : T \ {x} \in P PROVE T \in P
  <2> PICK x : x = Max(T)
    OBVIOUS
  <2>1. x \in T /\ x \in D /\ it[T] = Moved(it[T \ {x}], Doors[x], flow[x])
    BY <1>2, <1>8, <1>10
  <2>2. it[T \ {x}] \in Levels
    BY <1>10, <2>1
  <2> QED
    BY <1>4, <2>1, <2>2
<1>11. \A s \in SUBSET D : it[s] \in Levels
  <2> HIDE DEF P
  <2>1. \A s \in SUBSET D : s \in P
    BY <1>9, <1>10, DoorsAndDepth, SubsetInduction
  <2> QED
    BY <2>1 DEF P
<1>12. IsPouring(it, first, flow)
  <2>1. \A s \in SUBSET D : s # {} => Max(s) \in s
    BY <1>2
  <2> QED
    BY <1>8, <1>11, <2>1 DEF IsPouring
<1> QED
  BY <1>1, <1>8, <1>12

LEMMA PouredKeeps ==
  ASSUME NEW first \in Levels, NEW flow \in [DOMAIN Doors -> Nat]
  PROVE  /\ Poured(first, flow) \in Levels
         /\ Total(Poured(first, flow)) = Total(first)
         /\ \A c \in Compartments :
              (\A i \in DOMAIN Doors : Doors[i][2] = c => flow[i] = 0) => Poured(first, flow)[c] <= first[c]
<1> PICK D : D = DOMAIN Doors
  OBVIOUS
<1> PICK it : IsPouring(it, first, flow) /\ Poured(first, flow) = it[D]
  BY PouredIsFold
<1> DEFINE Dry == {c \in Compartments : \A i \in D : Doors[i][2] = c => flow[i] = 0}
           P == {s \in SUBSET D : /\ it[s] \in Levels /\ Total(it[s]) = Total(first)
                                  /\ \A c \in Dry : it[s][c] <= first[c]}
<1>0. \A v \in Levels : \A c \in Compartments : v[c] \in Nat
  BY DoorsAndDepth DEF Levels
<1>1. {} \in P
  BY <1>0 DEF IsPouring
<1>2. ASSUME NEW T \in SUBSET D, T # {}, \A x \in T : T \ {x} \in P PROVE T \in P
  <2>1. PICK i \in T : it[T] = Moved(it[T \ {i}], Doors[i], flow[i])
    BY <1>2 DEF IsPouring
  <2> PICK a : a = Doors[i][1]
    OBVIOUS
  <2> PICK b : b = Doors[i][2]
    OBVIOUS
  <2> PICK v : v = it[T \ {i}]
    OBVIOUS
  <2>2. /\ a \in Compartments /\ b \in Compartments /\ Doors[i] = <<a, b>> /\ flow[i] \in Nat
        /\ i \in D
    BY DoorsAndDepth
  <2>3. v \in Levels /\ Total(v) = Total(first) /\ \A c \in Dry : v[c] <= first[c]
    BY <1>2
  <2> PICK w : w = it[T]
    OBVIOUS
  <2>4. w = Moved(v, <<a, b>>, flow[i])
    BY <2>1, <2>2
  <2>5. /\ w \in Levels /\ Total(w) = Total(v)
        /\ \A c \in Compartments : c # b \/ flow[i] = 0 => w[c] <= v[c]
    <3>1. Passes(Moved(v, <<a, b>>, flow[i]), v, b, flow[i])
      BY <2>2, <2>3, MovedKeeps
    <3> QED
      BY <2>4, <3>1 DEF Passes
  <2>6. ASSUME NEW c \in Dry PROVE w[c] <= first[c]
    <3>1. c \in Compartments /\ (c # b \/ flow[i] = 0)
      BY <2>2
    <3>2. w[c] <= v[c] /\ v[c] <= first[c] /\ w[c] \in Nat /\ v[c] \in Nat /\ first[c] \in Nat
      BY <1>0, <2>3, <2>5, <3>1
    <3> QED
      BY <3>2
  <2> HIDE DEF Dry
  <2> QED
    BY <2>3, <2>4, <2>5, <2>6
<1>3. D \in P
  <2> HIDE DEF P
  <2>1. IsFiniteSet(D)
    BY DoorsAndDepth
  <2>2. \A s \in SUBSET D : s \in P
    BY <1>1, <1>2, <2>1, SubsetInduction
  <2> QED
    BY <2>2
<1> QED
  BY <1>3

FloodInv ==
    /\ water \in [Compartments -> 0..Depth]
    /\ breached \subseteq Compartments /\ pumping \subseteq Compartments

LEMMA FloodInvInit == FloodInit => FloodInv
  BY DoorsAndDepth DEF FloodInit, FloodInv

(* What a tick does to the water, whatever the doors carry.                *)
LEMMA TickBalance ==
  ASSUME FloodInv, FloodTick
  PROVE  /\ water' \in Levels
         /\ Total(water') <= Total(water) + Intake * Cardinality({c \in Compartments : Open(c)})
         /\ Total(water') + PumpOut * Cardinality(pumping) >= Total(water)
         /\ \A c \in Compartments :
               water'[c] > water[c] =>
                   \/ Open(c)
                   \/ \E d \in DoorSet : d[2] = c /\ Passable(d)
<1> PICK first : first = [c \in Compartments |-> CompartmentUpdated(c)]
  OBVIOUS
<1> PICK after : after = water'
  OBVIOUS
<1>1. PICK flow \in [DOMAIN Doors -> 0..Depth] :
        (\A i \in DOMAIN Doors : flow[i] <= Asks(first)[i]) /\ after = Poured(first, flow)
  BY DEF FloodTick
<1>2. ASSUME NEW c \in Compartments
      PROVE  /\ first[c] \in 0..Depth /\ water[c] \in Nat
             /\ first[c] <= water[c] + (IF Open(c) THEN Intake ELSE 0)
             /\ water[c] <= first[c] + (IF c \in pumping THEN PumpOut ELSE 0)
  <2>1. water[c] \in 0..Depth /\ Depth \in Nat /\ Intake \in Nat /\ PumpOut \in Nat
    BY DoorsAndDepth DEF FloodInv
  <2>2. first[c] = CompartmentUpdated(c)
    OBVIOUS
  <2> QED
    BY <2>1, <2>2 DEF CompartmentUpdated, Least, Less
<1>3. /\ first \in Levels /\ first \in [Compartments -> Nat] /\ water \in [Compartments -> Nat]
      /\ IsFiniteSet(Compartments) /\ Intake \in Nat /\ PumpOut \in Nat
      /\ pumping \in SUBSET Compartments /\ flow \in [DOMAIN Doors -> Nat]
  <2>1. first = [c \in Compartments |-> first[c]] /\ water = [c \in Compartments |-> water[c]]
    BY DEF FloodInv
  <2>2. first \in [Compartments -> 0..Depth] /\ \A c \in Compartments : first[c] \in Nat
    BY <1>2, <2>1, DoorsAndDepth
  <2>3. 0..Depth \subseteq Nat
    BY DoorsAndDepth
  <2> QED
    BY <1>2, <2>1, <2>2, <2>3, DoorsAndDepth DEF Levels, FloodInv
<1>4. /\ after \in Levels /\ Total(after) = Total(first)
      /\ \A c \in Compartments :
           (\A i \in DOMAIN Doors : Doors[i][2] = c => flow[i] = 0) => after[c] <= first[c]
  BY <1>1, <1>3, PouredKeeps
<1> DEFINE A == {c \in Compartments : Open(c)}
<1>5. Total(first) <= Total(water) + Intake * Cardinality(A)
  <2>1. \A c \in Compartments : first[c] <= water[c] + (IF c \in A THEN Intake ELSE 0)
    BY <1>2
  <2>2. A \in SUBSET Compartments
    OBVIOUS
  <2> HIDE DEF A
  <2> QED
    BY <1>3, <2>1, <2>2, SumBound
<1>6. Total(water) <= Total(first) + PumpOut * Cardinality(pumping)
  BY <1>2, <1>3, SumBound
<1>7. /\ Total(water) \in Nat /\ Total(first) \in Nat /\ PumpOut * Cardinality(pumping) \in Nat
      /\ Intake * Cardinality(A) \in Nat
  <2>1. Total(water) \in Nat /\ Total(first) \in Nat
    BY <1>3, TotalIsNat
  <2>2. Cardinality(A) \in Nat /\ Cardinality(pumping) \in Nat
    BY <1>3, FS_Subset, FS_CardinalityType
  <2> QED
    BY <1>3, <2>1, <2>2
<1>8. ASSUME NEW c \in Compartments, after[c] > water[c], ~Open(c)
      PROVE  \E d \in DoorSet : d[2] = c /\ Passable(d)
  <2> SUFFICES ASSUME \A d \in DoorSet : d[2] = c => ~Passable(d) PROVE FALSE
    OBVIOUS
  <2>1. ASSUME NEW i \in DOMAIN Doors, Doors[i][2] = c PROVE flow[i] = 0
    <3>1. Asks(first)[i] = 0
      BY <2>1, DoorsAndDepth DEF Asks
    <3> QED
      BY <1>1, <1>3, <3>1
  <2>2. after[c] <= first[c] /\ first[c] <= water[c] /\ after[c] \in Nat
    BY <1>2, <1>4, <1>8, <2>1, DoorsAndDepth DEF Levels
  <2> QED
    BY <1>2, <1>8, <2>2
<1> QED
  BY <1>4, <1>5, <1>6, <1>7, <1>8

(* Every other step leaves the water alone.                                *)
LEMMA FloodStep == FloodInv /\ [FloodNext]_floodVars => FloodInv' /\ (FloodTick \/ water' = water)
<1> SUFFICES ASSUME FloodInv, [FloodNext]_floodVars PROVE FloodInv' /\ (FloodTick \/ water' = water)
  OBVIOUS
<1>1. ASSUME NEW worn \in SUBSET Compartments, NEW broken \in SUBSET DoorSet, Breach(worn, broken)
      PROVE  FloodInv' /\ water' = water
  BY <1>1 DEF Breach, FloodInv
<1>2. ASSUME NEW on \in BOOLEAN, NEW c \in Compartments, SetCompartmentSeal(c, on)
      PROVE  FloodInv' /\ water' = water
  BY <1>2 DEF SetCompartmentSeal, FloodInv
<1>3. ASSUME NEW on \in BOOLEAN, NEW c \in Pumped, SetPump(c, on) PROVE FloodInv' /\ water' = water
  BY <1>3, FloodingAssumption DEF SetPump, Put, FloodInv
<1>4. ASSUME NEW on \in BOOLEAN, NEW d \in DoorSet, SetBulkheadSeal(d, on)
      PROVE  FloodInv' /\ water' = water
  BY <1>4 DEF SetBulkheadSeal, FloodInv
<1>5. CASE FloodTick
  BY <1>5, TickBalance DEF FloodTick, FloodInv, Levels
<1>6. CASE UNCHANGED floodVars
  BY <1>6 DEF floodVars, FloodInv
<1> QED
  BY <1>1, <1>2, <1>3, <1>4, <1>5, <1>6 DEF FloodNext

(* WaterOnlyThroughBreaches (update_compartments, compute_water_spread):   *)
(* for any compartments, doors in any order, depth and rates, a tick adds  *)
(* no more to a ship than its open breaches let in, takes no more than its *)
(* pumps do, and raises no compartment that is tight.                      *)
THEOREM WaterIsConserved == FloodSpec => WaterOnlyThroughBreaches
<1> DEFINE A == {c \in Compartments : Open(c)}
<1>1. ASSUME FloodInv, water' = water
      PROVE  /\ Total(water') <= Total(water) + Intake * Cardinality(A)
             /\ Total(water') + PumpOut * Cardinality(pumping) >= Total(water)
             /\ \A c \in Compartments : ~(water'[c] > water[c])
  <2>1. /\ water \in [Compartments -> Nat] /\ IsFiniteSet(Compartments)
        /\ Intake \in Nat /\ PumpOut \in Nat
    BY <1>1, DoorsAndDepth DEF FloodInv
  <2>2. Total(water) \in Nat
    BY <2>1, TotalIsNat
  <2>3. Cardinality(A) \in Nat /\ Cardinality(pumping) \in Nat
    BY <1>1, <2>1, FS_Subset, FS_CardinalityType DEF FloodInv
  <2>4. Intake * Cardinality(A) \in Nat /\ PumpOut * Cardinality(pumping) \in Nat
    BY <2>1, <2>3
  <2>5. Total(water') = Total(water)
    BY <1>1
  <2>6. \A c \in Compartments : ~(water'[c] > water[c])
    BY <1>1, <2>1
  <2> QED
    BY <2>2, <2>4, <2>5, <2>6
<1> DEFINE Balance ==
      /\ Total(water') <= Total(water) + Intake * Cardinality({c \in Compartments : Open(c)})
      /\ Total(water') + PumpOut * Cardinality(pumping) >= Total(water)
      /\ \A c \in Compartments :
            water'[c] > water[c] =>
                \/ Open(c)
                \/ \E d \in DoorSet : d[2] = c /\ Passable(d)
<1>2. FloodInv /\ [FloodNext]_floodVars => FloodInv' /\ Balance
  BY <1>1, FloodStep, TickBalance
<1>3. [][Balance]_floodVars => WaterOnlyThroughBreaches
  BY DEF WaterOnlyThroughBreaches
<1> HIDE DEF Balance
<1> QED
  BY <1>2, <1>3, FloodInvInit, PTL DEF FloodSpec
=============================================================================
