--------------------------- MODULE InterestProofs ---------------------------
(***************************************************************************)
(* A snapshot comes up to the tick it is stamped with, for any number of   *)
(* clients, ships and shells, any ranges, and any queue: the order of the  *)
(* loop's sync and of its publication against a pass that copies the       *)
(* indices in between.  A refresh is exact, and a player is shown its own  *)
(* ship.  Last, the spatial index is a map, for any cells and ceilings.    *)
(***************************************************************************)
EXTENDS Interest, SpatialGrid, NaturalsInduction, WellFoundedInduction, TLAPS

Entities == {Hull(s) : s \in Ships} \cup {Deck(s) : s \in Ships}
                \cup {Crew(c) : c \in Clients} \cup {Shell(b) : b \in Shells}

Stages == {"drain", "repair", "hull", "crew", "retire", "shells", "look", "tell"}

Types ==
    /\ stage \in Stages /\ next \in 1..(NShips + 1) /\ moving \in Clients \cup {Nobody}
    /\ Afloat \subseteq Ships /\ DOMAIN flying \subseteq Shells
    /\ DOMAIN aboard \subseteq Clients /\ DOMAIN grid \subseteq Entities
    /\ \A e \in DOMAIN grid : "age" \in DOMAIN grid[e] /\ grid[e].age \in {0, 1}

Fresh(e) == e \in DOMAIN grid => grid[e].age = 0

(* A crew in the index is aboard, and once the orphans are gone it is      *)
(* aboard a ship that floats.                                              *)
CrewsKnown ==
    /\ \A c \in Clients : Crew(c) \in DOMAIN grid => c \in DOMAIN aboard
    /\ stage \in {"hull", "crew", "retire", "shells"} => \A c \in DOMAIN aboard : aboard[c] \in Afloat
    /\ moving # Nobody => stage \in {"drain", "repair"}

(* What the sync has brought up to the tick: the ships before next, with   *)
(* their crews.                                                            *)
Synced(s) ==
    /\ Fresh(Hull(s)) /\ Fresh(Deck(s))
    /\ \A c \in Clients : c \in DOMAIN aboard /\ aboard[c] = s => Fresh(Crew(c))

SyncedSoFar ==
    /\ stage \in {"hull", "crew", "retire", "shells"} =>
         \A s \in Afloat : s < next => Synced(s)
    /\ stage = "crew" => next \in Afloat /\ Fresh(Hull(next)) /\ Fresh(Deck(next))
    /\ stage \in {"retire", "shells"} => next = NShips + 1
    /\ stage = "shells" => \A s \in Ships : Hull(s) \in DOMAIN grid \/ Deck(s) \in DOMAIN grid => s \in Afloat
    /\ stage \in {"look", "tell", "drain"} => \A e \in DOMAIN grid : Fresh(e)

(* The published tick is the simulation's while the loop drains, and one   *)
(* behind it while it syncs.                                               *)
Published == behind = IF stage = "drain" THEN 0 ELSE 1

LoopInv == Types /\ CrewsKnown /\ SyncedSoFar /\ Published

(* A pass that copies read a tick that is not ahead of the published one.  *)
PassInv ==
    /\ {"step", "kinds", "snap", "age", "honest"} \subseteq DOMAIN pass
    /\ pass.honest = TRUE
    /\ pass.step = "copy" => pass.age \in 0..2 /\ behind <= pass.age

StampInv == LoopInv /\ PassInv

loopVars == <<at, flying, stage, next, aboard, moving, grid, behind>>

-----------------------------------------------------------------------------
LEMMA Kinds ==
  /\ \A s \in Ships : Hull(s) \in Entities /\ Deck(s) \in Entities
  /\ \A c \in Clients : Crew(c) \in Entities
  /\ \A b \in Shells : Shell(b) \in Entities
  BY DEF Entities

LEMMA Apart ==
  /\ \A x, y : Hull(x) # Deck(y) /\ Hull(x) # Crew(y) /\ Hull(x) # Shell(y)
  /\ \A x, y : Deck(x) # Crew(y) /\ Deck(x) # Shell(y) /\ Crew(x) # Shell(y)
  /\ \A x, y : Hull(x) = Hull(y) => x = y
  /\ \A x, y : Deck(x) = Deck(y) => x = y
  /\ \A x, y : Crew(x) = Crew(y) => x = y
  /\ \A x : Hull(x)[1] # "shell" /\ Deck(x)[1] # "shell" /\ Crew(x)[1] # "shell"
  /\ \A x : Shell(x)[1] = "shell"
  BY DEF Hull, Deck, Crew, Shell

LEMMA NewDatum ==
  ASSUME NEW p, NEW s
  PROVE  "age" \in DOMAIN Datum(p, s) /\ Datum(p, s).age = 0
  BY DEF Datum

(* Neither part looks at more than this of the loop, and of the pass.      *)
LEMMA LoopFrame == LoopInv /\ UNCHANGED loopVars => LoopInv'
  BY DEF LoopInv, loopVars, Types, CrewsKnown, SyncedSoFar, Synced, Fresh, Published, Afloat

LEMMA PassFrame == PassInv /\ UNCHANGED <<pass, behind>> => PassInv'
  BY DEF PassInv

-----------------------------------------------------------------------------
LEMMA StampInit == Init => StampInv
<1> SUFFICES ASSUME Init PROVE StampInv
  OBVIOUS
<1>1. /\ stage = "drain" /\ next = 1 /\ behind = 0 /\ moving = Nobody
      /\ Afloat = Ships /\ DOMAIN flying = {}
  BY DEF Init, Afloat
<1>2. DOMAIN grid = {Hull(s) : s \in Ships} \cup {Deck(s) : s \in Ships}
  BY DEF Init
<1>3. \A e \in DOMAIN grid : "age" \in DOMAIN grid[e] /\ grid[e].age = 0
  <2> TAKE e \in DOMAIN grid
  <2>1. grid[e] = Datum((e[2] - 1) * Spacing, e[2])
    BY DEF Init
  <2> QED
    BY <2>1, NewDatum
<1>4. \A c \in Clients : Crew(c) \notin DOMAIN grid
  BY <1>2, Apart
<1>5. LoopInv
  <2>1. DOMAIN aboard = {}
    BY DEF Init
  <2>2. Types
    BY <1>1, <1>2, <1>3, <2>1, Kinds, InterestAssumption DEF Types, Stages
  <2>3. CrewsKnown
    BY <1>1, <1>4 DEF CrewsKnown
  <2>4. SyncedSoFar
    BY <1>1, <1>3 DEF SyncedSoFar, Fresh
  <2> QED
    BY <1>1, <2>2, <2>3, <2>4 DEF LoopInv, Published
<1>6. PassInv
  BY DEF Init, PassInv, Rest
<1> QED
  BY <1>5, <1>6 DEF StampInv

-----------------------------------------------------------------------------
(* A crew member put aboard enters fresh.                                  *)
LEMMA Boarded ==
  ASSUME NEW c \in Clients, NEW s, AddPlayer(c, s)
  PROVE  /\ DOMAIN grid' = DOMAIN grid \cup {Crew(c)} /\ DOMAIN aboard' = DOMAIN aboard \cup {c}
         /\ "age" \in DOMAIN grid'[Crew(c)] /\ grid'[Crew(c)].age = 0
         /\ \A e \in DOMAIN grid : e # Crew(c) => grid'[e] = grid[e]
  BY NewDatum DEF AddPlayer, Put

LEMMA Left ==
  ASSUME NEW c \in Clients, RemovePlayer(c)
  PROVE  /\ DOMAIN grid' = DOMAIN grid \ {Crew(c)}
         /\ \A e \in DOMAIN grid' : grid'[e] = grid[e]
  BY DEF RemovePlayer, Drop

(* While the loop drains or repairs, a player may come and go.             *)
LEMMA ComesAboard ==
  ASSUME LoopInv, stage \in {"drain", "repair"}, NEW c \in Clients, NEW s, AddPlayer(c, s),
         UNCHANGED <<at, flying, stage, next, behind>>, moving' \in Clients \cup {Nobody}
  PROVE  LoopInv'
<1>1. Afloat' = Afloat
  BY DEF Afloat
<1>b. /\ DOMAIN grid' = DOMAIN grid \cup {Crew(c)} /\ DOMAIN aboard' = DOMAIN aboard \cup {c}
      /\ "age" \in DOMAIN grid'[Crew(c)] /\ grid'[Crew(c)].age = 0
      /\ \A e \in DOMAIN grid : e # Crew(c) => grid'[e] = grid[e]
  BY Boarded
<1>2. Types'
  BY <1>1, <1>b, Kinds DEF LoopInv, Types
<1>3. CrewsKnown'
  BY <1>1, <1>b, Apart DEF LoopInv, CrewsKnown
<1>4. SyncedSoFar'
  BY <1>1, <1>b DEF LoopInv, SyncedSoFar, Fresh
<1> QED
  BY <1>2, <1>3, <1>4 DEF LoopInv, Published

LEMMA GoesAshore ==
  ASSUME LoopInv, stage \in {"drain", "repair"}, NEW c \in Clients, RemovePlayer(c),
         aboard' = aboard \/ aboard' = Drop(aboard, {c}),
         UNCHANGED <<at, flying, stage, next, behind>>, moving' \in Clients \cup {Nobody}
  PROVE  LoopInv'
<1>1. Afloat' = Afloat
  BY DEF Afloat
<1>2. DOMAIN aboard \ {c} \subseteq DOMAIN aboard' /\ DOMAIN aboard' \subseteq DOMAIN aboard
  BY DEF Drop
<1>3. Types'
  BY <1>1, <1>2, Left DEF LoopInv, Types
<1>4. CrewsKnown'
  BY <1>1, <1>2, Left, Apart DEF LoopInv, CrewsKnown
<1>5. SyncedSoFar'
  BY <1>1, Left DEF LoopInv, SyncedSoFar, Fresh
<1> QED
  BY <1>3, <1>4, <1>5 DEF LoopInv, Published

LEMMA DrainStep ==
  ASSUME StampInv, Drain \/ \E c \in Clients : Respawn(c)
  PROVE  StampInv'
<1> USE DEF StampInv
<1>1. CASE Rebind
  <2>1. /\ stage \in {"drain", "repair"} /\ moving \in Clients /\ moving' = Nobody
        /\ UNCHANGED <<at, flying, stage, next, behind, pass>>
    BY <1>1 DEF Rebind, LoopInv, CrewsKnown, Types, sim
  <2>2. PICK s \in Havens : AddPlayer(moving, s)
    BY <1>1 DEF Rebind
  <2> QED
    BY <2>1, <2>2, ComesAboard, PassFrame
<1>2. ASSUME NEW c \in Clients, Join(c) PROVE StampInv'
  <2>1. /\ stage = "drain" /\ moving' = moving /\ moving = Nobody
        /\ UNCHANGED <<at, flying, stage, next, behind, pass>>
    BY <1>2 DEF Join, Draining, sim
  <2>2. CASE Afloat = {}
    <3>1. UNCHANGED loopVars
      BY <1>2, <2>1, <2>2 DEF Join, manager, loopVars
    <3> QED
      BY <2>1, <3>1, LoopFrame, PassFrame
  <2>3. CASE Afloat # {}
    <3>1. PICK s \in Afloat : AddPlayer(c, s)
      BY <1>2, <2>3 DEF Join
    <3> QED
      BY <2>1, <3>1, ComesAboard, PassFrame
  <2> QED
    BY <2>2, <2>3
<1>3. ASSUME NEW c \in Clients, Leave(c) PROVE StampInv'
  <2>1. /\ stage = "drain" /\ moving' = moving /\ moving = Nobody
        /\ UNCHANGED <<at, flying, stage, next, behind, pass>>
    BY <1>3 DEF Leave, Draining, sim
  <2>2. CASE c \in DOMAIN aboard
    <3>1. RemovePlayer(c) /\ aboard' = Drop(aboard, {c})
      BY <1>3, <2>2 DEF Leave
    <3> QED
      BY <2>1, <3>1, GoesAshore, PassFrame
  <2>3. CASE c \notin DOMAIN aboard
    <3>1. UNCHANGED loopVars
      BY <1>3, <2>1, <2>3 DEF Leave, manager, loopVars
    <3> QED
      BY <2>1, <3>1, LoopFrame, PassFrame
  <2> QED
    BY <2>2, <2>3
<1>4. ASSUME NEW c \in Clients, Respawn(c) PROVE StampInv'
  <2>1. /\ stage = "drain" /\ moving' = c /\ RemovePlayer(c) /\ aboard' = aboard
        /\ UNCHANGED <<at, flying, stage, next, behind, pass>>
    BY <1>4 DEF Respawn, Draining, sim
  <2> QED
    BY <2>1, GoesAshore, PassFrame
<1> QED
  BY <1>1, <1>2, <1>3, <1>4 DEF Drain

(* A tick ages what the index holds by one, and the pass by one too.       *)
LEMMA TickStep == StampInv /\ Tick => StampInv'
<1> SUFFICES ASSUME StampInv, Tick PROVE StampInv'
  OBVIOUS
<1>1. /\ stage = "drain" /\ stage' = "repair" /\ UNCHANGED <<next, aboard, moving>>
      /\ moving = Nobody /\ behind = 0 /\ behind' = 1
  BY DEF StampInv, LoopInv, Published, Tick, Draining, Unpublished, Older
<1>2. Afloat' \subseteq Ships /\ DOMAIN flying' \subseteq Shells
  <2>1. CASE Wound \/ Calm
    BY <2>1 DEF Wound, Calm, sim, StampInv, LoopInv, Types, Afloat
  <2>2. ASSUME NEW s \in Afloat, Change(s) PROVE DOMAIN at' \subseteq Ships /\ DOMAIN flying' \subseteq Shells
    <3>1. DOMAIN at' \subseteq DOMAIN at
      BY <2>2 DEF Change, Sail, Founder, GoDown, Fire, Strike, Drop
    <3>2. DOMAIN flying' \subseteq DOMAIN flying \cup Shells
      BY <2>2 DEF Change, Sail, Founder, GoDown, Fire, Strike, Put, Drop
    <3> QED
      BY <3>1, <3>2 DEF StampInv, LoopInv, Types, Afloat
  <2> QED
    BY <2>1, <2>2 DEF Tick, Afloat
<1>3. DOMAIN grid' = DOMAIN grid /\ \A e \in DOMAIN grid : "age" \in DOMAIN grid'[e] /\ grid'[e].age = 1
  <2>1. grid' = [e \in DOMAIN grid |-> [grid[e] EXCEPT !.age = Older(@)]]
    BY DEF Tick
  <2>2. \A e \in DOMAIN grid : "age" \in DOMAIN grid[e] /\ grid[e].age = 0
    BY <1>1 DEF StampInv, LoopInv, Types, SyncedSoFar, Fresh
  <2> QED
    BY <2>1, <2>2 DEF Older
<1>4. LoopInv'
  <2>1. Types'
    BY <1>1, <1>2, <1>3 DEF StampInv, LoopInv, Types, Stages
  <2>2. CrewsKnown'
    BY <1>1, <1>3 DEF StampInv, LoopInv, CrewsKnown
  <2> QED
    BY <1>1, <2>1, <2>2 DEF LoopInv, SyncedSoFar, Published
<1>5. PassInv'
  <2>1. CASE pass.step = "rest"
    BY <1>1, <2>1 DEF Tick, StampInv, PassInv
  <2>2. CASE pass.step # "rest"
    <3>1. pass' = [pass EXCEPT !.age = Older(@)]
      BY <2>2 DEF Tick
    <3> QED
      BY <1>1, <3>1 DEF StampInv, PassInv, Older
  <2> QED
    BY <2>1, <2>2
<1> QED
  BY <1>4, <1>5 DEF StampInv

-----------------------------------------------------------------------------
(* The steps of the sync, each of which leaves the pass and the published  *)
(* tick alone.                                                             *)
LEMMA RepairStep == LoopInv /\ Repair => LoopInv'
<1> SUFFICES ASSUME LoopInv, Repair PROVE LoopInv'
  OBVIOUS
<1>1. stage = "repair" /\ moving = Nobody /\ UNCHANGED <<at, flying, behind>> /\ Afloat' = Afloat
  BY DEF Repair, sim, Afloat
<1>2. CASE Orphans = {}
  <2>1. stage' = "hull" /\ next' = 1 /\ UNCHANGED <<moving, aboard, grid>>
    BY <1>2 DEF Repair, manager
  <2>2. \A c \in DOMAIN aboard : aboard[c] \in Afloat
    BY <1>2 DEF Orphans
  <2>3. \A s \in Afloat : ~(s < 1)
    BY InterestAssumption DEF LoopInv, Types, Ships
  <2>4. Types' /\ CrewsKnown'
    BY <1>1, <2>1, <2>2, InterestAssumption DEF LoopInv, Types, Stages, CrewsKnown
  <2>5. SyncedSoFar'
    BY <1>1, <2>1, <2>3 DEF SyncedSoFar
  <2> QED
    BY <1>1, <2>1, <2>4, <2>5 DEF LoopInv, Published
<1>3. CASE Orphans # {}
  <2>1. PICK c \in Orphans :
             /\ RemovePlayer(c)
             /\ IF Afloat = {} THEN aboard' = Drop(aboard, {c}) /\ UNCHANGED moving
                               ELSE moving' = c /\ UNCHANGED aboard
    BY <1>3 DEF Repair
  <2>2. c \in Clients
    BY <2>1 DEF Orphans, LoopInv, Types
  <2> QED
    BY <1>1, <1>3, <2>1, <2>2, GoesAshore DEF Repair
<1> QED
  BY <1>2, <1>3

LEMMA SkipStep == LoopInv /\ Skip => LoopInv'
<1> SUFFICES ASSUME LoopInv, Skip PROVE LoopInv'
  OBVIOUS
<1>1. /\ stage = "hull" /\ next \notin Afloat
      /\ UNCHANGED <<at, flying, aboard, moving, grid, behind>> /\ Afloat' = Afloat
  BY DEF Skip, sim, manager, Afloat
<1>2. CASE next <= NShips
  <2>1. next' = next + 1 /\ stage' = stage /\ next \in 1..(NShips + 1)
    BY <1>2 DEF Skip, LoopInv, Types
  <2>2. \A s \in Afloat : s < next' => s < next
    BY <1>1, <2>1 DEF LoopInv, Types, Ships
  <2>3. Types' /\ CrewsKnown'
    BY <1>1, <1>2, <2>1, InterestAssumption DEF LoopInv, Types, CrewsKnown
  <2>4. SyncedSoFar'
    BY <1>1, <2>1, <2>2 DEF LoopInv, SyncedSoFar, Synced, Fresh
  <2> QED
    BY <1>1, <2>1, <2>3, <2>4 DEF LoopInv, Published
<1>3. CASE ~(next <= NShips)
  <2>1. next' = next /\ stage' = "retire" /\ next = NShips + 1
    BY <1>3, InterestAssumption DEF Skip, LoopInv, Types
  <2>2. Types' /\ CrewsKnown'
    BY <1>1, <2>1 DEF LoopInv, Types, CrewsKnown, Stages
  <2>3. SyncedSoFar'
    BY <1>1, <2>1 DEF LoopInv, SyncedSoFar, Synced, Fresh
  <2> QED
    BY <1>1, <2>1, <2>2, <2>3 DEF LoopInv, Published
<1> QED
  BY <1>2, <1>3

LEMMA SyncHullStep == LoopInv /\ SyncHull => LoopInv'
<1> SUFFICES ASSUME LoopInv, SyncHull PROVE LoopInv'
  OBVIOUS
<1>1. /\ stage = "hull" /\ stage' = "crew" /\ next \in Afloat /\ next \in Ships
      /\ UNCHANGED <<at, flying, next, aboard, moving, behind>> /\ Afloat' = Afloat
  BY DEF SyncHull, sim, Afloat, LoopInv, Types
<1>2. /\ DOMAIN grid' = DOMAIN grid \cup {Hull(next), Deck(next)}
      /\ \A e \in {Hull(next), Deck(next)} : "age" \in DOMAIN grid'[e] /\ grid'[e].age = 0
      /\ \A e \in DOMAIN grid \ {Hull(next), Deck(next)} : grid'[e] = grid[e]
  BY NewDatum DEF SyncHull, Put
<1>3. Types'
  BY <1>1, <1>2, Kinds DEF LoopInv, Types, Stages
<1>4. CrewsKnown'
  BY <1>1, <1>2, Apart DEF LoopInv, CrewsKnown
<1>5. \A e : Fresh(e) => Fresh(e)'
  BY <1>2 DEF Fresh
<1>6. SyncedSoFar'
  BY <1>1, <1>2, <1>5 DEF LoopInv, SyncedSoFar, Synced, Fresh
<1> QED
  BY <1>1, <1>3, <1>4, <1>6 DEF LoopInv, Published

LEMMA SyncCrewStep == LoopInv /\ SyncCrew => LoopInv'
<1> SUFFICES ASSUME LoopInv, SyncCrew PROVE LoopInv'
  OBVIOUS
<1>1. /\ stage = "crew" /\ stage' = "hull" /\ next \in Afloat /\ next \in Ships /\ next' = next + 1
      /\ UNCHANGED <<at, flying, aboard, moving, behind>> /\ Afloat' = Afloat
  BY DEF SyncCrew, sim, Afloat, LoopInv, Types, SyncedSoFar
<1> DEFINE manned == {Crew(c) : c \in CrewOf(next)}
<1>2. /\ DOMAIN grid' = DOMAIN grid \cup manned
      /\ \A e \in manned : "age" \in DOMAIN grid'[e] /\ grid'[e].age = 0
      /\ \A e \in DOMAIN grid \ manned : grid'[e] = grid[e]
  <2>1. grid' = [e \in DOMAIN grid \cup manned |->
                    IF \E c \in CrewOf(next) : e = Crew(c) THEN Datum(at[next], next) ELSE grid[e]]
    BY DEF SyncCrew
  <2> QED
    BY <2>1, NewDatum
<1>3. CrewOf(next) = {c \in DOMAIN aboard : aboard[c] = next} /\ CrewOf(next) \subseteq Clients
  BY DEF CrewOf, LoopInv, Types
<1>4. Types'
  <2>1. next' \in 1..(NShips + 1)
    BY <1>1, InterestAssumption DEF Ships
  <2> QED
    BY <1>1, <1>2, <1>3, <2>1, Kinds DEF LoopInv, Types, Stages
<1>5. CrewsKnown'
  <2>1. \A c \in Clients : Crew(c) \in manned => c \in DOMAIN aboard
    BY <1>3, Apart
  <2> QED
    BY <1>1, <1>2, <2>1 DEF LoopInv, CrewsKnown
<1>6. \A e : Fresh(e) => Fresh(e)'
  BY <1>2 DEF Fresh
<1>7. ASSUME NEW s \in Afloat, s < next + 1 PROVE Synced(s)'
  <2>1. s \in Int /\ next \in Int
    BY <1>1 DEF LoopInv, Types, Ships
  <2>2. CASE s = next
    <3>1. Fresh(Hull(s))' /\ Fresh(Deck(s))'
      BY <1>1, <1>6, <2>2 DEF LoopInv, SyncedSoFar
    <3>2. \A c \in Clients : c \in DOMAIN aboard /\ aboard[c] = s => Fresh(Crew(c))'
      BY <1>2, <1>3, <2>2 DEF Fresh
    <3> QED
      BY <1>1, <3>1, <3>2 DEF Synced
  <2>3. CASE s < next
    <3>1. Synced(s)
      BY <1>1, <2>3 DEF LoopInv, SyncedSoFar
    <3> QED
      BY <1>1, <1>6, <3>1 DEF Synced
  <2> QED
    BY <1>7, <2>1, <2>2, <2>3
<1>8. SyncedSoFar'
  BY <1>1, <1>7 DEF SyncedSoFar
<1> QED
  BY <1>1, <1>4, <1>5, <1>8 DEF LoopInv, Published

LEMMA RetireStep == LoopInv /\ Retire => LoopInv'
<1> SUFFICES ASSUME LoopInv, Retire PROVE LoopInv'
  OBVIOUS
<1>1. /\ stage = "retire" /\ stage' = "shells" /\ next = NShips + 1
      /\ UNCHANGED <<at, flying, next, aboard, moving, behind>> /\ Afloat' = Afloat
  BY DEF Retire, sim, Afloat, LoopInv, SyncedSoFar
<1>2. /\ DOMAIN grid' = DOMAIN grid \ Retired(Ships \ Afloat)
      /\ \A e \in DOMAIN grid' : grid'[e] = grid[e]
  BY DEF Retire, Drop
<1>3. \A s \in Ships : Hull(s) \in DOMAIN grid' \/ Deck(s) \in DOMAIN grid' => s \in Afloat
  BY <1>2 DEF Retired
<1>4. Types' /\ CrewsKnown'
  BY <1>1, <1>2 DEF LoopInv, Types, CrewsKnown, Stages
<1>5. \A e : Fresh(e) => Fresh(e)'
  BY <1>2 DEF Fresh
<1>6. SyncedSoFar'
  BY <1>1, <1>3, <1>5 DEF LoopInv, SyncedSoFar, Synced
<1> QED
  BY <1>1, <1>4, <1>6 DEF LoopInv, Published

LEMMA SyncShellsStep == LoopInv /\ SyncShells => LoopInv'
<1> SUFFICES ASSUME LoopInv, SyncShells PROVE LoopInv'
  OBVIOUS
<1>1. /\ stage = "shells" /\ stage' = "look" /\ next = NShips + 1
      /\ UNCHANGED <<at, flying, next, aboard, moving, behind>> /\ Afloat' = Afloat
  BY DEF SyncShells, sim, Afloat, LoopInv, SyncedSoFar
<1> DEFINE spent == {Shell(b) : b \in known \ DOMAIN flying}
           aloft == {Shell(b) : b \in DOMAIN flying}
<1>2. grid' = [e \in (DOMAIN grid \ spent) \cup aloft |->
                  IF e[1] = "shell" THEN Datum(flying[e[2]].at, NoShip) ELSE grid[e]]
  BY DEF SyncShells
<1>3. ASSUME NEW e \in DOMAIN grid' PROVE "age" \in DOMAIN grid'[e] /\ grid'[e].age = 0
  <2>1. CASE e[1] = "shell"
    BY <1>2, <2>1, NewDatum
  <2>2. CASE e[1] # "shell"
    <3>1. e \in DOMAIN grid /\ grid'[e] = grid[e]
      BY <1>2, <2>2, Apart
    <3>2. e \in Entities /\ "age" \in DOMAIN grid[e]
      BY <3>1 DEF LoopInv, Types
    <3>3. CASE \E s \in Ships : e \in {Hull(s), Deck(s)}
      <4>1. PICK s \in Ships : e \in {Hull(s), Deck(s)}
        BY <3>3
      <4>2. s \in Afloat /\ s < next
        BY <1>1, <3>1, <4>1, InterestAssumption DEF LoopInv, SyncedSoFar, Ships
      <4>3. Synced(s)
        BY <1>1, <4>2 DEF LoopInv, SyncedSoFar
      <4> QED
        BY <3>1, <3>2, <4>1, <4>3 DEF Synced, Fresh
    <3>4. CASE \E c \in Clients : e = Crew(c)
      <4>1. PICK c \in Clients : e = Crew(c)
        BY <3>4
      <4>2. c \in DOMAIN aboard /\ aboard[c] \in Afloat
        BY <1>1, <3>1, <4>1 DEF LoopInv, CrewsKnown
      <4>3. aboard[c] < next
        <5>1. aboard[c] \in Ships
          BY <4>2 DEF LoopInv, Types
        <5> QED
          BY <1>1, <5>1, InterestAssumption DEF Ships
      <4>4. Synced(aboard[c])
        BY <1>1, <4>2, <4>3 DEF LoopInv, SyncedSoFar
      <4> QED
        BY <3>1, <3>2, <4>1, <4>2, <4>4 DEF Synced, Fresh
    <3> QED
      BY <2>2, <3>2, <3>3, <3>4, Apart DEF Entities
  <2> QED
    BY <2>1, <2>2
<1>4. DOMAIN grid' \subseteq DOMAIN grid \cup aloft /\ aloft \subseteq Entities
  BY <1>2, Kinds DEF LoopInv, Types
<1>5. Types'
  BY <1>1, <1>3, <1>4 DEF LoopInv, Types, Stages
<1>6. CrewsKnown'
  BY <1>1, <1>4, Apart DEF LoopInv, CrewsKnown
<1>7. SyncedSoFar'
  BY <1>1, <1>3 DEF SyncedSoFar, Fresh
<1> QED
  BY <1>1, <1>5, <1>6, <1>7 DEF LoopInv, Published

LEMMA LookStep == LoopInv /\ Look => LoopInv'
  BY DEF LoopInv, Look, sim, Types, Stages, CrewsKnown, SyncedSoFar, Fresh, Published, Afloat

LEMMA PublishStep == LoopInv /\ Publish => LoopInv' /\ behind' = 0
  BY DEF LoopInv, Publish, sim, manager, Types, Stages, CrewsKnown, SyncedSoFar, Fresh, Published, Afloat

LEMMA SyncStep == StampInv /\ Sync => StampInv'
<1> SUFFICES ASSUME StampInv, Sync PROVE StampInv'
  OBVIOUS
<1>1. LoopInv'
  BY RepairStep, SkipStep, SyncHullStep, SyncCrewStep, RetireStep, SyncShellsStep, LookStep, PublishStep
     DEF Sync, StampInv
<1>2. pass' = pass /\ behind' \in {behind, 0}
  BY DEF Sync, Repair, Skip, SyncHull, SyncCrew, Retire, SyncShells, Look, Publish
<1>3. PassInv'
  BY <1>2 DEF StampInv, PassInv
<1> QED
  BY <1>1, <1>3 DEF StampInv

-----------------------------------------------------------------------------
(* The steps of the pass, which leave the loop alone.                      *)
LEMMA RoundStep == StampInv /\ Round => StampInv'
<1> SUFFICES ASSUME StampInv, Round PROVE StampInv'
  OBVIOUS
<1> USE DEF StampInv
<1>1. UNCHANGED loopVars
  BY DEF Round, Begin, Copy, Admit, SkipGone, ReadSight, WriteSight, FirstFull, Visit, End,
         sim, loop, manager, loopVars
<1>2. behind' = behind /\ behind \in {0, 1}
  BY <1>1 DEF loopVars, LoopInv, Published
<1>3. CASE Begin
  <2>1. pass' = [Rest EXCEPT !.step = "copy", !.kinds = <<"hull", "deck", "crew", "shell">>, !.age = behind]
    BY <1>3 DEF Begin
  <2>2. /\ {"step", "kinds", "snap", "age", "honest"} \subseteq DOMAIN pass'
        /\ pass'.honest = TRUE /\ pass'.age = behind
    BY <2>1 DEF Rest
  <2> QED
    BY <1>1, <1>2, <2>2, LoopFrame DEF PassInv
<1>4. CASE Copy
  <2>1. pass.step = "copy" /\ pass.age \in 0..2 /\ behind <= pass.age
    BY <1>4 DEF Copy, PassInv
  <2>2. \A e \in DOMAIN grid : grid[e].age <= behind
    BY DEF LoopInv, Types, SyncedSoFar, Fresh, Published
  <2>3. \A e \in DOMAIN grid : grid[e].age <= pass.age
    BY <1>2, <2>1, <2>2 DEF LoopInv, Types
  <2> DEFINE found == Copied(Head(pass.kinds))
  <2>4. \A e \in found : grid[e].age <= pass.age
    BY <2>3 DEF Copied
  <2>5. pass' = [pass EXCEPT !.kinds = Tail(@), !.snap = @ \cup found,
                             !.honest = @ /\ \A e \in found : grid[e].age <= pass.age]
    BY <1>4 DEF Copy
  <2>6. /\ DOMAIN pass' = DOMAIN pass /\ pass'.step = pass.step /\ pass'.age = pass.age
        /\ pass'.honest = (pass.honest /\ \A e \in found : grid[e].age <= pass.age)
    BY <2>5 DEF PassInv
  <2> QED
    BY <1>1, <1>2, <2>1, <2>4, <2>6, LoopFrame DEF PassInv
<1>5. CASE Admit \/ SkipGone \/ ReadSight \/ WriteSight \/ FirstFull \/ (\E c \in Clients : Visit(c)) \/ End
  <2> DEFINE elsewhere ==
               /\ {"step", "kinds", "snap", "age", "honest"} \subseteq DOMAIN pass'
               /\ pass'.step # "copy" /\ pass'.honest = TRUE
  <2>1. elsewhere
    <3>1. CASE Admit
      BY <3>1 DEF Admit, PassInv
    <3>2. CASE SkipGone
      BY <3>2 DEF SkipGone, PassInv
    <3>3. CASE ReadSight
      BY <3>3 DEF ReadSight, PassInv
    <3>4. CASE WriteSight
      BY <3>4 DEF WriteSight, PassInv
    <3>5. CASE FirstFull
      BY <3>5 DEF FirstFull, PassInv
    <3>6. ASSUME NEW c \in Clients, Visit(c) PROVE elsewhere
      BY <3>6 DEF Visit, Turn, PassInv
    <3>7. CASE End
      BY <3>7 DEF End, Rest, PassInv
    <3> QED
      BY <1>5, <3>1, <3>2, <3>3, <3>4, <3>5, <3>6, <3>7
  <2> QED
    BY <1>1, <2>1, LoopFrame DEF PassInv
<1> QED
  BY <1>1, <1>3, <1>4, <1>5, LoopFrame DEF Round

-----------------------------------------------------------------------------
LEMMA StampNext == StampInv /\ [Next]_vars => StampInv'
<1> SUFFICES ASSUME StampInv, [Next]_vars PROVE StampInv'
  OBVIOUS
<1>1. CASE \E c \in Clients : Connect(c) \/ Disconnect(c)
  <2>1. UNCHANGED loopVars /\ pass' = pass
    BY <1>1 DEF Connect, Disconnect, sim, loop, manager, loopVars
  <2> QED
    BY <2>1, LoopFrame, PassFrame DEF StampInv, loopVars
<1>2. CASE UNCHANGED vars
  <2>1. UNCHANGED loopVars /\ pass' = pass
    BY <1>2 DEF vars, sim, loop, manager, loopVars
  <2> QED
    BY <2>1, LoopFrame, PassFrame DEF StampInv, loopVars
<1> QED
  BY <1>1, <1>2, DrainStep, TickStep, SyncStep, RoundStep DEF Next

(* No snapshot is stamped with a tick it does not come up to: what the     *)
(* pass finds is as recent as the tick it read first (publish_tick, №268). *)
THEOREM StampsAreHonest == Spec => []StampIsHonest
<1>1. StampInv => StampIsHonest
  BY DEF StampInv, PassInv, StampIsHonest
<1> QED
  BY StampInit, StampNext, <1>1, PTL DEF Spec

-----------------------------------------------------------------------------
(* What a refresh shows and a view contains.  The tables once more, now    *)
(* with their content.                                                     *)

Recorded ==
    /\ \A s \in Afloat : at[s] \in Int
    /\ \A e \in DOMAIN grid : grid[e] = [at |-> grid[e].at, ship |-> grid[e].ship, age |-> grid[e].age]
    /\ DOMAIN viewers = DOMAIN aboard \ {moving}
    /\ \A c \in DOMAIN viewers :
         viewers[c] = [ship |-> aboard[c], at |-> viewers[c].at, sees |-> viewers[c].sees]
    /\ stage # "repair" => \A c \in DOMAIN aboard : aboard[c] \in Afloat
    /\ moving # Nobody /\ stage = "drain" => Operational # {}

(* Who is in the index and who is in the layers.                           *)
Listed ==
    /\ \A c \in Clients : Crew(c) \in DOMAIN grid => c \in DOMAIN viewers
    /\ \A c \in DOMAIN viewers : Crew(c) \in layered
    /\ \A s \in Afloat : Hull(s) \in DOMAIN grid /\ Deck(s) \in layered
    /\ \A b \in Shells : Shell(b) \in DOMAIN grid => b \in known
    /\ \A b \in known : Shell(b) \in layered

(* What the sync has done for a ship, and for its crew.                    *)
Told(s) ==
    /\ grid[Hull(s)] = Datum(at[s], s) /\ Hull(s) \in layered
    /\ Deck(s) \in DOMAIN grid /\ grid[Deck(s)] = Datum(at[s], s)

Manned(s) == \A c \in DOMAIN viewers : aboard[c] = s =>
    /\ Crew(c) \in DOMAIN grid /\ grid[Crew(c)] = Datum(at[s], s)
    /\ viewers[c].at = at[s]

(* Every hull in the index has a layer: so it is from the first sync on.   *)
Covered == \A s \in Ships : Hull(s) \in DOMAIN grid => Hull(s) \in layered

Syncing == {"hull", "crew", "retire", "shells", "look"}

ExactSoFar ==
    /\ stage \in Syncing => \A s \in Afloat : s < next => Told(s) /\ Manned(s)
    /\ stage = "crew" => Told(next)
    /\ stage = "look" => next = NShips + 1
    /\ stage \in {"look", "tell"} =>
         \A s \in Ships : Hull(s) \in DOMAIN grid \/ Deck(s) \in DOMAIN grid => s \in Afloat
    /\ stage = "look" =>
         /\ known = DOMAIN flying
         /\ \A b \in DOMAIN flying : Shell(b) \in DOMAIN grid /\ grid[Shell(b)] = Datum(flying[b].at, NoShip)
    /\ stage = "tell" => Covered

(* A ship, its hull in the index and a player aboard are never more than a *)
(* step of one ship apart, and two of the three are at the same place.     *)
Abreast(p, q, r) == Near(p, r, 1) /\ Near(q, r, 1) /\ (p = r \/ q = r \/ p = q)

Place(c) == grid[Hull(aboard[c])].at

Close ==
    /\ stage \in {"look", "tell", "drain"} =>
         /\ \A s \in Afloat : grid[Hull(s)].at = at[s]
         /\ \A c \in DOMAIN viewers : viewers[c].at = at[aboard[c]]
    /\ \A s \in Afloat : Near(grid[Hull(s)].at, at[s], 1)
    /\ \A s \in Ships : Hull(s) \in DOMAIN grid => grid[Hull(s)].at \in Int
    /\ \A c \in DOMAIN viewers :
         /\ viewers[c].at \in Int /\ aboard[c] \in Ships /\ Hull(aboard[c]) \in DOMAIN grid
         /\ aboard[c] \in Afloat => Abreast(Place(c), viewers[c].at, at[aboard[c]])
         /\ aboard[c] \notin Afloat => Place(c) = viewers[c].at

TableInv == Recorded /\ Listed /\ ExactSoFar /\ Close

(* What the publish pass has in hand.  A pass begun before the first sync  *)
(* finds hulls without a layer, but nobody is in line for a view yet.      *)
AllKinds == <<"hull", "deck", "crew", "shell">>

SeesOwnShip == \A c \in DOMAIN viewers \ unsettled : Hull(aboard[c]) \in viewers[c].sees

HullsCopied == \A s \in Ships : Hull(s) \in DOMAIN grid => Hull(s) \in pass.snap

NobodyServed ==
    /\ rows = {} /\ pass.admitted = << >> /\ pass.step \in {"rest", "copy", "admit"}
    /\ pass.step = "copy" \/ due => queue = << >>
    /\ due => pass.step = "rest"

PassHolds ==
    /\ {"step", "kinds", "snap", "age", "honest", "clients", "admitted", "draft", "for"} \subseteq DOMAIN pass
    /\ pass.step # "rest" /\ (pass.step = "copy" => pass.kinds # AllKinds) => HullsCopied
    /\ pass.step = "write" => Hull(pass.for) \in pass.draft
    /\ Covered \/ NobodyServed

SightInv == StampInv /\ TableInv /\ SeesOwnShip /\ PassHolds

LEMMA Numbers ==
  /\ NShips \in Nat /\ Ships \subseteq Nat /\ ShipRadius \in Nat /\ 1 <= ShipRadius /\ ShellRadius \in Nat
  /\ Nobody \notin Clients
  BY InterestAssumption DEF Ships, Nobody

LEMMA SightInit == Init => SightInv
<1> SUFFICES ASSUME Init PROVE SightInv
  OBVIOUS
<1>1. StampInv
  BY StampInit
<1>2. /\ stage = "drain" /\ moving = Nobody /\ Afloat = Ships /\ DOMAIN flying = {}
      /\ DOMAIN aboard = {} /\ DOMAIN viewers = {} /\ known = {} /\ layered = {Deck(s) : s \in Ships}
      /\ \A s \in Ships : at[s] = (s - 1) * Spacing
  BY DEF Init, Afloat
<1>3. grid = [e \in {Hull(s) : s \in Ships} \cup {Deck(s) : s \in Ships} |-> Datum((e[2] - 1) * Spacing, e[2])]
  BY DEF Init
<1>4. \A s \in Ships : Hull(s) \in DOMAIN grid /\ grid[Hull(s)] = Datum(at[s], s) /\ at[s] \in Int
  BY <1>2, <1>3, InterestAssumption DEF Hull, Ships
<1>5. \A s \in Ships : grid[Hull(s)].at = at[s] /\ Near(at[s], at[s], 1)
  <2>1. \A n \in Int : Near(n, n, 1)
    BY DEF Near
  <2>2. \A p, s : Datum(p, s).at = p
    BY DEF Datum
  <2> QED
    BY <1>4, <2>1, <2>2
<1>6. Recorded
  BY <1>2, <1>3, <1>4 DEF Recorded, Datum
<1>7. Listed
  BY <1>2, <1>3, <1>4, Apart DEF Listed
<1>8. ExactSoFar /\ Close
  BY <1>2, <1>4, <1>5 DEF ExactSoFar, Close, Syncing
<1>9. SeesOwnShip /\ PassHolds
  BY <1>2 DEF Init, SeesOwnShip, PassHolds, NobodyServed, Rest
<1> QED
  BY <1>1, <1>6, <1>7, <1>8, <1>9 DEF SightInv, TableInv

(* The least of some numbers, for the hull a player is put on.             *)
LEMMA Least ==
    ASSUME NEW S \in SUBSET Nat, S # {}
    PROVE  \E m \in S : \A k \in S : m <= k
<1> DEFINE Below == {pq \in Nat \X Nat : pq[1] < pq[2]}
<1>1. Below = OpToRel(<, Nat)
  BY DEF OpToRel
<1>2. PICK m \in S : \A k \in S : <<k, m>> \notin Below
  <2>1. IsWellFoundedOn(Below, Nat)
    BY <1>1, NatLessThanWellFounded
  <2> QED
    BY <2>1, WFMin
<1>3. ASSUME NEW k \in S PROVE m <= k
  <2>1. k \in Nat /\ m \in Nat /\ ~(k < m)
    BY <1>2
  <2> QED
    BY <2>1
<1> QED
  BY <1>3

LEMMA HavensFloat ==
    ASSUME LoopInv, Recorded, moving # Nobody
    PROVE  Havens \subseteq Afloat
<1>1. Operational \in SUBSET Nat
  BY Numbers DEF Operational, LoopInv, Types
<1>2. CASE stage = "drain"
  <2>1. \E s \in Operational : \A t \in Operational : s <= t
    BY <1>1, <1>2, Least DEF Recorded
  <2> QED
    BY <1>2, <2>1 DEF Havens, Operational
<1> QED
  BY <1>2 DEF Havens

-----------------------------------------------------------------------------
(* The tables: a player comes or goes.                                     *)
LEMMA JoinsTable ==
  ASSUME LoopInv, TableInv, stage \in {"drain", "repair"}, NEW c \in Clients, NEW s \in Afloat, AddPlayer(c, s),
         moving \in {c, Nobody}, moving' = Nobody, UNCHANGED <<at, sinking, flying, stage, next, known>>
  PROVE  TableInv'
<1>1. Afloat' = Afloat /\ Operational' = Operational /\ s \in Ships /\ c # Nobody
  BY Numbers DEF Afloat, Operational, LoopInv, Types
<1>2. /\ DOMAIN grid' = DOMAIN grid \cup {Crew(c)} /\ grid'[Crew(c)] = Datum(at[s], s)
      /\ \A e \in DOMAIN grid : e # Crew(c) => grid'[e] = grid[e]
  BY DEF AddPlayer, Put
<1>3. /\ DOMAIN aboard' = DOMAIN aboard \cup {c} /\ aboard'[c] = s
      /\ \A d \in DOMAIN aboard : d # c => aboard'[d] = aboard[d]
  BY DEF AddPlayer, Put
<1>4. /\ DOMAIN viewers' = DOMAIN viewers \cup {c} /\ viewers'[c] = [ship |-> s, at |-> at[s], sees |-> {}]
      /\ \A d \in DOMAIN viewers : d # c => viewers'[d] = viewers[d]
  BY DEF AddPlayer, Put
<1>5. layered' = layered \cup {Crew(c)}
  BY DEF AddPlayer
<1>6. DOMAIN viewers' = DOMAIN aboard' /\ DOMAIN viewers \subseteq DOMAIN aboard
  BY <1>3, <1>4, Numbers DEF TableInv, Recorded, LoopInv, Types
<1>7. \A t : Hull(t) # Crew(c) /\ Deck(t) # Crew(c) /\ Shell(t) # Crew(c)
  BY Apart
<1>8. Recorded'
  <2>1. DOMAIN viewers' = DOMAIN aboard' \ {moving'}
    BY <1>6, Numbers, <1>3 DEF LoopInv, Types
  <2>2. \A e \in DOMAIN grid' : grid'[e] = [at |-> grid'[e].at, ship |-> grid'[e].ship, age |-> grid'[e].age]
    BY <1>2 DEF TableInv, Recorded, Datum
  <2>3. \A d \in DOMAIN viewers' :
           viewers'[d] = [ship |-> aboard'[d], at |-> viewers'[d].at, sees |-> viewers'[d].sees]
    BY <1>3, <1>4, <1>6 DEF TableInv, Recorded
  <2> QED
    BY <1>1, <1>3, <2>1, <2>2, <2>3 DEF TableInv, Recorded
<1>9. Listed'
  <2>1. \A d \in Clients : Crew(d) \in DOMAIN grid' => d \in DOMAIN viewers'
    BY <1>2, <1>4, Apart DEF TableInv, Listed
  <2>2. \A d \in DOMAIN viewers' : Crew(d) \in layered'
    BY <1>4, <1>5 DEF TableInv, Listed
  <2>3. \A t \in Afloat' : Hull(t) \in DOMAIN grid' /\ Deck(t) \in layered'
    BY <1>1, <1>2, <1>5 DEF TableInv, Listed
  <2>4. \A b \in Shells : Shell(b) \in DOMAIN grid' => b \in known'
    BY <1>2, <1>7 DEF TableInv, Listed
  <2> QED
    BY <1>5, <2>1, <2>2, <2>3, <2>4 DEF TableInv, Listed
<1>10. ExactSoFar'
  BY DEF ExactSoFar, Syncing
<1>11. Close'
  <2>1. \A t \in Ships : Hull(t) \in DOMAIN grid' <=> Hull(t) \in DOMAIN grid
    BY <1>2, <1>7
  <2>2. \A t \in Ships : Hull(t) \in DOMAIN grid => grid'[Hull(t)] = grid[Hull(t)]
    BY <1>2, <1>7
  <2>3. \A t \in Afloat : t \in Ships /\ Hull(t) \in DOMAIN grid /\ Near(grid[Hull(t)].at, at[t], 1)
    BY DEF LoopInv, Types, TableInv, Listed, Close
  <2>4. at[s] \in Int /\ Near(at[s], at[s], 1)
    <3>1. at[s] \in Int
      BY DEF TableInv, Recorded
    <3> QED
      BY <3>1 DEF Near
  <2>5. /\ viewers'[c].at = at[s] /\ aboard'[c] = s /\ s \in Ships /\ Hull(s) \in DOMAIN grid'
        /\ Abreast(grid'[Hull(s)].at, viewers'[c].at, at[s])
    BY <1>1, <1>3, <1>4, <2>1, <2>2, <2>3, <2>4 DEF Abreast
  <2>6. ASSUME NEW d \in DOMAIN viewers, d # c
        PROVE  /\ viewers'[d].at \in Int /\ aboard'[d] \in Ships /\ Hull(aboard'[d]) \in DOMAIN grid'
               /\ aboard'[d] \in Afloat => Abreast(grid'[Hull(aboard'[d])].at, viewers'[d].at, at[aboard'[d]])
               /\ aboard'[d] \notin Afloat => grid'[Hull(aboard'[d])].at = viewers'[d].at
    <3>1. aboard'[d] = aboard[d] /\ viewers'[d] = viewers[d]
      BY <1>3, <1>4, <1>6, <2>6
    <3>2. /\ viewers[d].at \in Int /\ aboard[d] \in Ships /\ Hull(aboard[d]) \in DOMAIN grid
          /\ aboard[d] \in Afloat => Abreast(Place(d), viewers[d].at, at[aboard[d]])
          /\ aboard[d] \notin Afloat => Place(d) = viewers[d].at
      BY DEF TableInv, Close
    <3> QED
      BY <2>1, <2>2, <3>1, <3>2 DEF Place
  <2>7. \A t \in Ships : Hull(t) \in DOMAIN grid' => grid'[Hull(t)].at \in Int
    BY <2>1, <2>2 DEF TableInv, Close
  <2>8. stage = "drain" =>
          /\ \A t \in Afloat : grid'[Hull(t)].at = at[t]
          /\ \A d \in DOMAIN viewers' : viewers'[d].at = at[aboard'[d]]
    BY <1>3, <1>4, <1>6, <2>2, <2>3, <2>5 DEF TableInv, Close
  <2>9. ASSUME NEW d \in DOMAIN viewers'
        PROVE  /\ viewers'[d].at \in Int /\ aboard'[d] \in Ships /\ Hull(aboard'[d]) \in DOMAIN grid'
               /\ aboard'[d] \in Afloat => Abreast(grid'[Hull(aboard'[d])].at, viewers'[d].at, at[aboard'[d]])
               /\ aboard'[d] \notin Afloat => grid'[Hull(aboard'[d])].at = viewers'[d].at
    <3>1. d = c \/ (d \in DOMAIN viewers /\ d # c)
      BY <1>4
    <3>2. CASE d = c
      <4>1. viewers'[c].at \in Int
        BY <2>4, <2>5
      <4> QED
        BY <2>5, <3>2, <4>1
    <3> QED
      BY <2>6, <3>1, <3>2
  <2>10. \A t \in Afloat : Near(grid'[Hull(t)].at, at[t], 1)
    BY <2>2, <2>3
  <2>11. stage' = stage /\ at' = at /\ Afloat' = Afloat /\ stage \in {"drain", "repair"}
    BY <1>1
  <2>12. stage' \in {"look", "tell", "drain"} => stage = "drain"
    BY <2>11
  <2> QED
    BY <2>7, <2>8, <2>9, <2>10, <2>11, <2>12 DEF Close, Place
<1> QED
  BY <1>8, <1>9, <1>10, <1>11 DEF TableInv

LEMMA LeavesTable ==
  ASSUME LoopInv, TableInv, stage \in {"drain", "repair"}, NEW c \in Clients, c \in DOMAIN aboard, RemovePlayer(c),
         moving = Nobody, UNCHANGED <<at, sinking, flying, stage, next, known>>,
         \/ aboard' = Drop(aboard, {c}) /\ moving' = Nobody
         \/ aboard' = aboard /\ moving' = c /\ (stage = "drain" => Operational # {})
  PROVE  TableInv'
<1>1. Afloat' = Afloat /\ Operational' = Operational /\ c # Nobody
  BY Numbers DEF Afloat, Operational
<1>2. DOMAIN grid' = DOMAIN grid \ {Crew(c)} /\ \A e \in DOMAIN grid' : grid'[e] = grid[e]
  BY DEF RemovePlayer, Drop
<1>3. DOMAIN viewers' = DOMAIN viewers \ {c} /\ \A d \in DOMAIN viewers' : viewers'[d] = viewers[d]
  BY DEF RemovePlayer, Drop
<1>4. layered' = layered \ {Crew(c)}
  BY DEF RemovePlayer
<1>5. DOMAIN viewers = DOMAIN aboard /\ DOMAIN viewers \subseteq Clients
  BY Numbers DEF TableInv, Recorded, LoopInv, Types
<1>6. /\ DOMAIN aboard' \subseteq DOMAIN aboard /\ \A d \in DOMAIN aboard' : aboard'[d] = aboard[d]
      /\ DOMAIN viewers' = DOMAIN aboard' \ {moving'}
  BY <1>1, <1>3, <1>5, Numbers DEF Drop, LoopInv, Types
<1>7. \A t : Hull(t) # Crew(c) /\ Deck(t) # Crew(c) /\ Shell(t) # Crew(c)
  BY Apart
<1>8. Recorded'
  <2>1. \A e \in DOMAIN grid' : grid'[e] = [at |-> grid'[e].at, ship |-> grid'[e].ship, age |-> grid'[e].age]
    BY <1>2 DEF TableInv, Recorded
  <2>2. \A d \in DOMAIN viewers' :
           viewers'[d] = [ship |-> aboard'[d], at |-> viewers'[d].at, sees |-> viewers'[d].sees]
    BY <1>3, <1>6 DEF TableInv, Recorded
  <2> QED
    BY <1>1, <1>6, <2>1, <2>2 DEF TableInv, Recorded
<1>9. Listed'
  <2>1. \A d \in Clients : Crew(d) \in DOMAIN grid' => d \in DOMAIN viewers'
    BY <1>2, <1>3 DEF TableInv, Listed
  <2>2. \A d \in DOMAIN viewers' : Crew(d) \in layered'
    BY <1>3, <1>4, Apart DEF TableInv, Listed
  <2>3. \A t \in Afloat' : Hull(t) \in DOMAIN grid' /\ Deck(t) \in layered'
    BY <1>1, <1>2, <1>4, <1>7 DEF TableInv, Listed
  <2>4. \A b \in known' : Shell(b) \in layered'
    BY <1>4, <1>7 DEF TableInv, Listed
  <2> QED
    BY <1>2, <2>1, <2>2, <2>3, <2>4 DEF TableInv, Listed
<1>10. ExactSoFar'
  BY DEF ExactSoFar, Syncing
<1>11. Close'
  <2>1. \A t \in Ships : Hull(t) \in DOMAIN grid' <=> Hull(t) \in DOMAIN grid
    BY <1>2, <1>7
  <2>2. \A t \in Ships : Hull(t) \in DOMAIN grid => grid'[Hull(t)] = grid[Hull(t)]
    BY <1>2, <2>1
  <2>3. \A t \in Afloat : t \in Ships /\ Hull(t) \in DOMAIN grid
    BY DEF LoopInv, Types, TableInv, Listed
  <2>4. ASSUME NEW d \in DOMAIN viewers'
        PROVE  /\ viewers'[d].at \in Int /\ aboard'[d] \in Ships /\ Hull(aboard'[d]) \in DOMAIN grid'
               /\ aboard'[d] \in Afloat => Abreast(grid'[Hull(aboard'[d])].at, viewers'[d].at, at[aboard'[d]])
               /\ aboard'[d] \notin Afloat => grid'[Hull(aboard'[d])].at = viewers'[d].at
    <3>1. aboard'[d] = aboard[d] /\ viewers'[d] = viewers[d] /\ d \in DOMAIN viewers
      BY <1>3, <1>6
    <3>2. /\ viewers[d].at \in Int /\ aboard[d] \in Ships /\ Hull(aboard[d]) \in DOMAIN grid
          /\ aboard[d] \in Afloat => Abreast(Place(d), viewers[d].at, at[aboard[d]])
          /\ aboard[d] \notin Afloat => Place(d) = viewers[d].at
      BY <3>1 DEF TableInv, Close
    <3> QED
      BY <2>1, <2>2, <3>1, <3>2 DEF Place
  <2>5. stage = "drain" =>
          /\ \A t \in Afloat : grid'[Hull(t)].at = at[t]
          /\ \A d \in DOMAIN viewers' : viewers'[d].at = at[aboard'[d]]
    BY <1>3, <1>6, <2>2, <2>3 DEF TableInv, Close
  <2>6. \A t \in Afloat : Near(grid'[Hull(t)].at, at[t], 1)
    BY <2>2, <2>3 DEF TableInv, Close
  <2>7. \A t \in Ships : Hull(t) \in DOMAIN grid' => grid'[Hull(t)].at \in Int
    BY <2>1, <2>2 DEF TableInv, Close
  <2>8. stage' \in {"look", "tell", "drain"} => stage = "drain"
    OBVIOUS
  <2> QED
    BY <1>1, <2>4, <2>5, <2>6, <2>7, <2>8 DEF Close, Place
<1> QED
  BY <1>8, <1>9, <1>10, <1>11 DEF TableInv

(* Nothing of the tables, or nothing but what a player sees.               *)
tableVars == <<at, sinking, flying, stage, next, aboard, moving, known, grid, layered>>

SeenAnew ==
    /\ DOMAIN viewers' = DOMAIN viewers
    /\ \A c \in DOMAIN viewers : viewers'[c] = [viewers[c] EXCEPT !.sees = viewers'[c].sees]

LEMMA TableFrame == TableInv /\ UNCHANGED tableVars /\ (SeenAnew \/ viewers' = viewers) => TableInv'
<1> SUFFICES ASSUME TableInv, UNCHANGED tableVars, SeenAnew \/ viewers' = viewers PROVE TableInv'
  OBVIOUS
<1>1. /\ UNCHANGED <<at, sinking, flying, stage, next, aboard, moving, known, grid, layered>>
      /\ Afloat' = Afloat /\ Operational' = Operational
  BY DEF tableVars, Afloat, Operational
<1>2. \A c \in DOMAIN viewers :
         viewers[c] = [ship |-> aboard[c], at |-> viewers[c].at, sees |-> viewers[c].sees]
  BY DEF TableInv, Recorded
<1>3. DOMAIN viewers' = DOMAIN viewers
  BY DEF SeenAnew
<1>4. \A c \in DOMAIN viewers :
         /\ viewers'[c].at = viewers[c].at
         /\ viewers'[c] = [ship |-> aboard[c], at |-> viewers'[c].at, sees |-> viewers'[c].sees]
  <2>1. ASSUME NEW v, NEW a, NEW p, NEW x, NEW y, v = [ship |-> a, at |-> p, sees |-> x]
        PROVE  [v EXCEPT !.sees = y] = [ship |-> a, at |-> p, sees |-> y]
    BY <2>1
  <2>2. ASSUME NEW c \in DOMAIN viewers, SeenAnew
        PROVE  viewers'[c] = [ship |-> aboard[c], at |-> viewers[c].at, sees |-> viewers'[c].sees]
    BY <1>2, <2>1, <2>2 DEF SeenAnew
  <2>3. ASSUME NEW c \in DOMAIN viewers
        PROVE  viewers'[c] = [ship |-> aboard[c], at |-> viewers[c].at, sees |-> viewers'[c].sees]
    BY <1>2, <2>2
  <2>4. ASSUME NEW c \in DOMAIN viewers PROVE viewers'[c].at = viewers[c].at
    <3> DEFINE p == viewers[c].at
               y == viewers'[c].sees
    <3>1. viewers'[c] = [ship |-> aboard[c], at |-> p, sees |-> y]
      BY <2>3
    <3> HIDE DEF p, y
    <3>2. viewers'[c].at = p
      BY <3>1
    <3> QED
      BY <3>2 DEF p
  <2>5. ASSUME NEW c \in DOMAIN viewers
        PROVE  viewers'[c] = [ship |-> aboard[c], at |-> viewers'[c].at, sees |-> viewers'[c].sees]
    BY <2>3, <2>4
  <2> QED
    BY <2>4, <2>5
<1>5. Recorded'
  BY <1>1, <1>3, <1>4 DEF TableInv, Recorded
<1>6. Listed'
  BY <1>1, <1>3 DEF TableInv, Listed
<1>7. \A s : (Told(s)' <=> Told(s)) /\ (Manned(s)' <=> Manned(s))
  BY <1>1, <1>3, <1>4 DEF Told, Manned
<1>8. Covered' <=> Covered
  BY <1>1 DEF Covered
<1>9. ExactSoFar'
  BY <1>1, <1>7, <1>8 DEF TableInv, ExactSoFar, Syncing
<1>10. Close'
  BY <1>1, <1>3, <1>4 DEF TableInv, Close, Place
<1> QED
  BY <1>5, <1>6, <1>9, <1>10 DEF TableInv

(* A tick moves a ship by one, takes one out, or changes the shells.       *)
LEMMA ShipsMove ==
  ASSUME LoopInv, TableInv, Tick
  PROVE  /\ Afloat' \subseteq Afloat
         /\ \A s \in Afloat' : at'[s] \in Int /\ Near(at[s], at'[s], 1)
<1>1. \A s \in Afloat : at[s] \in Int /\ Near(at[s], at[s], 1)
  <2>1. \A n \in Int : Near(n, n, 1)
    BY DEF Near
  <2> QED
    BY <2>1 DEF TableInv, Recorded
<1>2. CASE UNCHANGED at
  BY <1>1, <1>2 DEF Afloat
<1>3. ASSUME NEW s \in Afloat, NEW p \in Places, Sail(s, p)
      PROVE  Afloat' = Afloat /\ \A t \in Afloat : at'[t] \in Int /\ Near(at[t], at'[t], 1)
  BY <1>1, <1>3, InterestAssumption DEF Sail, Afloat, Places
<1>4. ASSUME NEW s \in Afloat, GoDown(s)
      PROVE  Afloat' \subseteq Afloat /\ \A t \in Afloat' : at'[t] = at[t]
  BY <1>4 DEF GoDown, Drop, Afloat
<1>5. ASSUME NEW s \in Afloat, Change(s)
      PROVE  UNCHANGED at \/ GoDown(s) \/ \E p \in Places : Sail(s, p)
  BY <1>5 DEF Change, Founder, Fire, Strike
<1>6. UNCHANGED at \/ \E s \in Afloat : Change(s)
  BY DEF Tick, Wound, Calm, sim
<1> QED
  BY <1>1, <1>2, <1>3, <1>4, <1>5, <1>6

LEMMA TickTable == LoopInv /\ TableInv /\ Tick => TableInv'
<1> SUFFICES ASSUME LoopInv, TableInv, Tick PROVE TableInv'
  OBVIOUS
<1>1. /\ stage = "drain" /\ stage' = "repair" /\ moving = Nobody
      /\ UNCHANGED <<next, aboard, moving, known, layered, viewers>>
  BY DEF Tick, Draining
<1>2. /\ DOMAIN grid' = DOMAIN grid
      /\ \A e \in DOMAIN grid : grid'[e] = [grid[e] EXCEPT !.age = Older(@)]
  BY DEF Tick
<1>3. \A e \in DOMAIN grid :
         /\ grid'[e].at = grid[e].at
         /\ grid'[e] = [at |-> grid'[e].at, ship |-> grid'[e].ship, age |-> grid'[e].age]
  <2> TAKE e \in DOMAIN grid
  <2>1. grid[e] = [at |-> grid[e].at, ship |-> grid[e].ship, age |-> grid[e].age]
    BY DEF TableInv, Recorded
  <2>2. grid'[e] = [grid[e] EXCEPT !.age = Older(grid[e].age)]
    BY <1>2
  <2> HIDE DEF Older
  <2>3. grid'[e] = [at |-> grid[e].at, ship |-> grid[e].ship, age |-> Older(grid[e].age)]
    BY <2>1, <2>2
  <2> QED
    BY <2>3
<1>4. Recorded'
  BY <1>1, <1>2, <1>3, ShipsMove DEF TableInv, Recorded
<1>5. Listed'
  BY <1>1, <1>2, ShipsMove DEF TableInv, Listed
<1>6. ExactSoFar'
  BY <1>1 DEF ExactSoFar, Syncing
<1>7. Close'
  <2>1. \A s \in Ships : Hull(s) \in DOMAIN grid => grid'[Hull(s)].at = grid[Hull(s)].at
    BY <1>3
  <2>2. \A s \in Afloat : s \in Ships /\ Hull(s) \in DOMAIN grid /\ grid[Hull(s)].at = at[s]
    BY <1>1 DEF LoopInv, Types, TableInv, Listed, Close
  <2>3. \A s \in Afloat' : Near(grid'[Hull(s)].at, at'[s], 1)
    BY <2>1, <2>2, ShipsMove
  <2>4. ASSUME NEW c \in DOMAIN viewers
        PROVE  /\ aboard[c] \in Afloat /\ aboard[c] \in Ships /\ Hull(aboard[c]) \in DOMAIN grid
               /\ viewers[c].at = at[aboard[c]] /\ viewers[c].at \in Int
               /\ grid'[Hull(aboard[c])].at = at[aboard[c]]
    <3>1. aboard[c] \in Afloat
      BY <1>1 DEF TableInv, Recorded
    <3> QED
      BY <1>1, <2>1, <2>2, <3>1 DEF TableInv, Close
  <2>5. ASSUME NEW c \in DOMAIN viewers, aboard[c] \in Afloat'
        PROVE  Abreast(grid'[Hull(aboard[c])].at, viewers[c].at, at'[aboard[c]])
    BY <2>4, <2>5, ShipsMove DEF Abreast
  <2>6. \A s \in Ships : Hull(s) \in DOMAIN grid' => grid'[Hull(s)].at \in Int
    BY <1>2, <2>1 DEF TableInv, Close
  <2> QED
    BY <1>1, <1>2, <2>3, <2>4, <2>5, <2>6 DEF Close, Place
<1> QED
  BY <1>4, <1>5, <1>6, <1>7 DEF TableInv

-----------------------------------------------------------------------------
(* The tables: the sync.                                                   *)
LEMMA RepairedTable == LoopInv /\ TableInv /\ Repair /\ Orphans = {} => TableInv'
<1> SUFFICES ASSUME LoopInv, TableInv, Repair, Orphans = {} PROVE TableInv'
  OBVIOUS
<1>1. /\ stage = "repair" /\ stage' = "hull" /\ next' = 1 /\ moving = Nobody
      /\ UNCHANGED <<at, sinking, flying, aboard, moving, known, grid, layered, viewers>>
      /\ Afloat' = Afloat
  BY DEF Repair, sim, manager, Afloat
<1>2. \A c \in DOMAIN aboard : aboard[c] \in Afloat
  BY DEF Orphans
<1>3. \A s \in Afloat : ~(s < 1)
  BY DEF LoopInv, Types, Ships
<1> QED
  BY <1>1, <1>2, <1>3 DEF TableInv, Recorded, Listed, ExactSoFar, Syncing, Close, Place

LEMMA SkippedTable == LoopInv /\ TableInv /\ Skip => TableInv'
<1> SUFFICES ASSUME LoopInv, TableInv, Skip PROVE TableInv'
  OBVIOUS
<1>1. /\ stage = "hull" /\ next \notin Afloat /\ stage' \in {"hull", "retire"}
      /\ next' = next + 1 \/ next' = next
      /\ UNCHANGED <<at, sinking, flying, aboard, moving, known, grid, layered, viewers>>
      /\ Afloat' = Afloat
  BY DEF Skip, sim, manager, Afloat
<1>2. \A s \in Afloat : s < next' => s < next
  BY <1>1 DEF LoopInv, Types, Ships
<1>3. \A s : (Told(s)' <=> Told(s)) /\ (Manned(s)' <=> Manned(s))
  BY <1>1 DEF Told, Manned
<1>4. ExactSoFar'
  BY <1>1, <1>2, <1>3 DEF TableInv, ExactSoFar, Syncing
<1> QED
  BY <1>1, <1>4 DEF TableInv, Recorded, Listed, Close, Place

LEMMA HullTable == LoopInv /\ TableInv /\ SyncHull => TableInv'
<1> SUFFICES ASSUME LoopInv, TableInv, SyncHull PROVE TableInv'
  OBVIOUS
<1>1. /\ stage = "hull" /\ stage' = "crew" /\ next \in Afloat /\ next \in Ships
      /\ UNCHANGED <<at, sinking, flying, next, aboard, moving, known, viewers>>
      /\ Afloat' = Afloat /\ Operational' = Operational
  BY DEF SyncHull, sim, Afloat, Operational, LoopInv, Types
<1>2. /\ DOMAIN grid' = DOMAIN grid \cup {Hull(next), Deck(next)}
      /\ \A e \in {Hull(next), Deck(next)} : grid'[e] = Datum(at[next], next)
      /\ \A e \in DOMAIN grid \ {Hull(next), Deck(next)} : grid'[e] = grid[e]
      /\ layered' = layered \cup {Hull(next)}
  BY DEF SyncHull, Put
<1>3. Hull(next) \in DOMAIN grid
  BY <1>1 DEF TableInv, Listed
<1>4. at[next] \in Int /\ \A n \in Int : Near(n, n, 1)
  BY <1>1 DEF TableInv, Recorded, Near
<1>d. \A p, s : Datum(p, s).at = p /\ Datum(p, s) = [at |-> p, ship |-> s, age |-> Datum(p, s).age]
  BY DEF Datum
<1>5. \A s : s # next => grid'[Hull(s)] = grid[Hull(s)] \/ Hull(s) \notin DOMAIN grid
  BY <1>2, Apart
<1>6. Recorded'
  BY <1>1, <1>2, <1>d DEF TableInv, Recorded
<1>7. Listed'
  <2>1. \A c \in Clients : Crew(c) \in DOMAIN grid' => Crew(c) \in DOMAIN grid
    BY <1>2, Apart
  <2>2. \A b \in Shells : Shell(b) \in DOMAIN grid' => Shell(b) \in DOMAIN grid
    BY <1>2, Apart
  <2> QED
    BY <1>1, <1>2, <2>1, <2>2 DEF TableInv, Listed
<1>8. ExactSoFar'
  <2>1. Told(next)'
    BY <1>1, <1>2 DEF Told
  <2>2. ASSUME NEW s \in Afloat, s < next PROVE Told(s)' /\ Manned(s)'
    <3>1. Told(s) /\ Manned(s) /\ s # next /\ Hull(s) \in DOMAIN grid
      BY <1>1, <2>2, Numbers DEF TableInv, ExactSoFar, Syncing, Listed
    <3>2. Told(s)'
      BY <1>1, <1>2, <3>1, Apart DEF Told
    <3>3. \A c : Crew(c) \in DOMAIN grid => Crew(c) \in DOMAIN grid' /\ grid'[Crew(c)] = grid[Crew(c)]
      BY <1>2, Apart
    <3>4. Manned(s)'
      BY <1>1, <3>1, <3>3 DEF Manned
    <3> QED
      BY <3>2, <3>4
  <2> QED
    BY <1>1, <2>1, <2>2 DEF ExactSoFar, Syncing
<1>9. Close'
  <2>1. \A s \in Ships : Hull(s) \in DOMAIN grid' => Hull(s) \in DOMAIN grid
    BY <1>2, <1>3, Apart
  <2>2. grid'[Hull(next)].at = at[next]
    BY <1>2, <1>d
  <2>3. \A s \in Afloat : Near(grid'[Hull(s)].at, at[s], 1)
    <3> TAKE s \in Afloat
    <3>1. Hull(s) \in DOMAIN grid /\ Near(grid[Hull(s)].at, at[s], 1)
      BY DEF TableInv, Listed, Close
    <3> QED
      BY <1>4, <1>5, <2>2, <3>1
  <2>4. \A s \in Ships : Hull(s) \in DOMAIN grid' => grid'[Hull(s)].at \in Int
    BY <1>4, <1>5, <2>1, <2>2 DEF TableInv, Close
  <2>5. ASSUME NEW c \in DOMAIN viewers
        PROVE  /\ viewers[c].at \in Int /\ aboard[c] \in Ships /\ Hull(aboard[c]) \in DOMAIN grid'
               /\ aboard[c] \in Afloat => Abreast(grid'[Hull(aboard[c])].at, viewers[c].at, at[aboard[c]])
               /\ aboard[c] \notin Afloat => grid'[Hull(aboard[c])].at = viewers[c].at
    <3>1. /\ viewers[c].at \in Int /\ aboard[c] \in Ships /\ Hull(aboard[c]) \in DOMAIN grid
          /\ aboard[c] \in Afloat => Abreast(Place(c), viewers[c].at, at[aboard[c]])
          /\ aboard[c] \notin Afloat => Place(c) = viewers[c].at
      BY DEF TableInv, Close
    <3>2. CASE aboard[c] = next
      BY <1>1, <1>2, <1>4, <2>2, <3>1, <3>2 DEF Abreast
    <3>3. CASE aboard[c] # next
      BY <1>2, <1>5, <3>1, <3>3 DEF Place
    <3> QED
      BY <3>2, <3>3
  <2> QED
    BY <1>1, <2>3, <2>4, <2>5 DEF Close, Place
<1> QED
  BY <1>6, <1>7, <1>8, <1>9 DEF TableInv

LEMMA CrewTable == LoopInv /\ TableInv /\ SyncCrew => TableInv'
<1> SUFFICES ASSUME LoopInv, TableInv, SyncCrew PROVE TableInv'
  OBVIOUS
<1>1. /\ stage = "crew" /\ stage' = "hull" /\ next \in Afloat /\ next \in Ships /\ next' = next + 1
      /\ UNCHANGED <<at, sinking, flying, aboard, moving, known, layered>>
      /\ Afloat' = Afloat /\ Operational' = Operational
  BY DEF SyncCrew, sim, Afloat, Operational, LoopInv, Types, SyncedSoFar
<1> DEFINE crew == CrewOf(next)
           manned == {Crew(c) : c \in crew}
<1>2. /\ DOMAIN grid' = DOMAIN grid \cup manned
      /\ \A e \in manned : grid'[e] = Datum(at[next], next)
      /\ \A e \in DOMAIN grid \ manned : grid'[e] = grid[e]
  <2>1. grid' = [e \in DOMAIN grid \cup manned |->
                    IF \E c \in crew : e = Crew(c) THEN Datum(at[next], next) ELSE grid[e]]
    BY DEF SyncCrew
  <2> QED
    BY <2>1
<1>3. crew = {c \in DOMAIN aboard : aboard[c] = next} /\ crew \subseteq Clients
  BY DEF CrewOf, LoopInv, Types
<1>4. crew = {c \in DOMAIN viewers : aboard[c] = next} /\ DOMAIN viewers = DOMAIN aboard
  <2>1. moving = Nobody /\ DOMAIN viewers = DOMAIN aboard
    BY <1>1, Numbers DEF TableInv, Recorded, LoopInv, Types, CrewsKnown
  <2> QED
    BY <1>3, <2>1
<1>5. /\ DOMAIN viewers' = DOMAIN viewers
      /\ \A c \in DOMAIN viewers :
           /\ viewers'[c] = [ship |-> aboard[c], at |-> viewers'[c].at, sees |-> viewers'[c].sees]
           /\ viewers'[c].at = IF c \in crew THEN at[next] ELSE viewers[c].at
  <2>1. viewers' = [c \in DOMAIN viewers |-> IF c \in crew THEN [viewers[c] EXCEPT !.at = at[next], !.ship = next]
                                                           ELSE viewers[c]]
    BY DEF SyncCrew
  <2>2. \A c \in DOMAIN viewers :
           viewers[c] = [ship |-> aboard[c], at |-> viewers[c].at, sees |-> viewers[c].sees]
    BY DEF TableInv, Recorded
  <2>3. ASSUME NEW c \in DOMAIN viewers
        PROVE  /\ viewers'[c] = [ship |-> aboard[c], at |-> viewers'[c].at, sees |-> viewers'[c].sees]
               /\ viewers'[c].at = IF c \in crew THEN at[next] ELSE viewers[c].at
    <3> DEFINE p == IF c \in crew THEN at[next] ELSE viewers[c].at
               x == viewers[c].sees
               a == aboard[c]
    <3>1. viewers'[c] = [ship |-> a, at |-> p, sees |-> x]
      <4>1. CASE c \in crew
        <5>1. aboard[c] = next
          BY <1>4, <4>1
        <5>2. viewers'[c] = [viewers[c] EXCEPT !.at = at[next], !.ship = next]
          BY <2>1, <4>1
        <5>3. ASSUME NEW v, NEW b, NEW q, NEW y, NEW r, NEW n, v = [ship |-> b, at |-> q, sees |-> y]
              PROVE  [v EXCEPT !.at = r, !.ship = n] = [ship |-> n, at |-> r, sees |-> y]
          <6>1. /\ [v EXCEPT !.at = r] = [ship |-> b, at |-> r, sees |-> y]
                /\ [[v EXCEPT !.at = r] EXCEPT !.ship = n] = [v EXCEPT !.at = r, !.ship = n]
            BY <5>3
          <6>2. \A u : u = [ship |-> b, at |-> r, sees |-> y] =>
                          [u EXCEPT !.ship = n] = [ship |-> n, at |-> r, sees |-> y]
            OBVIOUS
          <6> QED
            BY <6>1, <6>2
        <5>4. viewers'[c] = [ship |-> next, at |-> at[next], sees |-> viewers[c].sees]
          BY <2>2, <5>2, <5>3
        <5> QED
          BY <4>1, <5>1, <5>4
      <4>2. CASE c \notin crew
        BY <2>1, <2>2, <4>2
      <4> QED
        BY <4>1, <4>2
    <3> HIDE DEF p, x, a
    <3>2. viewers'[c].at = p /\ viewers'[c] = [ship |-> a, at |-> viewers'[c].at, sees |-> viewers'[c].sees]
      BY <3>1
    <3> QED
      BY <3>2 DEF p, a
  <2> QED
    BY <2>1, <2>3
<1> HIDE DEF crew
<1>6. \A s : Hull(s) \notin manned /\ Deck(s) \notin manned /\ Shell(s) \notin manned
  BY Apart
<1>7. \A p, s : Datum(p, s).at = p /\ Datum(p, s) = [at |-> p, ship |-> s, age |-> Datum(p, s).age]
  BY DEF Datum
<1>8. Recorded'
  <2>1. \A e \in DOMAIN grid' : grid'[e] = [at |-> grid'[e].at, ship |-> grid'[e].ship, age |-> grid'[e].age]
    BY <1>2, <1>7 DEF TableInv, Recorded
  <2> QED
    BY <1>1, <1>5, <2>1 DEF TableInv, Recorded
<1>9. Listed'
  <2>1. \A c \in Clients : Crew(c) \in manned => c \in DOMAIN viewers
    BY <1>4, Apart
  <2> QED
    BY <1>1, <1>2, <1>5, <1>6, <2>1 DEF TableInv, Listed
<1>10. ASSUME NEW s \in Afloat, s < next + 1 PROVE Told(s)' /\ Manned(s)'
  <2>1. s \in Int /\ next \in Int
    BY <1>1 DEF LoopInv, Types, Ships
  <2>2. Told(s)
    BY <1>1, <1>10, <2>1 DEF TableInv, ExactSoFar, Syncing
  <2>3. Told(s)'
    <3>1. Hull(s) \in DOMAIN grid
      BY DEF TableInv, Listed
    <3>2. grid'[Hull(s)] = grid[Hull(s)] /\ grid'[Deck(s)] = grid[Deck(s)]
      BY <1>2, <1>6, <2>2, <3>1 DEF Told
    <3> QED
      BY <1>1, <1>2, <2>2, <3>2 DEF Told
  <2>4. CASE s = next
    <3>1. ASSUME NEW c \in DOMAIN viewers, aboard[c] = next
          PROVE  Crew(c) \in DOMAIN grid' /\ grid'[Crew(c)] = Datum(at[next], next) /\ viewers'[c].at = at[next]
      <4>1. c \in crew
        BY <1>4, <3>1
      <4> QED
        BY <1>2, <1>5, <4>1
    <3> QED
      BY <1>1, <1>5, <2>3, <2>4, <3>1 DEF Manned
  <2>5. CASE s # next
    <3>1. Manned(s)
      BY <1>1, <1>10, <2>1, <2>5 DEF TableInv, ExactSoFar, Syncing
    <3>2. ASSUME NEW c \in DOMAIN viewers, aboard[c] = s
          PROVE  Crew(c) \in DOMAIN grid' /\ grid'[Crew(c)] = Datum(at[s], s) /\ viewers'[c].at = at[s]
      <4>1. c \notin crew /\ Crew(c) \notin manned
        BY <1>4, <2>5, <3>2, Apart
      <4>2. Crew(c) \in DOMAIN grid /\ grid[Crew(c)] = Datum(at[s], s) /\ viewers[c].at = at[s]
        BY <3>1, <3>2 DEF Manned
      <4> QED
        BY <1>2, <1>5, <4>1, <4>2
    <3> QED
      BY <1>1, <1>5, <2>3, <3>2 DEF Manned
  <2> QED
    BY <2>3, <2>4, <2>5
<1>11. ExactSoFar'
  BY <1>1, <1>10 DEF ExactSoFar, Syncing
<1>12. Close'
  <2>1. \A s : Hull(s) \in DOMAIN grid' <=> Hull(s) \in DOMAIN grid
    BY <1>2, <1>6
  <2>2. \A s : Hull(s) \in DOMAIN grid => grid'[Hull(s)] = grid[Hull(s)]
    BY <1>2, <1>6
  <2>3. ASSUME NEW c \in DOMAIN viewers
        PROVE  /\ viewers'[c].at \in Int /\ aboard[c] \in Ships /\ Hull(aboard[c]) \in DOMAIN grid
               /\ aboard[c] \in Afloat => Abreast(grid'[Hull(aboard[c])].at, viewers'[c].at, at[aboard[c]])
               /\ aboard[c] \notin Afloat => grid'[Hull(aboard[c])].at = viewers'[c].at
    <3>1. /\ viewers[c].at \in Int /\ aboard[c] \in Ships /\ Hull(aboard[c]) \in DOMAIN grid
          /\ aboard[c] \in Afloat => Abreast(Place(c), viewers[c].at, at[aboard[c]])
          /\ aboard[c] \notin Afloat => Place(c) = viewers[c].at
      BY DEF TableInv, Close
    <3>2. grid'[Hull(aboard[c])] = grid[Hull(aboard[c])]
      BY <2>2, <3>1
    <3>3. CASE c \in crew
      <4>1. aboard[c] = next /\ viewers'[c].at = at[next]
        BY <1>4, <1>5, <3>3
      <4>2. grid[Hull(next)].at = at[next] /\ at[next] \in Int /\ Near(at[next], at[next], 1)
        <5>1. grid[Hull(next)] = Datum(at[next], next)
          BY <1>1 DEF TableInv, ExactSoFar, Told
        <5>2. at[next] \in Int
          BY <1>1 DEF TableInv, Recorded
        <5>3. \A n \in Int : Near(n, n, 1)
          BY DEF Near
        <5> QED
          BY <1>7, <5>1, <5>2, <5>3
      <4> QED
        BY <1>1, <3>1, <3>2, <4>1, <4>2 DEF Abreast
    <3>4. CASE c \notin crew
      BY <1>5, <3>1, <3>2, <3>4 DEF Place
    <3> QED
      BY <3>3, <3>4
  <2>4. \A s \in Afloat : Near(grid'[Hull(s)].at, at[s], 1)
    BY <2>2 DEF TableInv, Close, Listed
  <2>5. \A s \in Ships : Hull(s) \in DOMAIN grid' => grid'[Hull(s)].at \in Int
    BY <2>1, <2>2 DEF TableInv, Close
  <2> QED
    BY <1>1, <1>5, <2>1, <2>3, <2>4, <2>5 DEF Close, Place
<1> QED
  BY <1>8, <1>9, <1>11, <1>12 DEF TableInv

LEMMA RetiredTable == LoopInv /\ TableInv /\ Retire => TableInv'
<1> SUFFICES ASSUME LoopInv, TableInv, Retire PROVE TableInv'
  OBVIOUS
<1>1. /\ stage = "retire" /\ stage' = "shells"
      /\ UNCHANGED <<at, sinking, flying, next, aboard, moving, known, viewers>>
      /\ Afloat' = Afloat /\ Operational' = Operational
  BY DEF Retire, sim, Afloat, Operational
<1> DEFINE lost == Retired(Ships \ Afloat)
<1>2. /\ DOMAIN grid' = DOMAIN grid \ lost /\ layered' = layered \ lost
      /\ \A e \in DOMAIN grid' : grid'[e] = grid[e]
  BY DEF Retire, Drop
<1>3. /\ \A s \in Afloat : Hull(s) \notin lost /\ Deck(s) \notin lost
      /\ \A c : Crew(c) \notin lost /\ Shell(c) \notin lost
  BY Apart DEF Retired
<1> HIDE DEF lost
<1>4. DOMAIN viewers \subseteq DOMAIN aboard /\ \A c \in DOMAIN viewers : aboard[c] \in Afloat
  BY <1>1 DEF TableInv, Recorded
<1>5. Recorded'
  BY <1>1, <1>2 DEF TableInv, Recorded
<1>6. Listed'
  BY <1>1, <1>2, <1>3 DEF TableInv, Listed
<1>7. ASSUME NEW s \in Afloat, s < next PROVE Told(s)' /\ Manned(s)'
  <2>1. Told(s) /\ Manned(s) /\ Hull(s) \in DOMAIN grid
    BY <1>1, <1>7 DEF TableInv, ExactSoFar, Syncing, Listed
  <2>2. Told(s)'
    BY <1>1, <1>2, <1>3, <2>1 DEF Told
  <2>3. \A c : Crew(c) \in DOMAIN grid => Crew(c) \in DOMAIN grid' /\ grid'[Crew(c)] = grid[Crew(c)]
    BY <1>2, <1>3
  <2> QED
    BY <1>1, <2>1, <2>2, <2>3 DEF Manned
<1>8. ExactSoFar'
  BY <1>1, <1>7 DEF ExactSoFar, Syncing
<1>9. Close'
  <2>1. \A s \in Afloat : Hull(s) \in DOMAIN grid' /\ grid'[Hull(s)] = grid[Hull(s)]
    BY <1>2, <1>3 DEF TableInv, Listed
  <2>2. \A s \in Ships : Hull(s) \in DOMAIN grid' => grid'[Hull(s)].at \in Int
    BY <1>2 DEF TableInv, Close
  <2> QED
    BY <1>1, <1>4, <2>1, <2>2 DEF TableInv, Close, Place
<1> QED
  BY <1>5, <1>6, <1>8, <1>9 DEF TableInv

LEMMA ShellTable == LoopInv /\ TableInv /\ SyncShells => TableInv'
<1> SUFFICES ASSUME LoopInv, TableInv, SyncShells PROVE TableInv'
  OBVIOUS
<1>1. /\ stage = "shells" /\ stage' = "look" /\ next = NShips + 1 /\ next' = next
      /\ UNCHANGED <<at, sinking, flying, aboard, moving, viewers>> /\ known' = DOMAIN flying
      /\ Afloat' = Afloat /\ Operational' = Operational
  BY DEF SyncShells, sim, Afloat, Operational, LoopInv, SyncedSoFar
<1> DEFINE spent == {Shell(b) : b \in known \ DOMAIN flying}
           aloft == {Shell(b) : b \in DOMAIN flying}
<1>2. /\ grid' = [e \in (DOMAIN grid \ spent) \cup aloft |->
                     IF e[1] = "shell" THEN Datum(flying[e[2]].at, NoShip) ELSE grid[e]]
      /\ layered' = (layered \ spent) \cup NewLayers(DOMAIN flying \ known)
  BY DEF SyncShells
<1>3. \A e : e[1] # "shell" => e \notin spent /\ e \notin aloft
  BY Apart
<1>4. \A e : e[1] # "shell" =>
         /\ e \in DOMAIN grid' <=> e \in DOMAIN grid
         /\ e \in DOMAIN grid => grid'[e] = grid[e]
         /\ e \in layered => e \in layered'
  BY <1>2, <1>3
<1>5. \A s : Hull(s)[1] # "shell" /\ Deck(s)[1] # "shell" /\ Crew(s)[1] # "shell"
  BY Apart
<1>6. \A b \in DOMAIN flying : Shell(b) \in DOMAIN grid' /\ grid'[Shell(b)] = Datum(flying[b].at, NoShip)
  <2> TAKE b \in DOMAIN flying
  <2>1. Shell(b) \in aloft /\ Shell(b)[1] = "shell" /\ Shell(b)[2] = b
    BY DEF Shell
  <2> QED
    BY <1>2, <2>1
<1>7. \A b \in Shells : Shell(b) \in DOMAIN grid' => b \in DOMAIN flying
  <2> SUFFICES ASSUME NEW b \in Shells, Shell(b) \in DOMAIN grid', b \notin DOMAIN flying PROVE FALSE
    OBVIOUS
  <2>1. Shell(b) \notin aloft
    BY DEF Shell
  <2>2. Shell(b) \in DOMAIN grid /\ Shell(b) \notin spent
    BY <1>2, <2>1
  <2>3. b \in known
    BY <2>2 DEF TableInv, Listed
  <2> QED
    BY <2>2, <2>3
<1>8. \A b \in DOMAIN flying : Shell(b) \in layered'
  <2> TAKE b \in DOMAIN flying
  <2>1. CASE b \in known
    <3>1. Shell(b) \in layered
      BY <2>1 DEF TableInv, Listed
    <3>2. Shell(b) \notin spent
      BY DEF Shell
    <3> QED
      BY <1>2, <3>1, <3>2
  <2>2. CASE b \notin known
    BY <1>2, <2>2 DEF NewLayers
  <2> QED
    BY <2>1, <2>2
<1>9. Recorded'
  <2>1. \A e \in DOMAIN grid' : grid'[e] = [at |-> grid'[e].at, ship |-> grid'[e].ship, age |-> grid'[e].age]
    <3>1. \A p, s : Datum(p, s) = [at |-> Datum(p, s).at, ship |-> Datum(p, s).ship, age |-> Datum(p, s).age]
      BY DEF Datum
    <3>2. ASSUME NEW e \in DOMAIN grid', e[1] = "shell"
          PROVE  grid'[e] = [at |-> grid'[e].at, ship |-> grid'[e].ship, age |-> grid'[e].age]
      <4>1. grid'[e] = Datum(flying[e[2]].at, NoShip)
        BY <1>2, <3>2
      <4> QED
        BY <3>1, <4>1
    <3>3. ASSUME NEW e \in DOMAIN grid', e[1] # "shell"
          PROVE  grid'[e] = [at |-> grid'[e].at, ship |-> grid'[e].ship, age |-> grid'[e].age]
      BY <1>4, <3>3 DEF TableInv, Recorded
    <3> QED
      BY <3>2, <3>3
  <2> QED
    BY <1>1, <2>1 DEF TableInv, Recorded
<1>10. Listed'
  BY <1>1, <1>4, <1>5, <1>7, <1>8 DEF TableInv, Listed
<1>11. ASSUME NEW s \in Afloat, s < next PROVE Told(s)' /\ Manned(s)'
  <2>1. Told(s) /\ Manned(s) /\ Hull(s) \in DOMAIN grid
    BY <1>1, <1>11 DEF TableInv, ExactSoFar, Syncing, Listed
  <2> QED
    BY <1>1, <1>4, <1>5, <2>1 DEF Told, Manned
<1>12. \A s \in Ships : Hull(s) \in DOMAIN grid' \/ Deck(s) \in DOMAIN grid' => s \in Afloat
  BY <1>1, <1>4, <1>5 DEF LoopInv, SyncedSoFar
<1>13. ExactSoFar'
  BY <1>1, <1>6, <1>11, <1>12 DEF ExactSoFar, Syncing
<1>14. Close'
  <2>1. \A s : Hull(s) \in DOMAIN grid' <=> Hull(s) \in DOMAIN grid
    BY <1>4, <1>5
  <2>2. \A s : Hull(s) \in DOMAIN grid => grid'[Hull(s)] = grid[Hull(s)]
    BY <1>4, <1>5
  <2>3. \A s \in Afloat : s < next /\ Hull(s) \in DOMAIN grid
    BY <1>1, Numbers DEF LoopInv, Types, Ships, TableInv, Listed
  <2>4. \A p, s : Datum(p, s).at = p
    BY DEF Datum
  <2>5. \A s \in Afloat : grid[Hull(s)].at = at[s]
    BY <1>1, <2>3, <2>4 DEF TableInv, ExactSoFar, Syncing, Told
  <2>6. \A c \in DOMAIN viewers : aboard[c] \in Afloat /\ viewers[c].at = at[aboard[c]]
    <3>1. \A c \in DOMAIN viewers : aboard[c] \in Afloat
      BY <1>1 DEF TableInv, Recorded
    <3>2. \A s \in Afloat : Manned(s)
      BY <1>1, <2>3 DEF TableInv, ExactSoFar, Syncing
    <3> QED
      BY <3>1, <3>2 DEF Manned
  <2>7. \A c \in DOMAIN viewers : grid'[Hull(aboard[c])] = grid[Hull(aboard[c])]
    BY <2>2, <2>3, <2>6
  <2> QED
    BY <1>1, <2>1, <2>2, <2>3, <2>5, <2>6, <2>7 DEF TableInv, Close, Place
<1> QED
  BY <1>9, <1>10, <1>13, <1>14 DEF TableInv

LEMMA LookTable == LoopInv /\ TableInv /\ Look => TableInv'
<1> SUFFICES ASSUME LoopInv, TableInv, Look PROVE TableInv'
  OBVIOUS
<1>1. /\ stage = "look" /\ stage' = "tell"
      /\ UNCHANGED <<at, sinking, flying, next, aboard, moving, known, grid, layered>>
      /\ Afloat' = Afloat /\ Operational' = Operational
  BY DEF Look, sim, Afloat, Operational
<1>2. /\ DOMAIN viewers' = DOMAIN viewers
      /\ \A c \in DOMAIN viewers : viewers'[c] = [viewers[c] EXCEPT !.sees = Sight(c)]
  BY DEF Look
<1>3. \A c \in DOMAIN viewers :
         /\ viewers'[c].at = viewers[c].at
         /\ viewers'[c] = [ship |-> aboard[c], at |-> viewers'[c].at, sees |-> viewers'[c].sees]
  <2> TAKE c \in DOMAIN viewers
  <2> DEFINE p == viewers[c].at
             y == Sight(c)
             a == aboard[c]
  <2>1. viewers[c] = [ship |-> a, at |-> p, sees |-> viewers[c].sees]
    BY DEF TableInv, Recorded
  <2>2. viewers'[c] = [viewers[c] EXCEPT !.sees = y]
    BY <1>2
  <2> HIDE DEF p, y, a
  <2>3. viewers'[c] = [ship |-> a, at |-> p, sees |-> y]
    BY <2>1, <2>2
  <2>4. viewers'[c].at = p /\ viewers'[c] = [ship |-> a, at |-> viewers'[c].at, sees |-> viewers'[c].sees]
    BY <2>3
  <2> QED
    BY <2>4 DEF p, a
<1>4. Recorded'
  BY <1>1, <1>2, <1>3 DEF TableInv, Recorded
<1>5. Listed'
  BY <1>1, <1>2 DEF TableInv, Listed
<1>6. ExactSoFar'
  <2>1. \A s \in Afloat : Told(s)
    BY <1>1, Numbers DEF TableInv, ExactSoFar, Syncing, LoopInv, Types, Ships
  <2>2. Covered'
    BY <1>1, <2>1 DEF Covered, Told, TableInv, ExactSoFar
  <2> QED
    BY <1>1, <2>2 DEF TableInv, ExactSoFar, Syncing
<1>7. Close'
  BY <1>1, <1>2, <1>3 DEF TableInv, Close, Place
<1> QED
  BY <1>4, <1>5, <1>6, <1>7 DEF TableInv

LEMMA PublishTable == LoopInv /\ TableInv /\ Publish => TableInv'
<1> SUFFICES ASSUME LoopInv, TableInv, Publish PROVE TableInv'
  OBVIOUS
<1>1. /\ stage = "tell" /\ stage' = "drain" /\ moving' = moving /\ moving = Nobody
      /\ UNCHANGED <<at, sinking, flying, next, aboard, known, grid, layered, viewers>>
      /\ Afloat' = Afloat /\ Operational' = Operational
  BY DEF Publish, sim, manager, Afloat, Operational, LoopInv, CrewsKnown
<1> QED
  BY <1>1 DEF TableInv, Recorded, Listed, ExactSoFar, Syncing, Close, Place

(* The tables: every step.                                                 *)
LEMMA DrainTable ==
  ASSUME LoopInv, TableInv, Drain \/ \E c \in Clients : Respawn(c)
  PROVE  TableInv'
<1>1. CASE Rebind
  <2>1. /\ stage \in {"drain", "repair"} /\ moving \in Clients /\ moving # Nobody /\ moving' = Nobody
        /\ UNCHANGED <<at, sinking, flying, stage, next, known>>
    BY <1>1 DEF Rebind, LoopInv, CrewsKnown, Types, sim
  <2>2. PICK s \in Havens : AddPlayer(moving, s)
    BY <1>1 DEF Rebind
  <2>3. s \in Afloat
    BY <2>1, <2>2, HavensFloat DEF TableInv
  <2> QED
    BY <2>1, <2>2, <2>3, JoinsTable
<1>2. ASSUME NEW c \in Clients, Join(c) PROVE TableInv'
  <2>1. /\ stage = "drain" /\ moving = Nobody /\ moving' = Nobody
        /\ UNCHANGED <<at, sinking, flying, stage, next, moving, known>>
    BY <1>2 DEF Join, Draining, sim
  <2>2. CASE Afloat = {}
    <3>1. UNCHANGED tableVars /\ viewers' = viewers
      BY <1>2, <2>1, <2>2 DEF Join, manager, tableVars
    <3> QED
      BY <3>1, TableFrame
  <2>3. CASE Afloat # {}
    <3>1. PICK s \in Afloat : AddPlayer(c, s)
      BY <1>2, <2>3 DEF Join
    <3> QED
      BY <2>1, <3>1, JoinsTable
  <2> QED
    BY <2>2, <2>3
<1>3. ASSUME NEW c \in Clients, Leave(c) PROVE TableInv'
  <2>1. /\ stage = "drain" /\ moving = Nobody /\ moving' = Nobody
        /\ UNCHANGED <<at, sinking, flying, stage, next, moving, known>>
    BY <1>3 DEF Leave, Draining, sim
  <2>2. CASE c \in DOMAIN aboard
    <3>1. RemovePlayer(c) /\ aboard' = Drop(aboard, {c})
      BY <1>3, <2>2 DEF Leave
    <3> QED
      BY <2>1, <2>2, <3>1, LeavesTable
  <2>3. CASE c \notin DOMAIN aboard
    <3>1. UNCHANGED tableVars /\ viewers' = viewers
      BY <1>3, <2>1, <2>3 DEF Leave, manager, tableVars
    <3> QED
      BY <3>1, TableFrame
  <2> QED
    BY <2>2, <2>3
<1>4. ASSUME NEW c \in Clients, Respawn(c) PROVE TableInv'
  <2>1. /\ stage = "drain" /\ moving = Nobody /\ moving' = c /\ RemovePlayer(c) /\ aboard' = aboard
        /\ c \in DOMAIN aboard /\ Operational # {}
        /\ UNCHANGED <<at, sinking, flying, stage, next, known>>
    BY <1>4 DEF Respawn, Draining, sim
  <2> QED
    BY <2>1, LeavesTable
<1> QED
  BY <1>1, <1>2, <1>3, <1>4 DEF Drain

LEMMA OrphanTable ==
  ASSUME LoopInv, TableInv, Repair, Orphans # {}
  PROVE  TableInv'
<1>1. PICK c \in Orphans :
           /\ RemovePlayer(c)
           /\ IF Afloat = {} THEN aboard' = Drop(aboard, {c}) /\ UNCHANGED moving
                             ELSE moving' = c /\ UNCHANGED aboard
  BY DEF Repair
<1>2. c \in DOMAIN aboard /\ c \in Clients
  BY DEF Orphans, LoopInv, Types
<1>3. stage = "repair" /\ moving = Nobody /\ UNCHANGED <<at, sinking, flying, stage, next, known>>
  BY DEF Repair, sim
<1>4. \/ aboard' = Drop(aboard, {c}) /\ moving' = Nobody
      \/ aboard' = aboard /\ moving' = c
  BY <1>1, <1>3
<1> QED
  BY <1>1, <1>2, <1>3, <1>4, LeavesTable

LEMMA RefreshedSeesAnew ==
  ASSUME NEW c, viewers' = Refreshed(c), TableInv
  PROVE  SeenAnew
<1>1. CASE c \in DOMAIN viewers
  <2>1. viewers' = [viewers EXCEPT ![c].sees = pass.draft]
    BY <1>1 DEF Refreshed, Registered
  <2>2. /\ DOMAIN viewers' = DOMAIN viewers /\ viewers'[c] = [viewers[c] EXCEPT !.sees = pass.draft]
        /\ \A d \in DOMAIN viewers : d # c => viewers'[d] = viewers[d]
    BY <1>1, <2>1
  <2>3. \A d \in DOMAIN viewers :
           viewers[d] = [ship |-> aboard[d], at |-> viewers[d].at, sees |-> viewers[d].sees]
    BY DEF TableInv, Recorded
  <2>4. \A v, y : v = [ship |-> v.ship, at |-> v.at, sees |-> v.sees]
                     => [v EXCEPT !.sees = v.sees] = v /\ [v EXCEPT !.sees = y].sees = y
    OBVIOUS
  <2>5. \A d \in DOMAIN viewers :
           viewers[d] = [ship |-> viewers[d].ship, at |-> viewers[d].at, sees |-> viewers[d].sees]
    BY <2>3
  <2>6. ASSUME NEW d \in DOMAIN viewers PROVE viewers'[d] = [viewers[d] EXCEPT !.sees = viewers'[d].sees]
    BY <2>2, <2>4, <2>5
  <2> QED
    BY <2>2, <2>6 DEF SeenAnew
<1>2. CASE c \notin DOMAIN viewers
  <2>1. viewers' = viewers
    BY <1>2 DEF Refreshed, Registered
  <2>2. ASSUME NEW d \in DOMAIN viewers PROVE viewers[d] = [viewers[d] EXCEPT !.sees = viewers[d].sees]
    <3>1. viewers[d] = [ship |-> aboard[d], at |-> viewers[d].at, sees |-> viewers[d].sees]
      BY DEF TableInv, Recorded
    <3>2. \A v, a, p, x : v = [ship |-> a, at |-> p, sees |-> x] => [v EXCEPT !.sees = v.sees] = v
      OBVIOUS
    <3> QED
      BY <3>1, <3>2
  <2> QED
    BY <2>1, <2>2 DEF SeenAnew
<1> QED
  BY <1>1, <1>2

LEMMA TableStep == LoopInv /\ TableInv /\ [Next]_vars => TableInv'
<1> SUFFICES ASSUME LoopInv, TableInv, [Next]_vars PROVE TableInv'
  OBVIOUS
<1>1. CASE (\E c \in Clients : Connect(c) \/ Disconnect(c)) \/ UNCHANGED vars
  <2>1. UNCHANGED tableVars /\ viewers' = viewers
    BY <1>1 DEF Connect, Disconnect, vars, sim, loop, manager, tableVars
  <2> QED
    BY <2>1, TableFrame
<1>2. CASE Sync
  BY <1>2, RepairedTable, OrphanTable, SkippedTable, HullTable, CrewTable, RetiredTable, ShellTable,
     LookTable, PublishTable DEF Sync
<1>3. CASE WriteSight
  <2>1. UNCHANGED tableVars /\ viewers' = Refreshed(Candidate)
    BY <1>3 DEF WriteSight, sim, loop, tableVars
  <2> QED
    BY <2>1, RefreshedSeesAnew, TableFrame
<1>4. CASE Round /\ ~WriteSight
  <2>1. UNCHANGED tableVars /\ viewers' = viewers
    BY <1>4 DEF Round, Begin, Copy, Admit, SkipGone, ReadSight, FirstFull, Visit, End,
                sim, loop, manager, tableVars
  <2> QED
    BY <2>1, TableFrame
<1> QED
  BY <1>1, <1>2, <1>3, <1>4, DrainTable, TickTable DEF Next, Round

(* A sight is exact once the indices are in line with the simulation.      *)
LEMMA Sighted ==
  /\ \A s : Radius(Hull(s)) = ShipRadius /\ Radius(Deck(s)) = 0
  /\ \A c : Radius(Crew(c)) = 0
  /\ \A b : Radius(Shell(b)) = ShellRadius
  /\ \A s, t : Aboard(Hull(s), t) /\ Aboard(Shell(s), t)
  /\ \A s, t : (Aboard(Deck(s), t) <=> grid[Deck(s)].ship = t) /\ (Aboard(Crew(s), t) <=> grid[Crew(s)].ship = t)
  BY DEF Radius, Aboard, Hull, Deck, Crew, Shell

LEMMA DatumOf == \A p, s : Datum(p, s).at = p /\ Datum(p, s).ship = s
  BY DEF Datum

LEMMA SightIsExact ==
  ASSUME LoopInv, TableInv, stage = "look", NEW c \in DOMAIN viewers
  PROVE  {e \in layered : e \in Sight(c)} = InSight(c)
<1> DEFINE s == aboard[c]
<1>1. /\ moving = Nobody /\ DOMAIN viewers = DOMAIN aboard /\ DOMAIN viewers \subseteq Clients
      /\ \A d \in DOMAIN viewers : aboard[d] \in Afloat
  BY Numbers DEF LoopInv, CrewsKnown, Types, TableInv, Recorded
<1>2. \A t \in Afloat : Told(t) /\ Manned(t) /\ Hull(t) \in DOMAIN grid /\ Deck(t) \in layered
  <2>1. next = NShips + 1 /\ \A t \in Afloat : t < next => Told(t) /\ Manned(t)
    BY DEF TableInv, ExactSoFar, Syncing
  <2>2. \A t \in Afloat : t < next
    <3>1. NShips \in Int /\ \A t \in Afloat : t \in 1..NShips
      BY Numbers DEF LoopInv, Types, Ships
    <3> QED
      BY <2>1, <3>1
  <2> QED
    BY <2>1, <2>2 DEF TableInv, Listed
<1>3. s \in Afloat /\ at[s] \in Int /\ viewers[c].at = at[s] /\ viewers[c].ship = s
  <2>1. s \in Afloat /\ at[s] \in Int /\ viewers[c].at = at[s]
    BY <1>1, <1>2 DEF Manned, TableInv, Recorded
  <2>2. viewers[c] = [ship |-> aboard[c], at |-> viewers[c].at, sees |-> viewers[c].sees]
    BY DEF TableInv, Recorded
  <2> QED
    BY <2>1, <2>2
<1>4. \A e : e \in Sight(c) <=> e \in DOMAIN grid /\ Near(grid[e].at, at[s], Radius(e)) /\ Aboard(e, s)
  BY <1>3 DEF Sight
<1>5. Near(at[s], at[s], 0)
  BY <1>3 DEF Near
<1> HIDE DEF s
<1>6. ASSUME NEW t \in Ships, Hull(t) \in DOMAIN grid
      PROVE  t \in Afloat
  BY <1>6 DEF TableInv, ExactSoFar
<1>7. ASSUME NEW t \in Ships, Deck(t) \in DOMAIN grid
      PROVE  t \in Afloat
  BY <1>7 DEF TableInv, ExactSoFar
<1>8. \A t \in Afloat : /\ Hull(t) \in layered
                        /\ Hull(t) \in Sight(c) <=> Near(at[t], at[s], ShipRadius)
  BY <1>2, <1>4, Sighted, DatumOf DEF Told
<1>9. \A t \in Afloat : Deck(t) \in Sight(c) <=> t = s
  <2> TAKE t \in Afloat
  <2>1. Deck(t) \in DOMAIN grid /\ grid[Deck(t)] = Datum(at[t], t)
    BY <1>2 DEF Told
  <2>2. Deck(t) \in Sight(c) <=> Near(at[t], at[s], 0) /\ t = s
    BY <1>4, <2>1, Sighted, DatumOf
  <2> QED
    BY <1>5, <2>2
<1>10. \A d \in DOMAIN viewers :
          /\ Crew(d) \in layered
          /\ Crew(d) \in Sight(c) <=> aboard[d] = s
  <2> TAKE d \in DOMAIN viewers
  <2>1. Crew(d) \in DOMAIN grid /\ grid[Crew(d)] = Datum(at[aboard[d]], aboard[d])
    BY <1>1, <1>2 DEF Manned
  <2>2. Crew(d) \in Sight(c) <=> Near(at[aboard[d]], at[s], 0) /\ aboard[d] = s
    BY <1>4, <2>1, Sighted, DatumOf
  <2> QED
    BY <1>5, <2>2 DEF TableInv, Listed
<1>11. \A b \in DOMAIN flying :
          /\ Shell(b) \in layered
          /\ Shell(b) \in Sight(c) <=> Near(flying[b].at, at[s], ShellRadius)
  <2> TAKE b \in DOMAIN flying
  <2>1. Shell(b) \in DOMAIN grid /\ grid[Shell(b)] = Datum(flying[b].at, NoShip) /\ Shell(b) \in layered
    BY DEF TableInv, ExactSoFar, Listed
  <2> QED
    BY <1>4, <2>1, Sighted, DatumOf
<1>12. \A e : e \in InSight(c) <=>
          \/ \E t \in Afloat : e = Hull(t) /\ Near(at[t], at[s], ShipRadius)
          \/ \E b \in DOMAIN flying : e = Shell(b) /\ Near(flying[b].at, at[s], ShellRadius)
          \/ e = Deck(s)
          \/ \E d \in DOMAIN viewers : e = Crew(d) /\ aboard[d] = s
  BY <1>1 DEF InSight, CrewOf, s
<1>13. ASSUME NEW e \in layered, e \in Sight(c) PROVE e \in InSight(c)
  <2>1. e \in DOMAIN grid /\ e \in Entities
    BY <1>4, <1>13 DEF LoopInv, Types
  <2>2. ASSUME NEW t \in Ships, e = Hull(t) PROVE e \in InSight(c)
    BY <1>6, <1>8, <1>12, <1>13, <2>1, <2>2
  <2>3. ASSUME NEW t \in Ships, e = Deck(t) PROVE e \in InSight(c)
    BY <1>7, <1>9, <1>12, <1>13, <2>1, <2>3
  <2>4. ASSUME NEW d \in Clients, e = Crew(d) PROVE e \in InSight(c)
    <3>1. d \in DOMAIN viewers
      BY <2>1, <2>4 DEF TableInv, Listed
    <3> QED
      BY <1>10, <1>12, <1>13, <2>4, <3>1
  <2>5. ASSUME NEW b \in Shells, e = Shell(b) PROVE e \in InSight(c)
    <3>1. b \in DOMAIN flying
      BY <2>1, <2>5 DEF TableInv, Listed, ExactSoFar
    <3> QED
      BY <1>11, <1>12, <1>13, <2>5, <3>1
  <2> QED
    BY <2>1, <2>2, <2>3, <2>4, <2>5 DEF Entities
<1>14. ASSUME NEW e \in InSight(c) PROVE e \in layered /\ e \in Sight(c)
  <2>1. Deck(s) \in layered /\ Deck(s) \in Sight(c)
    BY <1>2, <1>3, <1>9
  <2> QED
    BY <1>8, <1>10, <1>11, <1>12, <1>14, <2>1
<1> QED
  BY <1>13, <1>14

(* The refresh that ends a tick's sync leaves each player, and nobody      *)
(* else, with the visible sets the simulation calls for, all of it         *)
(* replicable (update_all_interests after the sync of main.rs).            *)
THEOREM RefreshesAreExact == Spec => RefreshIsExact
<1>1. ASSUME StampInv, TableInv, [Next]_vars PROVE ExactRefresh
  <2> SUFFICES ASSUME stage = "look", stage' = "tell"
               PROVE  /\ DOMAIN viewers' = DOMAIN aboard'
                      /\ \A c \in DOMAIN viewers' : {e \in layered' : Shown(c, e)'} = InSight(c)'
    BY DEF ExactRefresh
  <2>1. LoopInv
    BY <1>1 DEF StampInv
  <2>2. moving = Nobody /\ DOMAIN viewers = DOMAIN aboard
    BY <1>1, <2>1, Numbers DEF LoopInv, CrewsKnown, Types, TableInv, Recorded
  <2>3. Look
    <3>1. ~Drain /\ ~Tick /\ \A c \in Clients : ~Respawn(c)
      BY <2>2 DEF Drain, Rebind, Join, Leave, Draining, Tick, Respawn
    <3>2. ~UNCHANGED stage
      OBVIOUS
    <3>3. ~Round /\ ~(\E c \in Clients : Connect(c) \/ Disconnect(c)) /\ ~UNCHANGED vars
      BY <3>2 DEF Round, Begin, Copy, Admit, SkipGone, ReadSight, WriteSight, FirstFull, Visit, End,
                  Connect, Disconnect, vars, loop
    <3> QED
      BY <1>1, <3>1, <3>3 DEF Next, Sync, Repair, Skip, SyncHull, SyncCrew, Retire, SyncShells, Publish
  <2>4. /\ UNCHANGED <<at, flying, aboard, layered>> /\ DOMAIN viewers' = DOMAIN viewers
        /\ Afloat' = Afloat
    BY <2>3 DEF Look, sim, Afloat
  <2>5. ASSUME NEW c \in DOMAIN viewers PROVE viewers'[c].sees = Sight(c)
    <3> DEFINE y == Sight(c)
    <3>1. viewers'[c] = [viewers[c] EXCEPT !.sees = y]
      BY <2>3 DEF Look
    <3>2. viewers[c] = [ship |-> aboard[c], at |-> viewers[c].at, sees |-> viewers[c].sees]
      BY <1>1 DEF TableInv, Recorded
    <3> HIDE DEF y
    <3>3. viewers'[c].sees = y
      BY <3>1, <3>2
    <3> QED
      BY <3>3 DEF y
  <2>6. ASSUME NEW c \in DOMAIN viewers PROVE {e \in layered' : Shown(c, e)'} = InSight(c)'
    <3>1. InSight(c)' = InSight(c)
      BY <2>4 DEF InSight, CrewOf
    <3>2. \A e : Shown(c, e)' <=> e \in layered /\ e \in Sight(c)
      BY <2>4, <2>5 DEF Shown, Registered
    <3>3. {e \in layered : e \in Sight(c)} = InSight(c)
      BY <1>1, <2>1, SightIsExact
    <3> QED
      BY <2>4, <3>1, <3>2, <3>3
  <2> QED
    BY <2>2, <2>4, <2>6
<1>2. Init => StampInv /\ TableInv
  BY SightInit DEF SightInv
<1>3. StampInv /\ TableInv /\ [Next]_vars => StampInv' /\ TableInv'
  BY StampNext, TableStep DEF StampInv
<1> QED
  BY <1>1, <1>2, <1>3, PTL DEF Spec, RefreshIsExact

-----------------------------------------------------------------------------
(* What a player sees.  The ship it is on is always in reach of the query  *)
(* its refresh makes, a step of the loop apart or not.                     *)
LEMMA OwnHullSighted ==
  ASSUME TableInv, NEW c \in DOMAIN viewers
  PROVE  viewers[c].ship = aboard[c] /\ aboard[c] \in Ships /\ Hull(aboard[c]) \in Sight(c)
<1>1. /\ viewers[c].at \in Int /\ aboard[c] \in Ships /\ Hull(aboard[c]) \in DOMAIN grid
      /\ aboard[c] \in Afloat => Abreast(Place(c), viewers[c].at, at[aboard[c]])
      /\ aboard[c] \notin Afloat => Place(c) = viewers[c].at
  BY DEF TableInv, Close
<1>2. Place(c) \in Int /\ (aboard[c] \in Afloat => at[aboard[c]] \in Int)
  BY <1>1 DEF TableInv, Close, Recorded, Place
<1>3. viewers[c].ship = aboard[c]
  <2>1. viewers[c] = [ship |-> aboard[c], at |-> viewers[c].at, sees |-> viewers[c].sees]
    BY DEF TableInv, Recorded
  <2> QED
    BY <2>1
<1>4. ASSUME NEW p \in Int, NEW q \in Int, NEW r \in Int, Abreast(p, q, r) PROVE Near(p, q, 1)
  BY <1>4 DEF Abreast, Near
<1>5. \A n \in Int : Near(n, n, 1)
  BY DEF Near
<1>6. Near(Place(c), viewers[c].at, 1)
  BY <1>1, <1>2, <1>4, <1>5
<1>7. Near(Place(c), viewers[c].at, ShipRadius)
  BY <1>1, <1>2, <1>6, Numbers DEF Near
<1> QED
  BY <1>1, <1>3, <1>7, Sighted DEF Sight, Place

(* Steps of the loop and of the connections: nothing the pass has to find  *)
(* comes into the index, and nobody's view moves under it.                 *)
Aged == pass' = pass \/ pass' = [pass EXCEPT !.age = Older(@)]

Gentle ==
    /\ \A s \in Ships : Hull(s) \in DOMAIN grid' => Hull(s) \in DOMAIN grid
    /\ Covered => Covered'
    /\ rows' \subseteq rows /\ queue' = queue /\ (due' = due \/ Covered')
    /\ Aged

Unblinking == \A c \in DOMAIN viewers' \ unsettled' :
    /\ c \in DOMAIN viewers \ unsettled
    /\ aboard'[c] = aboard[c] /\ viewers'[c].sees = viewers[c].sees

LEMMA GentlePass == PassHolds /\ Gentle => PassHolds'
<1> SUFFICES ASSUME PassHolds, Gentle PROVE PassHolds'
  OBVIOUS
<1>1. /\ DOMAIN pass' = DOMAIN pass /\ pass'.step = pass.step /\ pass'.kinds = pass.kinds
      /\ pass'.snap = pass.snap /\ pass'.admitted = pass.admitted /\ pass'.draft = pass.draft
      /\ pass'.for = pass.for
  <2>1. pass' = pass \/ pass' = [pass EXCEPT !.age = Older(pass.age)]
    BY DEF Gentle, Aged
  <2> HIDE DEF Older
  <2> QED
    BY <2>1 DEF PassHolds
<1>2. HullsCopied => HullsCopied'
  BY <1>1 DEF Gentle, HullsCopied
<1>3. Covered' \/ NobodyServed'
  <2>1. CASE Covered
    BY <2>1 DEF Gentle
  <2>2. CASE NobodyServed
    <3>1. CASE due' = due
      BY <1>1, <2>2, <3>1 DEF NobodyServed, Gentle
    <3> QED
      BY <3>1 DEF Gentle
  <2> QED
    BY <2>1, <2>2 DEF PassHolds
<1> QED
  BY <1>1, <1>2, <1>3 DEF PassHolds

LEMMA UnblinkingSees == SeesOwnShip /\ Unblinking => SeesOwnShip'
  BY DEF SeesOwnShip, Unblinking

LEMMA LoopSights ==
  ASSUME StampInv, TableInv,
         \/ \E c \in Clients : Connect(c) \/ Disconnect(c) \/ Respawn(c)
         \/ Drain \/ Tick \/ Sync \/ UNCHANGED vars
  PROVE  Gentle /\ (Look \/ Unblinking)
<1>l. LoopInv
  BY DEF StampInv
<1>a. ASSUME UNCHANGED <<grid, layered, viewers, aboard, unsettled>>
      PROVE  /\ \A s \in Ships : Hull(s) \in DOMAIN grid' => Hull(s) \in DOMAIN grid
             /\ Covered => Covered'
             /\ Unblinking
  BY <1>a DEF Covered, Unblinking
<1>b. ASSUME NEW c \in Clients, NEW s, AddPlayer(c, s)
      PROVE  /\ \A t \in Ships : Hull(t) \in DOMAIN grid' => Hull(t) \in DOMAIN grid
             /\ Covered => Covered'
             /\ Unblinking
  <2>1. /\ DOMAIN grid' = DOMAIN grid \cup {Crew(c)} /\ layered' = layered \cup {Crew(c)}
        /\ DOMAIN viewers' = DOMAIN viewers \cup {c} /\ unsettled' = unsettled \cup {c}
        /\ \A d \in DOMAIN viewers : d # c => viewers'[d] = viewers[d]
        /\ \A d \in DOMAIN aboard : d # c => aboard'[d] = aboard[d]
    BY <1>b DEF AddPlayer, Put
  <2>2. DOMAIN viewers \subseteq DOMAIN aboard
    BY DEF TableInv, Recorded
  <2>3. \A t : Hull(t) # Crew(c)
    BY Apart
  <2> QED
    BY <2>1, <2>2, <2>3 DEF Covered, Unblinking
<1>c. ASSUME NEW c \in Clients, RemovePlayer(c), UNCHANGED unsettled,
             aboard' = aboard \/ aboard' = Drop(aboard, {c})
      PROVE  /\ \A t \in Ships : Hull(t) \in DOMAIN grid' => Hull(t) \in DOMAIN grid
             /\ Covered => Covered'
             /\ Unblinking
  <2>1. /\ DOMAIN grid' = DOMAIN grid \ {Crew(c)} /\ layered' = layered \ {Crew(c)}
        /\ DOMAIN viewers' = DOMAIN viewers \ {c}
        /\ \A d \in DOMAIN viewers' : viewers'[d] = viewers[d]
        /\ \A d \in DOMAIN aboard : d # c => aboard'[d] = aboard[d]
    BY <1>c DEF RemovePlayer, Drop
  <2>2. DOMAIN viewers \subseteq DOMAIN aboard
    BY DEF TableInv, Recorded
  <2>3. \A t : Hull(t) # Crew(c)
    BY Apart
  <2> QED
    BY <1>c, <2>1, <2>2, <2>3 DEF Covered, Unblinking
<1>1. ASSUME NEW c \in Clients, Connect(c) PROVE Gentle /\ Unblinking
  BY <1>1, <1>a DEF Connect, loop, manager, Gentle, Aged
<1>2. ASSUME NEW c \in Clients, Disconnect(c) PROVE Gentle /\ Unblinking
  BY <1>2, <1>a DEF Disconnect, Hangup, loop, manager, Gentle, Aged
<1>3. ASSUME NEW c \in Clients, Respawn(c) PROVE Gentle /\ Unblinking
  BY <1>3, <1>c DEF Respawn, server, Gentle, Aged
<1>4. CASE Rebind
  <2>1. moving \in Clients
    BY <1>l, <1>4 DEF Rebind, LoopInv, Types
  <2>2. PICK s \in Havens : AddPlayer(moving, s)
    BY <1>4 DEF Rebind
  <2> QED
    BY <1>4, <1>b, <2>1, <2>2 DEF Rebind, server, Gentle, Aged
<1>5. ASSUME NEW c \in Clients, Join(c) PROVE Gentle /\ Unblinking
  <2>1. pass' = pass /\ queue' = queue /\ due' = due /\ rows' \subseteq rows
    BY <1>5 DEF Join, Hangup
  <2>2. CASE Afloat = {}
    BY <1>5, <1>a, <2>1, <2>2 DEF Join, manager, Gentle, Aged
  <2>3. CASE Afloat # {}
    <3>1. PICK s \in Afloat : AddPlayer(c, s)
      BY <1>5, <2>3 DEF Join
    <3> QED
      BY <1>b, <2>1, <3>1 DEF Gentle, Aged
  <2> QED
    BY <2>2, <2>3
<1>6. ASSUME NEW c \in Clients, Leave(c) PROVE Gentle /\ Unblinking
  <2>1. pass' = pass /\ queue' = queue /\ due' = due /\ rows' = rows /\ UNCHANGED unsettled
    BY <1>6 DEF Leave
  <2>2. CASE c \in DOMAIN aboard
    BY <1>6, <1>c, <2>1, <2>2 DEF Leave, Gentle, Aged
  <2>3. CASE c \notin DOMAIN aboard
    BY <1>6, <1>a, <2>1, <2>3 DEF Leave, manager, Gentle, Aged
  <2> QED
    BY <2>2, <2>3
<1>7. CASE Tick
  <2>1. Aged /\ rows' = rows /\ queue' = queue /\ due' = due
    BY <1>7 DEF Tick, Aged, server
  <2>2. DOMAIN grid' = DOMAIN grid /\ UNCHANGED <<layered, viewers, aboard, unsettled>>
    BY <1>7 DEF Tick
  <2> QED
    BY <2>1, <2>2 DEF Gentle, Covered, Unblinking
<1>8. CASE Sync
  <2>1. Aged /\ rows' = rows /\ queue' = queue
    BY <1>8 DEF Sync, Repair, Skip, SyncHull, SyncCrew, Retire, SyncShells, Look, Publish, Aged, server
  <2>2. CASE Repair
    <3>1. due' = due /\ UNCHANGED unsettled
      BY <2>2 DEF Repair, server
    <3>2. CASE Orphans = {}
      BY <1>a, <2>1, <2>2, <3>1, <3>2 DEF Repair, manager, Gentle
    <3>3. CASE Orphans # {}
      <4>1. PICK c \in Orphans :
                 /\ RemovePlayer(c)
                 /\ IF Afloat = {} THEN aboard' = Drop(aboard, {c}) /\ UNCHANGED moving
                                   ELSE moving' = c /\ UNCHANGED aboard
        BY <2>2, <3>3 DEF Repair
      <4>2. c \in Clients /\ (aboard' = aboard \/ aboard' = Drop(aboard, {c}))
        BY <1>l, <4>1 DEF Orphans, LoopInv, Types
      <4> QED
        BY <1>c, <2>1, <3>1, <4>1, <4>2 DEF Gentle
    <3> QED
      BY <3>2, <3>3
  <2>3. CASE Skip
    BY <1>a, <2>1, <2>3 DEF Skip, manager, server, Gentle
  <2>4. CASE SyncHull
    <3>1. Hull(next) \in DOMAIN grid
      BY <2>4 DEF SyncHull, TableInv, Listed
    <3>2. /\ DOMAIN grid' = DOMAIN grid \cup {Hull(next), Deck(next)} /\ layered' = layered \cup {Hull(next)}
          /\ due' = due /\ UNCHANGED <<aboard, viewers, unsettled>>
      BY <2>4 DEF SyncHull, Put, server
    <3>3. \A s \in Ships : Hull(s) \in DOMAIN grid' => Hull(s) \in DOMAIN grid
      BY <3>1, <3>2, Apart
    <3> QED
      BY <2>1, <3>2, <3>3 DEF Gentle, Covered, Unblinking
  <2>5. CASE SyncCrew
    <3>1. /\ DOMAIN grid' = DOMAIN grid \cup {Crew(c) : c \in CrewOf(next)}
          /\ due' = due /\ UNCHANGED <<aboard, layered, unsettled>> /\ DOMAIN viewers' = DOMAIN viewers
      BY <2>5 DEF SyncCrew, server
    <3>2. \A s \in Ships : Hull(s) \in DOMAIN grid' => Hull(s) \in DOMAIN grid
      BY <3>1, Apart
    <3>3. ASSUME NEW c \in DOMAIN viewers PROVE viewers'[c].sees = viewers[c].sees
      <4>1. viewers'[c] = viewers[c] \/ viewers'[c] = [viewers[c] EXCEPT !.at = at[next], !.ship = next]
        BY <2>5 DEF SyncCrew
      <4>2. viewers[c] = [ship |-> aboard[c], at |-> viewers[c].at, sees |-> viewers[c].sees]
        BY DEF TableInv, Recorded
      <4>3. ASSUME NEW v, NEW a, NEW p, NEW x, NEW r, NEW n, v = [ship |-> a, at |-> p, sees |-> x]
            PROVE  [v EXCEPT !.at = r, !.ship = n].sees = v.sees
        BY <4>3
      <4> QED
        BY <4>1, <4>2, <4>3
    <3> QED
      BY <2>1, <3>1, <3>2, <3>3 DEF Gentle, Covered, Unblinking
  <2>6. CASE Retire
    <3>1. /\ DOMAIN grid' = DOMAIN grid \ Retired(Ships \ Afloat) /\ layered' = layered \ Retired(Ships \ Afloat)
          /\ due' = due /\ UNCHANGED <<aboard, viewers, unsettled>>
      BY <2>6 DEF Retire, Drop, server
    <3> QED
      BY <2>1, <3>1 DEF Gentle, Covered, Unblinking
  <2>7. CASE SyncShells
    <3> DEFINE spent == {Shell(b) : b \in known \ DOMAIN flying}
               aloft == {Shell(b) : b \in DOMAIN flying}
    <3>1. /\ DOMAIN grid' = (DOMAIN grid \ spent) \cup aloft
          /\ layered' = (layered \ spent) \cup NewLayers(DOMAIN flying \ known)
          /\ due' = due /\ UNCHANGED <<aboard, viewers, unsettled>>
      BY <2>7 DEF SyncShells, server
    <3>2. \A s : Hull(s) \notin spent /\ Hull(s) \notin aloft
      BY Apart
    <3> QED
      BY <2>1, <3>1, <3>2 DEF Gentle, Covered, Unblinking
  <2>8. CASE Look
    BY <2>1, <2>8 DEF Look, server, Gentle, Covered
  <2>9. CASE Publish
    <3>1. Covered
      BY <2>9 DEF Publish, TableInv, ExactSoFar
    <3> QED
      BY <1>a, <2>1, <2>9, <3>1 DEF Publish, manager, Gentle
  <2> QED
    BY <1>8, <2>2, <2>3, <2>4, <2>5, <2>6, <2>7, <2>8, <2>9 DEF Sync
<1>9. CASE UNCHANGED vars
  BY <1>9, <1>a DEF vars, loop, manager, server, Gentle, Aged
<1> QED
  BY <1>1, <1>2, <1>3, <1>4, <1>5, <1>6, <1>7, <1>8, <1>9 DEF Drain

LEMMA LookSees == TableInv /\ Look => SeesOwnShip'
<1> SUFFICES ASSUME TableInv, Look, NEW c \in DOMAIN viewers' \ unsettled' PROVE Hull(aboard[c]) \in viewers'[c].sees
  BY DEF SeesOwnShip, Look
<1>1. c \in DOMAIN viewers /\ viewers'[c] = [viewers[c] EXCEPT !.sees = Sight(c)]
  BY DEF Look
<1>2. viewers[c] = [ship |-> aboard[c], at |-> viewers[c].at, sees |-> viewers[c].sees]
  BY <1>1 DEF TableInv, Recorded
<1>3. \A v, a, p, x, y : v = [ship |-> a, at |-> p, sees |-> x] => [v EXCEPT !.sees = y].sees = y
  OBVIOUS
<1>4. viewers'[c].sees = Sight(c)
  BY <1>1, <1>2, <1>3
<1> QED
  BY <1>1, <1>4, OwnHullSighted

(* The first full's refresh settles its player unless it was put on        *)
(* another ship since the sight was drawn.                                 *)
LEMMA WriteSees == TableInv /\ SeesOwnShip /\ PassHolds /\ WriteSight => SeesOwnShip'
<1> SUFFICES ASSUME TableInv, SeesOwnShip, PassHolds, WriteSight PROVE SeesOwnShip'
  OBVIOUS
<1>1. /\ aboard' = aboard /\ viewers' = Refreshed(Candidate) /\ Hull(pass.for) \in pass.draft
      /\ unsettled' = IF Registered(Candidate) /\ viewers[Candidate].ship = pass.for
                      THEN unsettled \ {Candidate} ELSE unsettled \cup {Candidate}
  BY DEF WriteSight, loop, PassHolds
<1> DEFINE me == Candidate
<1> HIDE DEF me
<1>2. CASE me \in DOMAIN viewers
  <2>1. viewers' = [viewers EXCEPT ![me].sees = pass.draft]
    BY <1>1, <1>2 DEF Refreshed, Registered, me
  <2>2. /\ DOMAIN viewers' = DOMAIN viewers /\ viewers'[me] = [viewers[me] EXCEPT !.sees = pass.draft]
        /\ \A d \in DOMAIN viewers : d # me => viewers'[d] = viewers[d]
    BY <1>2, <2>1
  <2>3. viewers[me].ship = aboard[me] /\ viewers'[me].sees = pass.draft
    <3>1. viewers[me] = [ship |-> aboard[me], at |-> viewers[me].at, sees |-> viewers[me].sees]
      BY <1>2 DEF TableInv, Recorded
    <3>2. \A v, a, p, x, y : v = [ship |-> a, at |-> p, sees |-> x] =>
                                v.ship = a /\ [v EXCEPT !.sees = y].sees = y
      OBVIOUS
    <3> QED
      BY <2>2, <3>1, <3>2
  <2>4. CASE viewers[me].ship = pass.for
    <3>1. unsettled' = unsettled \ {me}
      BY <1>1, <1>2, <2>4 DEF Registered, me
    <3> QED
      BY <1>1, <2>2, <2>3, <2>4, <3>1 DEF SeesOwnShip
  <2>5. CASE viewers[me].ship # pass.for
    <3>1. unsettled' = unsettled \cup {me}
      BY <1>1, <2>5 DEF me
    <3> QED
      BY <1>1, <2>2, <3>1 DEF SeesOwnShip
  <2> QED
    BY <2>4, <2>5
<1>3. CASE me \notin DOMAIN viewers
  <2>1. viewers' = viewers /\ unsettled' = unsettled \cup {me}
    BY <1>1, <1>3 DEF Refreshed, Registered, me
  <2> QED
    BY <1>1, <2>1 DEF SeesOwnShip
<1> QED
  BY <1>2, <1>3

passFields == {"step", "kinds", "snap", "age", "honest", "clients", "admitted", "draft", "for"}

LEMMA RoundPass == TableInv /\ PassHolds /\ Round => PassHolds'
<1> SUFFICES ASSUME TableInv, PassHolds, Round PROVE PassHolds'
  OBVIOUS
<1>1. grid' = grid /\ layered' = layered
  BY DEF Round, Begin, Copy, Admit, SkipGone, ReadSight, WriteSight, FirstFull, Visit, End, manager
<1>2. Covered => Covered'
  BY <1>1 DEF Covered
<1>3. passFields \subseteq DOMAIN pass
  BY DEF PassHolds, passFields
<1>4. CASE Begin
  <2>1. pass' = [Rest EXCEPT !.step = "copy", !.kinds = <<"hull", "deck", "crew", "shell">>, !.age = behind]
    BY <1>4 DEF Begin
  <2>2. /\ DOMAIN pass' = passFields /\ pass'.step = "copy" /\ pass'.kinds = AllKinds
        /\ pass'.admitted = << >>
    BY <2>1 DEF Rest, AllKinds, passFields
  <2>3. NobodyServed => NobodyServed'
    BY <1>4, <2>2 DEF Begin, NobodyServed
  <2> QED
    BY <1>2, <2>2, <2>3 DEF PassHolds, passFields
<1>5. CASE Copy
  <2> DEFINE found == Copied(Head(pass.kinds))
             old == \A e \in found : grid[e].age <= pass.age
  <2>1. /\ pass.step = "copy"
        /\ pass' = [pass EXCEPT !.kinds = Tail(@), !.snap = @ \cup found, !.honest = @ /\ old]
    BY <1>5 DEF Copy
  <2> HIDE DEF found, old
  <2>2. /\ DOMAIN pass' = DOMAIN pass /\ pass'.step = "copy" /\ pass'.snap = pass.snap \cup found
        /\ pass'.admitted = pass.admitted
    BY <1>3, <2>1 DEF passFields
  <2>3. HullsCopied'
    <3>1. CASE pass.kinds = AllKinds
      <4>1. Head(pass.kinds) = "hull"
        BY <3>1 DEF AllKinds
      <4>2. \A s \in Ships : Hull(s) \in DOMAIN grid => Hull(s) \in found
        BY <4>1 DEF found, Copied, Hull
      <4> QED
        BY <1>1, <2>2, <4>2 DEF HullsCopied
    <3>2. CASE pass.kinds # AllKinds
      BY <1>1, <2>1, <2>2, <3>2 DEF PassHolds, HullsCopied
    <3> QED
      BY <3>1, <3>2
  <2>4. NobodyServed => NobodyServed'
    BY <1>5, <2>1, <2>2 DEF Copy, server, NobodyServed
  <2> QED
    BY <1>2, <1>3, <2>2, <2>3, <2>4 DEF PassHolds, passFields
<1>6. CASE Admit
  <2>1. pass.step = "copy" /\ pass.kinds # AllKinds
    BY <1>6 DEF Admit, AllKinds
  <2>2. HullsCopied
    BY <2>1 DEF PassHolds
  <2>3. /\ DOMAIN pass' = DOMAIN pass /\ pass'.step = "admit" /\ pass'.snap = pass.snap
        /\ pass'.admitted = Admitted
    <3> DEFINE up == {c \in Clients : conn[c] = "up"}
    <3>1. pass' = [pass EXCEPT !.step = "admit", !.clients = up, !.admitted = Admitted]
      BY <1>6 DEF Admit
    <3> HIDE DEF up
    <3> QED
      BY <1>3, <3>1 DEF passFields
  <2>4. NobodyServed => NobodyServed'
    BY <1>6, <2>1, <2>3 DEF Admit, NobodyServed, Admitted
  <2> QED
    BY <1>1, <1>2, <1>3, <2>2, <2>3, <2>4 DEF PassHolds, HullsCopied, passFields
<1>7. CASE SkipGone
  <2>1. pass.step = "admit" /\ pass.admitted # << >> /\ pass' = [pass EXCEPT !.admitted = Tail(@)]
    BY <1>7 DEF SkipGone
  <2>2. DOMAIN pass' = DOMAIN pass /\ pass'.step = "admit" /\ pass'.snap = pass.snap
    BY <1>3, <2>1 DEF passFields
  <2>3. HullsCopied /\ Covered
    BY <2>1 DEF PassHolds, NobodyServed
  <2> QED
    BY <1>1, <1>2, <1>3, <2>2, <2>3 DEF PassHolds, HullsCopied, passFields
<1>8. CASE ReadSight
  <2>1. pass.step = "admit" /\ pass.admitted # << >>
    BY <1>8 DEF ReadSight
  <2>2. HullsCopied /\ Covered
    BY <2>1 DEF PassHolds, NobodyServed
  <2>3. CASE Registered(Candidate)
    <3> DEFINE y == Sight(Candidate)
               a == viewers[Candidate].ship
    <3>1. pass' = [pass EXCEPT !.step = "write", !.draft = y, !.for = a]
      BY <1>8, <2>3 DEF ReadSight
    <3>2. Hull(a) \in y
      BY <2>3, OwnHullSighted DEF Registered
    <3> HIDE DEF y, a
    <3>3. /\ DOMAIN pass' = DOMAIN pass /\ pass'.step = "write" /\ pass'.snap = pass.snap
          /\ pass'.draft = y /\ pass'.for = a
      BY <1>3, <3>1 DEF passFields
    <3> QED
      BY <1>1, <1>2, <1>3, <2>2, <3>2, <3>3 DEF PassHolds, HullsCopied, passFields
  <2>4. CASE ~Registered(Candidate)
    <3>1. pass' = [pass EXCEPT !.step = "full"]
      BY <1>8, <2>4 DEF ReadSight
    <3>2. DOMAIN pass' = DOMAIN pass /\ pass'.step = "full" /\ pass'.snap = pass.snap
      BY <1>3, <3>1 DEF passFields
    <3> QED
      BY <1>1, <1>2, <1>3, <2>2, <3>2 DEF PassHolds, HullsCopied, passFields
  <2> QED
    BY <2>3, <2>4
<1>9. CASE WriteSight
  <2>1. pass.step = "write" /\ pass' = [pass EXCEPT !.step = "full", !.draft = {}, !.for = NoShip]
    BY <1>9 DEF WriteSight
  <2>2. DOMAIN pass' = DOMAIN pass /\ pass'.step = "full" /\ pass'.snap = pass.snap
    BY <1>3, <2>1 DEF passFields
  <2>3. HullsCopied /\ Covered
    BY <2>1 DEF PassHolds, NobodyServed
  <2> QED
    BY <1>1, <1>2, <1>3, <2>2, <2>3 DEF PassHolds, HullsCopied, passFields
<1>10. CASE FirstFull
  <2>1. pass.step = "full" /\ pass' = [pass EXCEPT !.step = "admit", !.admitted = Tail(@)]
    BY <1>10 DEF FirstFull
  <2>2. DOMAIN pass' = DOMAIN pass /\ pass'.step = "admit" /\ pass'.snap = pass.snap
    BY <1>3, <2>1 DEF passFields
  <2>3. HullsCopied /\ Covered
    BY <2>1 DEF PassHolds, NobodyServed
  <2> QED
    BY <1>1, <1>2, <1>3, <2>2, <2>3 DEF PassHolds, HullsCopied, passFields
<1>11. ASSUME NEW c \in Clients, Visit(c) PROVE PassHolds'
  <2>1. pass.step = "admit" /\ pass' = [pass EXCEPT !.clients = @ \ {c}] /\ rows' = rows /\ due' = due
    BY <1>11 DEF Visit, Turn
  <2>2. /\ DOMAIN pass' = DOMAIN pass /\ pass'.step = "admit" /\ pass'.snap = pass.snap
        /\ pass'.admitted = pass.admitted
    BY <1>3, <2>1 DEF passFields
  <2>3. HullsCopied
    BY <2>1 DEF PassHolds
  <2>4. NobodyServed => NobodyServed'
    BY <2>1, <2>2 DEF NobodyServed
  <2> QED
    BY <1>1, <1>2, <1>3, <2>2, <2>3, <2>4 DEF PassHolds, HullsCopied, passFields
<1>12. CASE End
  <2>1. pass.step = "admit" /\ pass' = Rest /\ UNCHANGED <<rows, due>>
    BY <1>12 DEF End, server
  <2>2. DOMAIN pass' = passFields /\ pass'.step = "rest" /\ pass'.admitted = << >>
    BY <2>1 DEF Rest, passFields
  <2>3. NobodyServed => NobodyServed'
    BY <2>1, <2>2 DEF NobodyServed
  <2> QED
    BY <1>2, <2>2, <2>3 DEF PassHolds, passFields
<1> QED
  BY <1>4, <1>5, <1>6, <1>7, <1>8, <1>9, <1>10, <1>11, <1>12 DEF Round

LEMMA SightNext == SightInv /\ [Next]_vars => SightInv'
<1> SUFFICES ASSUME SightInv, [Next]_vars PROVE SightInv'
  OBVIOUS
<1>1. StampInv' /\ TableInv'
  BY StampNext, TableStep DEF SightInv, StampInv
<1>2. CASE Round
  <2>1. PassHolds'
    BY <1>2, RoundPass DEF SightInv
  <2>2. CASE WriteSight
    BY <1>1, <2>1, <2>2, WriteSees DEF SightInv
  <2>3. CASE ~WriteSight
    <3>1. UNCHANGED <<aboard, viewers, unsettled>>
      BY <1>2, <2>3 DEF Round, Begin, Copy, Admit, SkipGone, ReadSight, FirstFull, Visit, End, loop, manager
    <3> QED
      BY <1>1, <2>1, <3>1 DEF SightInv, SeesOwnShip
  <2> QED
    BY <2>2, <2>3
<1>3. CASE \/ \E c \in Clients : Connect(c) \/ Disconnect(c) \/ Respawn(c)
           \/ Drain \/ Tick \/ Sync \/ UNCHANGED vars
  <2>1. Gentle /\ (Look \/ Unblinking)
    BY <1>3, LoopSights DEF SightInv
  <2> QED
    BY <1>1, <2>1, GentlePass, UnblinkingSees, LookSees DEF SightInv
<1> QED
  BY <1>2, <1>3 DEF Next

(* A player is shown the ship it is on in every view it is sent, its first *)
(* full included, but for one it was put on since the visible sets were    *)
(* last filled (admit_first_fulls, №164; compute_interest).                *)
THEOREM OwnShipIsShown == Spec => []ViewHasOwnShip
<1>1. SightInv => ViewHasOwnShip
  <2> SUFFICES ASSUME SightInv, NEW c \in DOMAIN conn, Sends(c), Registered(c), c \notin unsettled
               PROVE  Hull(viewers[c].ship) \in View(c)
    BY DEF ViewHasOwnShip
  <2>1. c \in DOMAIN viewers
    BY DEF Registered
  <2>2. viewers[c].ship = aboard[c] /\ aboard[c] \in Ships /\ Hull(aboard[c]) \in DOMAIN grid
    BY <2>1, OwnHullSighted DEF SightInv, TableInv, Close
  <2>3. HullsCopied /\ Covered
    BY DEF Sends, Turn, SightInv, PassHolds, NobodyServed
  <2> QED
    BY <2>1, <2>2, <2>3 DEF SightInv, SeesOwnShip, HullsCopied, Covered, View, Shown, Registered
<1> QED
  BY SightInit, SightNext, <1>1, PTL DEF Spec

-----------------------------------------------------------------------------
(***************************************************************************)
(* The spatial index on its own: what it holds, operation by operation.    *)
(***************************************************************************)
(* Cells are numbered from zero, in the order of the positions.            *)
LEMMA CellOrder ==
  /\ \A p \in Int : CellOf(p) \in Int
  /\ \A p, q \in Int : p <= q => CellOf(p) <= CellOf(q)
  /\ \A p \in Positions : CellOf(p) \in AllCells /\ CellOf(p) # -1
<1>1. ASSUME NEW p \in Int
      PROVE  /\ CellOf(p) \in Int
             /\ CellSize * CellOf(p) <= p /\ p < CellSize * (CellOf(p) + 1)
  BY <1>1, GridAssumption DEF CellOf
<1>2. ASSUME NEW p \in Int, NEW q \in Int, p <= q PROVE CellOf(p) <= CellOf(q)
  <2>1. CellSize \in Int /\ CellSize > 0 /\ CellOf(p) \in Int /\ CellOf(q) \in Int
    BY <1>1, GridAssumption
  <2>2. CellSize * CellOf(p) < CellSize * (CellOf(q) + 1)
    <3>1. CellSize * CellOf(p) \in Int /\ CellSize * (CellOf(q) + 1) \in Int
      BY <2>1
    <3> QED
      BY <1>1, <1>2, <3>1
  <2>3. \A a, b \in Int : CellSize * a < CellSize * b => a < b
    BY <2>1
  <2>4. CellOf(p) < CellOf(q) + 1
    BY <2>1, <2>2, <2>3
  <2> QED
    BY <2>1, <2>4
<1>3. CellOf(0) = 0
  BY GridAssumption DEF CellOf
<1>4. ASSUME NEW p \in Positions PROVE CellOf(p) \in AllCells /\ CellOf(p) # -1
  <2>1. p \in Int /\ 0 <= p /\ CellOf(p) \in AllCells
    BY <1>4, GridAssumption DEF Positions, AllCells
  <2>2. CellOf(0) <= CellOf(p) /\ CellOf(p) \in Int
    BY <1>1, <1>2, <2>1
  <2> QED
    BY <1>3, <2>1, <2>2
<1> QED
  BY <1>1, <1>2, <1>4

-----------------------------------------------------------------------------
LEMMA BagsOfSets ==
  ASSUME NEW A, NEW e
  PROVE  /\ BagToSet(SetToBag(A)) = A
         /\ e \notin A => SetToBag(A) (+) SetToBag({e}) = SetToBag(A \cup {e})
         /\ SetToBag(A) (-) SetToBag({e}) = SetToBag(A \ {e})
<1>1. BagToSet(SetToBag(A)) = A
  BY DEF BagToSet, SetToBag
<1>2. ASSUME e \notin A PROVE SetToBag(A) (+) SetToBag({e}) = SetToBag(A \cup {e})
  BY <1>2 DEF SetToBag, (+)
<1>3. SetToBag(A) (-) SetToBag({e}) = SetToBag(A \ {e})
  BY DEF SetToBag, (-)
<1> QED
  BY <1>1, <1>2, <1>3

(* The one entry of an id is dropped, or another one takes its place.      *)
LEMMA OneOfAnId ==
  ASSUME NEW A, NEW e \in A, \A f \in A : f.id = e.id => f = e
  PROVE  /\ Of(e.id, SetToBag(A)) = {e}
         /\ Without(e.id, SetToBag(A)) = SetToBag(A \ {e})
         /\ \A f : f.id = e.id => Replaced(f, SetToBag(A)) = SetToBag((A \ {e}) \cup {f})
<1>1. Of(e.id, SetToBag(A)) = {e}
  <2>1. BagToSet(SetToBag(A)) = A
    BY BagsOfSets
  <2>2. {f \in A : f.id = e.id} = {e}
    OBVIOUS
  <2> QED
    BY <2>1, <2>2 DEF Of
<1>2. Without(e.id, SetToBag(A)) = SetToBag(A \ {e})
  <2>1. (CHOOSE f \in {e} : TRUE) = e
    OBVIOUS
  <2> QED
    BY <1>1, <2>1, BagsOfSets DEF Without
<1>3. ASSUME NEW f, f.id = e.id PROVE Replaced(f, SetToBag(A)) = SetToBag((A \ {e}) \cup {f})
  <2>1. Replaced(f, SetToBag(A)) = SetToBag(A \ {e}) (+) SetToBag({f})
    BY <1>2, <1>3 DEF Replaced
  <2>2. f \notin A \ {e}
    BY <1>3
  <2> QED
    BY <2>1, <2>2, BagsOfSets
<1> QED
  BY <1>1, <1>2, <1>3

-----------------------------------------------------------------------------
GridEntries == [id : Ids, at : Positions]
OneEach == {SetToBag(S) : S \in SUBSET GridEntries}
Index == [cells : [AllCells -> OneEach], spilled : OneEach, filed : [Ids -> AllCells \cup {Unfiled}]]

(* g holds exactly the entries of T, one of an id: each in its own cell or *)
(* in the list of the spilled, and its id filed under that cell.           *)
Holds(g, T) ==
    /\ g \in Index /\ T \subseteq GridEntries
    /\ \A e, f \in T : e.id = f.id => e = f
    /\ \A c \in AllCells : \A e \in BagToSet(g.cells[c]) : e \in T /\ CellOf(e.at) = c
    /\ \A e \in BagToSet(g.spilled) : e \in T /\ e \notin BagToSet(g.cells[CellOf(e.at)])
    /\ \A e \in T : /\ g.filed[e.id] = CellOf(e.at)
                    /\ e \in BagToSet(g.cells[CellOf(e.at)]) \cup BagToSet(g.spilled)
    /\ \A i \in Ids : g.filed[i] # Unfiled => \E e \in T : e.id = i

LEMMA Bagged ==
  ASSUME NEW B \in OneEach
  PROVE  B = SetToBag(BagToSet(B)) /\ BagToSet(B) \subseteq GridEntries
  BY BagsOfSets DEF OneEach

LEMMA EntryShape ==
  ASSUME NEW e \in GridEntries
  PROVE  e.id \in Ids /\ e.at \in Positions /\ CellOf(e.at) \in AllCells /\ CellOf(e.at) # Unfiled
  BY CellOrder DEF GridEntries, Unfiled

(* The entry of an id leaves the place it is in, and the id its cell.      *)
LEMMA Dropped ==
  ASSUME NEW g, NEW T, Holds(g, T), NEW e \in T, NEW h \in Index,
         \A d \in AllCells : BagToSet(h.cells[d]) = BagToSet(g.cells[d]) \ {e},
         BagToSet(h.spilled) = BagToSet(g.spilled) \ {e},
         h.filed[e.id] = Unfiled,
         \A i \in Ids : i # e.id => h.filed[i] = g.filed[i]
  PROVE  Holds(h, T \ {e})
<1> DEFINE U == T \ {e}
<1>1. U \subseteq GridEntries /\ \A f, k \in U : f.id = k.id => f = k
  BY DEF Holds
<1>2. \A c \in AllCells : \A f \in BagToSet(h.cells[c]) : f \in U /\ CellOf(f.at) = c
  BY DEF Holds
<1>3. ASSUME NEW f \in BagToSet(h.spilled) PROVE f \in U /\ f \notin BagToSet(h.cells[CellOf(f.at)])
  <2>1. f \in U /\ f \notin BagToSet(g.cells[CellOf(f.at)])
    BY <1>3 DEF Holds
  <2> QED
    BY <1>1, <2>1, EntryShape
<1>4. ASSUME NEW f \in U
      PROVE  /\ h.filed[f.id] = CellOf(f.at)
             /\ f \in BagToSet(h.cells[CellOf(f.at)]) \cup BagToSet(h.spilled)
  <2>1. f \in T /\ f # e /\ f.id # e.id /\ f.id \in Ids /\ CellOf(f.at) \in AllCells
    BY <1>1, EntryShape DEF Holds
  <2> QED
    BY <2>1 DEF Holds
<1>5. ASSUME NEW i \in Ids, h.filed[i] # Unfiled PROVE \E f \in U : f.id = i
  <2>1. PICK f \in T : f.id = i
    BY <1>5 DEF Holds
  <2> QED
    BY <1>5, <2>1
<1> HIDE DEF U
<1>6. Holds(h, U)
  BY <1>1, <1>2, <1>3, <1>4, <1>5 DEF Holds
<1> QED
  BY <1>6 DEF U

(* An entry of an id that has none is put into its cell or aside.          *)
LEMMA Added ==
  ASSUME NEW g, NEW T, Holds(g, T), NEW e \in GridEntries, \A f \in T : f.id # e.id,
         NEW h \in Index,
         \A d \in AllCells : d # CellOf(e.at) => BagToSet(h.cells[d]) = BagToSet(g.cells[d]),
         \/ /\ BagToSet(h.cells[CellOf(e.at)]) = BagToSet(g.cells[CellOf(e.at)]) \cup {e}
            /\ BagToSet(h.spilled) = BagToSet(g.spilled)
         \/ /\ BagToSet(h.cells[CellOf(e.at)]) = BagToSet(g.cells[CellOf(e.at)])
            /\ BagToSet(h.spilled) = BagToSet(g.spilled) \cup {e},
         h.filed[e.id] = CellOf(e.at),
         \A i \in Ids : i # e.id => h.filed[i] = g.filed[i]
  PROVE  Holds(h, T \cup {e})
<1> DEFINE U == T \cup {e}
<1>0. e \notin T /\ CellOf(e.at) \in AllCells /\ e.id \in Ids
  BY EntryShape
<1>1. U \subseteq GridEntries /\ \A f, k \in U : f.id = k.id => f = k
  BY DEF Holds
<1>2. ASSUME NEW c \in AllCells, NEW f \in BagToSet(h.cells[c]) PROVE f \in U /\ CellOf(f.at) = c
  <2>1. f \in BagToSet(g.cells[c]) \/ (f = e /\ c = CellOf(e.at))
    BY <1>2
  <2> QED
    BY <2>1 DEF Holds
<1>3. ASSUME NEW f \in BagToSet(h.spilled) PROVE f \in U /\ f \notin BagToSet(h.cells[CellOf(f.at)])
  <2>1. CASE f \in BagToSet(g.spilled)
    <3>1. f \in T /\ f # e /\ f \notin BagToSet(g.cells[CellOf(f.at)])
      BY <1>0, <2>1 DEF Holds
    <3>2. CellOf(f.at) \in AllCells
      BY <3>1, EntryShape DEF Holds
    <3> QED
      BY <3>1, <3>2
  <2>2. CASE f \notin BagToSet(g.spilled)
    <3>1. f = e /\ BagToSet(h.cells[CellOf(e.at)]) = BagToSet(g.cells[CellOf(e.at)])
      BY <1>3, <2>2
    <3>2. e \notin BagToSet(g.cells[CellOf(e.at)])
      BY <1>0 DEF Holds
    <3> QED
      BY <3>1, <3>2
  <2> QED
    BY <2>1, <2>2
<1>4. ASSUME NEW f \in U
      PROVE  /\ h.filed[f.id] = CellOf(f.at)
             /\ f \in BagToSet(h.cells[CellOf(f.at)]) \cup BagToSet(h.spilled)
  <2>1. CASE f = e
    BY <2>1
  <2>2. CASE f # e
    <3>1. /\ f \in T /\ f.id # e.id /\ f.id \in Ids /\ CellOf(f.at) \in AllCells
          /\ g.filed[f.id] = CellOf(f.at)
          /\ f \in BagToSet(g.cells[CellOf(f.at)]) \cup BagToSet(g.spilled)
      BY <2>2, EntryShape DEF Holds
    <3> QED
      BY <3>1
  <2> QED
    BY <2>1, <2>2
<1>5. ASSUME NEW i \in Ids, h.filed[i] # Unfiled PROVE \E f \in U : f.id = i
  BY <1>5 DEF Holds
<1> HIDE DEF U
<1>6. Holds(h, U)
  BY <1>1, <1>2, <1>3, <1>4, <1>5 DEF Holds
<1> QED
  BY <1>6 DEF U

(* An entry takes the place of the one its id has in the same cell.        *)
LEMMA Swapped ==
  ASSUME NEW g, NEW T, Holds(g, T), NEW e \in T, NEW f \in GridEntries,
         f.id = e.id, CellOf(f.at) = CellOf(e.at), NEW h \in Index,
         \A d \in AllCells : d # CellOf(e.at) => BagToSet(h.cells[d]) = BagToSet(g.cells[d]),
         \/ /\ e \in BagToSet(g.cells[CellOf(e.at)])
            /\ BagToSet(h.cells[CellOf(e.at)]) = (BagToSet(g.cells[CellOf(e.at)]) \ {e}) \cup {f}
            /\ BagToSet(h.spilled) = BagToSet(g.spilled)
         \/ /\ e \in BagToSet(g.spilled)
            /\ BagToSet(h.cells[CellOf(e.at)]) = BagToSet(g.cells[CellOf(e.at)])
            /\ BagToSet(h.spilled) = (BagToSet(g.spilled) \ {e}) \cup {f},
         h.filed = g.filed
  PROVE  Holds(h, (T \ {e}) \cup {f})
<1> DEFINE U == (T \ {e}) \cup {f}
           c == CellOf(e.at)
<1>0. e \in GridEntries /\ c \in AllCells /\ e.id \in Ids /\ \A k \in T : k # e => k.id # e.id /\ k # f
  BY EntryShape DEF Holds
<1>1. U \subseteq GridEntries /\ \A k, m \in U : k.id = m.id => k = m
  BY <1>0 DEF Holds
<1>2. ASSUME NEW d \in AllCells, NEW k \in BagToSet(h.cells[d]) PROVE k \in U /\ CellOf(k.at) = d
  <2>1. k \in BagToSet(g.cells[d]) \/ (k = f /\ d = c)
    BY <1>2
  <2>2. CASE k = f /\ d = c
    BY <2>2
  <2>3. CASE k \in BagToSet(g.cells[d])
    <3>1. k \in T /\ CellOf(k.at) = d
      BY <2>3 DEF Holds
    <3>2. ~(k = e /\ k # f)
      <4> SUFFICES ASSUME k = e, k # f PROVE FALSE
        OBVIOUS
      <4>1. d = c /\ k \in BagToSet(h.cells[c]) /\ e \in BagToSet(g.cells[c])
        BY <1>2, <2>3, <3>1
      <4>2. e \in BagToSet(g.spilled)
        BY <4>1
      <4> QED
        BY <4>1, <4>2 DEF Holds
    <3> QED
      BY <3>1, <3>2
  <2> QED
    BY <2>1, <2>2, <2>3
<1>3. ASSUME NEW k \in BagToSet(h.spilled) PROVE k \in U /\ k \notin BagToSet(h.cells[CellOf(k.at)])
  <2>1. CASE k = f
    <3>1. CASE e \in BagToSet(g.spilled)
      <4>1. e \notin BagToSet(g.cells[c])
        BY <3>1 DEF Holds
      <4>2. f \notin BagToSet(g.cells[c])
        BY <1>0, <4>1 DEF Holds
      <4> QED
        BY <2>1, <4>1, <4>2
    <3>2. CASE e \notin BagToSet(g.spilled)
      <4>1. f \in BagToSet(g.spilled) /\ f \in T
        BY <1>3, <2>1, <3>2 DEF Holds
      <4>2. f = e
        BY <1>0, <4>1
      <4> QED
        BY <3>2, <4>1, <4>2
    <3> QED
      BY <3>1, <3>2
  <2>2. CASE k # f
    <3>1. k \in BagToSet(g.spilled) /\ k \in T /\ k \notin BagToSet(g.cells[CellOf(k.at)])
      BY <1>3, <2>2 DEF Holds
    <3>2. CellOf(k.at) \in AllCells
      BY <3>1, EntryShape DEF Holds
    <3>3. k # e
      <4> SUFFICES ASSUME k = e PROVE FALSE
        OBVIOUS
      <4>1. e \notin BagToSet(g.cells[c])
        BY <3>1
      <4> QED
        BY <1>3, <2>2, <4>1
    <3> QED
      BY <2>2, <3>1, <3>2, <3>3
  <2> QED
    BY <2>1, <2>2
<1>4. ASSUME NEW k \in U
      PROVE  /\ h.filed[k.id] = CellOf(k.at)
             /\ k \in BagToSet(h.cells[CellOf(k.at)]) \cup BagToSet(h.spilled)
  <2>1. CASE k = f
    BY <2>1 DEF Holds
  <2>2. CASE k # f
    <3>1. /\ k \in T /\ k # e /\ CellOf(k.at) \in AllCells /\ g.filed[k.id] = CellOf(k.at)
          /\ k \in BagToSet(g.cells[CellOf(k.at)]) \cup BagToSet(g.spilled)
      BY <2>2, EntryShape DEF Holds
    <3> QED
      BY <3>1
  <2> QED
    BY <2>1, <2>2
<1>5. ASSUME NEW i \in Ids, h.filed[i] # Unfiled PROVE \E k \in U : k.id = i
  <2>1. PICK k \in T : k.id = i
    BY <1>5 DEF Holds
  <2>2. k # e \/ f.id = i
    BY <2>1
  <2> QED
    BY <2>1, <2>2
<1> HIDE DEF U
<1>6. Holds(h, U)
  BY <1>1, <1>2, <1>3, <1>4, <1>5 DEF Holds
<1> QED
  BY <1>6 DEF U

LEMMA Contents ==
  ASSUME NEW g \in Index
  PROVE  /\ g.cells \in [AllCells -> OneEach] /\ g.spilled \in OneEach
         /\ g.filed \in [Ids -> AllCells \cup {Unfiled}]
         /\ g.spilled = SetToBag(BagToSet(g.spilled)) /\ BagToSet(g.spilled) \subseteq GridEntries
         /\ \A c \in AllCells : /\ g.cells[c] = SetToBag(BagToSet(g.cells[c]))
                                /\ BagToSet(g.cells[c]) \subseteq GridEntries
<1>1. /\ g.cells \in [AllCells -> OneEach] /\ g.spilled \in OneEach
      /\ g.filed \in [Ids -> AllCells \cup {Unfiled}]
  BY DEF Index
<1> QED
  BY <1>1, Bagged

(* An index with one cell, or the list, replaced by the bag of a set, and  *)
(* one id filed anew.                                                      *)
LEMMA Refiled ==
  ASSUME NEW g \in Index, NEW i \in Ids, NEW d \in AllCells \cup {Unfiled}
  PROVE  LET filed == [g.filed EXCEPT ![i] = d]
         IN  /\ filed \in [Ids -> AllCells \cup {Unfiled}] /\ filed[i] = d
             /\ \A j \in Ids : j # i => filed[j] = g.filed[j]
             /\ g.filed[i] = d => filed = g.filed
  BY Contents

WithCell(g, c, A, i, d) ==
    [cells |-> [g.cells EXCEPT ![c] = SetToBag(A)], spilled |-> g.spilled,
     filed |-> [g.filed EXCEPT ![i] = d]]

WithList(g, A, i, d) ==
    [cells |-> g.cells, spilled |-> SetToBag(A), filed |-> [g.filed EXCEPT ![i] = d]]

LEMMA CellsRefilled ==
  ASSUME NEW g \in Index, NEW A \in SUBSET GridEntries, NEW c \in AllCells
  PROVE  LET cells == [g.cells EXCEPT ![c] = SetToBag(A)]
         IN  /\ cells \in [AllCells -> OneEach] /\ BagToSet(cells[c]) = A
             /\ \A b \in AllCells : b # c => cells[b] = g.cells[b]
<1> DEFINE bag == SetToBag(A)
<1>1. bag \in OneEach /\ BagToSet(bag) = A
  BY BagsOfSets DEF OneEach
<1> HIDE DEF bag
<1>2. g.cells \in [AllCells -> OneEach]
  BY Contents
<1>3. /\ [g.cells EXCEPT ![c] = bag] \in [AllCells -> OneEach] /\ [g.cells EXCEPT ![c] = bag][c] = bag
      /\ \A b \in AllCells : b # c => [g.cells EXCEPT ![c] = bag][b] = g.cells[b]
  BY <1>1, <1>2
<1> QED
  BY <1>1, <1>3 DEF bag

Refills(h, g, c, A, i, d) ==
    /\ h \in Index /\ h.filed[i] = d
    /\ \A j \in Ids : j # i => h.filed[j] = g.filed[j]
    /\ g.filed[i] = d => h.filed = g.filed
    /\ BagToSet(h.cells[c]) = A /\ \A b \in AllCells : b # c => h.cells[b] = g.cells[b]
    /\ h.spilled = g.spilled

Extends(h, g, A, i, d) ==
    /\ h \in Index /\ h.filed[i] = d
    /\ \A j \in Ids : j # i => h.filed[j] = g.filed[j]
    /\ g.filed[i] = d => h.filed = g.filed
    /\ h.cells = g.cells /\ BagToSet(h.spilled) = A

LEMMA CellRefilled ==
  ASSUME NEW g \in Index, NEW A \in SUBSET GridEntries, NEW c \in AllCells,
         NEW i \in Ids, NEW d \in AllCells \cup {Unfiled}
  PROVE  Refills(WithCell(g, c, A, i, d), g, c, A, i, d)
<1> DEFINE filed == [g.filed EXCEPT ![i] = d]
           cells == [g.cells EXCEPT ![c] = SetToBag(A)]
<1> PICK h : h = WithCell(g, c, A, i, d)
  OBVIOUS
<1>2. h = [cells |-> cells, spilled |-> g.spilled, filed |-> filed]
  BY DEF WithCell
<1>3. /\ cells \in [AllCells -> OneEach] /\ BagToSet(cells[c]) = A
      /\ \A b \in AllCells : b # c => cells[b] = g.cells[b]
  BY CellsRefilled
<1>4. /\ filed \in [Ids -> AllCells \cup {Unfiled}] /\ filed[i] = d
      /\ \A j \in Ids : j # i => filed[j] = g.filed[j]
      /\ g.filed[i] = d => filed = g.filed
  BY Refiled
<1> HIDE DEF filed, cells
<1>5. h \in Index /\ h.cells = cells /\ h.spilled = g.spilled /\ h.filed = filed
  BY <1>2, <1>3, <1>4, Contents DEF Index
<1>6. Refills(h, g, c, A, i, d)
  BY <1>3, <1>4, <1>5 DEF Refills
<1> QED
  BY <1>6

LEMMA ListRefilled ==
  ASSUME NEW g \in Index, NEW A \in SUBSET GridEntries,
         NEW i \in Ids, NEW d \in AllCells \cup {Unfiled}
  PROVE  Extends(WithList(g, A, i, d), g, A, i, d)
<1> DEFINE bag == SetToBag(A)
           filed == [g.filed EXCEPT ![i] = d]
<1>1. bag \in OneEach /\ BagToSet(bag) = A
  BY BagsOfSets DEF OneEach
<1> PICK h : h = WithList(g, A, i, d)
  OBVIOUS
<1>2. h = [cells |-> g.cells, spilled |-> bag, filed |-> filed]
  BY DEF WithList
<1>3. /\ filed \in [Ids -> AllCells \cup {Unfiled}] /\ filed[i] = d
      /\ \A j \in Ids : j # i => filed[j] = g.filed[j]
      /\ g.filed[i] = d => filed = g.filed
  BY Refiled
<1> HIDE DEF bag, filed
<1>4. h \in Index /\ h.cells = g.cells /\ h.spilled = bag /\ h.filed = filed
  BY <1>1, <1>2, <1>3, Contents DEF Index
<1>5. Extends(h, g, A, i, d)
  BY <1>1, <1>3, <1>4 DEF Extends
<1> QED
  BY <1>5

(* remove finds the entry where it is and takes it from there.             *)
LEMMA RemoveKeeps ==
  ASSUME NEW g, NEW T, Holds(g, T), NEW i \in Ids
  PROVE  /\ Holds(Removed(g, i), {e \in T : e.id # i})
         /\ \A e \in T : e.id = i => Removed(g, i).filed[i] = Unfiled
<1> PICK c : c = g.filed[i]
  OBVIOUS
<1> DEFINE U == {e \in T : e.id # i}
<1>0. g \in Index
  BY DEF Holds
<1>1. CASE c = Unfiled
  <2>1. ASSUME NEW e \in T PROVE e.id # i
    <3>1. g.filed[e.id] = CellOf(e.at) /\ CellOf(e.at) # Unfiled
      BY EntryShape DEF Holds
    <3> QED
      BY <1>1, <3>1
  <2>2. U = T /\ Removed(g, i) = g
    BY <1>1, <2>1 DEF Removed
  <2> QED
    BY <1>1, <2>1, <2>2
<1>2. CASE c # Unfiled
  <2>1. PICK e \in T : e.id = i
    BY <1>2 DEF Holds
  <2>2. /\ e \in GridEntries /\ c = CellOf(e.at) /\ c \in AllCells
        /\ U = T \ {e} /\ \A f \in T : f.id = i => f = e
    BY <2>1, EntryShape DEF Holds
  <2> DEFINE A == BagToSet(g.cells[c])
             B == BagToSet(g.spilled)
  <2>3. /\ A \subseteq T /\ B \subseteq T /\ A \subseteq GridEntries /\ B \subseteq GridEntries
        /\ g.cells[c] = SetToBag(A) /\ g.spilled = SetToBag(B)
        /\ \A d \in AllCells : d # c => e \notin BagToSet(g.cells[d])
    BY <1>0, <2>2, Contents DEF Holds
  <2>4. /\ e \in A => e \notin B
        /\ \A f \in A : f.id = e.id => f = e
        /\ \A f \in B : f.id = e.id => f = e
    BY <2>1, <2>2, <2>3 DEF Holds
  <2>7. A \ {e} \in SUBSET GridEntries /\ B \ {e} \in SUBSET GridEntries
    BY <2>3
  <2> HIDE DEF A, B
  <2>5. CASE e \in A
    <3>1. Of(i, g.cells[c]) = {e} /\ Without(i, g.cells[c]) = SetToBag(A \ {e})
      <4>1. Of(e.id, SetToBag(A)) = {e} /\ Without(e.id, SetToBag(A)) = SetToBag(A \ {e})
        BY <2>4, <2>5, OneOfAnId
      <4> QED
        BY <2>1, <2>3, <4>1
    <3>2. Removed(g, i) = [g EXCEPT !.filed[i] = Unfiled, !.cells[c] = SetToBag(A \ {e})]
      BY <1>2, <3>1 DEF Removed
    <3> PICK h : h = Removed(g, i)
      OBVIOUS
    <3>3. h = WithCell(g, c, A \ {e}, i, Unfiled)
      BY <1>0, <3>2 DEF WithCell, Index
    <3>4. /\ h \in Index
          /\ h.filed[i] = Unfiled /\ \A j \in Ids : j # i => h.filed[j] = g.filed[j]
          /\ BagToSet(h.cells[c]) = A \ {e} /\ \A b \in AllCells : b # c => h.cells[b] = g.cells[b]
          /\ h.spilled = g.spilled
      <4>1. Refills(h, g, c, A \ {e}, i, Unfiled)
        BY <1>0, <2>2, <2>7, <3>3, CellRefilled
      <4> QED
        BY <4>1 DEF Refills
    <3>5. Holds(h, T \ {e})
      <4>1. \A d \in AllCells : BagToSet(h.cells[d]) = BagToSet(g.cells[d]) \ {e}
        BY <2>3, <3>4 DEF A
      <4>2. BagToSet(h.spilled) = BagToSet(g.spilled) \ {e}
        BY <2>4, <2>5, <3>4 DEF B
      <4>3. h.filed[e.id] = Unfiled /\ \A j \in Ids : j # e.id => h.filed[j] = g.filed[j]
        BY <2>1, <3>4
      <4> QED
        <5>1. h \in Index /\ e \in T
          BY <2>1, <3>4
        <5> QED
          BY <4>1, <4>2, <4>3, <5>1, Dropped
    <3> QED
      BY <2>2, <3>4, <3>5
  <2>6. CASE e \notin A
    <3>0. e \in B
      BY <2>2, <2>6 DEF Holds, A, B
    <3>1. Of(i, g.cells[c]) = {}
      BY <2>2, <2>3, <2>6 DEF Of, A
    <3>2. Of(i, g.spilled) = {e} /\ Without(i, g.spilled) = SetToBag(B \ {e})
      <4>1. Of(e.id, SetToBag(B)) = {e} /\ Without(e.id, SetToBag(B)) = SetToBag(B \ {e})
        BY <2>4, <3>0, OneOfAnId
      <4> QED
        BY <2>1, <2>3, <4>1
    <3>3. Removed(g, i) = [g EXCEPT !.filed[i] = Unfiled, !.spilled = SetToBag(B \ {e})]
      BY <1>2, <3>1, <3>2 DEF Removed
    <3> PICK h : h = Removed(g, i)
      OBVIOUS
    <3>4. h = WithList(g, B \ {e}, i, Unfiled)
      BY <1>0, <3>3 DEF WithList, Index
    <3>5. /\ h \in Index
          /\ h.filed[i] = Unfiled /\ \A j \in Ids : j # i => h.filed[j] = g.filed[j]
          /\ h.cells = g.cells /\ BagToSet(h.spilled) = B \ {e}
      <4>1. Extends(h, g, B \ {e}, i, Unfiled)
        BY <1>0, <2>7, <3>4, ListRefilled
      <4> QED
        BY <4>1 DEF Extends
    <3>6. Holds(h, T \ {e})
      <4>1. \A d \in AllCells : BagToSet(h.cells[d]) = BagToSet(g.cells[d]) \ {e}
        BY <2>3, <2>6, <3>5 DEF A
      <4>2. BagToSet(h.spilled) = BagToSet(g.spilled) \ {e}
        BY <3>5 DEF B
      <4>3. h.filed[e.id] = Unfiled /\ \A j \in Ids : j # e.id => h.filed[j] = g.filed[j]
        BY <2>1, <3>5
      <4> QED
        BY <2>1, <3>5, <4>1, <4>2, <4>3, Dropped
    <3> QED
      BY <2>2, <3>5, <3>6
  <2> QED
    BY <2>5, <2>6
<1> QED
  BY <1>1, <1>2

(* The one placement path: into the cell, or aside when that is full.      *)
LEMMA PlaceKeeps ==
  ASSUME NEW g, NEW T, Holds(g, T), NEW e \in GridEntries, \A f \in T : f.id # e.id
  PROVE  Holds(Placed(g, e), T \cup {e})
<1> PICK c : c = CellOf(e.at)
  OBVIOUS
<1> PICK h : h = Placed(g, e)
  OBVIOUS
<1> DEFINE A == BagToSet(g.cells[c])
           B == BagToSet(g.spilled)
<1>1. /\ g \in Index /\ c \in AllCells /\ e.id \in Ids
      /\ A \subseteq T /\ B \subseteq T /\ A \cup {e} \in SUBSET GridEntries /\ B \cup {e} \in SUBSET GridEntries
      /\ g.cells[c] = SetToBag(A) /\ g.spilled = SetToBag(B) /\ e \notin A /\ e \notin B
  <2>1. g \in Index /\ c \in AllCells /\ e.id \in Ids
    BY EntryShape DEF Holds
  <2>2. A \subseteq T /\ B \subseteq T
    BY <2>1 DEF Holds
  <2>3. /\ g.cells[c] = SetToBag(A) /\ g.spilled = SetToBag(B)
        /\ A \subseteq GridEntries /\ B \subseteq GridEntries
    BY <2>1, Contents
  <2> HIDE DEF A, B
  <2> QED
    BY <2>1, <2>2, <2>3
<1>2. /\ SetToBag(A) (+) SetToBag({e}) = SetToBag(A \cup {e})
      /\ SetToBag(B) (+) SetToBag({e}) = SetToBag(B \cup {e})
  <2> HIDE DEF A, B
  <2> QED
    BY <1>1, BagsOfSets
<1>3. \/ h = [g EXCEPT !.filed[e.id] = c, !.cells[c] = SetToBag(A \cup {e})]
      \/ h = [g EXCEPT !.filed[e.id] = c, !.spilled = SetToBag(B \cup {e})]
  <2> HIDE DEF A, B
  <2> QED
    BY <1>1, <1>2 DEF Placed, Index
<1>4. h = WithCell(g, c, A \cup {e}, e.id, c) \/ h = WithList(g, B \cup {e}, e.id, c)
  <2> HIDE DEF A, B
  <2> QED
    BY <1>1, <1>3 DEF WithCell, WithList, Index
<1>5. CASE h = WithCell(g, c, A \cup {e}, e.id, c)
  <2>1. Refills(h, g, c, A \cup {e}, e.id, c)
    <3> HIDE DEF A, B
    <3> QED
      BY <1>1, <1>5, CellRefilled
  <2>2. /\ h \in Index /\ h.filed[e.id] = CellOf(e.at)
        /\ \A i \in Ids : i # e.id => h.filed[i] = g.filed[i]
        /\ \A d \in AllCells : d # CellOf(e.at) => BagToSet(h.cells[d]) = BagToSet(g.cells[d])
        /\ BagToSet(h.cells[CellOf(e.at)]) = BagToSet(g.cells[CellOf(e.at)]) \cup {e}
        /\ BagToSet(h.spilled) = BagToSet(g.spilled)
    BY <2>1 DEF Refills
  <2>3. Holds(h, T \cup {e})
    BY <2>2, Added
  <2> QED
    BY <2>3
<1>6. CASE h = WithList(g, B \cup {e}, e.id, c)
  <2>1. Extends(h, g, B \cup {e}, e.id, c)
    <3> HIDE DEF A, B
    <3> QED
      BY <1>1, <1>6, ListRefilled
  <2>2. /\ h \in Index /\ h.filed[e.id] = CellOf(e.at)
        /\ \A i \in Ids : i # e.id => h.filed[i] = g.filed[i]
        /\ \A d \in AllCells : d # CellOf(e.at) => BagToSet(h.cells[d]) = BagToSet(g.cells[d])
        /\ BagToSet(h.cells[CellOf(e.at)]) = BagToSet(g.cells[CellOf(e.at)])
        /\ BagToSet(h.spilled) = BagToSet(g.spilled) \cup {e}
    BY <2>1 DEF Extends
  <2>3. Holds(h, T \cup {e})
    BY <2>2, Added
  <2> QED
    BY <2>3
<1> QED
  BY <1>4, <1>5, <1>6

(* An entity that stays in its cell is replaced where it is.               *)
LEMMA ReplaceKeeps ==
  ASSUME NEW g, NEW T, Holds(g, T), NEW f \in GridEntries, NEW e \in T, e.id = f.id,
         CellOf(e.at) = CellOf(f.at), NEW h,
         \/ /\ e \in BagToSet(g.cells[CellOf(f.at)])
            /\ h = [g EXCEPT !.cells[CellOf(f.at)] = Replaced(f, @)]
         \/ /\ e \in BagToSet(g.spilled)
            /\ h = [g EXCEPT !.spilled = Replaced(f, @)]
  PROVE  Holds(h, (T \ {e}) \cup {f})
<1> PICK c : c = CellOf(f.at)
  OBVIOUS
<1> DEFINE A == BagToSet(g.cells[c])
           B == BagToSet(g.spilled)
<1>1. /\ g \in Index /\ c \in AllCells /\ f.id \in Ids /\ g.filed[f.id] = c
      /\ A \subseteq T /\ B \subseteq T
      /\ g.cells[c] = SetToBag(A) /\ g.spilled = SetToBag(B)
      /\ (A \ {e}) \cup {f} \in SUBSET GridEntries /\ (B \ {e}) \cup {f} \in SUBSET GridEntries
      /\ \A k \in T : k.id = e.id => k = e
  <2>1. g \in Index /\ c \in AllCells /\ f.id \in Ids /\ g.filed[f.id] = c
    BY EntryShape DEF Holds
  <2>2. A \subseteq T /\ B \subseteq T /\ \A k \in T : k.id = e.id => k = e
    BY <2>1 DEF Holds
  <2>3. /\ g.cells[c] = SetToBag(A) /\ g.spilled = SetToBag(B)
        /\ A \subseteq GridEntries /\ B \subseteq GridEntries
    BY <2>1, Contents
  <2> HIDE DEF A, B
  <2> QED
    BY <2>1, <2>2, <2>3
<1>2. CASE e \in A /\ h = [g EXCEPT !.cells[c] = Replaced(f, @)]
  <2>1. Replaced(f, SetToBag(A)) = SetToBag((A \ {e}) \cup {f})
    <3> HIDE DEF A, B
    <3>1. \A k \in A : k.id = e.id => k = e
      BY <1>1
    <3>2. \A k : k.id = e.id => Replaced(k, SetToBag(A)) = SetToBag((A \ {e}) \cup {k})
      BY <1>2, <3>1, OneOfAnId
    <3> QED
      BY <3>2
  <2>2. h = WithCell(g, c, (A \ {e}) \cup {f}, f.id, c)
    <3> HIDE DEF A, B
    <3>1. [g.filed EXCEPT ![f.id] = c] = g.filed
      BY <1>1, Refiled
    <3>2. h = [cells |-> [g.cells EXCEPT ![c] = SetToBag((A \ {e}) \cup {f})],
               spilled |-> g.spilled, filed |-> g.filed]
      BY <1>1, <1>2, <2>1 DEF Index
    <3> QED
      BY <3>1, <3>2 DEF WithCell
  <2>3. Refills(h, g, c, (A \ {e}) \cup {f}, f.id, c)
    <3> HIDE DEF A, B
    <3> QED
      BY <1>1, <2>2, CellRefilled
  <2>4. /\ h \in Index /\ h.filed = g.filed /\ e \in BagToSet(g.cells[CellOf(e.at)])
        /\ \A d \in AllCells : d # CellOf(e.at) => BagToSet(h.cells[d]) = BagToSet(g.cells[d])
        /\ BagToSet(h.cells[CellOf(e.at)]) = (BagToSet(g.cells[CellOf(e.at)]) \ {e}) \cup {f}
        /\ BagToSet(h.spilled) = BagToSet(g.spilled)
    BY <1>1, <1>2, <2>3 DEF Refills
  <2> QED
    BY <2>4, Swapped
<1>3. CASE e \in B /\ h = [g EXCEPT !.spilled = Replaced(f, @)]
  <2>1. Replaced(f, SetToBag(B)) = SetToBag((B \ {e}) \cup {f})
    <3> HIDE DEF A, B
    <3>1. \A k \in B : k.id = e.id => k = e
      BY <1>1
    <3>2. \A k : k.id = e.id => Replaced(k, SetToBag(B)) = SetToBag((B \ {e}) \cup {k})
      BY <1>3, <3>1, OneOfAnId
    <3> QED
      BY <3>2
  <2>2. h = WithList(g, (B \ {e}) \cup {f}, f.id, c)
    <3> HIDE DEF A, B
    <3>1. [g.filed EXCEPT ![f.id] = c] = g.filed
      BY <1>1, Refiled
    <3>2. h = [cells |-> g.cells, spilled |-> SetToBag((B \ {e}) \cup {f}), filed |-> g.filed]
      BY <1>1, <1>3, <2>1 DEF Index
    <3> QED
      BY <3>1, <3>2 DEF WithList
  <2>3. Extends(h, g, (B \ {e}) \cup {f}, f.id, c)
    <3> HIDE DEF A, B
    <3> QED
      BY <1>1, <2>2, ListRefilled
  <2>4. /\ h \in Index /\ h.filed = g.filed /\ e \in BagToSet(g.spilled)
        /\ \A d \in AllCells : d # CellOf(e.at) => BagToSet(h.cells[d]) = BagToSet(g.cells[d])
        /\ BagToSet(h.cells[CellOf(e.at)]) = BagToSet(g.cells[CellOf(e.at)])
        /\ BagToSet(h.spilled) = (BagToSet(g.spilled) \ {e}) \cup {f}
    BY <1>1, <1>3, <2>3 DEF Extends
  <2> QED
    BY <2>4, Swapped
<1> QED
  BY <1>2, <1>3

(* insert: a new entity, one that moves and one that stays in its cell.    *)
LEMMA InsertKeeps ==
  ASSUME NEW g, NEW T, Holds(g, T), NEW f \in GridEntries
  PROVE  Holds(Inserted(g, f), {e \in T : e.id # f.id} \cup {f})
<1> PICK c : c = CellOf(f.at)
  OBVIOUS
<1> DEFINE U == {e \in T : e.id # f.id}
<1>1. /\ g \in Index /\ c \in AllCells /\ c # Unfiled /\ f.id \in Ids /\ f.at # Astray
      /\ \A e \in T : e.id = f.id => U = T \ {e} /\ g.filed[f.id] = CellOf(e.at)
  <2>1. f.at # Astray
    BY GridAssumption DEF GridEntries, Positions, Astray
  <2> QED
    BY <2>1, EntryShape DEF Holds
<1>2. CASE g.filed[f.id] \notin {Unfiled, c}
  <2>1. Inserted(g, f) = Placed(Removed(g, f.id), f)
    BY <1>1, <1>2 DEF Inserted
  <2>2. Holds(Removed(g, f.id), U)
    BY <1>1, RemoveKeeps
  <2> PICK h : h = Removed(g, f.id)
    OBVIOUS
  <2>3. Holds(Placed(h, f), U \cup {f})
    <3>1. Holds(h, U) /\ \A e \in U : e.id # f.id
      BY <2>2
    <3> HIDE DEF U
    <3> QED
      BY <3>1, PlaceKeeps
  <2> QED
    BY <2>1, <2>3
<1>3. CASE g.filed[f.id] = Unfiled
  <2>1. \A e \in T : e.id # f.id
    <3>1. ASSUME NEW e \in T PROVE CellOf(e.at) # Unfiled
      BY EntryShape DEF Holds
    <3> QED
      BY <1>1, <1>3, <3>1
  <2>2. U = T /\ Inserted(g, f) = Placed(g, f)
    BY <1>1, <1>3, <2>1 DEF Inserted
  <2> QED
    BY <2>1, <2>2, PlaceKeeps
<1>4. CASE g.filed[f.id] = c
  <2>1. PICK e \in T : e.id = f.id
    BY <1>1, <1>4 DEF Holds
  <2>2. /\ CellOf(e.at) = c /\ U = T \ {e}
        /\ e \in BagToSet(g.cells[c]) \cup BagToSet(g.spilled)
    BY <1>1, <1>4, <2>1 DEF Holds
  <2>3. /\ e \in BagToSet(g.cells[c]) => Of(f.id, g.cells[c]) # {}
        /\ e \notin BagToSet(g.cells[c]) => Of(f.id, g.cells[c]) = {} /\ Of(f.id, g.spilled) # {}
    <3>1. \A k \in BagToSet(g.cells[c]) : k.id = f.id => k = e
      BY <1>1, <2>1 DEF Holds
    <3> QED
      BY <2>1, <2>2, <3>1 DEF Of
  <2> PICK h : h = Inserted(g, f)
    OBVIOUS
  <2>4. \/ /\ e \in BagToSet(g.cells[CellOf(f.at)])
           /\ h = [g EXCEPT !.cells[CellOf(f.at)] = Replaced(f, @)]
        \/ /\ e \in BagToSet(g.spilled)
           /\ h = [g EXCEPT !.spilled = Replaced(f, @)]
    BY <1>1, <1>4, <2>2, <2>3 DEF Inserted
  <2>5. Holds(h, (T \ {e}) \cup {f})
    BY <2>1, <2>2, <2>4, ReplaceKeeps
  <2> QED
    BY <2>2, <2>5
<1> QED
  BY <1>2, <1>3, <1>4

LEMMA EmptyHolds == Holds(Empty, {})
<1>1. BagToSet(EmptyBag) = {} /\ EmptyBag = SetToBag({})
  BY DEF BagToSet, EmptyBag, SetToBag
<1>2. EmptyBag \in OneEach
  BY <1>1 DEF OneEach
<1>3. /\ Empty \in Index /\ \A c \in AllCells : Empty.cells[c] = EmptyBag
      /\ Empty.spilled = EmptyBag /\ \A i \in Ids : Empty.filed[i] = Unfiled
  BY <1>2 DEF Empty, Index
<1> QED
  BY <1>1, <1>3 DEF Holds

-----------------------------------------------------------------------------
(* Where an entry is found, it is found once, and in one place only.       *)
LEMMA FoundOnce ==
  ASSUME NEW g, NEW T, Holds(g, T)
  PROVE  /\ \A q \in AllCells \cup {Aside} : BagToSet(Lists(g)[q]) \subseteq T
         /\ \A q, r \in AllCells \cup {Aside} :
              \A e \in BagToSet(Lists(g)[q]) \cap BagToSet(Lists(g)[r]) : q = r /\ Lists(g)[q][e] = 1
         /\ \A e \in T : \E q \in {CellOf(e.at), Aside} :
              q \in AllCells \cup {Aside} /\ e \in BagToSet(Lists(g)[q])
<1>1. /\ Aside \notin AllCells /\ Lists(g)[Aside] = g.spilled
      /\ \A c \in AllCells : Lists(g)[c] = g.cells[c]
  <2>1. \A c \in AllCells : c # Aside
    BY CellOrder DEF AllCells, Aside
  <2> QED
    BY <2>1 DEF Lists
<1>2. g \in Index /\ T \subseteq GridEntries
  BY DEF Holds
<1>3. ASSUME NEW A, NEW e \in BagToSet(SetToBag(A)) PROVE SetToBag(A)[e] = 1
  BY <1>3 DEF BagToSet, SetToBag
<1>4. ASSUME NEW q \in AllCells \cup {Aside} PROVE BagToSet(Lists(g)[q]) \subseteq T
  BY <1>1 DEF Holds
<1>5. ASSUME NEW q \in AllCells \cup {Aside}, NEW e \in BagToSet(Lists(g)[q])
      PROVE  Lists(g)[q][e] = 1
  <2>1. Lists(g)[q] = SetToBag(BagToSet(Lists(g)[q]))
    BY <1>1, <1>2, Contents
  <2> PICK bag : bag = Lists(g)[q]
    OBVIOUS
  <2> PICK A : A = BagToSet(bag)
    OBVIOUS
  <2> QED
    BY <1>3, <1>5, <2>1
<1>6. ASSUME NEW q \in AllCells \cup {Aside}, NEW r \in AllCells \cup {Aside},
             NEW e \in BagToSet(Lists(g)[q]) \cap BagToSet(Lists(g)[r])
      PROVE  q = r
  <2>1. \A c \in AllCells : e \in BagToSet(g.cells[c]) => CellOf(e.at) = c
    BY DEF Holds
  <2>2. e \in BagToSet(g.spilled) => \A c \in AllCells : e \notin BagToSet(g.cells[c])
    BY <2>1 DEF Holds
  <2> QED
    BY <1>1, <1>6, <2>1, <2>2
<1>7. ASSUME NEW e \in T
      PROVE  \E q \in {CellOf(e.at), Aside} : q \in AllCells \cup {Aside} /\ e \in BagToSet(Lists(g)[q])
  <2>1. /\ CellOf(e.at) \in AllCells
        /\ e \in BagToSet(g.cells[CellOf(e.at)]) \cup BagToSet(g.spilled)
    BY <1>2, EntryShape DEF Holds
  <2> QED
    BY <1>1, <2>1
<1> QED
  BY <1>4, <1>5, <1>6, <1>7

(* A walk covers the cell of every position in the range.                  *)
LEMMA WalkCovers ==
  ASSUME NEW center \in Positions, NEW radius \in 0..Extent, NEW e \in GridEntries,
         Within(e, center, radius), NEW g
  PROVE  CellOf(e.at) \in Visited(g, center, radius)
<1>1. /\ center \in Int /\ radius \in Int /\ e.at \in Int
      /\ center - radius <= e.at /\ e.at <= center + radius
  BY GridAssumption DEF Positions, GridEntries, Within
<1>2. /\ CellOf(center - radius) \in Int /\ CellOf(center + radius) \in Int /\ CellOf(e.at) \in Int
      /\ CellOf(center - radius) <= CellOf(e.at) /\ CellOf(e.at) <= CellOf(center + radius)
  <2>1. center - radius \in Int /\ center + radius \in Int
    BY <1>1
  <2> QED
    BY <1>1, <2>1, CellOrder
<1>3. CellOf(e.at) \in AllCells
  BY EntryShape
<1> QED
  BY <1>2, <1>3 DEF Visited, Walked

LEMMA QueryFinds ==
  ASSUME NEW g, NEW T, Holds(g, T), NEW center \in Positions, NEW radius \in 0..Extent
  PROVE  Exactly(Query(g, center, radius), {e \in T : Within(e, center, radius)})
<1> DEFINE D == Visited(g, center, radius) \cup {Aside}
           S == {e \in T : Within(e, center, radius)}
<1> PICK found : found = Query(g, center, radius)
  OBVIOUS
<1> PICK lists : lists = Lists(g)
  OBVIOUS
<1>1. DOMAIN found = D /\ D \subseteq AllCells \cup {Aside}
  BY DEF Query, Visited
<1>2. ASSUME NEW q \in D
      PROVE  /\ BagToSet(found[q]) = {e \in BagToSet(lists[q]) : Within(e, center, radius)}
             /\ \A e \in BagToSet(found[q]) : found[q][e] = lists[q][e]
  <2>1. found[q] = Kept(lists[q], center, radius)
    BY <1>2 DEF Query
  <2> QED
    BY <2>1 DEF Kept, BagToSet
<1>3. /\ \A q \in D : BagToSet(lists[q]) \subseteq T
      /\ \A q, r \in D : \A e \in BagToSet(lists[q]) \cap BagToSet(lists[r]) : q = r /\ lists[q][e] = 1
      /\ \A e \in T : \E q \in {CellOf(e.at), Aside} : e \in BagToSet(lists[q])
  <2> HIDE DEF D
  <2> QED
    BY <1>1, FoundOnce
<1>4. ASSUME NEW e \in S PROVE \E q \in D : e \in BagToSet(found[q])
  <2>1. e \in GridEntries
    BY DEF Holds
  <2>2. CellOf(e.at) \in D /\ Aside \in D
    BY <2>1, WalkCovers
  <2>3. PICK q \in {CellOf(e.at), Aside} : e \in BagToSet(lists[q])
    BY <1>3
  <2>4. q \in D
    BY <2>2, <2>3
  <2> HIDE DEF D
  <2> QED
    BY <1>2, <2>3, <2>4
<1>5. ASSUME NEW q \in D PROVE BagToSet(found[q]) \subseteq S
  <2> HIDE DEF D
  <2> QED
    BY <1>2, <1>3
<1>6. ASSUME NEW q \in D, NEW r \in D, NEW e \in BagToSet(found[q]) \cap BagToSet(found[r])
      PROVE  q = r /\ found[q][e] = 1
  <2> HIDE DEF D
  <2> QED
    BY <1>2, <1>3
<1> HIDE DEF D, S
<1>7. Exactly(found, S)
  <2>1. UNION {BagToSet(found[q]) : q \in DOMAIN found} = S
    BY <1>1, <1>4, <1>5
  <2> QED
    BY <1>1, <1>6, <2>1 DEF Exactly
<1> QED
  BY <1>7 DEF S

LEMMA ListsFind ==
  ASSUME NEW g, NEW T, Holds(g, T)
  PROVE  Exactly(AllEntities(g), T)
<1> PICK found : found = AllEntities(g)
  OBVIOUS
<1> DEFINE D == AllCells \cup {Aside}
<1>1. DOMAIN found = D /\ found = Lists(g)
  BY DEF AllEntities, Lists
<1>2. /\ \A q \in D : BagToSet(found[q]) \subseteq T
      /\ \A q, r \in D : \A e \in BagToSet(found[q]) \cap BagToSet(found[r]) : q = r /\ found[q][e] = 1
      /\ \A e \in T : \E q \in D : e \in BagToSet(found[q])
  BY <1>1, FoundOnce
<1> HIDE DEF D
<1>3. UNION {BagToSet(found[q]) : q \in DOMAIN found} = T
  BY <1>1, <1>2
<1> QED
  BY <1>1, <1>2, <1>3 DEF Exactly

(* GridIsAMap (insert, remove, clear, query_radius, all_entities): whatever *)
(* the cell size, the ceiling of a cell, the extent and the limits of a    *)
(* walk, the index answers every query as an exact map of the entities     *)
(* does: each one in the range once, with its latest position, no other.   *)
THEOREM IndexIsExact == GridSpec => []GridIsAMap
<1>1. GridInit => Holds(index, truth)
  BY EmptyHolds DEF GridInit
<1>2. Holds(index, truth) /\ [GridNext]_gridVars => Holds(index, truth)'
  <2> SUFFICES ASSUME Holds(index, truth), [GridNext]_gridVars PROVE Holds(index', truth')
    BY DEF Holds, Index, GridEntries, OneEach
  <2>1. ASSUME NEW id \in Ids, NEW p \in Positions \cup {Astray}, Insert(id, p)
        PROVE  Holds(index', truth')
    <3>1. CASE p = Astray
      <4>1. index' = index /\ truth' = truth
        BY <2>1, <3>1 DEF Insert, Inserted, Entry
      <4> QED
        BY <4>1
    <3>2. CASE p # Astray
      <4> PICK f : f = Entry(id, p)
        OBVIOUS
      <4>1. /\ f \in GridEntries /\ f.id = id
            /\ index' = Inserted(index, f) /\ truth' = {e \in truth : e.id # f.id} \cup {f}
        BY <2>1, <3>2 DEF Insert, Entry, GridEntries
      <4> QED
        BY <4>1, InsertKeeps
    <3> QED
      BY <3>1, <3>2
  <2>2. ASSUME NEW id \in Ids, Remove(id) PROVE Holds(index', truth')
    BY <2>2, RemoveKeeps DEF Remove
  <2>3. CASE Clear
    BY <2>3, EmptyHolds DEF Clear, Cleared
  <2>4. CASE UNCHANGED gridVars
    BY <2>4 DEF gridVars
  <2> QED
    BY <2>1, <2>2, <2>3, <2>4 DEF GridNext
<1>3. Holds(index, truth) => GridIsAMap
  BY QueryFinds, ListsFind DEF GridIsAMap
<1> QED
  BY <1>1, <1>2, <1>3, PTL DEF GridSpec
=============================================================================
