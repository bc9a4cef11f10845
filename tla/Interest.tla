------------------------------ MODULE Interest ------------------------------
(***************************************************************************)
(* Who is shown what: the game loop, which brings the interest manager in  *)
(* line with the simulation once a tick (server/main.rs), the manager's    *)
(* own tables (net/interest.rs), and the publish pass, which reads them    *)
(* from another task to build, admit and filter snapshots (net/server.rs). *)
(*                                                                         *)
(* Each call of the manager, and each stretch of the pass between two of   *)
(* them, is a step; recompute_interest_in_place reads and writes in two.   *)
(* The world has one axis, and a step of the simulation brings one change. *)
(* The five indices are one partial function here: SpatialGrid shows that  *)
(* each of them is one.                                                    *)
(***************************************************************************)
EXTENDS Integers, Sequences, FiniteSets

CONSTANTS
    Clients, NShips, Shells,
    Far, Spacing,            \* places are 0..Far; ships start Spacing apart
    ShipRadius, ShellRadius, \* InterestConfig; the interior of a ship is seen from its own place
    Budget,                  \* FIRST_FULL_BUDGET_PER_ROUND
    QueueCap,                \* FirstFullQueue::CAP
    MaxChanges               \* bound: changes the simulation brings

ASSUME InterestAssumption ==
    /\ NShips \in Nat /\ Far \in Nat /\ Spacing \in Nat
    /\ ShipRadius \in Nat \ {0} /\ ShellRadius \in Nat
    /\ Budget \in Nat \ {0} /\ QueueCap \in Nat \ {0} /\ MaxChanges \in Nat
    /\ "nobody" \notin Clients

Ships == 1..NShips
Places == 0..Far
Nobody == "nobody"
Event(what, subjects) == [what |-> what, about |-> subjects]
Quiet == Event("quiet", {})

Hull(s) == <<"hull", s>>
Deck(s) == <<"deck", s>>    \* the compartments and stations of s
Crew(c) == <<"crew", c>>
Shell(b) == <<"shell", b>>

VARIABLES
    at, sinking, flying, struck, changes,  \* simulation: its ships, those going down, shells, pending damage
    stage, next, aboard, moving, known, news,  \* game loop: where it stands, players, projectile_ids
    grid, layered, viewers,         \* manager: the indices, entity_layers, player_interests
    behind,                         \* ticks the published tick is behind the simulation
    conn, inbox, rows, queue, due,  \* server: connections, ServerEvents, client_layers, first_full_queue
    pass,                           \* the publish pass
    unsettled                       \* history: players whose visible sets are not of the ship they are on

sim == <<at, sinking, flying, struck, changes>>
loop == <<stage, next, aboard, moving, known, news>>
manager == <<grid, layered, viewers>>
server == <<conn, inbox, rows, queue, due>>
vars == <<sim, loop, manager, behind, server, pass, unsettled>>

Afloat == DOMAIN at                  \* TickSystem::get_ship is Some
Operational == Afloat \ sinking      \* Ship::is_operational
Put(f, k, v) == [x \in DOMAIN f \cup {k} |-> IF x = k THEN v ELSE f[x]]
Drop(f, S) == [x \in DOMAIN f \ S |-> f[x]]
Near(p, q, radius) == p - q \in -radius..radius

(* What an index holds of an entity; age counts the ticks since that data  *)
(* was the simulation's, 2 for any more.                                   *)
Datum(p, s) == [at |-> p, ship |-> s, age |-> 0]
Older(n) == IF n = 2 THEN 2 ELSE n + 1
NoShip == 0

Rest == [step |-> "rest", kinds |-> << >>, snap |-> {}, age |-> 0, honest |-> TRUE,
         clients |-> {}, admitted |-> << >>, draft |-> {}, for |-> NoShip]

Init ==
    /\ at = [s \in Ships |-> (s - 1) * Spacing] /\ sinking = {} /\ flying = << >> /\ struck = << >>
    /\ changes = 0
    /\ stage = "drain" /\ next = 1 /\ aboard = << >> /\ moving = Nobody /\ known = {} /\ news = Quiet
    /\ grid = [e \in {Hull(s) : s \in Ships} \cup {Deck(s) : s \in Ships} |->
                  Datum((e[2] - 1) * Spacing, e[2])]
    /\ layered = {Deck(s) : s \in Ships} /\ viewers = << >> /\ behind = 0
    /\ conn = [c \in Clients |-> "new"] /\ inbox = [c \in Clients |-> {}]
    /\ rows = {} /\ queue = << >> /\ due = TRUE /\ pass = Rest
    /\ unsettled = {}

-----------------------------------------------------------------------------
(* The connections.                                                        *)

Connect(c) ==
    /\ conn[c] = "new"
    /\ conn' = [conn EXCEPT ![c] = "up"]
    /\ inbox' = [inbox EXCEPT ![c] = {"join"}]
    /\ UNCHANGED <<sim, loop, manager, behind, rows, queue, due, pass, unsettled>>

Hangup(c) ==
    /\ conn' = [conn EXCEPT ![c] = "gone"] /\ rows' = rows \ {c}
    /\ UNCHANGED <<queue, due>>

Disconnect(c) ==
    /\ conn[c] = "up" /\ Hangup(c)
    /\ inbox' = [inbox EXCEPT ![c] = @ \cup {"leave"}]
    /\ UNCHANGED <<sim, loop, manager, behind, pass, unsettled>>

-----------------------------------------------------------------------------
(* The game loop: spawn_player and despawn_player as the manager sees them *)
(* (add_player, remove_player).                                            *)

Registered(c) == c \in DOMAIN viewers  \* has_player

AddPlayer(c, s) ==
    /\ aboard' = Put(aboard, c, s)
    /\ grid' = Put(grid, Crew(c), Datum(at[s], s))
    /\ layered' = layered \cup {Crew(c)}
    /\ viewers' = Put(viewers, c, [ship |-> s, at |-> at[s], sees |-> {}])
    /\ unsettled' = unsettled \cup {c}

RemovePlayer(c) ==
    /\ grid' = Drop(grid, {Crew(c)})
    /\ layered' = layered \ {Crew(c)}
    /\ viewers' = Drop(viewers, {c})

(* The drain: each client's connection and its end, in this order.         *)
Draining == stage = "drain" /\ moving = Nobody

Join(c) ==
    /\ Draining /\ "join" \in inbox[c]
    /\ IF Afloat = {}
       THEN /\ inbox' = [inbox EXCEPT ![c] = {"leave"}]
            /\ IF conn[c] = "up" THEN Hangup(c) ELSE UNCHANGED <<conn, rows, queue, due>>
            /\ UNCHANGED <<manager, aboard, unsettled>>
       ELSE /\ inbox' = [inbox EXCEPT ![c] = @ \ {"join"}]
            /\ \E s \in Afloat : AddPlayer(c, s)
            /\ UNCHANGED <<conn, rows, queue, due>>
    /\ UNCHANGED <<sim, stage, next, moving, known, news, behind, pass>>

Leave(c) ==
    /\ Draining /\ inbox[c] = {"leave"}
    /\ inbox' = [inbox EXCEPT ![c] = {}]
    /\ IF c \in DOMAIN aboard
       THEN aboard' = Drop(aboard, {c}) /\ RemovePlayer(c)
       ELSE UNCHANGED <<aboard, manager>>
    /\ UNCHANGED <<sim, stage, next, moving, known, news, behind, conn, rows, queue, due, pass, unsettled>>

(* handle_respawn takes a player whose ship is lost off it; Rebind puts it *)
(* on a hull, here and when the loop repairs the crews of a sunken ship.   *)
Respawn(c) ==
    /\ Draining /\ c \in DOMAIN aboard
    /\ aboard[c] \notin Operational /\ Operational # {}
    /\ moving' = c /\ RemovePlayer(c)
    /\ UNCHANGED <<sim, stage, next, aboard, known, news, behind, server, pass, unsettled>>

Havens == IF stage = "drain" THEN {CHOOSE s \in Operational : \A t \in Operational : s <= t}
          ELSE Afloat

Rebind ==
    /\ moving # Nobody /\ moving' = Nobody
    /\ \E s \in Havens : AddPlayer(moving, s)
    /\ UNCHANGED <<sim, stage, next, known, news, behind, server, pass>>

-----------------------------------------------------------------------------
(* TickSystem::tick: the damage left by the last tick, or one change, or   *)
(* nothing.                                                                *)

Calm == news' = Quiet /\ UNCHANGED sim

Wound ==
    /\ struck' = << >> /\ UNCHANGED <<at, sinking, flying, changes>>
    /\ news' = IF struck[1] \in Afloat THEN Event("hit", {Hull(struck[1]), Shell(struck[2])}) ELSE Quiet

Sail(s, p) ==
    /\ Near(at[s], p, 1) /\ p # at[s]
    /\ at' = [at EXCEPT ![s] = p] /\ news' = Quiet /\ UNCHANGED <<sinking, flying, struck>>

Founder(s) ==
    /\ s \in Operational
    /\ sinking' = sinking \cup {s} /\ news' = Event("founder", {Hull(s)})
    /\ UNCHANGED <<at, flying, struck>>

GoDown(s) ==
    /\ s \in sinking
    /\ at' = Drop(at, {s}) /\ sinking' = sinking \ {s} /\ news' = Event("sunk", {Hull(s)})
    /\ UNCHANGED <<flying, struck>>

Fire(s, b) ==
    /\ s \in Operational /\ b \notin DOMAIN flying \cup known
    /\ flying' = Put(flying, b, [at |-> at[s], by |-> s]) /\ news' = Quiet /\ UNCHANGED <<at, sinking, struck>>

Strike(s, b) ==
    /\ b \in DOMAIN flying /\ s # flying[b].by /\ Near(at[s], flying[b].at, 1)
    /\ flying' = Drop(flying, {b}) /\ struck' = <<s, b>> /\ news' = Quiet
    /\ UNCHANGED <<at, sinking>>

Change(s) ==
    /\ changes < MaxChanges /\ changes' = changes + 1
    /\ \/ \E p \in Places : Sail(s, p)
       \/ Founder(s) \/ GoDown(s)
       \/ \E b \in Shells : Fire(s, b) \/ Strike(s, b)

Overtaken(n) == 0  \* mutant: a tick is published as soon as it is simulated
Unpublished(n) == Older(n)

Tick ==
    /\ Draining /\ \A c \in Clients : inbox[c] = {}
    /\ IF struck # << >> THEN Wound ELSE Calm \/ \E s \in Afloat : Change(s)
    /\ behind' = Unpublished(behind)
    /\ grid' = [e \in DOMAIN grid |-> [grid[e] EXCEPT !.age = Older(@)]]
    /\ pass' = IF pass.step = "rest" THEN pass ELSE [pass EXCEPT !.age = Older(@)]
    /\ stage' = "repair"
    /\ UNCHANGED <<next, aboard, moving, known, layered, viewers, server, unsettled>>

-----------------------------------------------------------------------------
(* The entity sync: orphans, ships with their crews, wrecks, shells.       *)

Orphans == {c \in DOMAIN aboard : aboard[c] \notin Afloat}

Repair ==
    /\ stage = "repair" /\ moving = Nobody
    /\ IF Orphans = {}
       THEN stage' = "hull" /\ next' = 1 /\ UNCHANGED <<moving, aboard, manager>>
       ELSE /\ \E c \in Orphans :
                  /\ RemovePlayer(c)
                  /\ IF Afloat = {} THEN aboard' = Drop(aboard, {c}) /\ UNCHANGED moving
                                    ELSE moving' = c /\ UNCHANGED aboard
            /\ UNCHANGED <<stage, next>>
    /\ UNCHANGED <<sim, known, news, behind, server, pass, unsettled>>

Skip ==
    /\ stage = "hull" /\ next \notin Afloat
    /\ IF next <= NShips THEN next' = next + 1 /\ UNCHANGED stage ELSE stage' = "retire" /\ UNCHANGED next
    /\ UNCHANGED <<sim, aboard, moving, known, news, manager, behind, server, pass, unsettled>>

(* update_compartment and update_station leave the layers alone, add_ship  *)
(* enters its own.                                                         *)
SyncHull ==
    /\ stage = "hull" /\ next \in Afloat
    /\ grid' = Put(Put(grid, Deck(next), Datum(at[next], next)), Hull(next), Datum(at[next], next))
    /\ layered' = layered \cup {Hull(next)}
    /\ stage' = "crew"
    /\ UNCHANGED <<sim, next, aboard, moving, known, news, viewers, behind, server, pass, unsettled>>

CrewOf(s) == {c \in DOMAIN aboard : aboard[c] = s}

SyncCrew ==
    /\ stage = "crew"
    /\ LET crew == CrewOf(next)
       IN  /\ grid' = [e \in DOMAIN grid \cup {Crew(c) : c \in crew} |->
                           IF \E c \in crew : e = Crew(c) THEN Datum(at[next], next) ELSE grid[e]]
           /\ viewers' = [c \in DOMAIN viewers |->
                              IF c \in crew THEN [viewers[c] EXCEPT !.at = at[next], !.ship = next]
                                            ELSE viewers[c]]
    /\ stage' = "hull" /\ next' = next + 1
    /\ UNCHANGED <<sim, aboard, moving, known, news, layered, behind, server, pass, unsettled>>

HullOnly(lost) == {Hull(s) : s \in lost}  \* mutant: the interior stays behind
Retired(lost) == {Hull(s) : s \in lost} \cup {Deck(s) : s \in lost}

Retire ==
    /\ stage = "retire"
    /\ LET lost == Retired(Ships \ Afloat)
       IN  grid' = Drop(grid, lost) /\ layered' = layered \ lost
    /\ stage' = "shells"
    /\ UNCHANGED <<sim, next, aboard, moving, known, news, viewers, behind, server, pass, unsettled>>

NoLayers(fresh) == {}  \* mutant: update_projectile for new shells too
NewLayers(fresh) == {Shell(b) : b \in fresh}

SyncShells ==
    /\ stage = "shells"
    /\ LET spent == {Shell(b) : b \in known \ DOMAIN flying}
       IN  /\ grid' = [e \in (DOMAIN grid \ spent) \cup {Shell(b) : b \in DOMAIN flying} |->
                           IF e[1] = "shell" THEN Datum(flying[e[2]].at, NoShip) ELSE grid[e]]
           /\ layered' = (layered \ spent) \cup NewLayers(DOMAIN flying \ known)
    /\ known' = DOMAIN flying
    /\ stage' = "look"
    /\ UNCHANGED <<sim, next, aboard, moving, news, viewers, behind, server, pass, unsettled>>

-----------------------------------------------------------------------------
(* recompute_interest_in_place: what the five queries return.              *)

Radius(e) == CASE e[1] = "hull" -> ShipRadius [] e[1] = "shell" -> ShellRadius [] OTHER -> 0
Aboard(e, s) == e[1] \in {"hull", "shell"} \/ grid[e].ship = s

Sight(c) == {e \in DOMAIN grid : /\ Near(grid[e].at, viewers[c].at, Radius(e))
                                 /\ Aboard(e, viewers[c].ship)}

(* update_all_interests.                                                   *)
Look ==
    /\ stage = "look" /\ stage' = "tell"
    /\ viewers' = [c \in DOMAIN viewers |-> [viewers[c] EXCEPT !.sees = Sight(c)]]
    /\ unsettled' = {}
    /\ UNCHANGED <<sim, next, aboard, moving, known, news, grid, layered, behind, server, pass>>

(* The events of the tick go out, then the tick is published.              *)
Publish ==
    /\ stage = "tell" /\ stage' = "drain" /\ news' = Quiet
    /\ behind' = 0 /\ due' = TRUE
    /\ UNCHANGED <<sim, next, aboard, moving, known, manager, conn, inbox, rows, queue, pass, unsettled>>

(* should_replicate_entity, should_replicate_subject, event_reaches.       *)
Shown(c, e) == Registered(c) /\ e \in layered /\ e \in viewers[c].sees
Heard(c, e) == e \notin layered \/ Shown(c, e)
Reaches(c, event) == Registered(c) /\ \E e \in event.about : Heard(c, e)

-----------------------------------------------------------------------------
(* The publish pass: read the tick, copy the indices one by one.           *)

Begin ==
    /\ pass.step = "rest" /\ due /\ due' = FALSE
    /\ pass' = [Rest EXCEPT !.step = "copy", !.kinds = <<"hull", "deck", "crew", "shell">>, !.age = behind]
    /\ UNCHANGED <<sim, loop, manager, behind, conn, inbox, rows, queue, unsettled>>

Copied(kind) == {e \in DOMAIN grid : e[1] = kind}

Copy ==
    /\ pass.step = "copy" /\ pass.kinds # << >>
    /\ LET found == Copied(Head(pass.kinds))
       IN  pass' = [pass EXCEPT !.kinds = Tail(@), !.snap = @ \cup found,
                                !.honest = @ /\ \A e \in found : grid[e].age <= pass.age]
    /\ UNCHANGED <<sim, loop, manager, behind, server, unsettled>>

(* FirstFullQueue::admit: ready clients up to the budget; the others that  *)
(* stand before the last of them are dropped.                              *)
Ready(c) == conn[c] = "up" /\ Registered(c)
Chosen(n) == {i \in 1..n : Ready(queue[i])}
Spent(n) == Cardinality(Chosen(n)) = Budget
Cut == IF \E n \in 1..Len(queue) : Spent(n)
       THEN CHOOSE n \in 1..Len(queue) : Spent(n) /\ ~Spent(n - 1)
       ELSE Len(queue)
Admitted == IF queue = << >> THEN << >> ELSE SelectSeq(SubSeq(queue, 1, Cut), Ready)

Admit ==
    /\ pass.step = "copy" /\ pass.kinds = << >>
    /\ pass' = [pass EXCEPT !.step = "admit", !.clients = {c \in Clients : conn[c] = "up"},
                            !.admitted = Admitted]
    /\ queue' = SubSeq(queue, Cut + 1, Len(queue))
    /\ UNCHANGED <<sim, loop, manager, behind, conn, inbox, rows, due, unsettled>>

(* compute_interest of an admitted client, then its first full.            *)
Candidate == Head(pass.admitted)
View(c) == {e \in pass.snap : Shown(c, e)}

SkipGone ==
    /\ pass.step = "admit" /\ pass.admitted # << >> /\ conn[Candidate] # "up"
    /\ pass' = [pass EXCEPT !.admitted = Tail(@)]
    /\ UNCHANGED <<sim, loop, manager, behind, server, unsettled>>

ReadSight ==
    /\ pass.step = "admit" /\ pass.admitted # << >> /\ conn[Candidate] = "up"
    /\ pass' = IF Registered(Candidate)
               THEN [pass EXCEPT !.step = "write", !.draft = Sight(Candidate),
                                 !.for = viewers[Candidate].ship]
               ELSE [pass EXCEPT !.step = "full"]
    /\ UNCHANGED <<sim, loop, manager, behind, server, unsettled>>

Unrefreshed(c) == viewers  \* mutant: the first full trusts the last refresh
Refreshed(c) == IF Registered(c) THEN [viewers EXCEPT ![c].sees = pass.draft] ELSE viewers

WriteSight ==
    /\ pass.step = "write"
    /\ viewers' = Refreshed(Candidate)
    /\ pass' = [pass EXCEPT !.step = "full", !.draft = {}, !.for = NoShip]
    /\ unsettled' = IF Registered(Candidate) /\ viewers[Candidate].ship = pass.for
                    THEN unsettled \ {Candidate} ELSE unsettled \cup {Candidate}
    /\ UNCHANGED <<sim, loop, grid, layered, behind, server>>

FirstFull ==
    /\ pass.step = "full"
    /\ rows' = rows \cup {Candidate}
    /\ pass' = [pass EXCEPT !.step = "admit", !.admitted = Tail(@)]
    /\ UNCHANGED <<sim, loop, manager, behind, conn, inbox, queue, due, unsettled>>

(* The per-client pass: discovery of a client without a row; the others    *)
(* are sent what changed in their view.                                    *)
Waiting == {queue[i] : i \in 1..Len(queue)}
OneShort(c) == IF c \in Waiting \/ Len(queue) >= QueueCap - 1 THEN queue ELSE Append(queue, c)  \* mutant
Pushed(c) == IF c \in Waiting \/ Len(queue) >= QueueCap THEN queue ELSE Append(queue, c)

Turn(c) == pass.step = "admit" /\ pass.admitted = << >> /\ c \in pass.clients

Visit(c) ==
    /\ Turn(c)
    /\ pass' = [pass EXCEPT !.clients = @ \ {c}]
    /\ queue' = IF Registered(c) /\ c \notin rows THEN Pushed(c) ELSE queue
    /\ UNCHANGED <<sim, loop, manager, behind, conn, inbox, rows, due, unsettled>>

End ==
    /\ pass.step = "admit" /\ pass.admitted = << >> /\ pass.clients = {}
    /\ pass' = Rest
    /\ UNCHANGED <<sim, loop, manager, behind, server, unsettled>>

-----------------------------------------------------------------------------
Drain == Rebind \/ \E c \in Clients : Join(c) \/ Leave(c)
Sync == Repair \/ Skip \/ SyncHull \/ SyncCrew \/ Retire \/ SyncShells \/ Look \/ Publish
Round == Begin \/ Copy \/ Admit \/ SkipGone \/ ReadSight \/ WriteSight \/ FirstFull
            \/ (\E c \in Clients : Visit(c)) \/ End

Next ==
    \/ \E c \in Clients : Connect(c) \/ Disconnect(c) \/ Respawn(c)
    \/ Drain \/ Tick \/ Sync \/ Round

Spec == Init /\ [][Next]_vars

(* Both tasks run on; whether anyone connects, leaves or asks for a new    *)
(* hull is open.                                                           *)
Loop == Drain \/ Tick \/ Sync
Fairness == WF_vars(Loop) /\ WF_vars(Round)
FairSpec == Spec /\ Fairness

-----------------------------------------------------------------------------
(* No snapshot is stamped with a tick it does not come up to: whatever the *)
(* pass finds in an index is as recent as the tick it read first, however  *)
(* the loop's sync ran along, and nothing that left the simulation before  *)
(* that tick is found at all (publish_tick, №268; retire_ship, №605).      *)
StampIsHonest == pass.honest

(* The view the pass is about to send to c.                                *)
Sends(c) == (Turn(c) /\ c \in rows) \/ (pass.step = "full" /\ c = Candidate)

(* A player is shown the ship it is on in every view it is sent, its first *)
(* full included, but for one it was put on since the visible sets were    *)
(* last filled (admit_first_fulls, №164; compute_interest).                *)
ViewHasOwnShip == \A c \in DOMAIN conn :
    Sends(c) /\ Registered(c) /\ c \notin unsettled => Hull(viewers[c].ship) \in View(c)

(* What a player should see: ships and shells in range of its ship, the    *)
(* interior and the crew of its own.                                       *)
InSight(c) ==
    LET s == aboard[c]
    IN  {Hull(t) : t \in {u \in Afloat : Near(at[u], at[s], ShipRadius)}}
        \cup {Shell(b) : b \in {f \in DOMAIN flying : Near(flying[f].at, at[s], ShellRadius)}}
        \cup {Deck(s)} \cup {Crew(d) : d \in CrewOf(s)}

ExactRefresh ==
    stage = "look" /\ stage' = "tell" =>
        /\ DOMAIN viewers' = DOMAIN aboard'
        /\ \A c \in DOMAIN viewers' : {e \in layered' : Shown(c, e)'} = InSight(c)'

(* The refresh that ends a tick's sync leaves each player of the loop, and *)
(* nobody else, with the visible sets the simulation calls for, all of it  *)
(* replicable, through joins, losses, rebinding and firing                 *)
(* (update_all_interests after the sync of main.rs).                       *)
RefreshIsExact == [][ExactRefresh]_vars

(* A registered player of a live connection gets its first full, though    *)
(* the queue holds few and admits few at a time (FirstFullQueue, №710).    *)
Served == \A c \in Clients :
    c \in DOMAIN aboard ~> c \notin DOMAIN aboard \/ c \in rows \/ conn[c] = "gone"

(* Not so: the hit of a shell reaches only those who are shown the ship or *)
(* the shell, as a snapshot would be (server.rs broadcast_event, №635).    *)
HitsFollowInterest ==
    stage = "tell" /\ news.what = "hit" =>
        \A c \in Clients : Reaches(c, news) => \E e \in news.about : Shown(c, e)
=============================================================================
