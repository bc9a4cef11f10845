----------------------------- MODULE MatchLoop ------------------------------
(***************************************************************************)
(* The players of a match: the game loop of server/main.rs with the glue   *)
(* of match_.rs, net.rs and votes.rs it calls.                             *)
(*                                                                         *)
(* The network tasks add and remove connections and report each change     *)
(* through a queue; the loop drains the queue, runs one tick of the        *)
(* simulation, and repairs what the tick broke.  Between the two a player  *)
(* is known in four places: the connection table, the loop's players map,  *)
(* the tables of the interest manager, and the seats of the ships.         *)
(***************************************************************************)
EXTENDS Naturals, Sequences, FiniteSets

CONSTANTS
    MaxId,                   \* bound: connections ever made
    NHulls,                  \* ships in the roster, in roster order
    Posts,                   \* the stations of a ship
    Banned,                  \* connections from an address of the ban list
    MinVotes, Share, Whole,  \* VoteKickConfig: min_votes, majority = Share / Whole
    Window,                  \* window_ticks
    MaxQueue                 \* bound: events the network leaves in the queue

ASSUME MatchAssumption ==
    /\ MaxId \in Nat /\ NHulls \in Nat \ {0} /\ Banned \subseteq Nat
    /\ MinVotes \in Nat \ {0} /\ Share \in Nat /\ Whole \in Nat \ {0} /\ Window \in Nat \ {0}
    /\ MaxQueue \in Nat

Ids == 1..MaxId
Hulls == 1..NHulls
Nobody == 0  \* no connection
Ashore == 0  \* no hull
Idle == [target |-> Nobody, votes |-> {}, ttl |-> 0]

Commands == [do : {"enter"}, arg : Posts] \cup [do : {"exit", "respawn"}, arg : {0}]
                \cup [do : {"vote"}, arg : Ids]

VARIABLES
    lastId, connections,  \* the server's table and the last id it gave out
    queue,                \* ServerEvents under way to the loop
    players,              \* PlayerMeta.ship_id of each connection, Ashore if it has none
    grid, viewers,        \* player_ships, player_interests
    hull,                 \* each ship in the simulation: sound, sinking, or gone from it
    seat,                 \* the occupant of each station
    vote,                 \* VoteKickState.active
    ballots               \* history: <<voter, target>> accepted since the last verdict or expiry

net == <<lastId, connections>>
crew == <<players, grid, viewers>>
tally == <<vote, ballots>>
vars == <<net, queue, crew, hull, seat, tally>>

Afloat == {h \in Hulls : hull[h] # "gone"}   \* TickSystem::get_ship is Some
Sound == {h \in Hulls : hull[h] = "sound"}   \* Ship::is_operational
Online == {c \in Ids : players[c] # Ashore}

Init ==
    /\ lastId = 0 /\ connections = {} /\ queue = << >>
    /\ players = [c \in Ids |-> Ashore] /\ grid = [c \in Ids |-> Ashore] /\ viewers = {}
    /\ hull = [h \in Hulls |-> "sound"]
    /\ seat = [s \in Hulls \X Posts |-> Nobody]
    /\ vote = Idle /\ ballots = {}

-----------------------------------------------------------------------------
(* The network tasks.                                                      *)

Event(what, c, command) == [what |-> what, id |-> c, command |-> command]
NoCommand == [do |-> "none", arg |-> 0]

Connect ==
    /\ lastId < MaxId /\ Len(queue) < MaxQueue
    /\ lastId' = lastId + 1
    /\ connections' = connections \cup {lastId + 1}
    /\ queue' = Append(queue, Event("connected", lastId + 1, NoCommand))
    /\ UNCHANGED <<crew, hull, seat, tally>>

(* A farewell, a timeout, an eviction, or the operator's kick.             *)
Leave(c) ==
    /\ c \in connections /\ Len(queue) < MaxQueue
    /\ connections' = connections \ {c}
    /\ queue' = Append(queue, Event("left", c, NoCommand))
    /\ UNCHANGED <<lastId, crew, hull, seat, tally>>

Send(c, command) ==
    /\ c \in connections /\ Len(queue) < MaxQueue
    /\ queue' = Append(queue, Event("command", c, command))
    /\ UNCHANGED <<net, crew, hull, seat, tally>>

-----------------------------------------------------------------------------
(* spawn_player and despawn_player: what they leave of each table.         *)

Aboard(c, h) ==
    /\ players' = [players EXCEPT ![c] = h]
    /\ grid' = [grid EXCEPT ![c] = h]
    /\ viewers' = viewers \cup {c}

Gone(c) ==
    /\ players' = [players EXCEPT ![c] = Ashore]
    /\ grid' = [grid EXCEPT ![c] = Ashore]
    /\ viewers' = viewers \ {c}

KeptSeats(c) == seat  \* mutant: nobody vacates
Vacated(c) ==
    [s \in DOMAIN seat |-> IF s[1] = players[c] /\ seat[s] = c THEN Nobody ELSE seat[s]]

Despawn(c) ==
    IF players[c] = Ashore
    THEN UNCHANGED <<crew, seat>>
    ELSE Gone(c) /\ seat' = Vacated(c)

(* NetServer::disconnect_client: an id that is not in the table does       *)
(* nothing; the event it emits joins the queue the loop is draining.       *)
StillConnected(c) == connections  \* mutant: a farewell and no removal
Disconnected(c) == connections \ {c}
Farewell(c) == IF c \in connections THEN <<Event("left", c, NoCommand)>> ELSE << >>

-----------------------------------------------------------------------------
(* The drain: one event.                                                   *)

(* The roster walk of target_ship_for_connection.                          *)
Slot(i) == (i % NHulls) + 1
OnlyTheFairSlot(c) == {k \in {0} : Slot(c) \in Afloat}  \* mutant: no walk
Steps(c) == {k \in 0..(NHulls - 1) : Slot(c + k) \in Afloat}
Nearest(c) == Slot(c + (CHOOSE k \in Steps(c) : \A j \in Steps(c) : k <= j))

HandleConnected(e) ==
    /\ e.what = "connected"
    /\ IF e.id \in Banned \/ Steps(e.id) = {}
       THEN /\ connections' = Disconnected(e.id)
            /\ queue' = Tail(queue) \o Farewell(e.id)
            /\ UNCHANGED crew
       ELSE /\ Aboard(e.id, Nearest(e.id))
            /\ queue' = Tail(queue)
            /\ UNCHANGED connections
    /\ UNCHANGED <<lastId, hull, seat, tally>>

HandleLeft(e) ==
    /\ e.what = "left"
    /\ Despawn(e.id)
    /\ queue' = Tail(queue)
    /\ UNCHANGED <<net, hull, tally>>

(* The commands of a player: the hull it is bound to must be in the sim.   *)
Obeyed(e, do) ==
    /\ e.what = "command" /\ e.command.do = do
    /\ players[e.id] \in Afloat

Seated(c, h) == \E s \in DOMAIN seat : s[1] = h /\ seat[s] = c

(* A station whose health is gone refuses as well; which ones are broken   *)
(* is left open.                                                           *)
HandleEnter(e) ==
    LET h == players[e.id]
        s == <<h, e.command.arg>>
    IN  /\ Obeyed(e, "enter")
        /\ \/ /\ ~Seated(e.id, h) /\ seat[s] = Nobody
              /\ seat' = [seat EXCEPT ![s] = e.id]
           \/ UNCHANGED seat
        /\ queue' = Tail(queue)
        /\ UNCHANGED <<net, crew, hull, tally>>

HandleExit(e) ==
    /\ Obeyed(e, "exit")
    /\ \/ \E s \in DOMAIN seat : /\ s[1] = players[e.id] /\ seat[s] = e.id
                                 /\ seat' = [seat EXCEPT ![s] = Nobody]
       \/ ~Seated(e.id, players[e.id]) /\ UNCHANGED seat
    /\ queue' = Tail(queue)
    /\ UNCHANGED <<net, crew, hull, tally>>

(* handle_respawn: a player, dead, and a hull to return to, the lowest id. *)
FirstAlive == CHOOSE h \in Sound : \A g \in Sound : h <= g

HandleRespawn(e) ==
    /\ e.what = "command" /\ e.command.do = "respawn"
    /\ IF players[e.id] # Ashore /\ players[e.id] \notin Sound /\ Sound # {}
       THEN Aboard(e.id, FirstAlive) /\ seat' = Vacated(e.id)
       ELSE UNCHANGED <<crew, seat>>
    /\ queue' = Tail(queue)
    /\ UNCHANGED <<net, hull, tally>>

(* VoteKickState::cast.                                                    *)
ShareOf(n) == (Share * n + Whole - 1) \div Whole
Needed(online) == CHOOSE n \in {MinVotes, ShareOf(online)} : n >= MinVotes /\ n >= ShareOf(online)

AnyTarget(target) == TRUE  \* mutant: ballots for another player are counted
Running(target) == vote.target \in {Nobody, target}

Cast(voter, target) ==
    IF ~Running(target) \/ voter \in vote.votes
    THEN UNCHANGED <<tally, crew, seat, connections>> /\ queue' = Tail(queue)
    ELSE LET votes == vote.votes \cup {voter}
             cast == ballots \cup {<<voter, target>>}
         IN  IF Cardinality(votes) >= Needed(Cardinality(Online))
             THEN /\ vote' = Idle
                  /\ ballots' = {}
                  /\ IF target \in connections
                     THEN /\ connections' = Disconnected(target)
                          /\ queue' = Tail(queue) \o Farewell(target)
                          /\ Despawn(target)
                     ELSE UNCHANGED <<connections, crew, seat>> /\ queue' = Tail(queue)
             ELSE /\ vote' = [target |-> target, votes |-> votes, ttl |-> Window]
                  /\ ballots' = cast
                  /\ UNCHANGED <<crew, seat, connections>>
                  /\ queue' = Tail(queue)

HandleVote(e) ==
    /\ Obeyed(e, "vote")
    /\ IF e.command.arg \in Online
       THEN Cast(e.id, e.command.arg)
       ELSE UNCHANGED <<tally, crew, seat, connections>> /\ queue' = Tail(queue)
    /\ UNCHANGED <<lastId, hull>>

(* "ship not ready": no player, or a hull the simulation took.             *)
Refuse(e) ==
    /\ e.what = "command" /\ e.command.do # "respawn"
    /\ players[e.id] \notin Afloat
    /\ queue' = Tail(queue)
    /\ UNCHANGED <<net, crew, hull, seat, tally>>

Drain ==
    /\ queue # << >>
    /\ LET e == Head(queue)
       IN  \/ HandleConnected(e) \/ HandleLeft(e)
           \/ HandleEnter(e) \/ HandleExit(e) \/ HandleRespawn(e) \/ HandleVote(e) \/ Refuse(e)

-----------------------------------------------------------------------------
(* One tick: the simulation, the open vote's window, the crews of lost     *)
(* ships, the entity sync.                                                 *)

Fates(state) == CASE state = "sound"   -> {"sound", "sinking"}
                  [] state = "sinking" -> {"sinking", "gone"}
                  [] OTHER             -> {"gone"}

Undying == IF vote.ttl <= 1 THEN Idle ELSE vote  \* mutant: the window does not shrink
Resolved == IF vote.ttl <= 1 THEN Idle ELSE [vote EXCEPT !.ttl = @ - 1]

(* After the repair: a lost crew is spread over the ships left (by         *)
(* connection id; which ship is left open), or dropped with the last one.  *)
Dropped(orphans) == [c \in Ids |-> IF c \in orphans THEN Ashore ELSE players[c]]
LeftBound(orphans, berth) == players  \* mutant: the crew stays bound to the lost ship
Rebound(orphans, berth) == [c \in Ids |-> IF c \in orphans THEN berth[c] ELSE players[c]]

Tick ==
    /\ queue = << >>
    /\ hull' \in [Hulls -> {"sound", "sinking", "gone"}]
    /\ \A h \in Hulls : hull'[h] \in Fates(hull[h])
    /\ \E broken \in SUBSET DOMAIN seat :
          seat' = [s \in DOMAIN seat |->
                      IF s \in broken \/ hull'[s[1]] = "gone" THEN Nobody ELSE seat[s]]
    /\ vote' = Resolved
    /\ ballots' = IF vote' = Idle THEN {} ELSE ballots
    /\ LET left == {h \in Hulls : hull'[h] # "gone"}
           orphans == {c \in Online : players[c] \notin left}
       IN  IF left = {}
           THEN players' = Dropped(orphans) /\ viewers' = viewers \ orphans
           ELSE /\ \E berth \in [orphans -> left] : players' = Rebound(orphans, berth)
                /\ viewers' = viewers \cup orphans
    /\ grid' = [c \in Ids |-> IF players[c] # Ashore THEN players'[c] ELSE grid[c]]
    /\ UNCHANGED <<net, queue>>

-----------------------------------------------------------------------------
Next ==
    \/ Connect
    \/ \E c \in Ids : Leave(c) \/ \E command \in Commands : Send(c, command)
    \/ Drain
    \/ Tick

Spec == Init /\ [][Next]_vars

(* The drain runs until the queue is empty, with no bound of its own: that *)
(* the loop ticks at all rests on it outpacing the senders now and then.   *)
CatchUp == Drain /\ queue' = << >>
FairSpec == Spec /\ WF_vars(Drain) /\ SF_vars(CatchUp) /\ SF_vars(Tick)

-----------------------------------------------------------------------------
TypeOK ==
    /\ lastId \in 0..MaxId /\ connections \subseteq 1..lastId
    /\ queue \in Seq([what : {"connected", "left", "command"}, id : Ids,
                      command : Commands \cup {NoCommand}])
    /\ players \in [Ids -> Hulls \cup {Ashore}] /\ grid \in [Ids -> Hulls \cup {Ashore}]
    /\ viewers \subseteq Ids
    /\ hull \in [Hulls -> {"sound", "sinking", "gone"}]
    /\ seat \in [Hulls \X Posts -> Ids \cup {Nobody}]
    /\ vote \in [target : Ids \cup {Nobody}, votes : SUBSET Ids, ttl : 0..Window]
    /\ ballots \subseteq Ids \X Ids

(* The interest manager knows exactly the players of the loop, on the      *)
(* ships the loop has them on, and every one of those ships is in the      *)
(* simulation: joining, leaving, sinking, respawn and kick each touch all  *)
(* four places (match_.rs spawn_player, despawn_player; bugs 57 and 160).  *)
CrewsAreReal ==
    /\ grid = players /\ viewers = Online
    /\ \A c \in Online : players[c] \in Afloat

(* A station is held by a member of its ship's crew, who holds no other:   *)
(* no one who left, was kicked, drowned or respawned elsewhere blocks it   *)
(* (match_.rs despawn_player, bug 58).                                     *)
SeatsAreManned ==
    /\ \A s \in DOMAIN seat : seat[s] # Nobody => players[seat[s]] = s[1]
    /\ \A s, t \in DOMAIN seat : seat[s] # Nobody /\ seat[s] = seat[t] => s = t

(* When the loop has taken every event, the players are the connections:   *)
(* nobody admitted starves without a ship while one is left, nobody stays  *)
(* behind (main.rs ClientConnected, bug 751).                              *)
CrewIsTheConnected == queue = << >> /\ Afloat # {} => Online = connections

(* The loop throws a connection out for three reasons only: its address is *)
(* banned, no ship is left wherever in the roster one looks, or distinct   *)
(* players cast the quorum of ballots for exactly this player since the    *)
(* vote opened (main.rs target_ship_for_connection, votes.rs cast).        *)
Justified ==
    \A c \in connections \ connections' :
       Len(queue') = Len(queue) =>
          LET e == Head(queue)
              for == {b[1] : b \in {x \in ballots : x[2] = c}}
          IN  \/ e.what = "connected" /\ e.id = c /\ (c \in Banned \/ Afloat = {})
              \/ /\ e.what = "command" /\ e.command = [do |-> "vote", arg |-> c]
                 /\ Cardinality(for \cup {e.id}) >= Needed(Cardinality(Online))
ThrownOutForAReason == [][Justified]_vars

(* An open vote ends, in a verdict or by expiry: a tick shortens its       *)
(* window, every ballot re-arms it in full, and nobody casts two           *)
(* (votes.rs cast, resolve).                                               *)
VoteEnds == vote.target # Nobody ~> vote.target = Nobody
=============================================================================
