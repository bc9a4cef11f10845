--------------------------- MODULE MatchLoopProofs ---------------------------
(***************************************************************************)
(* The properties of MatchLoop for every roster, crew, quorum and length   *)
(* of the queue.                                                           *)
(*                                                                         *)
(* CrewsAreReal is inductive beside the types.  SeatsAreManned is not: a   *)
(* player bound a second time would leave its seat on the first ship, so   *)
(* that one needs to know that an id connects once (OneEventEach,          *)
(* EventsTell).  CrewIsTheConnected speaks of an empty queue, and rests on *)
(* what a full one still owes each connection (Owed).  For the reasons of  *)
(* a disconnect the open vote has to be the ballots it counts.             *)
(***************************************************************************)
EXTENDS MatchLoop, TLAPS, FiniteSetTheorems, WellFoundedInduction

Events == [what : {"connected", "left", "command"}, id : Ids, command : Commands \cup {NoCommand}]

(* One connection reports itself once, and its end once, in this order.    *)
OneEventEach ==
    \A i, j \in 1..Len(queue) :
       queue[i].id = queue[j].id =>
          /\ queue[i].what = queue[j].what /\ queue[i].what # "command" => i = j
          /\ queue[i].what = "connected" /\ queue[j].what = "left" => i < j

(* Who is announced is not aboard yet; who has left is off the table.      *)
EventsTell ==
    \A i \in 1..Len(queue) :
       /\ queue[i].what = "connected" => players[queue[i].id] = Ashore
       /\ queue[i].what = "left" => queue[i].id \notin connections
       /\ queue[i].id <= lastId

Pending(what, c) == \E i \in 1..Len(queue) : queue[i].what = what /\ queue[i].id = c

(* Where table and crew differ, the queue holds the event that mends it.   *)
Owed ==
    \A c \in Ids :
       /\ players[c] # Ashore => c <= lastId
       /\ players[c] # Ashore /\ c \notin connections => Pending("left", c)
       /\ c \in connections /\ players[c] = Ashore => Pending("connected", c) \/ Afloat = {}
       /\ Pending("connected", c) /\ c \notin connections => Pending("left", c)

QueueInv == OneEventEach /\ EventsTell /\ Owed

(* The open vote is made of ballots for its target.                        *)
VoteIsBallots ==
    /\ vote.target = Nobody => vote.votes = {}
    /\ \A v \in vote.votes : <<v, vote.target>> \in ballots

-----------------------------------------------------------------------------
(* Numbers.                                                                *)
LEMMA Minimum ==
    ASSUME NEW S \in SUBSET Nat, S # {}
    PROVE  \E m \in S : \A k \in S : m <= k
<1> DEFINE Less == {ss \in Nat \X Nat : ss[1] < ss[2]}
<1>1. Less = OpToRel(<, Nat)
  BY DEF OpToRel
<1>2. IsWellFoundedOn(Less, Nat)
  BY <1>1, NatLessThanWellFounded
<1>3. PICK m \in S : \A k \in S : <<k, m>> \notin Less
  BY <1>2, WFMin
<1>4. ASSUME NEW k \in S PROVE m <= k
  <2>1. k \in Nat /\ m \in Nat /\ <<k, m>> \notin Less
    BY <1>3
  <2>2. ~(k < m)
    BY <2>1
  <2> QED BY <2>1, <2>2
<1> QED BY <1>4

LEMMA Remainder ==
    ASSUME NEW n \in Nat \ {0}, NEW q \in Nat, NEW r \in 0..(n - 1)
    PROVE  (n * q + r) % n = r
OBVIOUS

LEMMA SlotIsHull == ASSUME NEW i \in Nat PROVE Slot(i) \in Hulls
BY MatchAssumption DEF Slot, Hulls

(* The walk over the roster passes every ship.                             *)
LEMMA WalkReachesAll ==
    ASSUME NEW c \in Nat, NEW h \in Hulls
    PROVE  \E k \in 0..(NHulls - 1) : Slot(c + k) = h
<1> DEFINE r == c % NHulls
           q == c \div NHulls
<1>1. /\ NHulls \in Nat \ {0} /\ h \in Nat /\ 1 <= h /\ h <= NHulls
      /\ r \in 0..(NHulls - 1) /\ q \in Nat /\ c = NHulls * q + r
  BY MatchAssumption DEF Hulls
<1> HIDE DEF r, q
<1>2. CASE r <= h - 1
  <2>1. (h - 1) - r \in 0..(NHulls - 1) /\ c + ((h - 1) - r) = NHulls * q + (h - 1)
    BY <1>1, <1>2
  <2>2. (NHulls * q + (h - 1)) % NHulls = h - 1
    BY <1>1, Remainder
  <2>3. Slot(c + ((h - 1) - r)) = h
    BY <1>1, <2>1, <2>2 DEF Slot
  <2> QED BY <2>1, <2>3
<1>3. CASE r > h - 1
  <2>1. /\ ((h - 1) - r) + NHulls \in 0..(NHulls - 1)
        /\ c + (((h - 1) - r) + NHulls) = NHulls * (q + 1) + (h - 1)
    BY <1>1, <1>3
  <2>2. (NHulls * (q + 1) + (h - 1)) % NHulls = h - 1
    BY <1>1, Remainder
  <2>3. Slot(c + (((h - 1) - r) + NHulls)) = h
    BY <1>1, <2>1, <2>2 DEF Slot
  <2> QED BY <2>1, <2>3
<1> QED BY <1>1, <1>2, <1>3

(* target_ship_for_connection: a ship of the simulation, if there is one.  *)
LEMMA NearestIsAfloat ==
    ASSUME NEW c \in Nat, Steps(c) # {}
    PROVE  Nearest(c) \in Afloat
<1>1. Steps(c) \in SUBSET Nat
  BY MatchAssumption DEF Steps
<1>2. \E k \in Steps(c) : \A j \in Steps(c) : k <= j
  BY <1>1, Minimum
<1>3. (CHOOSE k \in Steps(c) : \A j \in Steps(c) : k <= j) \in Steps(c)
  BY <1>2
<1> QED BY <1>3 DEF Nearest, Steps

LEMMA NoStepsNoShip ==
    ASSUME NEW c \in Nat, Steps(c) = {}
    PROVE  Afloat = {}
<1>1. ASSUME NEW h \in Afloat PROVE FALSE
  <2>1. h \in Hulls
    BY DEF Afloat
  <2>2. PICK k \in 0..(NHulls - 1) : Slot(c + k) = h
    BY <2>1, WalkReachesAll
  <2> QED BY <2>2 DEF Steps
<1> QED BY <1>1

LEMMA FirstAliveIsSound ==
    ASSUME Sound # {}
    PROVE  FirstAlive \in Sound /\ Sound \subseteq Afloat
<1>1. Sound \in SUBSET Nat
  BY DEF Sound, Hulls
<1>2. \E h \in Sound : \A g \in Sound : h <= g
  BY <1>1, Minimum
<1> QED BY <1>2 DEF FirstAlive, Sound, Afloat

-----------------------------------------------------------------------------
(* What one event of the drain does to the crews.                          *)
LEMMA AboardKeeps ==
    ASSUME TypeOK, NEW c \in Ids, NEW h \in Afloat, Aboard(c, h), hull' = hull
    PROVE  /\ players' \in [Ids -> Hulls \cup {Ashore}] /\ grid' \in [Ids -> Hulls \cup {Ashore}]
           /\ viewers' \subseteq Ids
           /\ players'[c] = h /\ h # Ashore /\ \A d \in Ids \ {c} : players'[d] = players[d]
           /\ CrewsAreReal => CrewsAreReal'
<1>1. h \in Hulls /\ h # Ashore /\ Afloat' = Afloat
  BY DEF Afloat, Hulls, Ashore
<1>2. Online' = Online \cup {c}
  BY <1>1 DEF Aboard, Online, TypeOK
<1>3. players' \in [Ids -> Hulls \cup {Ashore}] /\ grid' \in [Ids -> Hulls \cup {Ashore}] /\ viewers' \subseteq Ids
  BY <1>1 DEF Aboard, TypeOK
<1>4. players'[c] = h /\ \A d \in Ids \ {c} : players'[d] = players[d]
  BY DEF Aboard, TypeOK
<1>5. ASSUME CrewsAreReal PROVE CrewsAreReal'
  <2>1. grid' = players' /\ viewers' = Online'
    BY <1>2, <1>5 DEF Aboard, CrewsAreReal
  <2>2. ASSUME NEW d \in Online' PROVE players'[d] \in Afloat'
    BY <1>1, <1>2, <1>4, <1>5 DEF CrewsAreReal, Online
  <2> QED BY <2>1, <2>2 DEF CrewsAreReal
<1> QED BY <1>1, <1>3, <1>4, <1>5

LEMMA VacatedSeats ==
    ASSUME TypeOK, NEW c \in Ids
    PROVE  /\ Vacated(c) \in [Hulls \X Posts -> Ids \cup {Nobody}]
           /\ \A s \in Hulls \X Posts : Vacated(c)[s] # Nobody => Vacated(c)[s] = seat[s]
           /\ SeatsAreManned => \A s \in Hulls \X Posts : Vacated(c)[s] # c
<1>1. DOMAIN seat = Hulls \X Posts /\ c # Nobody
  BY DEF TypeOK, Ids, Nobody
<1>2. \A s \in Hulls \X Posts :
         Vacated(c)[s] = IF s[1] = players[c] /\ seat[s] = c THEN Nobody ELSE seat[s]
  BY <1>1 DEF Vacated
<1> QED BY <1>1, <1>2 DEF Vacated, TypeOK, SeatsAreManned

LEMMA DespawnKeeps ==
    ASSUME TypeOK, NEW c \in Ids, Despawn(c), hull' = hull
    PROVE  /\ players' \in [Ids -> Hulls \cup {Ashore}] /\ grid' \in [Ids -> Hulls \cup {Ashore}]
           /\ viewers' \subseteq Ids /\ seat' \in [Hulls \X Posts -> Ids \cup {Nobody}]
           /\ players'[c] = Ashore /\ \A d \in Ids \ {c} : players'[d] = players[d]
           /\ CrewsAreReal => CrewsAreReal'
           /\ SeatsAreManned => SeatsAreManned'
<1>1. CASE players[c] = Ashore
  BY <1>1 DEF Despawn, TypeOK, CrewsAreReal, SeatsAreManned, Online, Afloat, crew
<1>2. CASE players[c] # Ashore
  <2>1. Gone(c) /\ seat' = Vacated(c)
    BY <1>2 DEF Despawn
  <2>2. /\ players' \in [Ids -> Hulls \cup {Ashore}] /\ grid' \in [Ids -> Hulls \cup {Ashore}]
        /\ viewers' \subseteq Ids
        /\ players'[c] = Ashore /\ \A d \in Ids \ {c} : players'[d] = players[d]
    BY <2>1 DEF Gone, TypeOK
  <2>3. Online' = Online \ {c} /\ Afloat' = Afloat
    BY <2>2 DEF Online, Afloat
  <2>4. ASSUME CrewsAreReal PROVE CrewsAreReal'
    <3>1. grid' = players' /\ viewers' = Online'
      BY <2>1, <2>3, <2>4 DEF Gone, CrewsAreReal
    <3>2. ASSUME NEW d \in Online' PROVE players'[d] \in Afloat'
      BY <2>2, <2>3, <2>4 DEF CrewsAreReal, Online
    <3> QED BY <3>1, <3>2 DEF CrewsAreReal
  <2>5. ASSUME SeatsAreManned PROVE SeatsAreManned'
    <3>1. DOMAIN seat = Hulls \X Posts /\ DOMAIN seat' = Hulls \X Posts
      BY <2>1, VacatedSeats DEF TypeOK
    <3>2. \A s \in Hulls \X Posts : seat'[s] # Nobody => seat'[s] = seat[s] /\ seat'[s] # c /\ seat[s] \in Ids
      BY <2>1, <2>5, VacatedSeats DEF TypeOK
    <3>3. ASSUME NEW s \in Hulls \X Posts, seat'[s] # Nobody PROVE players'[seat'[s]] = s[1]
      BY <2>2, <2>5, <3>1, <3>2, <3>3 DEF SeatsAreManned
    <3>4. ASSUME NEW s \in Hulls \X Posts, NEW t \in Hulls \X Posts, seat'[s] # Nobody, seat'[s] = seat'[t]
          PROVE  s = t
      BY <2>5, <3>1, <3>2, <3>4 DEF SeatsAreManned
    <3> QED BY <3>1, <3>3, <3>4 DEF SeatsAreManned
  <2> QED BY <2>1, <2>2, <2>4, <2>5, VacatedSeats
<1> QED BY <1>1, <1>2

-----------------------------------------------------------------------------
(* The types.                                                              *)
LEMMA HeadAndTail ==
    ASSUME TypeOK, queue # << >>
    PROVE  /\ Head(queue) \in Events /\ Head(queue) = queue[1] /\ Len(queue) \in Nat /\ Len(queue) >= 1
           /\ Tail(queue) \in Seq(Events) /\ Len(Tail(queue)) = Len(queue) - 1
           /\ \A i \in 1..(Len(queue) - 1) : Tail(queue)[i] = queue[i + 1]
<1>1. queue \in Seq(Events)
  BY DEF TypeOK, Events
<1> QED BY <1>1

LEMMA Appended ==
    ASSUME NEW q \in Seq(Events), NEW e \in Events
    PROVE  /\ Append(q, e) \in Seq(Events) /\ Len(q) \in Nat /\ Len(Append(q, e)) = Len(q) + 1
           /\ \A i \in 1..Len(q) : Append(q, e)[i] = q[i]
           /\ Append(q, e)[Len(q) + 1] = e
           /\ q \o <<e>> = Append(q, e)
           /\ q \o << >> = q
OBVIOUS

LEMMA EventTyped ==
    ASSUME NEW c \in Ids
    PROVE  /\ Event("left", c, NoCommand) \in Events
           /\ Event("connected", c, NoCommand) \in Events
           /\ \A command \in Commands : Event("command", c, command) \in Events
BY DEF Event, Events

LEMMA FarewellTyped ==
    ASSUME TypeOK, queue # << >>, NEW c \in Ids
    PROVE  Tail(queue) \o Farewell(c) \in Seq(Events)
BY HeadAndTail, Appended, EventTyped DEF Farewell

LEMMA InitTyped == Init => TypeOK
<1> SUFFICES ASSUME Init PROVE TypeOK
  OBVIOUS
<1>1. Idle \in [target : Ids \cup {Nobody}, votes : SUBSET Ids, ttl : 0..Window]
  BY MatchAssumption DEF Idle, Nobody
<1> QED BY <1>1, MatchAssumption DEF Init, TypeOK, Ids, Hulls

LEMMA CastTyped ==
    ASSUME TypeOK, queue # << >>, NEW voter \in Ids, NEW target \in Ids, Cast(voter, target)
    PROVE  /\ vote' \in [target : Ids \cup {Nobody}, votes : SUBSET Ids, ttl : 0..Window]
           /\ ballots' \subseteq Ids \X Ids
           /\ \/ connections' = connections /\ queue' = Tail(queue) /\ UNCHANGED <<crew, seat>>
              \/ /\ target \in connections /\ connections' = connections \ {target}
                 /\ queue' = Tail(queue) \o Farewell(target)
                 /\ Despawn(target)
<1>1. Idle \in [target : Ids \cup {Nobody}, votes : SUBSET Ids, ttl : 0..Window]
  BY MatchAssumption DEF Idle, Nobody
<1>2. [target |-> target, votes |-> vote.votes \cup {voter}, ttl |-> Window]
         \in [target : Ids \cup {Nobody}, votes : SUBSET Ids, ttl : 0..Window]
  BY MatchAssumption DEF TypeOK
<1>3. CASE ~Running(target) \/ voter \in vote.votes
  BY <1>3 DEF Cast, tally, TypeOK
<1>4. CASE ~(~Running(target) \/ voter \in vote.votes)
  <2>1. CASE Cardinality(vote.votes \cup {voter}) >= Needed(Cardinality(Online))
    BY <1>1, <1>4, <2>1 DEF Cast, Disconnected
  <2>2. CASE ~(Cardinality(vote.votes \cup {voter}) >= Needed(Cardinality(Online)))
    BY <1>2, <1>4, <2>2 DEF Cast, TypeOK
  <2> QED BY <2>1, <2>2
<1> QED BY <1>3, <1>4

LEMMA DrainTyped ==
    ASSUME TypeOK, Drain
    PROVE  TypeOK'
<1> DEFINE e == Head(queue)
<1>1. /\ queue # << >> /\ e \in Events /\ e.id \in Ids /\ Tail(queue) \in Seq(Events)
      /\ Ids \subseteq Nat
  BY HeadAndTail DEF Drain, Events, Ids
<1> HIDE DEF e
<1>2. TypeOK' <=>
         /\ lastId' \in 0..MaxId /\ connections' \subseteq 1..lastId'
         /\ queue' \in Seq(Events)
         /\ players' \in [Ids -> Hulls \cup {Ashore}] /\ grid' \in [Ids -> Hulls \cup {Ashore}]
         /\ viewers' \subseteq Ids
         /\ hull' \in [Hulls -> {"sound", "sinking", "gone"}]
         /\ seat' \in [Hulls \X Posts -> Ids \cup {Nobody}]
         /\ vote' \in [target : Ids \cup {Nobody}, votes : SUBSET Ids, ttl : 0..Window]
         /\ ballots' \subseteq Ids \X Ids
  BY DEF TypeOK, Events
<1>3. CASE HandleConnected(e)
  <2>1. CASE e.id \in Banned \/ Steps(e.id) = {}
    <3>1. queue' \in Seq(Events)
      BY <1>1, <1>3, <2>1, FarewellTyped DEF HandleConnected
    <3> QED BY <1>2, <1>3, <2>1, <3>1 DEF HandleConnected, Disconnected, crew, tally, TypeOK
  <2>2. CASE ~(e.id \in Banned \/ Steps(e.id) = {})
    <3>1. Nearest(e.id) \in Afloat /\ Aboard(e.id, Nearest(e.id)) /\ hull' = hull
      BY <1>1, <1>3, <2>2, NearestIsAfloat DEF HandleConnected
    <3>2. queue' \in Seq(Events)
      BY <1>1, <1>3, <2>2 DEF HandleConnected
    <3> QED BY <1>1, <1>2, <1>3, <2>2, <3>1, <3>2, AboardKeeps DEF HandleConnected, tally, TypeOK
  <2> QED BY <2>1, <2>2
<1>4. CASE HandleLeft(e)
  BY <1>1, <1>2, <1>4, DespawnKeeps DEF HandleLeft, net, tally, TypeOK
<1>5. CASE HandleEnter(e) \/ HandleExit(e) \/ Refuse(e)
  <2>1. seat' \in [Hulls \X Posts -> Ids \cup {Nobody}]
    BY <1>1, <1>5 DEF HandleEnter, HandleExit, Refuse, TypeOK
  <2> QED BY <1>1, <1>2, <1>5, <2>1 DEF HandleEnter, HandleExit, Refuse, net, crew, tally, TypeOK
<1>6. CASE HandleRespawn(e)
  <2>1. CASE players[e.id] # Ashore /\ players[e.id] \notin Sound /\ Sound # {}
    <3>1. FirstAlive \in Afloat /\ Aboard(e.id, FirstAlive) /\ hull' = hull /\ seat' = Vacated(e.id)
      BY <1>6, <2>1, FirstAliveIsSound DEF HandleRespawn
    <3> QED BY <1>1, <1>2, <1>6, <3>1, AboardKeeps, VacatedSeats DEF HandleRespawn, net, tally, TypeOK
  <2>2. CASE ~(players[e.id] # Ashore /\ players[e.id] \notin Sound /\ Sound # {})
    BY <1>1, <1>2, <1>6, <2>2 DEF HandleRespawn, net, crew, tally, TypeOK
  <2> QED BY <2>1, <2>2
<1>7. CASE HandleVote(e)
  <2>1. CASE e.command.arg \in Online
    <3>1. e.command.arg \in Ids /\ Cast(e.id, e.command.arg) /\ lastId' = lastId /\ hull' = hull
      BY <1>7, <2>1 DEF HandleVote, Online
    <3>2. /\ vote' \in [target : Ids \cup {Nobody}, votes : SUBSET Ids, ttl : 0..Window]
          /\ ballots' \subseteq Ids \X Ids
      BY <1>1, <3>1, CastTyped
    <3>3. CASE connections' = connections /\ queue' = Tail(queue) /\ UNCHANGED <<crew, seat>>
      BY <1>1, <1>2, <3>1, <3>2, <3>3 DEF crew, TypeOK
    <3>4. CASE /\ connections' = connections \ {e.command.arg}
               /\ queue' = Tail(queue) \o Farewell(e.command.arg)
               /\ Despawn(e.command.arg)
      <4>1. queue' \in Seq(Events)
        BY <1>1, <3>1, <3>4, FarewellTyped
      <4> QED BY <1>2, <3>1, <3>2, <3>4, <4>1, DespawnKeeps DEF TypeOK
    <3> QED BY <1>1, <3>1, <3>3, <3>4, CastTyped
  <2>2. CASE e.command.arg \notin Online
    BY <1>1, <1>2, <1>7, <2>2 DEF HandleVote, crew, tally, TypeOK
  <2> QED BY <2>1, <2>2
<1> QED BY <1>3, <1>4, <1>5, <1>6, <1>7 DEF Drain, e

LEMMA TickTyped ==
    ASSUME TypeOK, Tick
    PROVE  TypeOK'
<1>1. seat' \in [Hulls \X Posts -> Ids \cup {Nobody}]
  BY DEF Tick, TypeOK
<1>2. vote' \in [target : Ids \cup {Nobody}, votes : SUBSET Ids, ttl : 0..Window]
  <2>1. Idle \in [target : Ids \cup {Nobody}, votes : SUBSET Ids, ttl : 0..Window]
    BY MatchAssumption DEF Idle, Nobody
  <2>2. CASE vote.ttl <= 1
    BY <2>1, <2>2 DEF Tick, Resolved
  <2>3. CASE ~(vote.ttl <= 1)
    <3>1. vote.ttl - 1 \in 0..Window
      BY <2>3, MatchAssumption DEF TypeOK
    <3> QED BY <2>3, <3>1 DEF Tick, Resolved, TypeOK
  <2> QED BY <2>2, <2>3
<1>3. ballots' \subseteq Ids \X Ids
  BY DEF Tick, TypeOK
<1>4. players' \in [Ids -> Hulls \cup {Ashore}] /\ viewers' \subseteq Ids
  <2> DEFINE left == {h \in Hulls : hull'[h] # "gone"}
             orphans == {c \in Online : players[c] \notin left}
  <2>0. orphans \subseteq Ids
    BY DEF Online
  <2>1. CASE left = {}
    BY <2>1 DEF Tick, Dropped, TypeOK, Online
  <2>2. CASE left # {}
    <3>1. PICK berth \in [orphans -> left] : players' = Rebound(orphans, berth)
      BY <2>2 DEF Tick
    <3> QED BY <2>0, <2>2, <3>1 DEF Tick, Rebound, TypeOK
  <2> QED BY <2>1, <2>2
<1>5. grid' \in [Ids -> Hulls \cup {Ashore}]
  BY <1>4 DEF Tick, TypeOK
<1> QED BY <1>1, <1>2, <1>3, <1>4, <1>5 DEF Tick, TypeOK, net

LEMMA NextTyped == TypeOK /\ [Next]_vars => TypeOK'
<1> SUFFICES ASSUME TypeOK, [Next]_vars PROVE TypeOK'
  OBVIOUS
<1>1. CASE Connect
  <2>1. lastId + 1 \in Ids /\ lastId' = lastId + 1 /\ lastId \in Nat
    BY <1>1, MatchAssumption DEF Connect, Ids, TypeOK
  <2>2. queue \in Seq(Events) /\ queue' \in Seq(Events)
    BY <1>1, <2>1, EventTyped, Appended DEF Connect, TypeOK, Events
  <2>3. lastId' \in 0..MaxId /\ connections' \subseteq 1..lastId'
    BY <1>1, <2>1 DEF Connect, TypeOK, Ids
  <2> QED BY <1>1, <2>2, <2>3 DEF Connect, TypeOK, crew, tally, Events
<1>2. ASSUME NEW c \in Ids, Leave(c) PROVE TypeOK'
  <2>1. queue \in Seq(Events) /\ queue' \in Seq(Events)
    BY <1>2, EventTyped, Appended DEF Leave, TypeOK, Events
  <2> QED BY <1>2, <2>1 DEF Leave, TypeOK, crew, tally, Events
<1>3. ASSUME NEW c \in Ids, NEW command \in Commands, Send(c, command) PROVE TypeOK'
  <2>1. queue \in Seq(Events) /\ queue' \in Seq(Events)
    BY <1>3, EventTyped, Appended DEF Send, TypeOK, Events
  <2> QED BY <1>3, <2>1 DEF Send, TypeOK, net, crew, tally, Events
<1>4. CASE Drain
  BY <1>4, DrainTyped
<1>5. CASE Tick
  BY <1>5, TickTyped
<1>6. CASE UNCHANGED vars
  BY <1>6 DEF vars, net, crew, tally, TypeOK
<1> QED BY <1>1, <1>2, <1>3, <1>4, <1>5, <1>6 DEF Next

THEOREM TypeCorrect == Spec => []TypeOK
BY InitTyped, NextTyped, PTL DEF Spec

-----------------------------------------------------------------------------
(* Crews.  Every event leaves the four places alone, takes one player      *)
(* aboard a ship of the simulation, or takes one out of all of them.       *)
CrewStep ==
    \/ UNCHANGED <<crew, seat>>
    \/ \E c \in Ids, h \in Afloat :
          /\ Aboard(c, h)
          /\ \/ players[c] = Ashore /\ Pending("connected", c) /\ seat' = seat
             \/ seat' = Vacated(c)
    \/ \E c \in Ids : Despawn(c)
    \/ \E c \in Ids, p \in Posts :
          LET s == <<players[c], p>>
          IN  /\ UNCHANGED crew /\ players[c] \in Afloat
              /\ ~Seated(c, players[c])
              /\ seat' = [seat EXCEPT ![s] = c]
    \/ UNCHANGED crew /\ \E s \in DOMAIN seat : seat' = [seat EXCEPT ![s] = Nobody]

LEMMA DrainCrew ==
    ASSUME TypeOK, EventsTell, Drain
    PROVE  CrewStep /\ hull' = hull
<1> DEFINE e == Head(queue)
<1>1. /\ queue # << >> /\ e \in Events /\ e.id \in Ids /\ Ids \subseteq Nat
      /\ e = queue[1] /\ 1 \in 1..Len(queue)
  BY HeadAndTail DEF Drain, Events, Ids
<1> HIDE DEF e
<1>2. CASE HandleConnected(e)
  <2>1. CASE e.id \in Banned \/ Steps(e.id) = {}
    BY <1>2, <2>1 DEF HandleConnected, CrewStep
  <2>2. CASE ~(e.id \in Banned \/ Steps(e.id) = {})
    <3>1. Nearest(e.id) \in Afloat /\ Aboard(e.id, Nearest(e.id)) /\ hull' = hull /\ seat' = seat
      BY <1>1, <1>2, <2>2, NearestIsAfloat DEF HandleConnected
    <3>2. players[e.id] = Ashore /\ Pending("connected", e.id)
      BY <1>1, <1>2 DEF HandleConnected, EventsTell, Pending
    <3> QED BY <1>1, <3>1, <3>2 DEF CrewStep
  <2> QED BY <2>1, <2>2
<1>3. CASE HandleLeft(e)
  BY <1>1, <1>3 DEF HandleLeft, CrewStep
<1>4. CASE HandleEnter(e)
  <2>1. e.command.arg \in Posts
    BY <1>1, <1>4 DEF HandleEnter, Obeyed, Events, Commands, NoCommand
  <2> QED BY <1>1, <1>4, <2>1 DEF HandleEnter, Obeyed, CrewStep
<1>5. CASE HandleExit(e)
  BY <1>5 DEF HandleExit, CrewStep
<1>6. CASE HandleRespawn(e)
  <2>1. CASE players[e.id] # Ashore /\ players[e.id] \notin Sound /\ Sound # {}
    <3>1. FirstAlive \in Afloat /\ Aboard(e.id, FirstAlive) /\ hull' = hull /\ seat' = Vacated(e.id)
      BY <1>6, <2>1, FirstAliveIsSound DEF HandleRespawn
    <3> QED BY <1>1, <3>1 DEF CrewStep
  <2>2. CASE ~(players[e.id] # Ashore /\ players[e.id] \notin Sound /\ Sound # {})
    BY <1>6, <2>2 DEF HandleRespawn, CrewStep
  <2> QED BY <2>1, <2>2
<1>7. CASE HandleVote(e)
  <2>1. CASE e.command.arg \in Online
    <3>1. e.command.arg \in Ids /\ Cast(e.id, e.command.arg) /\ hull' = hull
      BY <1>7, <2>1 DEF HandleVote, Online
    <3> QED BY <1>1, <3>1, CastTyped DEF CrewStep
  <2>2. CASE e.command.arg \notin Online
    BY <1>7, <2>2 DEF HandleVote, CrewStep
  <2> QED BY <2>1, <2>2
<1>8. CASE Refuse(e)
  BY <1>8 DEF Refuse, CrewStep
<1> QED BY <1>2, <1>3, <1>4, <1>5, <1>6, <1>7, <1>8 DEF Drain, e

LEMMA DrainCrews ==
    ASSUME TypeOK, CrewsAreReal, CrewStep, hull' = hull
    PROVE  CrewsAreReal'
<1>1. CASE UNCHANGED crew
  BY <1>1 DEF CrewsAreReal, crew, Online, Afloat
<1>2. ASSUME NEW c \in Ids, NEW h \in Afloat, Aboard(c, h) PROVE CrewsAreReal'
  BY <1>2, AboardKeeps
<1>3. ASSUME NEW c \in Ids, Despawn(c) PROVE CrewsAreReal'
  BY <1>3, DespawnKeeps
<1> QED BY <1>1, <1>2, <1>3 DEF CrewStep

(* The repair after a tick reaches every player of a lost ship.            *)
LEMMA TickPlayers ==
    ASSUME TypeOK, Tick
    PROVE  /\ Afloat' = {h \in Hulls : hull'[h] # "gone"} /\ Afloat' \subseteq Afloat
           /\ \A c \in Ids : IF players[c] = Ashore THEN players'[c] = Ashore
                             ELSE IF players[c] \in Afloat' THEN players'[c] = players[c]
                             ELSE IF Afloat' = {} THEN players'[c] = Ashore
                             ELSE players'[c] \in Afloat'
           /\ viewers' = IF Afloat' = {} THEN viewers \ {c \in Online : players[c] \notin Afloat'}
                         ELSE viewers \cup {c \in Online : players[c] \notin Afloat'}
<1> DEFINE left == {h \in Hulls : hull'[h] # "gone"}
           orphans == {c \in Online : players[c] \notin left}
<1>1. Afloat' = left
  BY DEF Afloat
<1>2. Afloat' \subseteq Afloat
  BY DEF Tick, Fates, TypeOK, Afloat
<1>3. CASE left = {}
  BY <1>1, <1>2, <1>3 DEF Tick, Dropped, TypeOK, Online
<1>4. CASE left # {}
  <2>1. PICK berth \in [orphans -> left] : players' = Rebound(orphans, berth)
    BY <1>4 DEF Tick
  <2>2. viewers' = viewers \cup orphans
    BY <1>4 DEF Tick
  <2> QED BY <1>1, <1>2, <1>4, <2>1, <2>2 DEF Rebound, Online
<1> QED BY <1>3, <1>4

LEMMA TickCrews ==
    ASSUME TypeOK, CrewsAreReal, Tick
    PROVE  CrewsAreReal'
<1>1. players' \in [Ids -> Hulls \cup {Ashore}] /\ grid' \in [Ids -> Hulls \cup {Ashore}]
  BY TickTyped DEF TypeOK
<1>2. Ashore \notin Afloat'
  BY DEF Afloat, Hulls, Ashore
<1>3. ASSUME NEW c \in Ids PROVE grid'[c] = players'[c]
  <2>1. grid'[c] = IF players[c] # Ashore THEN players'[c] ELSE grid[c]
    BY DEF Tick
  <2> QED BY <2>1, TickPlayers DEF CrewsAreReal
<1>4. grid' = players'
  BY <1>1, <1>3
<1>5. Online' = IF Afloat' = {} THEN Online \ {c \in Online : players[c] \notin Afloat'} ELSE Online
  <2>1. ASSUME NEW c \in Ids
        PROVE  players'[c] # Ashore <=> players[c] # Ashore /\ (players[c] \in Afloat' \/ Afloat' # {})
    BY <1>2, TickPlayers
  <2> QED BY <2>1 DEF Online
<1>6. viewers' = Online'
  BY <1>5, TickPlayers DEF CrewsAreReal, Online
<1>7. ASSUME NEW c \in Online' PROVE players'[c] \in Afloat'
  BY <1>2, TickPlayers DEF Online
<1> QED BY <1>4, <1>6, <1>7 DEF CrewsAreReal

-----------------------------------------------------------------------------
(* Seats.                                                                  *)
LEMMA DrainSeats ==
    ASSUME TypeOK, SeatsAreManned, CrewStep, hull' = hull
    PROVE  SeatsAreManned'
<1>1. DOMAIN seat = Hulls \X Posts /\ seat \in [Hulls \X Posts -> Ids \cup {Nobody}] /\ Nobody \notin Ids
  BY DEF TypeOK, Ids, Nobody
<1>2. CASE UNCHANGED <<crew, seat>>
  BY <1>2 DEF SeatsAreManned, crew
<1>3. ASSUME NEW c \in Ids, NEW h \in Afloat, Aboard(c, h),
             \/ players[c] = Ashore /\ seat' = seat
             \/ seat' = Vacated(c)
      PROVE  SeatsAreManned'
  <2>1. /\ DOMAIN seat' = Hulls \X Posts
        /\ \A s \in Hulls \X Posts : seat'[s] # Nobody => seat'[s] = seat[s] /\ seat'[s] # c /\ seat[s] \in Ids
    <3>1. CASE players[c] = Ashore /\ seat' = seat
      <4>1. \A s \in Hulls \X Posts : s[1] # Ashore
        BY DEF Hulls, Ashore
      <4> QED BY <1>1, <3>1, <4>1 DEF SeatsAreManned
    <3>2. CASE seat' = Vacated(c)
      BY <1>1, <3>2, VacatedSeats
    <3> QED BY <1>3, <3>1, <3>2
  <2>2. \A d \in Ids \ {c} : players'[d] = players[d]
    BY <1>3 DEF Aboard
  <2> QED BY <1>1, <2>1, <2>2 DEF SeatsAreManned
<1>4. ASSUME NEW c \in Ids, Despawn(c) PROVE SeatsAreManned'
  BY <1>4, DespawnKeeps
<1>5. ASSUME NEW c \in Ids, NEW p \in Posts, UNCHANGED crew, players[c] \in Afloat,
             ~Seated(c, players[c]), seat' = [seat EXCEPT ![<<players[c], p>>] = c]
      PROVE  SeatsAreManned'
  <2> DEFINE s == <<players[c], p>>
  <2>1. s \in Hulls \X Posts /\ s[1] = players[c]
    BY <1>5 DEF Afloat
  <2>2. \A t \in Hulls \X Posts : seat[t] # c
    BY <1>1, <1>5 DEF Seated, SeatsAreManned
  <2>3. DOMAIN seat' = Hulls \X Posts /\ \A t \in Hulls \X Posts : seat'[t] = IF t = s THEN c ELSE seat[t]
    BY <1>1, <1>5, <2>1
  <2> HIDE DEF s
  <2>4. players' = players
    BY <1>5 DEF crew
  <2> QED BY <1>1, <2>1, <2>2, <2>3, <2>4 DEF SeatsAreManned
<1>6. ASSUME UNCHANGED crew, NEW s \in DOMAIN seat, seat' = [seat EXCEPT ![s] = Nobody]
      PROVE  SeatsAreManned'
  BY <1>6 DEF SeatsAreManned, crew
<1> QED BY <1>2, <1>3, <1>4, <1>5, <1>6 DEF CrewStep

LEMMA TickSeats ==
    ASSUME TypeOK, SeatsAreManned, Tick
    PROVE  SeatsAreManned'
<1>1. PICK broken \in SUBSET DOMAIN seat :
         seat' = [s \in DOMAIN seat |-> IF s \in broken \/ hull'[s[1]] = "gone" THEN Nobody ELSE seat[s]]
  BY DEF Tick
<1>2. \A s \in DOMAIN seat' : seat'[s] # Nobody => seat'[s] = seat[s] /\ hull'[s[1]] # "gone"
  BY <1>1
<1>3. DOMAIN seat' = DOMAIN seat /\ DOMAIN seat = Hulls \X Posts
  BY <1>1 DEF TypeOK
<1>4. ASSUME NEW s \in DOMAIN seat', seat'[s] # Nobody PROVE players'[seat'[s]] = s[1]
  <2>1. seat'[s] \in Ids /\ players[seat'[s]] = s[1] /\ s[1] \in Afloat' /\ s[1] # Ashore
    BY <1>2, <1>3, <1>4, TickPlayers DEF SeatsAreManned, TypeOK, Hulls, Ashore
  <2> QED BY <2>1, TickPlayers
<1> QED BY <1>2, <1>3, <1>4 DEF SeatsAreManned

-----------------------------------------------------------------------------
(* The queue: what the next one holds, and what it owes.                   *)
LEMMA AfterAppend ==
    ASSUME TypeOK, NEW e \in Events, queue' = Append(queue, e)
    PROVE  /\ Len(queue) \in Nat /\ Len(queue') = Len(queue) + 1
           /\ \A i \in 1..Len(queue) : queue'[i] = queue[i]
           /\ queue'[Len(queue) + 1] = e
           /\ \A what, c : Pending(what, c)' <=> Pending(what, c) \/ (e.what = what /\ e.id = c)
<1>1. queue \in Seq(Events)
  BY DEF TypeOK, Events
<1>2. /\ Len(queue) \in Nat /\ Len(queue') = Len(queue) + 1
      /\ \A i \in 1..Len(queue) : queue'[i] = queue[i]
      /\ queue'[Len(queue) + 1] = e
  BY <1>1, Appended
<1>3. ASSUME NEW what, NEW c
      PROVE  Pending(what, c)' <=> Pending(what, c) \/ (e.what = what /\ e.id = c)
  <2>1. ASSUME Pending(what, c)' PROVE Pending(what, c) \/ (e.what = what /\ e.id = c)
    <3>1. PICK i \in 1..Len(queue') : queue'[i].what = what /\ queue'[i].id = c
      BY <2>1 DEF Pending
    <3>2. i \in 1..Len(queue) \/ i = Len(queue) + 1
      BY <1>2, <3>1
    <3> QED BY <1>2, <3>1, <3>2 DEF Pending
  <2>2. ASSUME Pending(what, c) PROVE Pending(what, c)'
    <3>1. PICK i \in 1..Len(queue) : queue[i].what = what /\ queue[i].id = c
      BY <2>2 DEF Pending
    <3>2. i \in 1..Len(queue') /\ queue'[i] = queue[i]
      BY <1>2, <3>1
    <3> QED BY <3>1, <3>2 DEF Pending
  <2>3. ASSUME e.what = what, e.id = c PROVE Pending(what, c)'
    <3>1. Len(queue) + 1 \in 1..Len(queue')
      BY <1>2
    <3> QED BY <1>2, <2>3, <3>1 DEF Pending
  <2> QED BY <2>1, <2>2, <2>3
<1> QED BY <1>2, <1>3

LEMMA OneLess == \A n \in Nat : n - 1 # n
OBVIOUS

LEMMA Positions ==
    ASSUME NEW n \in Nat, n >= 1, NEW m, m = n - 1 \/ m = n
    PROVE  /\ \A i \in 1..m : (i \in 1..(n - 1) /\ i + 1 \in 2..n) \/ (m = n /\ i = n)
           /\ \A i \in 2..n : i - 1 \in 1..(n - 1) /\ (i - 1) + 1 = i /\ i - 1 \in 1..m
           /\ m = n => n \in 1..m
OBVIOUS

(* Taking the first event, with none or one put behind the rest.           *)
LEMMA AfterTake ==
    ASSUME TypeOK, OneEventEach, queue # << >>, NEW e \in Events,
           queue' = Tail(queue) \/ queue' = Append(Tail(queue), e)
    PROVE  /\ Len(queue) \in Nat /\ Len(queue) >= 1
           /\ Len(queue') = IF queue' = Tail(queue) THEN Len(queue) - 1 ELSE Len(queue)
           /\ \A i \in 1..(Len(queue) - 1) : queue'[i] = queue[i + 1]
           /\ queue' # Tail(queue) => queue'[Len(queue)] = e
           /\ \A what, c :
                 Pending(what, c)' <=>
                    \/ \E i \in 2..Len(queue) : queue[i].what = what /\ queue[i].id = c
                    \/ queue' # Tail(queue) /\ e.what = what /\ e.id = c
<1>1. /\ Len(queue) \in Nat /\ Len(queue) >= 1
      /\ Tail(queue) \in Seq(Events) /\ Len(Tail(queue)) = Len(queue) - 1
      /\ \A i \in 1..(Len(queue) - 1) : Tail(queue)[i] = queue[i + 1]
  BY HeadAndTail
<1>2. /\ Len(queue') = IF queue' = Tail(queue) THEN Len(queue) - 1 ELSE Len(queue)
      /\ \A i \in 1..(Len(queue) - 1) : queue'[i] = queue[i + 1]
      /\ queue' # Tail(queue) => queue'[Len(queue)] = e
  <2>1. CASE queue' = Tail(queue)
    BY <1>1, <2>1
  <2>2. CASE queue' # Tail(queue)
    <3>1. /\ Len(queue') = Len(Tail(queue)) + 1
          /\ \A i \in 1..Len(Tail(queue)) : queue'[i] = Tail(queue)[i]
          /\ queue'[Len(Tail(queue)) + 1] = e
      BY <1>1, <2>2, Appended
    <3>2. Len(Tail(queue)) + 1 = Len(queue)
      BY <1>1
    <3> QED BY <1>1, <2>2, <3>1, <3>2
  <2> QED BY <2>1, <2>2
<1>4. /\ Len(queue') = Len(queue) - 1 \/ Len(queue') = Len(queue)
      /\ Len(queue') = Len(queue) <=> queue' # Tail(queue)
  <2>1. CASE queue' = Tail(queue)
    <3>1. Len(queue') = Len(queue) - 1
      BY <1>1, <2>1
    <3>2. Len(queue) - 1 # Len(queue)
      BY <1>1, OneLess
    <3> QED BY <2>1, <3>1, <3>2
  <2>2. CASE queue' # Tail(queue)
    BY <1>2, <2>2
  <2> QED BY <2>1, <2>2
<1>5. /\ \A i \in 1..Len(queue') :
            (i \in 1..(Len(queue) - 1) /\ i + 1 \in 2..Len(queue)) \/ (Len(queue') = Len(queue) /\ i = Len(queue))
      /\ \A i \in 2..Len(queue) : i - 1 \in 1..(Len(queue) - 1) /\ (i - 1) + 1 = i /\ i - 1 \in 1..Len(queue')
      /\ Len(queue') = Len(queue) => Len(queue) \in 1..Len(queue')
  BY <1>1, <1>4, Positions
<1>3. ASSUME NEW what, NEW c
      PROVE  Pending(what, c)' <=>
                \/ \E i \in 2..Len(queue) : queue[i].what = what /\ queue[i].id = c
                \/ queue' # Tail(queue) /\ e.what = what /\ e.id = c
  <2>1. ASSUME Pending(what, c)'
        PROVE  \/ \E i \in 2..Len(queue) : queue[i].what = what /\ queue[i].id = c
               \/ queue' # Tail(queue) /\ e.what = what /\ e.id = c
    <3>1. PICK i \in 1..Len(queue') : queue'[i].what = what /\ queue'[i].id = c
      BY <2>1 DEF Pending
    <3>2. (i \in 1..(Len(queue) - 1) /\ i + 1 \in 2..Len(queue)) \/ (queue' # Tail(queue) /\ i = Len(queue))
      BY <1>4, <1>5, <3>1
    <3> QED BY <1>2, <3>1, <3>2
  <2>2. ASSUME NEW i \in 2..Len(queue), queue[i].what = what, queue[i].id = c PROVE Pending(what, c)'
    <3>1. i - 1 \in 1..(Len(queue) - 1) /\ (i - 1) + 1 = i /\ i - 1 \in 1..Len(queue')
      BY <1>5
    <3>2. queue'[i - 1] = queue[i]
      BY <1>2, <3>1
    <3> QED BY <2>2, <3>1, <3>2 DEF Pending
  <2>3. ASSUME queue' # Tail(queue), e.what = what, e.id = c PROVE Pending(what, c)'
    <3>1. Len(queue) \in 1..Len(queue')
      BY <1>4, <1>5, <2>3
    <3> QED BY <1>2, <2>3, <3>1 DEF Pending
  <2> QED BY <2>1, <2>2, <2>3
<1> QED BY <1>1, <1>2, <1>3

(* Once each and in order, whatever is put at the end or taken.            *)
LEMMA AppendOnce ==
    ASSUME TypeOK, OneEventEach, NEW e \in Events, queue' = Append(queue, e),
           \/ e.what = "command"
           \/ e.what = "left" /\ ~Pending("left", e.id)
           \/ e.what = "connected" /\ ~Pending("connected", e.id) /\ ~Pending("left", e.id)
    PROVE  OneEventEach'
<1>1. /\ Len(queue) \in Nat /\ Len(queue') = Len(queue) + 1
      /\ \A i \in 1..Len(queue) : queue'[i] = queue[i]
      /\ queue'[Len(queue) + 1] = e
  BY AfterAppend
<1>2. ASSUME NEW i \in 1..Len(queue'), NEW j \in 1..Len(queue'), queue'[i].id = queue'[j].id
      PROVE  /\ queue'[i].what = queue'[j].what /\ queue'[i].what # "command" => i = j
             /\ queue'[i].what = "connected" /\ queue'[j].what = "left" => i < j
  <2>1. CASE i \in 1..Len(queue) /\ j \in 1..Len(queue)
    BY <1>1, <1>2, <2>1 DEF OneEventEach
  <2>2. CASE i = Len(queue) + 1 /\ j \in 1..Len(queue)
    BY <1>1, <1>2, <2>2 DEF Pending
  <2>3. CASE i \in 1..Len(queue) /\ j = Len(queue) + 1
    BY <1>1, <1>2, <2>3 DEF Pending
  <2>4. CASE i = Len(queue) + 1 /\ j = Len(queue) + 1
    BY <1>1, <2>4
  <2> QED BY <1>1, <2>1, <2>2, <2>3, <2>4
<1> QED BY <1>2 DEF OneEventEach

LEMMA TakeOnce ==
    ASSUME TypeOK, OneEventEach, queue # << >>, NEW e \in Events,
           \/ queue' = Tail(queue)
           \/ queue' = Append(Tail(queue), e) /\ e.what = "left" /\ ~Pending("left", e.id)
    PROVE  OneEventEach'
<1>1. /\ Len(queue) \in Nat /\ Len(queue) >= 1
      /\ Len(queue') = IF queue' = Tail(queue) THEN Len(queue) - 1 ELSE Len(queue)
      /\ \A i \in 1..(Len(queue) - 1) : queue'[i] = queue[i + 1]
      /\ queue' # Tail(queue) => queue'[Len(queue)] = e
  BY AfterTake
<1>3. queue' # Tail(queue) => e.what = "left" /\ ~Pending("left", e.id)
  OBVIOUS
<1>2. ASSUME NEW i \in 1..Len(queue'), NEW j \in 1..Len(queue'), queue'[i].id = queue'[j].id
      PROVE  /\ queue'[i].what = queue'[j].what /\ queue'[i].what # "command" => i = j
             /\ queue'[i].what = "connected" /\ queue'[j].what = "left" => i < j
  <2>1. CASE i \in 1..(Len(queue) - 1) /\ j \in 1..(Len(queue) - 1)
    <3>1. i + 1 \in 1..Len(queue) /\ j + 1 \in 1..Len(queue)
      BY <1>1, <2>1
    <3> QED BY <1>1, <1>2, <2>1, <3>1 DEF OneEventEach
  <2>2. CASE i = Len(queue) /\ j \in 1..(Len(queue) - 1) /\ queue' # Tail(queue)
    <3>1. j + 1 \in 1..Len(queue)
      BY <1>1, <2>2
    <3> QED BY <1>1, <1>2, <1>3, <2>2, <3>1 DEF Pending
  <2>3. CASE i \in 1..(Len(queue) - 1) /\ j = Len(queue) /\ queue' # Tail(queue)
    <3>1. i + 1 \in 1..Len(queue)
      BY <1>1, <2>3
    <3> QED BY <1>1, <1>2, <1>3, <2>3, <3>1 DEF Pending
  <2>4. CASE i = Len(queue) /\ j = Len(queue) /\ queue' # Tail(queue)
    BY <1>1, <2>4
  <2> QED BY <1>1, <2>1, <2>2, <2>3, <2>4
<1> QED BY <1>2 DEF OneEventEach

(* What one event of the drain does to queue, table and players.           *)
Taken ==
    /\ queue' = Tail(queue) /\ connections' = connections
    /\ \/ /\ queue[1].what = "command"
          /\ \A c \in Ids : players'[c] = Ashore <=> players[c] = Ashore
       \/ /\ queue[1].what = "connected" /\ players'[queue[1].id] # Ashore
          /\ \A c \in Ids \ {queue[1].id} : players'[c] = players[c]
       \/ queue[1].what = "connected" /\ queue[1].id \notin connections /\ players' = players
       \/ /\ queue[1].what = "left" /\ players'[queue[1].id] = Ashore
          /\ \A c \in Ids \ {queue[1].id} : players'[c] = players[c]

ThrowsOut(c) ==
    /\ connections' = connections \ {c}
    /\ queue' = Append(Tail(queue), Event("left", c, NoCommand))
    /\ \A d \in Ids \ {c} : players'[d] = players[d]
    /\ players'[c] = Ashore
    /\ \/ queue[1].what = "connected" /\ queue[1].id = c
       \/ queue[1].what = "command" /\ players[c] # Ashore

LEMMA DrainQueue ==
    ASSUME TypeOK, EventsTell, Drain
    PROVE  /\ Taken \/ \E c \in connections : ThrowsOut(c)
           /\ lastId' = lastId /\ hull' = hull
<1> DEFINE e == Head(queue)
<1>1. /\ queue # << >> /\ e \in Events /\ e.id \in Ids /\ Ids \subseteq Nat
      /\ e = queue[1] /\ 1 \in 1..Len(queue) /\ connections \subseteq Ids
      /\ Tail(queue) \in Seq(Events) /\ Tail(queue) \o << >> = Tail(queue)
  BY HeadAndTail, MatchAssumption, Appended DEF Drain, Events, Ids, TypeOK
<1>2. ASSUME NEW c \in Ids
      PROVE  /\ c \in connections =>
                   Tail(queue) \o Farewell(c) = Append(Tail(queue), Event("left", c, NoCommand))
             /\ c \notin connections => Tail(queue) \o Farewell(c) = Tail(queue) /\ connections \ {c} = connections
  BY <1>1, EventTyped, Appended DEF Farewell
<1> HIDE DEF e
<1>3. CASE HandleConnected(e)
  <2>1. players[e.id] = Ashore
    BY <1>1, <1>3 DEF HandleConnected, EventsTell
  <2>2. CASE e.id \in Banned \/ Steps(e.id) = {}
    <3>1. connections' = connections \ {e.id} /\ queue' = Tail(queue) \o Farewell(e.id) /\ players' = players
      BY <1>3, <2>2 DEF HandleConnected, Disconnected, crew
    <3>2. CASE e.id \in connections
      BY <1>1, <1>2, <1>3, <2>1, <3>1, <3>2 DEF HandleConnected, ThrowsOut
    <3>3. CASE e.id \notin connections
      BY <1>1, <1>2, <1>3, <3>1, <3>3 DEF HandleConnected, Taken
    <3> QED BY <3>2, <3>3
  <2>3. CASE ~(e.id \in Banned \/ Steps(e.id) = {})
    <3>1. Nearest(e.id) \in Afloat /\ Aboard(e.id, Nearest(e.id)) /\ hull' = hull
      BY <1>1, <1>3, <2>3, NearestIsAfloat DEF HandleConnected
    <3>2. players'[e.id] # Ashore /\ \A c \in Ids \ {e.id} : players'[c] = players[c]
      BY <1>1, <3>1, AboardKeeps
    <3> QED BY <1>1, <1>3, <2>3, <3>2 DEF HandleConnected, Taken
  <2> QED BY <2>2, <2>3
<1>4. CASE HandleLeft(e)
  <2>1. hull' = hull /\ Despawn(e.id) /\ queue' = Tail(queue) /\ connections' = connections /\ lastId' = lastId
    BY <1>4 DEF HandleLeft, net
  <2> QED BY <1>1, <1>4, <2>1, DespawnKeeps DEF HandleLeft, Taken
<1>5. CASE HandleEnter(e) \/ HandleExit(e) \/ Refuse(e)
  BY <1>1, <1>5 DEF HandleEnter, HandleExit, Refuse, Obeyed, net, crew, Taken
<1>6. CASE HandleRespawn(e)
  <2>1. CASE players[e.id] # Ashore /\ players[e.id] \notin Sound /\ Sound # {}
    <3>1. FirstAlive \in Afloat /\ Aboard(e.id, FirstAlive) /\ hull' = hull
      BY <1>6, <2>1, FirstAliveIsSound DEF HandleRespawn
    <3>2. players'[e.id] # Ashore /\ \A c \in Ids \ {e.id} : players'[c] = players[c]
      BY <1>1, <3>1, AboardKeeps
    <3> QED BY <1>1, <1>6, <2>1, <3>2 DEF HandleRespawn, Taken, net
  <2>2. CASE ~(players[e.id] # Ashore /\ players[e.id] \notin Sound /\ Sound # {})
    BY <1>1, <1>6, <2>2 DEF HandleRespawn, Taken, net, crew
  <2> QED BY <2>1, <2>2
<1>7. CASE HandleVote(e)
  <2>1. CASE e.command.arg \in Online
    <3>1. /\ e.command.arg \in Ids /\ players[e.command.arg] # Ashore /\ e.what = "command"
          /\ Cast(e.id, e.command.arg) /\ lastId' = lastId /\ hull' = hull
      BY <1>7, <2>1 DEF HandleVote, Online, Obeyed
    <3>2. CASE connections' = connections /\ queue' = Tail(queue) /\ UNCHANGED <<crew, seat>>
      BY <1>1, <3>1, <3>2 DEF crew, Taken
    <3>3. CASE /\ e.command.arg \in connections /\ connections' = connections \ {e.command.arg}
               /\ queue' = Tail(queue) \o Farewell(e.command.arg)
               /\ Despawn(e.command.arg)
      BY <1>1, <1>2, <3>1, <3>3, DespawnKeeps DEF ThrowsOut
    <3> QED BY <1>1, <3>1, <3>2, <3>3, CastTyped
  <2>2. CASE e.command.arg \notin Online
    BY <1>1, <1>7, <2>2 DEF HandleVote, Obeyed, crew, Taken
  <2> QED BY <2>1, <2>2
<1> QED BY <1>3, <1>4, <1>5, <1>6, <1>7 DEF Drain, e

LEMMA Elements ==
    ASSUME NEW q \in Seq(Events)
    PROVE  \A i \in 1..Len(q) : q[i] \in Events /\ q[i].id \in Ids
<1>1. \A i \in 1..Len(q) : q[i] \in Events
  OBVIOUS
<1> QED BY <1>1 DEF Events

LEMMA Longer ==
    ASSUME NEW q \in Seq(Events), NEW f \in Events
    PROVE  Append(q, f) # q
<1>1. Len(Append(q, f)) = Len(q) + 1 /\ Len(q) \in Nat
  OBVIOUS
<1>2. \A n \in Nat : n + 1 # n
  OBVIOUS
<1> QED BY <1>1, <1>2

LEMMA DrainQueueInv ==
    ASSUME TypeOK, QueueInv, Drain
    PROVE  QueueInv'
<1> DEFINE e == queue[1]
<1>1. /\ queue # << >> /\ e \in Events /\ Len(queue) \in Nat /\ Len(queue) >= 1 /\ queue \in Seq(Events)
  BY HeadAndTail DEF Drain, TypeOK, Events
<1>2. /\ \A i \in 1..Len(queue) : queue[i] \in Events /\ queue[i].id \in Ids
      /\ 1 \in 1..Len(queue) /\ e.id \in Ids
  BY <1>1, Elements
<1>3. Ids \subseteq Nat /\ connections \subseteq Ids /\ connections \subseteq 1..lastId /\ lastId \in Nat
  BY MatchAssumption DEF Ids, TypeOK
<1>4. lastId' = lastId /\ Afloat' = Afloat
  BY DrainQueue DEF QueueInv, Afloat
<1>5. \A i \in 2..Len(queue) : i \in 1..Len(queue) /\ i # 1 /\ ~(i < 1)
  BY <1>1
<1>6. \A i \in 2..Len(queue) :
         queue[i].id = e.id =>
            /\ ~(e.what = queue[i].what /\ e.what # "command")
            /\ ~(queue[i].what = "connected" /\ e.what = "left")
  BY <1>2, <1>5 DEF QueueInv, OneEventEach
<1>7. ASSUME NEW what, NEW c, Pending(what, c)
      PROVE  (e.what = what /\ e.id = c) \/ \E k \in 2..Len(queue) : queue[k].what = what /\ queue[k].id = c
  <2>1. PICK i \in 1..Len(queue) : queue[i].what = what /\ queue[i].id = c
    BY <1>7 DEF Pending
  <2>2. i = 1 \/ i \in 2..Len(queue)
    BY <1>1, <2>1
  <2> QED BY <2>1, <2>2
<1>8. /\ e.what = "connected" => players[e.id] = Ashore /\ Pending("connected", e.id)
      /\ e.what = "left" => e.id \notin connections
      /\ e.id <= lastId
  BY <1>2 DEF QueueInv, EventsTell, Pending
<1>9. \A i \in 2..Len(queue) : Pending(queue[i].what, queue[i].id)
  BY <1>5 DEF Pending
<1> HIDE DEF e
<1>10. CASE Taken
  <2>1. /\ Len(queue') = Len(queue) - 1
        /\ \A i \in 1..(Len(queue) - 1) : queue'[i] = queue[i + 1]
        /\ \A what, c : Pending(what, c)' <=> \E i \in 2..Len(queue) : queue[i].what = what /\ queue[i].id = c
    BY <1>1, <1>10, AfterTake DEF QueueInv, Taken
  <2>2. OneEventEach'
    BY <1>1, <1>10, TakeOnce DEF QueueInv, Taken
  <2>3. EventsTell'
    <3>1. ASSUME NEW i \in 1..Len(queue')
          PROVE  /\ queue'[i].what = "connected" => players'[queue'[i].id] = Ashore
                 /\ queue'[i].what = "left" => queue'[i].id \notin connections'
                 /\ queue'[i].id <= lastId'
      <4>1. i + 1 \in 2..Len(queue) /\ i + 1 \in 1..Len(queue) /\ queue'[i] = queue[i + 1]
        BY <1>1, <2>1, <3>1
      <4>2. /\ queue[i + 1].what = "connected" => players[queue[i + 1].id] = Ashore
            /\ queue[i + 1].what = "left" => queue[i + 1].id \notin connections
            /\ queue[i + 1].id <= lastId /\ queue[i + 1].id \in Ids
        BY <1>2, <4>1 DEF QueueInv, EventsTell
      <4>3. queue[i + 1].what = "connected" /\ e.what = "connected" => queue[i + 1].id # e.id
        BY <1>6, <4>1
      <4>4. queue[i + 1].what = "connected" => players'[queue[i + 1].id] = Ashore
        BY <1>10, <4>2, <4>3 DEF Taken, e
      <4> QED BY <1>4, <1>10, <4>1, <4>2, <4>4 DEF Taken
    <3> QED BY <3>1 DEF EventsTell
  <2>4. Owed'
    <3>1. ASSUME NEW c \in Ids
          PROVE  /\ players'[c] # Ashore => c <= lastId'
                 /\ players'[c] # Ashore /\ c \notin connections' => Pending("left", c)'
                 /\ c \in connections' /\ players'[c] = Ashore => Pending("connected", c)' \/ Afloat' = {}
                 /\ Pending("connected", c)' /\ c \notin connections' => Pending("left", c)'
      <4>1. /\ players[c] # Ashore => c <= lastId
            /\ players[c] # Ashore /\ c \notin connections => Pending("left", c)
            /\ c \in connections /\ players[c] = Ashore => Pending("connected", c) \/ Afloat = {}
            /\ Pending("connected", c) /\ c \notin connections => Pending("left", c)
        BY DEF QueueInv, Owed
      <4>2. players'[c] # Ashore => c <= lastId'
        BY <1>4, <1>8, <1>10, <4>1 DEF Taken, e
      <4>3. players'[c] # Ashore /\ c \notin connections' => Pending("left", c)'
        <5>1. ASSUME players'[c] # Ashore, c \notin connections PROVE Pending("left", c) /\ ~(e.what = "left" /\ e.id = c)
          BY <1>8, <1>10, <4>1, <5>1 DEF Taken, e
        <5> QED BY <1>7, <1>10, <2>1, <5>1 DEF Taken
      <4>4. c \in connections' /\ players'[c] = Ashore => Pending("connected", c)' \/ Afloat' = {}
        <5>1. ASSUME c \in connections, players'[c] = Ashore
              PROVE  players[c] = Ashore /\ ~(e.what = "connected" /\ e.id = c)
          BY <1>8, <1>10, <5>1 DEF Taken, e
        <5> QED BY <1>4, <1>7, <1>10, <2>1, <4>1, <5>1 DEF Taken
      <4>5. Pending("connected", c)' /\ c \notin connections' => Pending("left", c)'
        <5>1. ASSUME NEW i \in 2..Len(queue), queue[i].what = "connected", queue[i].id = c
              PROVE  Pending("connected", c) /\ ~(e.what = "left" /\ e.id = c)
          BY <1>6, <1>9, <5>1
        <5> QED BY <1>7, <1>10, <2>1, <4>1, <5>1 DEF Taken
      <4> QED BY <4>2, <4>3, <4>4, <4>5
    <3> QED BY <3>1 DEF Owed
  <2> QED BY <2>2, <2>3, <2>4 DEF QueueInv
<1>11. ASSUME NEW t \in connections, ThrowsOut(t) PROVE QueueInv'
  <2> DEFINE f == Event("left", t, NoCommand)
  <2>1. f \in Events /\ f.what = "left" /\ f.id = t /\ t \in Ids
    BY <1>3, EventTyped DEF Event
  <2>2. ~Pending("left", t)
    BY DEF QueueInv, EventsTell, Pending
  <2> HIDE DEF f
  <2>3. queue' = Append(Tail(queue), f) /\ queue' # Tail(queue)
    BY <1>1, <1>11, <2>1, HeadAndTail, Longer DEF ThrowsOut, f
  <2>4. /\ Len(queue') = Len(queue)
        /\ \A i \in 1..(Len(queue) - 1) : queue'[i] = queue[i + 1]
        /\ queue'[Len(queue)] = f
        /\ \A what, c : Pending(what, c)' <=>
              \/ \E i \in 2..Len(queue) : queue[i].what = what /\ queue[i].id = c
              \/ f.what = what /\ f.id = c
    BY <1>1, <2>1, <2>3, AfterTake DEF QueueInv
  <2>5. OneEventEach'
    BY <1>1, <2>1, <2>2, <2>3, TakeOnce DEF QueueInv
  <2>6. EventsTell'
    <3>1. ASSUME NEW i \in 1..Len(queue')
          PROVE  /\ queue'[i].what = "connected" => players'[queue'[i].id] = Ashore
                 /\ queue'[i].what = "left" => queue'[i].id \notin connections'
                 /\ queue'[i].id <= lastId'
      <4>1. CASE i = Len(queue)
        BY <1>3, <1>4, <1>11, <2>1, <2>4, <4>1 DEF ThrowsOut
      <4>2. CASE i # Len(queue)
        <5>1. i \in 1..(Len(queue) - 1) /\ i + 1 \in 1..Len(queue) /\ queue'[i] = queue[i + 1]
          BY <1>1, <2>4, <3>1, <4>2
        <5>2. /\ queue[i + 1].what = "connected" => players[queue[i + 1].id] = Ashore
              /\ queue[i + 1].what = "left" => queue[i + 1].id \notin connections
              /\ queue[i + 1].id <= lastId /\ queue[i + 1].id \in Ids
          BY <1>2, <5>1 DEF QueueInv, EventsTell
        <5> QED BY <1>4, <1>11, <5>1, <5>2 DEF ThrowsOut
      <4> QED BY <4>1, <4>2
    <3> QED BY <3>1 DEF EventsTell
  <2>7. Owed'
    <3>1. ASSUME NEW c \in Ids
          PROVE  /\ players'[c] # Ashore => c <= lastId'
                 /\ players'[c] # Ashore /\ c \notin connections' => Pending("left", c)'
                 /\ c \in connections' /\ players'[c] = Ashore => Pending("connected", c)' \/ Afloat' = {}
                 /\ Pending("connected", c)' /\ c \notin connections' => Pending("left", c)'
      <4>1. CASE c = t
        BY <1>11, <2>1, <2>4, <4>1 DEF ThrowsOut
      <4>2. CASE c # t
        <5>1. /\ players[c] # Ashore => c <= lastId
              /\ players[c] # Ashore /\ c \notin connections => Pending("left", c)
              /\ c \in connections /\ players[c] = Ashore => Pending("connected", c) \/ Afloat = {}
              /\ Pending("connected", c) /\ c \notin connections => Pending("left", c)
          BY DEF QueueInv, Owed
        <5>2. players'[c] = players[c] /\ (c \in connections' <=> c \in connections)
          BY <1>11, <4>2 DEF ThrowsOut
        <5>3. \A what \in {"connected", "left"} : Pending(what, c)' <=> Pending(what, c)
          <6>1. ASSUME NEW what \in {"connected", "left"}, Pending(what, c) PROVE Pending(what, c)'
            <7>1. ~(e.what = what /\ e.id = c)
              BY <1>11, <4>2, <6>1 DEF ThrowsOut, e
            <7> QED BY <1>7, <2>4, <6>1, <7>1
          <6>2. ASSUME NEW what \in {"connected", "left"}, Pending(what, c)' PROVE Pending(what, c)
            BY <1>9, <2>1, <2>4, <4>2, <6>2
          <6> QED BY <6>1, <6>2
        <5> QED BY <1>4, <5>1, <5>2, <5>3
      <4> QED BY <4>1, <4>2
    <3> QED BY <3>1 DEF Owed
  <2> QED BY <2>5, <2>6, <2>7 DEF QueueInv
<1> QED BY <1>10, <1>11, DrainQueue DEF QueueInv

LEMMA NextQueueInv == TypeOK /\ QueueInv /\ [Next]_vars => QueueInv'
<1> SUFFICES ASSUME TypeOK, QueueInv, [Next]_vars PROVE QueueInv'
  OBVIOUS
<1>1. /\ queue \in Seq(Events) /\ Len(queue) \in Nat
      /\ Ids \subseteq Nat /\ connections \subseteq Ids /\ connections \subseteq 1..lastId /\ lastId \in Nat
  BY MatchAssumption DEF TypeOK, Events, Ids
<1>2. \A i \in 1..Len(queue) : queue[i] \in Events /\ queue[i].id \in Ids
  BY <1>1, Elements
<1>3. CASE Connect
  <2> DEFINE f == Event("connected", lastId + 1, NoCommand)
  <2>1. /\ lastId + 1 \in Ids /\ f \in Events /\ f.what = "connected" /\ f.id = lastId + 1
        /\ lastId' = lastId + 1 /\ connections' = connections \cup {lastId + 1}
        /\ queue' = Append(queue, f) /\ players' = players /\ Afloat' = Afloat
    <3>1. lastId + 1 \in Ids
      BY <1>1, <1>3, MatchAssumption DEF Connect, Ids
    <3>2. f \in Events /\ f.what = "connected" /\ f.id = lastId + 1
      BY <3>1, EventTyped DEF Event
    <3> QED BY <1>3, <3>1, <3>2 DEF Connect, crew, Afloat
  <2> HIDE DEF f
  <2>2. \A what : ~Pending(what, lastId + 1)
    <3>1. \A i \in 1..Len(queue) : queue[i].id <= lastId
      BY DEF QueueInv, EventsTell
    <3>2. \A i \in 1..Len(queue) : queue[i].id # lastId + 1
      BY <1>1, <1>2, <3>1
    <3> QED BY <3>2 DEF Pending
  <2>3. /\ Len(queue') = Len(queue) + 1
        /\ \A i \in 1..Len(queue) : queue'[i] = queue[i]
        /\ queue'[Len(queue) + 1] = f
        /\ \A what, c : Pending(what, c)' <=> Pending(what, c) \/ (f.what = what /\ f.id = c)
    BY <2>1, AfterAppend
  <2>4. OneEventEach'
    BY <2>1, <2>2, AppendOnce DEF QueueInv
  <2>5. players[lastId + 1] = Ashore
    <3>1. ~(lastId + 1 <= lastId)
      BY <1>1
    <3> QED BY <2>1, <3>1 DEF QueueInv, Owed
  <2>6. EventsTell'
    <3>1. ASSUME NEW i \in 1..Len(queue')
          PROVE  /\ queue'[i].what = "connected" => players'[queue'[i].id] = Ashore
                 /\ queue'[i].what = "left" => queue'[i].id \notin connections'
                 /\ queue'[i].id <= lastId'
      <4>1. CASE i \in 1..Len(queue)
        <5>1. /\ queue[i].id <= lastId /\ queue[i].id \in Nat
              /\ queue[i].what = "connected" => players[queue[i].id] = Ashore
              /\ queue[i].what = "left" => queue[i].id \notin connections
          BY <1>1, <1>2, <4>1 DEF QueueInv, EventsTell
        <5>2. queue[i].id <= lastId + 1 /\ queue[i].id # lastId + 1
          BY <1>1, <5>1
        <5> QED BY <2>1, <2>3, <4>1, <5>1, <5>2
      <4>2. CASE i = Len(queue) + 1
        <5>1. lastId + 1 <= lastId + 1
          BY <1>1
        <5> QED BY <2>1, <2>3, <2>5, <4>2, <5>1
      <4> QED BY <1>1, <2>3, <4>1, <4>2
    <3> QED BY <3>1 DEF EventsTell
  <2>7. Owed'
    <3>1. \A c \in Ids : c <= lastId => c <= lastId'
      BY <1>1, <2>1
    <3> QED BY <2>1, <2>2, <2>3, <2>5, <3>1 DEF QueueInv, Owed
  <2> QED BY <2>4, <2>6, <2>7 DEF QueueInv
<1>4. ASSUME NEW c \in Ids, NEW f \in Events, c \in connections, f.id = c, queue' = Append(queue, f),
             UNCHANGED <<lastId, players, hull>>,
             \/ f.what = "command" /\ connections' = connections
             \/ f.what = "left" /\ connections' = connections \ {c}
      PROVE  QueueInv'
  <2>1. /\ Len(queue') = Len(queue) + 1
        /\ \A i \in 1..Len(queue) : queue'[i] = queue[i]
        /\ queue'[Len(queue) + 1] = f
        /\ \A what, d : Pending(what, d)' <=> Pending(what, d) \/ (f.what = what /\ f.id = d)
    BY <1>4, AfterAppend
  <2>2. ~Pending("left", c)
    BY <1>4 DEF QueueInv, EventsTell, Pending
  <2>3. OneEventEach'
    BY <1>4, <2>2, AppendOnce DEF QueueInv
  <2>4. EventsTell'
    <3>1. ASSUME NEW i \in 1..Len(queue')
          PROVE  /\ queue'[i].what = "connected" => players'[queue'[i].id] = Ashore
                 /\ queue'[i].what = "left" => queue'[i].id \notin connections'
                 /\ queue'[i].id <= lastId'
      <4>1. CASE i \in 1..Len(queue)
        BY <1>4, <2>1, <4>1 DEF QueueInv, EventsTell
      <4>2. CASE i = Len(queue) + 1
        BY <1>1, <1>4, <2>1, <4>2
      <4> QED BY <1>1, <2>1, <4>1, <4>2
    <3> QED BY <3>1 DEF EventsTell
  <2>5. Afloat' = Afloat
    BY <1>4 DEF Afloat
  <2>6. Owed'
    BY <1>4, <2>1, <2>5 DEF QueueInv, Owed
  <2> QED BY <2>3, <2>4, <2>6 DEF QueueInv
<1>5. ASSUME NEW c \in Ids, Leave(c) PROVE QueueInv'
  <2>1. Event("left", c, NoCommand) \in Events /\ Event("left", c, NoCommand).id = c
        /\ Event("left", c, NoCommand).what = "left"
    BY EventTyped DEF Event
  <2> QED BY <1>4, <1>5, <2>1 DEF Leave, crew
<1>6. ASSUME NEW c \in Ids, NEW command \in Commands, Send(c, command) PROVE QueueInv'
  <2>1. Event("command", c, command) \in Events /\ Event("command", c, command).id = c
        /\ Event("command", c, command).what = "command"
    BY EventTyped DEF Event
  <2> QED BY <1>4, <1>6, <2>1 DEF Send, net, crew
<1>7. CASE Drain
  BY <1>7, DrainQueueInv
<1>8. CASE Tick
  <2>1. queue = << >> /\ queue' = << >> /\ lastId' = lastId /\ connections' = connections /\ Len(queue) = 0
    BY <1>8 DEF Tick, net
  <2>2. \A what, c : ~Pending(what, c) /\ ~Pending(what, c)'
    BY <2>1 DEF Pending
  <2>3. Afloat' \subseteq Afloat
    BY <1>8, TickPlayers
  <2>4. ASSUME NEW c \in Ids PROVE players'[c] = Ashore <=> players[c] = Ashore \/ (players[c] \notin Afloat' /\ Afloat' = {})
    <3>1. Ashore \notin Afloat'
      BY DEF Afloat, Hulls, Ashore
    <3> QED BY <1>8, <3>1, TickPlayers
  <2>5. Owed'
    BY <2>1, <2>2, <2>3, <2>4 DEF QueueInv, Owed
  <2> QED BY <2>1, <2>5 DEF QueueInv, OneEventEach, EventsTell
<1>9. CASE UNCHANGED vars
  BY <1>9 DEF vars, net, crew, QueueInv, OneEventEach, EventsTell, Owed, Pending, Afloat
<1> QED BY <1>3, <1>5, <1>6, <1>7, <1>8, <1>9 DEF Next

LEMMA InitInv == Init => QueueInv /\ CrewsAreReal /\ SeatsAreManned
<1> SUFFICES ASSUME Init PROVE QueueInv /\ CrewsAreReal /\ SeatsAreManned
  OBVIOUS
<1>1. Len(queue) = 0 /\ connections = {} /\ Online = {} /\ \A c \in Ids : players[c] = Ashore
  BY DEF Init, Online
<1>2. QueueInv
  BY <1>1 DEF QueueInv, OneEventEach, EventsTell, Owed, Pending
<1>3. CrewsAreReal
  BY <1>1 DEF Init, CrewsAreReal
<1>4. SeatsAreManned
  BY DEF Init, SeatsAreManned
<1> QED BY <1>2, <1>3, <1>4

-----------------------------------------------------------------------------
LEMMA NextCrews ==
    TypeOK /\ QueueInv /\ CrewsAreReal /\ SeatsAreManned /\ [Next]_vars => CrewsAreReal' /\ SeatsAreManned'
<1> SUFFICES ASSUME TypeOK, QueueInv, CrewsAreReal, SeatsAreManned, [Next]_vars
             PROVE  CrewsAreReal' /\ SeatsAreManned'
  OBVIOUS
<1>1. CASE UNCHANGED <<crew, hull, seat>>
  BY <1>1 DEF crew, CrewsAreReal, SeatsAreManned, Online, Afloat
<1>2. CASE Drain
  BY <1>2, DrainCrew, DrainCrews, DrainSeats DEF QueueInv
<1>3. CASE Tick
  BY <1>3, TickCrews, TickSeats
<1>4. UNCHANGED <<crew, hull, seat>> \/ Drain \/ Tick
  BY DEF Next, Connect, Leave, Send, vars
<1> QED BY <1>1, <1>2, <1>3, <1>4

(* Players, interest tables and ships agree whatever connects, dies,       *)
(* respawns, is voted out or sinks, in any order.                          *)
THEOREM CrewsStayReal == Spec => []CrewsAreReal
BY InitTyped, InitInv, NextTyped, NextQueueInv, NextCrews, PTL DEF Spec

(* No station is held by anyone but one member of its ship's crew.         *)
THEOREM SeatsStayManned == Spec => []SeatsAreManned
BY InitTyped, InitInv, NextTyped, NextQueueInv, NextCrews, PTL DEF Spec

LEMMA QueueSettles == TypeOK /\ QueueInv => CrewIsTheConnected
<1> SUFFICES ASSUME TypeOK, QueueInv, queue = << >>, Afloat # {} PROVE Online = connections
  BY DEF CrewIsTheConnected
<1>1. \A what, c : ~Pending(what, c)
  BY DEF Pending
<1>2. connections \subseteq Ids
  BY MatchAssumption DEF TypeOK, Ids
<1> QED BY <1>1, <1>2 DEF QueueInv, Owed, Online

(* Once the loop has taken every event, exactly the connected play.        *)
THEOREM CrewSettles == Spec => []CrewIsTheConnected
BY InitTyped, InitInv, NextTyped, NextQueueInv, QueueSettles, PTL DEF Spec

-----------------------------------------------------------------------------
(* Votes.                                                                  *)
LEMMA QuorumIsNumber == ASSUME NEW n \in Nat PROVE Needed(n) \in Nat
<1>1. MinVotes \in Nat /\ ShareOf(n) \in Nat
  BY MatchAssumption DEF ShareOf
<1>2. \E k \in {MinVotes, ShareOf(n)} : k >= MinVotes /\ k >= ShareOf(n)
  BY <1>1
<1>3. Needed(n) \in {MinVotes, ShareOf(n)}
  BY <1>2 DEF Needed
<1> QED BY <1>1, <1>3

LEMMA NextVote == TypeOK /\ VoteIsBallots /\ [Next]_vars => VoteIsBallots'
<1> SUFFICES ASSUME TypeOK, VoteIsBallots, [Next]_vars PROVE VoteIsBallots'
  OBVIOUS
<1>1. CASE UNCHANGED tally
  BY <1>1 DEF tally, VoteIsBallots
<1>2. CASE Tick
  BY <1>2 DEF Tick, Resolved, VoteIsBallots, Idle, TypeOK
<1>3. ASSUME NEW voter, NEW target, Cast(voter, target), target # Nobody PROVE VoteIsBallots'
  <2>1. CASE vote' = Idle
    BY <2>1 DEF Idle, VoteIsBallots
  <2>2. CASE /\ Running(target)
             /\ vote' = [target |-> target, votes |-> vote.votes \cup {voter}, ttl |-> Window]
             /\ ballots' = ballots \cup {<<voter, target>>}
    <3>1. \A v \in vote.votes : vote.target = target
      BY <2>2 DEF VoteIsBallots, Running
    <3> QED BY <1>3, <2>2, <3>1 DEF VoteIsBallots
  <2> QED BY <1>1, <1>3, <2>1, <2>2 DEF Cast, tally
<1>4. ASSUME Drain PROVE VoteIsBallots'
  <2> DEFINE e == Head(queue)
  <2>1. CASE HandleVote(e) /\ e.command.arg \in Online
    <3>1. e.command.arg # Nobody /\ Cast(e.id, e.command.arg)
      BY <2>1 DEF HandleVote, Online, Ids, Nobody
    <3> QED BY <1>3, <3>1
  <2>2. CASE ~(HandleVote(e) /\ e.command.arg \in Online)
    <3>1. UNCHANGED tally
      BY <1>4, <2>2 DEF Drain, HandleConnected, HandleLeft, HandleEnter, HandleExit, HandleRespawn,
                        HandleVote, Refuse, tally
    <3> QED BY <1>1, <3>1
  <2> QED BY <2>1, <2>2
<1>5. UNCHANGED tally \/ Drain \/ Tick
  BY DEF Next, Connect, Leave, Send, vars
<1> QED BY <1>1, <1>2, <1>4, <1>5

LEMMA VotedOut ==
    ASSUME TypeOK, VoteIsBallots, NEW voter \in Ids, NEW target \in Ids, Cast(voter, target),
           connections' # connections
    PROVE  /\ connections' = connections \ {target}
           /\ Cardinality({b[1] : b \in {x \in ballots : x[2] = target}} \cup {voter})
                 >= Needed(Cardinality(Online))
<1> DEFINE counted == vote.votes \cup {voter}
           for == {b[1] : b \in {x \in ballots : x[2] = target}} \cup {voter}
<1>1. /\ Running(target) /\ connections' = Disconnected(target)
      /\ Cardinality(counted) >= Needed(Cardinality(Online))
  BY DEF Cast
<1>2. counted \subseteq for
  <2>1. ASSUME NEW v \in vote.votes PROVE v \in for
    <3>1. <<v, target>> \in ballots
      BY <1>1 DEF VoteIsBallots, Running
    <3>2. <<v, target>> \in {x \in ballots : x[2] = target} /\ <<v, target>>[1] = v
      BY <3>1
    <3> QED BY <3>2
  <2> QED BY <2>1
<1>3. for \subseteq Ids /\ Online \subseteq Ids
  BY DEF TypeOK, Online
<1>4. IsFiniteSet(Ids)
  BY MatchAssumption, FS_Interval DEF Ids
<1>5. /\ IsFiniteSet(for) /\ IsFiniteSet(Online) /\ IsFiniteSet(counted)
      /\ Cardinality(counted) <= Cardinality(for)
  BY <1>2, <1>3, <1>4, FS_Subset
<1>6. Cardinality(for) \in Nat /\ Cardinality(counted) \in Nat /\ Needed(Cardinality(Online)) \in Nat
  BY <1>5, FS_CardinalityType, QuorumIsNumber
<1> HIDE DEF counted, for
<1>7. Cardinality(for) >= Needed(Cardinality(Online))
  BY <1>1, <1>5, <1>6
<1> QED BY <1>1, <1>7 DEF Disconnected, for

LEMMA StepIsJustified == TypeOK /\ VoteIsBallots /\ [Next]_vars => [Justified]_vars
<1> SUFFICES ASSUME TypeOK, VoteIsBallots, Next PROVE Justified
  BY DEF VoteIsBallots
<1> SUFFICES ASSUME NEW c \in connections \ connections', Len(queue') = Len(queue)
             PROVE  LET e == Head(queue)
                        for == {b[1] : b \in {x \in ballots : x[2] = c}}
                    IN  \/ e.what = "connected" /\ e.id = c /\ (c \in Banned \/ Afloat = {})
                        \/ /\ e.what = "command" /\ e.command = [do |-> "vote", arg |-> c]
                           /\ Cardinality(for \cup {e.id}) >= Needed(Cardinality(Online))
  BY DEF Justified
<1>1. Drain
  <2>1. queue \in Seq(Events) /\ Len(queue) \in Nat
    BY DEF TypeOK, Events
  <2>2. ASSUME NEW d \in Ids, Leave(d) PROVE FALSE
    <3>1. Len(queue') = Len(queue) + 1
      BY <2>1, <2>2, EventTyped, Appended DEF Leave
    <3>2. Len(queue) + 1 # Len(queue)
      BY <2>1
    <3> QED BY <3>1, <3>2
  <2> QED BY <2>2 DEF Next, Connect, Send, Tick, net
<1> DEFINE e == Head(queue)
<1>2. e \in Events /\ e.id \in Ids /\ Ids \subseteq Nat
  BY <1>1, HeadAndTail DEF Drain, Events, Ids
<1>3. CASE HandleConnected(e)
  BY <1>2, <1>3, NoStepsNoShip DEF HandleConnected, Disconnected
<1>4. CASE HandleVote(e)
  <2>1. /\ e.what = "command" /\ e.command.do = "vote" /\ e.command.arg \in Ids
        /\ Cast(e.id, e.command.arg)
    BY <1>4 DEF HandleVote, Obeyed, Online
  <2>2. e.command = [do |-> "vote", arg |-> e.command.arg]
    BY <1>2, <2>1 DEF Events, Commands, NoCommand
  <2>3. /\ c = e.command.arg
        /\ Cardinality({b[1] : b \in {x \in ballots : x[2] = e.command.arg}} \cup {e.id})
              >= Needed(Cardinality(Online))
    BY <1>2, <2>1, VotedOut
  <2>4. Cardinality({b[1] : b \in {x \in ballots : x[2] = c}} \cup {e.id}) >= Needed(Cardinality(Online))
    BY <2>3
  <2> QED BY <2>1, <2>2, <2>3, <2>4
<1>5. CASE HandleLeft(e) \/ HandleEnter(e) \/ HandleExit(e) \/ HandleRespawn(e) \/ Refuse(e)
  BY <1>5 DEF HandleLeft, HandleEnter, HandleExit, HandleRespawn, Refuse, net
<1> QED BY <1>1, <1>3, <1>4, <1>5 DEF Drain

(* The loop disconnects a player for its address, for want of ships, or on *)
(* a quorum of distinct voters for exactly this player, never otherwise.   *)
THEOREM ThrownOutRightly == Spec => ThrownOutForAReason
<1>1. Init => VoteIsBallots
  BY DEF Init, VoteIsBallots, Idle
<1> QED BY <1>1, InitTyped, NextTyped, NextVote, StepIsJustified, PTL DEF Spec, ThrownOutForAReason
==============================================================================
