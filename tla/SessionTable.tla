---------------------------- MODULE SessionTable ----------------------------
(***************************************************************************)
(* The server's tables of sessions and the three tasks that change them.   *)
(*                                                                         *)
(*   receive   net/server.rs  handle_received_packet, admit_connection,    *)
(*                            claim_addr_and_evict_replaced_session        *)
(*   send      net/server.rs  sweep_timeouts, admit_first_fulls,           *)
(*                            send_snapshots                               *)
(*   game      server/main.rs the event loop; net/server.rs check_timeouts,*)
(*                            disconnect_client                            *)
(*                                                                         *)
(* Each table has a lock of its own and no operation holds two: a removal  *)
(* is four lock windows and an event, and so is an eviction.  ops[t] is    *)
(* where task t is.  The handshake before admit_connection is Handshake.   *)
(***************************************************************************)
EXTENDS Naturals, Sequences, FiniteSets

CONSTANTS
    Addrs,           \* source addresses
    MaxId,           \* bound: connection ids handed out in one behaviour
    MaxConnections,  \* max_connections
    EventCap         \* EVENT_QUEUE_LIMIT (16384)

ASSUME SessionAssumption == EventCap \in Nat /\ MaxId \in Nat

Ids == 1..MaxId
Tasks == {"receive", "send", "game"}

VARIABLES
    nextId,    \* next_connection_id
    home,      \* the address a connection was made for (Connection.addr)
    live,      \* connections
    byAddr,    \* connection_by_addr; 0: no entry
    tracks,    \* pending_confirms
    rows,      \* client_layers
    silent,    \* connections that have been silent for the timeout
    aged,      \* connections older than PLAYER_WAIT_TIMEOUT
    events,    \* the event queue towards the game loop
    players,   \* the game loop's players (and the interest manager's)
    ops,       \* what each task is in the middle of
    sweep,     \* the removals a sweep still has to do, per task
    reported   \* history: connections whose end was put on the queue

tables == <<live, byAddr, tracks, rows>>
clock == <<silent, aged>>
vars == <<nextId, home, tables, clock, events, players, ops, sweep, reported>>

Idle == [step |-> "idle", id |-> 0, old |-> 0, had |-> FALSE, why |-> "none"]
Reasons == {"none", "timeout", "left", "vote"}
Steps == {"idle", "claim", "evictConn", "evictTrack", "evictRow", "evictEvent", "announce",
          "conn", "addr", "track", "row", "event", "full", "push"}

Init ==
    /\ nextId = 1 /\ home \in [Ids -> Addrs]
    /\ live = {} /\ tracks = {} /\ rows = {}
    /\ byAddr = [a \in Addrs |-> 0]
    /\ silent = {} /\ aged = {}
    /\ events = << >> /\ players = {}
    /\ ops = [t \in Tasks |-> Idle] /\ sweep = [t \in {"send", "game"} |-> {}]
    /\ reported = {}

-----------------------------------------------------------------------------
(* Events, time, and the datagrams that keep a session alive.              *)

At(t, step) == ops[t].step = step
Goto(t, step) == ops' = [ops EXCEPT ![t].step = step]
Done(t) == ops' = [ops EXCEPT ![t] = Idle]

(* emit_event: a full queue drops the event.                               *)
OfferLate(q, e) == IF Len(q) <= EventCap THEN Append(q, e) ELSE q  \* mutant: one too many
Offer(q, e) == IF Len(q) < EventCap THEN Append(q, e) ELSE q

Emitted(q, kinds, i) ==
    LET first == Offer(q, <<kinds[1], i>>)
    IN  IF Len(kinds) = 1 THEN first ELSE Offer(first, <<kinds[2], i>>)

Gone(kinds, i) ==
    /\ events' = Emitted(events, kinds, i)
    /\ reported' = reported \cup {i}

Silence(i) ==
    /\ i \in live \ silent
    /\ ops["receive"].id # i
    /\ silent' = silent \cup {i}
    /\ UNCHANGED <<nextId, home, tables, aged, events, players, ops, sweep, reported>>

Age(i) ==
    /\ i \in live \ aged
    /\ ops["receive"].id # i
    /\ aged' = aged \cup {i}
    /\ UNCHANGED <<nextId, home, tables, silent, events, players, ops, sweep, reported>>

(* A datagram reaches the connection its address maps to, if any.          *)
Beat(a) ==
    /\ At("receive", "idle")
    /\ byAddr[a] \in live \cap silent
    /\ silent' = silent \ {byAddr[a]}
    /\ UNCHANGED <<nextId, home, tables, aged, events, players, ops, sweep, reported>>

-----------------------------------------------------------------------------
(* remove_connection, by any task: connections, then connection_by_addr    *)
(* whatever it maps to, then the two per-client tables; the event only if  *)
(* the connection was there.                                               *)

Removal(i, why) == [Idle EXCEPT !.step = "conn", !.id = i, !.why = why]

Removed(i) == live' = live \ {i} /\ silent' = silent \ {i} /\ aged' = aged \ {i}

RemoveConn(t) ==
    /\ At(t, "conn")
    /\ Removed(ops[t].id)
    /\ ops' = [ops EXCEPT ![t].step = "addr", ![t].had = ops[t].id \in live]
    /\ UNCHANGED <<nextId, home, byAddr, tracks, rows, events, players, sweep, reported>>

KeepMapping(i) == byAddr  \* mutant: the address map is left to the sweep
Unmapped(i) == [byAddr EXCEPT ![home[i]] = 0]

RemoveAddr(t) ==
    /\ At(t, "addr")
    /\ byAddr' = Unmapped(ops[t].id)
    /\ Goto(t, "track")
    /\ UNCHANGED <<nextId, home, live, tracks, rows, clock, events, players, sweep, reported>>

RemoveTrack(t) ==
    /\ At(t, "track")
    /\ tracks' = tracks \ {ops[t].id}
    /\ Goto(t, "row")
    /\ UNCHANGED <<nextId, home, live, byAddr, rows, clock, events, players, sweep, reported>>

RemoveRow(t) ==
    /\ At(t, "row")
    /\ rows' = rows \ {ops[t].id}
    /\ Goto(t, "event")
    /\ UNCHANGED <<nextId, home, live, byAddr, tracks, clock, events, players, sweep, reported>>

Farewell(why) == IF why = "timeout" THEN <<"disconnected", "timeout">> ELSE <<"disconnected">>

EmitGone(t) ==
    /\ At(t, "event")
    /\ IF ops[t].had THEN Gone(Farewell(ops[t].why), ops[t].id) ELSE UNCHANGED <<events, reported>>
    /\ players' = IF ops[t].had /\ ops[t].why = "vote" THEN players \ {ops[t].id} ELSE players
    /\ Done(t)
    /\ UNCHANGED <<nextId, home, tables, clock, sweep>>

TakeDown(t) == RemoveConn(t) \/ RemoveAddr(t) \/ RemoveTrack(t) \/ RemoveRow(t) \/ EmitGone(t)

-----------------------------------------------------------------------------
(* The receive task.                                                       *)

(* admit_connection: the cap check and the registration are one window.    *)
Register(a) ==
    /\ At("receive", "idle")
    /\ nextId <= MaxId /\ home[nextId] = a
    /\ Cardinality(live) < MaxConnections
    /\ live' = live \cup {nextId}
    /\ nextId' = nextId + 1
    /\ ops' = [ops EXCEPT !["receive"] = [Idle EXCEPT !.step = "claim", !.id = nextId]]
    /\ UNCHANGED <<home, byAddr, tracks, rows, clock, events, players, sweep, reported>>

(* claim_addr_and_evict_replaced_session, window by window.                *)
NoEviction(old) == "announce"  \* mutant: the replaced session is left to the sweep
AfterClaim(old) == IF old = 0 THEN "announce" ELSE "evictConn"

Claim ==
    /\ At("receive", "claim")
    /\ LET i == ops["receive"].id
           old == byAddr[home[i]]
       IN  /\ byAddr' = [byAddr EXCEPT ![home[i]] = i]
           /\ ops' = [ops EXCEPT !["receive"].old = old,
                                 !["receive"].step = AfterClaim(old)]
    /\ UNCHANGED <<nextId, home, live, tracks, rows, clock, events, players, sweep, reported>>

EvictConn ==
    /\ At("receive", "evictConn")
    /\ Removed(ops["receive"].old)
    /\ Goto("receive", "evictTrack")
    /\ UNCHANGED <<nextId, home, byAddr, tracks, rows, events, players, sweep, reported>>

EvictTrack ==
    /\ At("receive", "evictTrack")
    /\ tracks' = tracks \ {ops["receive"].old}
    /\ Goto("receive", "evictRow")
    /\ UNCHANGED <<nextId, home, live, byAddr, rows, clock, events, players, sweep, reported>>

EvictRow ==
    /\ At("receive", "evictRow")
    /\ rows' = rows \ {ops["receive"].old}
    /\ Goto("receive", "evictEvent")
    /\ UNCHANGED <<nextId, home, live, byAddr, tracks, clock, events, players, sweep, reported>>

SilentEviction(i) == UNCHANGED <<events, reported>>  \* mutant: the replaced session is not reported
Replaced(i) == Gone(<<"timeout">>, i)

EvictEvent ==
    /\ At("receive", "evictEvent")
    /\ Replaced(ops["receive"].old)
    /\ Goto("receive", "announce")
    /\ UNCHANGED <<nextId, home, tables, clock, players, sweep>>

Announce ==
    /\ At("receive", "announce")
    /\ events' = Offer(events, <<"connected", ops["receive"].id>>)
    /\ Done("receive")
    /\ UNCHANGED <<nextId, home, tables, clock, players, sweep, reported>>

(* A Disconnect is not gated by the session: the address decides.          *)
Disconnect(a) ==
    /\ At("receive", "idle")
    /\ byAddr[a] \in live
    /\ ops' = [ops EXCEPT !["receive"] = Removal(byAddr[a], "left")]
    /\ UNCHANGED <<nextId, home, tables, clock, events, players, sweep, reported>>

Receive ==
    \/ \E a \in Addrs : Register(a) \/ Disconnect(a) \/ Beat(a)
    \/ Claim \/ EvictConn \/ EvictTrack \/ EvictRow \/ EvictEvent \/ Announce
    \/ TakeDown("receive")

-----------------------------------------------------------------------------
(* The send task: the sweep, the first fulls, the publish pass.            *)

(* sweep_timeouts collects both lists first and removes one by one after.  *)
(* check_timeouts of the game loop has the first list only, and skips a    *)
(* connection that is gone when its turn comes.                            *)
TimedOut == {<<1, i>> : i \in live \cap silent}
Unregistered == {<<2, i>> : i \in {i \in live \cap aged : i \notin rows}}
AgedOnly(t) == IF t = "send" THEN Unregistered ELSE TimedOut  \* mutant: no timeout list
Due(t) == IF t = "send" THEN TimedOut \cup Unregistered ELSE TimedOut

CollectDead(t) ==
    /\ At(t, "idle") /\ sweep[t] = {} /\ Due(t) # {}
    /\ sweep' = [sweep EXCEPT ![t] = Due(t)]
    /\ UNCHANGED <<nextId, home, tables, clock, events, players, ops, reported>>

SweepNext(t) ==
    /\ At(t, "idle")
    /\ \E x \in sweep[t] :
          /\ \A y \in sweep[t] : x[1] <= y[1]
          /\ sweep' = [sweep EXCEPT ![t] = @ \ {x}]
          /\ ops' = IF t = "game" /\ x[2] \notin live THEN ops
                    ELSE [ops EXCEPT ![t] = Removal(x[2], "timeout")]
    /\ UNCHANGED <<nextId, home, tables, clock, events, players, reported>>

Sweep(t) == CollectDead(t) \/ SweepNext(t)

(* admit_first_fulls: ready, then the row; send_snapshots: the row is      *)
(* there, then entry().or_default() in pending_confirms.                   *)
AdmitReady(i) ==
    /\ At("send", "idle") /\ sweep["send"] = {}
    /\ i \in (live \cap players) \ rows
    /\ ops' = [ops EXCEPT !["send"] = [Idle EXCEPT !.step = "full", !.id = i]]
    /\ UNCHANGED <<nextId, home, tables, clock, events, players, sweep, reported>>

AdmitFull ==
    /\ At("send", "full")
    /\ rows' = rows \cup {ops["send"].id}
    /\ Done("send")
    /\ UNCHANGED <<nextId, home, live, byAddr, tracks, clock, events, players, sweep, reported>>

PassReads(i) ==
    /\ At("send", "idle") /\ sweep["send"] = {}
    /\ i \in (live \cap rows) \ tracks
    /\ ops' = [ops EXCEPT !["send"] = [Idle EXCEPT !.step = "push", !.id = i]]
    /\ UNCHANGED <<nextId, home, tables, clock, events, players, sweep, reported>>

PassPushes ==
    /\ At("send", "push")
    /\ tracks' = tracks \cup {ops["send"].id}
    /\ Done("send")
    /\ UNCHANGED <<nextId, home, live, byAddr, rows, clock, events, players, sweep, reported>>

Sweeping == Sweep("send") \/ TakeDown("send")
Publishing == (\E i \in Ids : AdmitReady(i) \/ PassReads(i)) \/ AdmitFull \/ PassPushes
Send == Sweeping \/ Publishing

-----------------------------------------------------------------------------
(* The game loop: kicks, the timeout check, then the events: a new         *)
(* connection is spawned or disconnected (banned, no living ship), the end *)
(* of one despawns its player.  A kick comes from the control door, whose  *)
(* target is a listed player, or from a vote, which despawns at once.      *)

Kick(i) ==
    /\ At("game", "idle") /\ sweep["game"] = {}
    /\ i \in players \cap live
    /\ \E why \in {"left", "vote"} : ops' = [ops EXCEPT !["game"] = Removal(i, why)]
    /\ UNCHANGED <<nextId, home, tables, clock, events, players, sweep, reported>>

NextEvent(kind, i) ==
    /\ At("game", "idle") /\ sweep["game"] = {}
    /\ events # << >> /\ Head(events) = <<kind, i>> /\ events' = Tail(events)

Spawn(i) ==
    /\ NextEvent("connected", i)
    /\ players' = players \cup {i}
    /\ UNCHANGED <<nextId, home, tables, clock, ops, sweep, reported>>

Refuse(i) ==
    /\ NextEvent("connected", i)
    /\ ops' = IF i \in live THEN [ops EXCEPT !["game"] = Removal(i, "left")] ELSE ops
    /\ UNCHANGED <<nextId, home, tables, clock, players, sweep, reported>>

Despawn(i) ==
    /\ NextEvent("disconnected", i) \/ NextEvent("timeout", i)
    /\ players' = players \ {i}
    /\ UNCHANGED <<nextId, home, tables, clock, ops, sweep, reported>>

Game == (\E i \in Ids : Spawn(i) \/ Refuse(i) \/ Despawn(i) \/ Kick(i)) \/ Sweep("game") \/ TakeDown("game")

Next == Receive \/ Send \/ Game \/ \E i \in Ids : Silence(i) \/ Age(i)

(* Each task runs; ten seconds of silence do pass for a connection that    *)
(* no datagram reaches.                                                    *)
Unreachable(i) == i \in live /\ byAddr[home[i]] # i
Fairness ==
    /\ WF_vars(Receive) /\ WF_vars(Sweeping \/ AdmitFull \/ PassPushes)
    /\ \A i \in Ids : WF_vars(Unreachable(i) /\ Silence(i))

Spec == Init /\ [][Next]_vars
FairSpec == Spec /\ Fairness

-----------------------------------------------------------------------------
(* Properties.                                                             *)

Resting == \A t \in Tasks : At(t, "idle")

TypeOK ==
    /\ nextId \in 1..(MaxId + 1) /\ home \in [Ids -> Addrs]
    /\ live \subseteq 1..(nextId - 1) /\ tracks \subseteq Ids /\ rows \subseteq Ids
    /\ byAddr \in [Addrs -> 0..MaxId]
    /\ silent \subseteq Ids /\ aged \subseteq Ids /\ players \subseteq Ids
    /\ Len(events) <= EventCap
    /\ ops \in [Tasks -> [step : Steps, id : 0..MaxId, old : 0..MaxId, had : BOOLEAN, why : Reasons]]
    /\ sweep \in [{"send", "game"} -> SUBSET ({1, 2} \X Ids)]
    /\ reported \subseteq Ids

(* An address never maps to a connection that is gone, or to an older one  *)
(* than the newest made for it, once no task is in the middle of anything: *)
(* otherwise its datagrams reach nobody.                                   *)
MappingIsCurrent ==
    Resting => \A a \in Addrs :
        byAddr[a] # 0 =>
            /\ byAddr[a] \in live
            /\ \A i \in live : home[i] = a => i <= byAddr[a]

(* A connection never leaves the tables without an event that tells the    *)
(* game loop, whichever tasks raced to remove it.                          *)
GoneIsReported == Resting => 1..(nextId - 1) \ live \subseteq reported

(* When the event queue is drained, no player is left of a connection that *)
(* is gone, if the queue had room for the event.  Together: the ends are   *)
(* settled (sweep_timeouts, disconnect_client; main.rs, event loop).       *)
NoGhostPlayer == Resting /\ events = << >> => players \subseteq live

EndsAreSettled == GoneIsReported /\ NoGhostPlayer

(* A connection that no datagram can reach does not hold its slot forever: *)
(* it gets its address or the sweep ends it.                               *)
OrphanEnds == \A i \in Ids : Unreachable(i) ~> ~Unreachable(i)

(* "So it owns the address now" (server.rs 1756): datagrams from the       *)
(* address of a session reach that session.  This does not hold when the   *)
(* erasure of a removal falls behind the claim (README, section 5).        *)
OwnerIsReachable == Resting => \A i \in live : byAddr[home[i]] = i

-----------------------------------------------------------------------------
(* The tables as a directory of sessions (SessionDirectory).               *)

Seating == {"evictConn", "evictTrack", "evictRow", "evictEvent", "announce"}

Phase(i) ==
    IF i >= nextId THEN "none"
    ELSE IF i \in reported THEN "told"
    ELSE IF i \notin live THEN "ended"
    ELSE IF ops["receive"].id = i /\ At("receive", "claim") THEN "registered"
    ELSE IF ops["receive"].id = i /\ ops["receive"].step \in Seating THEN "seated"
    ELSE "open"

Directory == INSTANCE SessionDirectory WITH
    Capacity <- MaxConnections,
    phase <- [i \in Ids |-> Phase(i)],
    owner <- byAddr,
    replaced <- IF ops["receive"].step \in Seating THEN ops["receive"].old ELSE 0

(* The tables implement the directory, whichever tasks race in them: a     *)
(* session's end is told once it is over and before its successor at the   *)
(* address is announced, none comes back, there are never more than        *)
(* max_connections of them, and no address is erased but after the end of  *)
(* a session made for it (admit_connection, remove_connection,             *)
(* claim_addr_and_evict_replaced_session).                                 *)
ImplementsDirectory == Directory!Spec
=============================================================================
