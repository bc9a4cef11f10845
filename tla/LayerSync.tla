----------------------------- MODULE LayerSync ------------------------------
(***************************************************************************)
(* Replication of the world to one client in independent layers.           *)
(*                                                                         *)
(*   publish pass    net/server.rs    send_snapshots, layer_needs_resync,  *)
(*                                    layer_confirm_self_resync_due        *)
(*                   net/snapshot.rs  create_delta                         *)
(*   report handler  net/server.rs    apply_layer_sync_report              *)
(*   client          net/client.rs    process_state_packet, send loop      *)
(*                   net/snapshot.rs  merge_delta, SnapshotBuffer          *)
(*                                                                         *)
(* The simulation, the publish pass and the receive loop are three threads:*)
(* the pass reads the client's base in two lock windows and queues in a    *)
(* third, the report handler drains the ring and mirrors the base in two.  *)
(* The simulation publishes a tick between passes (a pass works on the     *)
(* snapshot it started with, so a tick during a pass only delays it).      *)
(***************************************************************************)
EXTENDS Integers, Sequences, FiniteSets, SequencesExt

CONSTANTS
    NLayers,     \* LAYER_COUNT (4)
    PerLayer,    \* bound: entities of a layer
    MaxVal,      \* bound: the replicated value of an entity is 0..MaxVal
    Interval,    \* LAYER_INTERVAL_TICKS, in ticks, per layer
    OnChange,    \* the interval that means "on change" (u64::MAX)
    Resync,      \* LAYER_RESYNC_TICKS per layer (15, 10, 15, 15)
    ConfirmAge,  \* LAYER_CONFIRM_RESYNC_TICKS (30)
    Cooldown,    \* RESYNC_REQUEST_COOLDOWN in ticks (15)
    RingCap,     \* MAX_PENDING_CONFIRMS (16)
    Eps,         \* largest difference compute_entity_update does not send
    MaxDelta,    \* MAX_DELTA_CREATED, MAX_DELTA_UPDATED (512)
    MaxTick,     \* bound: ticks of one behaviour
    MaxChanges,  \* bound: ticks at which the world changes
    MaxDelay,    \* bound: ticks a delta may spend in flight
    MaxReports,  \* bound: reports in flight
    Ordered,     \* TRUE: state datagrams of different layers keep their order
    Prompt       \* TRUE: each tick is published and delivered or lost in time

Layers == 1..NLayers
Entities == Layers \X (1..PerLayer)
Ticks == 1..MaxTick
Contents == UNION {[S -> 0..MaxVal] : S \in SUBSET Entities}
Empty == [e \in {} |-> 0]
NoBase == [tick |-> 0, content |-> Empty]

ASSUME LayerAssumption ==
    /\ {NLayers, PerLayer, RingCap, MaxTick, MaxDelay, ConfirmAge} \subseteq Nat \ {0}
    /\ {MaxVal, Eps, MaxDelta, Cooldown, MaxReports, MaxChanges, OnChange} \subseteq Nat
    /\ Interval \in [Layers -> Nat \ {0}] /\ Resync \in [Layers -> Nat \ {0}]
    /\ Ordered \in BOOLEAN /\ Prompt \in BOOLEAN

VARIABLES
    tick, past,            \* the simulation: its tick, and the world at every tick
    row, ring, confirmed,  \* client_layers; ClientLayerTrack.pending and .confirmed
    shieldAt,              \* ClientLayerTrack.last_self_resync
    requested, reported,   \* Connection.resync_requests and .reported_applied
    published,             \* last_published
    pass,                  \* the publish pass: where it is and what it has read
    handler,               \* the report handler: its layer, and the base to mirror
    full, deltas,          \* the state stream in flight: the first full, the deltas
    reports, asks,         \* LayerSync reports and resync requests in flight
    applied, held,         \* last_applied_layer; newest frame of the snapshot buffer
    view,                  \* entity_states
    lastReported, askedAt, \* the client's report throttle and resync cooldown
    disturbed,             \* history: a state datagram was lost or overtaken
    calm                   \* history: ticks since a loss or a change of the world

simVars == <<tick, past, calm>>
baseVars == <<row, ring, confirmed>>
serverVars == <<baseVars, shieldAt, requested, reported, published, pass, handler>>
stream == <<full, deltas>>
clientVars == <<applied, held, view, lastReported, askedAt>>
network == <<stream, reports, asks>>
layerVars == <<simVars, serverVars, network, clientVars, disturbed>>

CalmCap == MaxTick
On(l, c) == [e \in {x \in DOMAIN c : x[1] = l} |-> c[e]]
World(l) == On(l, past[tick])

Idle == [step |-> "idle", layer |-> 1, row |-> NoBase, anchor |-> NoBase, shield |-> FALSE]
Resting == [layer |-> 0, base |-> NoBase]

LayerInit ==
    /\ tick = 1
    /\ \E w \in Contents : past = [t \in Ticks |-> IF t = 1 THEN w ELSE Empty]
    /\ row = [l \in Layers |-> [tick |-> 1, content |-> World(l)]]
    /\ ring = [l \in Layers |-> << >>]
    /\ confirmed = [l \in Layers |-> NoBase]
    /\ shieldAt = [l \in Layers |-> 0]
    /\ requested = [l \in Layers |-> FALSE]
    /\ reported = [l \in Layers |-> 0]
    /\ published = 0 /\ pass = Idle /\ handler = Resting
    /\ full = TRUE /\ deltas = {} /\ reports = {} /\ asks = {}
    /\ applied = [l \in Layers |-> 0] /\ held = NoBase /\ view = Empty
    /\ lastReported = applied /\ askedAt = [l \in Layers |-> 0]
    /\ disturbed = FALSE /\ calm = 0

-----------------------------------------------------------------------------
(* The simulation publishes the next tick.  Under Prompt the network and   *)
(* the server's threads have caught up with the previous one.              *)

CaughtUp ==
    /\ published = tick /\ handler = Resting
    /\ ~full /\ deltas = {} /\ reports = {} /\ asks = {}

Changes == Cardinality({t \in 2..tick : past[t] # past[t - 1]})

Simulate ==
    /\ tick < MaxTick
    /\ pass.step = "idle"
    /\ Prompt => CaughtUp
    /\ \A d \in deltas : tick - d.tick < MaxDelay
    /\ full => tick <= MaxDelay
    /\ tick' = tick + 1
    /\ \E w \in Contents :
          /\ w = past[tick] \/ Changes < MaxChanges
          /\ past' = [past EXCEPT ![tick + 1] = w]
          /\ calm' = IF w = past[tick] /\ calm < CalmCap THEN calm + 1 ELSE 0
    /\ UNCHANGED <<serverVars, network, clientVars, disturbed>>

-----------------------------------------------------------------------------
(* The publish pass, for each layer: read the row, read the ring, send.    *)

StartPass ==
    /\ pass.step = "idle" /\ published # tick
    /\ published' = tick
    /\ pass' = [Idle EXCEPT !.step = "row"]
    /\ UNCHANGED <<simVars, baseVars, shieldAt, requested, reported, handler,
                   network, clientVars, disturbed>>

ReadRow ==
    /\ pass.step = "row"
    /\ pass' = [pass EXCEPT !.step = "ring", !.row = row[pass.layer]]
    /\ UNCHANGED <<simVars, baseVars, shieldAt, requested, reported, published, handler,
                   network, clientVars, disturbed>>

(* The diff anchor: the newest queued send, else the confirmed base, else  *)
(* the row of the first full.                                              *)
RowAnchor(l, seen) == IF ring[l] # << >> THEN Last(ring[l]) ELSE seen  \* mutant: before bug 757
Anchor(l, seen) ==
    IF ring[l] # << >> THEN Last(ring[l])
    ELSE IF confirmed[l].tick # 0 THEN confirmed[l] ELSE seen

(* layer_confirm_self_resync_due: the oldest unconfirmed send is too old.  *)
ShieldDue(l) ==
    /\ ring[l] # << >>
    /\ tick - Head(ring[l]).tick >= ConfirmAge
    /\ tick - shieldAt[l] >= ConfirmAge

ReadRing ==
    /\ pass.step = "ring"
    /\ pass' = [pass EXCEPT !.step = "send",
                            !.anchor = Anchor(pass.layer, pass.row),
                            !.shield = ShieldDue(pass.layer)]
    /\ UNCHANGED <<simVars, baseVars, shieldAt, requested, reported, published, handler,
                   network, clientVars, disturbed>>

(* compute_entity_update: a difference of at most Eps is not a change.     *)
Changed(a, b) == a - b > Eps \/ b - a > Eps

(* create_delta from the anchor, or from nothing for a resync.             *)
Delta(l, resync, anchor) ==
    LET cur == World(l)
        base == IF resync THEN Empty ELSE anchor.content
        both == DOMAIN cur \cap DOMAIN base
    IN  [layer |-> l, resync |-> resync, base |-> anchor.tick, tick |-> tick,
         created |-> [e \in DOMAIN cur \ DOMAIN base |-> cur[e]],
         updated |-> [e \in {x \in both : Changed(base[x], cur[x])} |-> cur[e]],
         destroyed |-> DOMAIN base \ DOMAIN cur]

(* Nothing to say, a target that is not newer than the base, or a delta    *)
(* withheld because it is over its bound: nothing is sent.                 *)
Withheld(d) == Cardinality(DOMAIN d.created) > MaxDelta \/ Cardinality(DOMAIN d.updated) > MaxDelta
Sendable(d) ==
    /\ d.base < d.tick
    /\ DOMAIN d.created # {} \/ DOMAIN d.updated # {} \/ d.destroyed # {}
    /\ ~Withheld(d)

RequestedOnly(l, since, req) == req  \* mutant: no scheduled resync
NeedsResync(l, since, req) ==
    req \/ (since >= Resync[l] /\ (World(l) # Empty \/ pass.row.content # Empty))

Queue(q, b) == IF Len(q) < RingCap THEN Append(q, b) ELSE Append(Tail(q), b)

NextLayer(l) == IF l = NLayers THEN Idle ELSE [Idle EXCEPT !.step = "row", !.layer = l + 1]

SendLayer ==
    LET l == pass.layer
        since == tick - pass.anchor.tick
        resync == NeedsResync(l, since, requested[l] \/ pass.shield)
        d == Delta(l, resync, pass.anchor)
        due == since >= Interval[l] \/ resync \/ Interval[l] = OnChange
    IN  /\ pass.step = "send"
        /\ requested' = [requested EXCEPT ![l] = FALSE]
        /\ shieldAt' = IF pass.shield THEN [shieldAt EXCEPT ![l] = tick] ELSE shieldAt
        /\ IF due /\ Sendable(d)
           THEN /\ deltas' = deltas \cup {d}
                /\ ring' = [ring EXCEPT ![l] = Queue(@, [tick |-> tick, content |-> World(l)])]
           ELSE UNCHANGED <<deltas, ring>>
        /\ pass' = NextLayer(l)
        /\ UNCHANGED <<simVars, row, confirmed, reported, published, handler,
                       full, reports, asks, clientVars, disturbed>>

-----------------------------------------------------------------------------
(* The server's receive loop.                                              *)

ReceiveAsk(l) ==
    /\ l \in asks
    /\ requested' = [requested EXCEPT ![l] = TRUE]
    /\ asks' = asks \ {l}
    /\ UNCHANGED <<simVars, baseVars, shieldAt, reported, published, pass, handler,
                   stream, reports, clientVars, disturbed>>

(* report_applied merges by max: a late report cannot rewind.              *)
Merged(r) == [l \in Layers |-> IF r[l] > reported[l] THEN r[l] ELSE reported[l]]

ReceiveReport(r) ==
    /\ r \in reports /\ handler = Resting
    /\ reports' \in {reports, reports \ {r}}
    /\ reported' = Merged(r)
    /\ handler' = [Resting EXCEPT !.layer = 1]
    /\ UNCHANGED <<simVars, baseVars, shieldAt, requested, published, pass,
                   stream, asks, clientVars, disturbed>>

(* take_confirmed_base: the exact match is the proof; the match and what   *)
(* is older leave the front of the ring, up to the first newer entry.      *)
NewestQueued(q, a) == IF q = << >> THEN {} ELSE {Last(q)}  \* mutant: a report confirms all sends
Matching(q, a) == {b \in ToSet(q) : b.tick = a}
Popped(q, a) ==
    {n \in 0..Len(q) : /\ \A i \in 1..n : q[i].tick <= a
                       /\ n < Len(q) => q[n + 1].tick > a}

AfterEveryLayer(l) == [layer |-> l + 1, base |-> NoBase]  \* mutant: no end of the layers
AfterLayer(l) == [layer |-> (l + 1) % (NLayers + 1), base |-> NoBase]

TakeConfirmed ==
    LET l == handler.layer
        proof == Matching(ring[l], reported[l])
    IN  /\ l # 0 /\ handler.base = NoBase
        /\ \E n \in Popped(ring[l], reported[l]) :
              ring' = [ring EXCEPT ![l] = SubSeq(@, n + 1, Len(@))]
        /\ IF proof = {}
           THEN handler' = AfterLayer(l) /\ UNCHANGED confirmed
           ELSE \E b \in proof :
                   /\ confirmed' = [confirmed EXCEPT ![l] = b]
                   /\ handler' = [handler EXCEPT !.base = b]
        /\ UNCHANGED <<simVars, row, shieldAt, requested, reported, published, pass,
                       network, clientVars, disturbed>>

MirrorRow ==
    /\ handler.base # NoBase
    /\ row' = [row EXCEPT ![handler.layer] = handler.base]
    /\ handler' = AfterLayer(handler.layer)
    /\ UNCHANGED <<simVars, ring, confirmed, shieldAt, requested, reported, published, pass,
                   network, clientVars, disturbed>>

-----------------------------------------------------------------------------
(* The client: process_state_packet and the report of its send loop.       *)

(* A state datagram that arrives may arrive again.                         *)
Arrive(d) ==
    /\ d \in deltas
    /\ Ordered => ~full /\ \A x \in deltas : x.layer # d.layer => d.tick <= x.tick
    /\ deltas' \in {deltas, deltas \ {d}}
    /\ disturbed' = (disturbed \/ full \/ \E x \in deltas : x.layer = d.layer /\ x.tick < d.tick)

(* A full state is taken only when it is newer than every layer.           *)
ReceiveFull ==
    /\ full /\ full' \in BOOLEAN
    /\ IF \E l \in Layers : 1 <= applied[l]
       THEN UNCHANGED <<applied, held, view>>
       ELSE /\ applied' = [l \in Layers |-> 1]
            /\ held' = [tick |-> 1, content |-> past[1]]
            /\ view' = past[1]
    /\ UNCHANGED <<simVars, serverVars, deltas, reports, asks, lastReported, askedAt, disturbed>>

(* merge_delta: a created entity is an upsert, the update of an entity     *)
(* that is not there is skipped, and a resync starts without its layer.    *)
PruneAll(c, d) == IF d.resync THEN Empty ELSE c  \* mutant: a resync replaces every layer
Pruned(c, d) == IF d.resync THEN [e \in {x \in DOMAIN c : x[1] # d.layer} |-> c[e]] ELSE c

Merge(c, d) ==
    LET base == Pruned(c, d)
        ids == (DOMAIN base \cup DOMAIN d.created) \ d.destroyed
    IN  [e \in ids |-> IF e \in DOMAIN d.updated THEN d.updated[e]
                       ELSE IF e \in DOMAIN d.created THEN d.created[e] ELSE base[e]]

(* entity_states follows the entities the delta carried, and on a resync   *)
(* drops those of the layer that the merged frame does not have.           *)
GhostView(v, d, target) ==  \* mutant: bug 170, nothing leaves the map on a resync
    [e \in (DOMAIN v \cup DOMAIN d.created) \ d.destroyed |->
        IF e \in DOMAIN target THEN target[e] ELSE v[e]]

ViewAfter(v, d, target) ==
    LET carried == (DOMAIN d.created \cup DOMAIN d.updated) \cap DOMAIN target
        dead == {e \in DOMAIN v : d.resync /\ e[1] = d.layer /\ e \notin DOMAIN target}
    IN  [e \in ((DOMAIN v \ dead) \cup carried) \ d.destroyed |->
            IF e \in carried THEN target[e] ELSE v[e]]

(* A delta that is not newer than its layer is stale; an incremental one   *)
(* needs exactly the base it was diffed against.                           *)
Stale(d) == d.tick <= applied[d.layer]
AnyBase(d) == FALSE  \* mutant: bug 25, the base tick is not looked at
Mismatch(d) == ~d.resync /\ d.base # applied[d.layer]

DropStale(d) ==
    /\ Arrive(d) /\ Stale(d)
    /\ UNCHANGED <<simVars, serverVars, full, reports, asks, clientVars>>

(* ResyncRequestChannel.arm: the stalled layer asks, once per cooldown.    *)
RejectDelta(d) ==
    /\ Arrive(d) /\ ~Stale(d) /\ Mismatch(d)
    /\ IF askedAt[d.layer] = 0 \/ tick - askedAt[d.layer] >= Cooldown
       THEN asks' = asks \cup {d.layer} /\ askedAt' = [askedAt EXCEPT ![d.layer] = tick]
       ELSE UNCHANGED <<asks, askedAt>>
    /\ UNCHANGED <<simVars, serverVars, full, reports, applied, held, view, lastReported>>

(* The delta is merged into the newest frame of the buffer, whatever layer *)
(* that frame came from, and the result is stored under the delta's tick:  *)
(* it becomes the newest frame only if no newer one is there.              *)
ApplyDelta(d) ==
    LET target == Merge(held.content, d)
    IN  /\ Arrive(d) /\ ~Stale(d) /\ ~Mismatch(d)
        /\ held.tick # 0 \/ d.resync
        /\ applied' = [applied EXCEPT ![d.layer] = d.tick]
        /\ held' = IF d.tick >= held.tick THEN [tick |-> d.tick, content |-> target] ELSE held
        /\ view' = ViewAfter(view, d, target)
        /\ UNCHANGED <<simVars, serverVars, full, reports, asks, lastReported, askedAt>>

(* layer_report_due; the interval floor is left to the scheduler.          *)
SendReport ==
    /\ \E l \in Layers : applied[l] > lastReported[l]
    /\ Cardinality(reports) < MaxReports
    /\ reports' = reports \cup {applied}
    /\ lastReported' = applied
    /\ UNCHANGED <<simVars, serverVars, stream, asks, applied, held, view, askedAt, disturbed>>

-----------------------------------------------------------------------------
(* The network loses a datagram.                                           *)

LoseState ==
    /\ \/ full /\ full' = FALSE /\ UNCHANGED deltas
       \/ UNCHANGED full /\ \E d \in deltas : deltas' = deltas \ {d}
    /\ disturbed' = TRUE /\ calm' = 0
    /\ UNCHANGED <<tick, past, serverVars, reports, asks, clientVars>>

LoseSignal ==
    /\ \/ \E r \in reports : reports' = reports \ {r} /\ UNCHANGED asks
       \/ \E l \in asks : asks' = asks \ {l} /\ UNCHANGED reports
    /\ calm' = 0
    /\ UNCHANGED <<tick, past, serverVars, stream, clientVars, disturbed>>

LayerNext ==
    \/ Simulate
    \/ StartPass \/ ReadRow \/ ReadRing \/ SendLayer
    \/ \E l \in asks : ReceiveAsk(l)
    \/ \E r \in reports : ReceiveReport(r)
    \/ TakeConfirmed \/ MirrorRow
    \/ ReceiveFull
    \/ \E d \in deltas : DropStale(d) \/ RejectDelta(d) \/ ApplyDelta(d)
    \/ SendReport
    \/ LoseState \/ LoseSignal

LayerSpec == LayerInit /\ [][LayerNext]_layerVars

-----------------------------------------------------------------------------
(* Properties.                                                             *)

Bases == [tick : 0..MaxTick, content : Contents]

LayerTypeOK ==
    /\ tick \in Ticks /\ past \in [Ticks -> Contents]
    /\ row \in [Layers -> Bases] /\ confirmed \in [Layers -> Bases]
    /\ \A l \in Layers : Len(ring[l]) <= RingCap /\ ToSet(ring[l]) \subseteq Bases
    /\ shieldAt \in [Layers -> 0..MaxTick] /\ requested \in [Layers -> BOOLEAN]
    /\ reported \in [Layers -> 0..MaxTick] /\ published \in 0..MaxTick
    /\ pass.step \in {"idle", "row", "ring", "send"} /\ pass.layer \in Layers
    /\ pass.row \in Bases /\ pass.anchor \in Bases /\ pass.shield \in BOOLEAN
    /\ handler.layer \in 0..NLayers /\ handler.base \in Bases
    /\ full \in BOOLEAN /\ asks \subseteq Layers /\ reports \subseteq [Layers -> 0..MaxTick]
    /\ \A d \in deltas : d.layer \in Layers /\ d.base \in 0..MaxTick /\ d.tick \in Ticks
    /\ applied \in [Layers -> 0..MaxTick] /\ held \in Bases /\ view \in Contents
    /\ lastReported \in [Layers -> 0..MaxTick] /\ askedAt \in [Layers -> 0..MaxTick]

(* "If the client applies this send, it holds exactly this content, and    *)
(* its applied clock reads base_tick" (server.rs 289): a layer's clock     *)
(* names the tick whose world the client holds for that layer, in the      *)
(* frame it merges into and in the map the game reads (entity_states),     *)
(* which follows the deltas and not the frame, whatever deltas were lost,  *)
(* duplicated or overtaken.                                                *)
ClockTellsContent ==
    \A l \in DOMAIN applied : applied[l] # 0 =>
        /\ On(l, held.content) = On(l, past[applied[l]])
        /\ On(l, view) = On(l, past[applied[l]])

(* Bug 757: as long as no state datagram was lost or overtaken, the next   *)
(* delta of a layer is based on the tick the client's clock reads, however *)
(* the report handler interleaves with the pass: no layer ever stalls.     *)
UndisturbedNeverStalls ==
    ~disturbed /\ ~full =>
        \A d \in deltas :
            (\A x \in deltas : x.layer = d.layer => d.tick <= x.tick)
                => Stale(d) \/ ~Mismatch(d)

(* "The confirmed base never moves on a guess" (server.rs 368): what the   *)
(* server takes for confirmed is never ahead of the client.                *)
ConfirmedIsHeld ==
    \A l \in DOMAIN applied :
        /\ confirmed[l].tick <= reported[l] /\ reported[l] <= applied[l]
        /\ row[l].tick \in {1, confirmed[l].tick} \/ handler.layer = l

(* The layer l as a replica; what its variables are made of.               *)
Replica(l) == INSTANCE LayerReplica WITH
    Blank <- Empty,
    history <- [t \in 1..tick |-> On(l, past[t])],
    clock <- applied[l], frame <- On(l, held.content), seen <- On(l, view),
    known <- confirmed[l].tick

replicaVars == <<simVars, applied, held, view, confirmed>>
ReplicasStep == \A l \in DOMAIN applied : [Replica(l)!Next]_(Replica(l)!vars)

(* Each layer implements LayerReplica: through loss, duplication,          *)
(* overtaking within the layer, resyncs and the other layers' deltas, the  *)
(* client goes forward through worlds the server had, each whole, and the  *)
(* server's confirmed base follows behind (server.rs 289, 368).  A step    *)
(* that leaves replicaVars alone is a stutter of every replica.            *)
ImplementsReplica ==
    /\ \A l \in DOMAIN applied : Replica(l)!Init
    /\ [][UNCHANGED replicaVars \/ ReplicasStep]_layerVars

(* A lost delta is healed by the scheduled resync or by the shield: when   *)
(* the world and the network have been calm for the resync period and the  *)
(* interval that may still bring a delta the client cannot use (Gap), the  *)
(* client holds the world in its frame and in its map, layer by layer, but *)
(* for a layer that has emptied.                                           *)
Gap(l) == IF Interval[l] = OnChange THEN 1 ELSE Interval[l]

CalmHeals ==
    \A l \in Layers :
        calm >= Resync[l] + Gap(l) - 1 /\ pass.step = "idle" /\ CaughtUp /\ World(l) # Empty
            => On(l, held.content) = World(l) /\ On(l, view) = World(l)

(* "A resync is exactly the mechanism that prunes an emptied layer"        *)
(* (server.rs 2509, bug 173): a layer that has emptied heals as well.  This *)
(* does not hold: an empty resync is not sent (README, section 5).         *)
EmptiedLayerHeals ==
    \A l \in Layers :
        calm > Resync[l] + ConfirmAge /\ pass.step = "idle" /\ CaughtUp
            => On(l, view) = World(l)
=============================================================================
