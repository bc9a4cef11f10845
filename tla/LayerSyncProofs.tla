-------------------------- MODULE LayerSyncProofs ---------------------------
(***************************************************************************)
(* What holds of the replication to one client for any number of layers    *)
(* and entities, any schedule of the publish pass and of the report        *)
(* handler, any ring and any loss, and that a calm heals what was lost.    *)
(***************************************************************************)
EXTENDS LayerSync, FiniteSetTheorems, TLAPS

(* Two contents agree: the same entities, and the same values when the     *)
(* compressor withholds no difference (Eps = 0).                           *)
Agree(a, b) == DOMAIN a = DOMAIN b /\ (Eps = 0 => \A e \in DOMAIN a : a[e] = b[e])

(* The tick of the newest send of a layer, which is what the next one is   *)
(* diffed against: the ring's end, else the confirmed base, else the full. *)
LastSent(l) ==
    IF ring[l] # << >> THEN ring[l][Len(ring[l])].tick
    ELSE IF confirmed[l].tick # 0 THEN confirmed[l].tick ELSE 1

-----------------------------------------------------------------------------
(* Types, with the shape of a delta.                                       *)

Steps == {"idle", "row", "ring", "send"}
Deltas == [layer : Layers, resync : BOOLEAN, base : 0..MaxTick, tick : Ticks,
           created : Contents, updated : Contents, destroyed : SUBSET Entities]

Types ==
    /\ tick \in Ticks /\ past \in [Ticks -> Contents]
    /\ row \in [Layers -> Bases] /\ confirmed \in [Layers -> Bases]
    /\ ring \in [Layers -> Seq(Bases)]
    /\ shieldAt \in [Layers -> 0..MaxTick] /\ requested \in [Layers -> BOOLEAN]
    /\ reported \in [Layers -> 0..MaxTick] /\ published \in 0..MaxTick
    /\ pass \in [step : Steps, layer : Layers, row : Bases, anchor : Bases, shield : BOOLEAN]
    /\ handler \in [layer : 0..NLayers, base : Bases]
    /\ full \in BOOLEAN /\ deltas \subseteq Deltas
    /\ reports \subseteq [Layers -> 0..MaxTick] /\ asks \subseteq Layers
    /\ applied \in [Layers -> 0..MaxTick] /\ held \in Bases /\ view \in Contents
    /\ lastReported \in [Layers -> 0..MaxTick] /\ askedAt \in [Layers -> 0..MaxTick]

RingsFit == \A l \in Layers : Len(ring[l]) <= RingCap

(* What the server keeps or has read as the base of a layer is the world   *)
(* of the tick it is stamped with, and a delta is the exact difference of  *)
(* the two ticks it names.                                                 *)
Truthful(l, b) == b.tick \in 1..tick /\ b.content = On(l, past[b.tick])

Describes(d, old, new) ==
    /\ d.created = [e \in DOMAIN new \ DOMAIN old |-> new[e]]
    /\ d.updated = [e \in {x \in DOMAIN new \cap DOMAIN old : Changed(old[x], new[x])} |-> new[e]]
    /\ d.destroyed = DOMAIN old \ DOMAIN new

Exact(d) ==
    /\ d.tick \in 1..tick /\ d.base \in 1..(d.tick - 1)
    /\ Describes(d, IF d.resync THEN Empty ELSE On(d.layer, past[d.base]),
                 On(d.layer, past[d.tick]))

BasesTrue ==
    /\ \A l \in Layers :
          /\ Truthful(l, row[l])
          /\ confirmed[l].tick # 0 => Truthful(l, confirmed[l])
          /\ \A i \in 1..Len(ring[l]) : Truthful(l, ring[l][i])
    /\ pass.step \in {"ring", "send"} => Truthful(pass.layer, pass.row)
    /\ pass.step = "send" => Truthful(pass.layer, pass.anchor)
    /\ handler.base # NoBase => handler.layer # 0 /\ Truthful(handler.layer, handler.base)

DeltasExact == \A d \in deltas : Exact(d)

(* Where the client is: no layer is behind a delta of another that is in   *)
(* flight, so a delta that applies is not older than the frame.            *)
FrameNewest ==
    /\ \A l \in Layers : applied[l] <= tick
    /\ \A d \in deltas : \A l \in Layers \ {d.layer} : applied[l] <= d.tick
    /\ held.tick = 0 \/ \E l \in Layers : held.tick <= applied[l]

ClockAgrees ==
    \A l \in Layers : applied[l] # 0 =>
        /\ Agree(On(l, held.content), On(l, past[applied[l]]))
        /\ Agree(On(l, view), On(l, past[applied[l]]))

-----------------------------------------------------------------------------
(* What the server takes for confirmed trails what was reported, which     *)
(* trails what the client applied, which trails what was sent.             *)
Trailing ==
    \A l \in Layers :
        /\ confirmed[l].tick <= reported[l] /\ reported[l] <= applied[l]
        /\ lastReported[l] <= applied[l] /\ \A r \in reports : r[l] <= applied[l]
        /\ row[l].tick \in {1, confirmed[l].tick} \/ (handler.layer = l /\ handler.base # NoBase)

Confirming == handler.base # NoBase =>
    /\ handler.layer # 0 /\ handler.base.tick # 0
    /\ handler.base = confirmed[handler.layer]

RingOrdered ==
    \A l \in Layers :
        /\ applied[l] <= LastSent(l) /\ LastSent(l) <= tick
        /\ \A i \in 1..Len(ring[l]) : ring[l][i].tick \in 1..LastSent(l)
        /\ \A d \in deltas : d.layer = l => d.tick <= LastSent(l)

(* What the pass has read of a layer is not overtaken by the handler.      *)
PassCurrent ==
    /\ pass.step = "ring" /\ confirmed[pass.layer].tick = 0 => pass.row.tick = 1
    /\ pass.step = "send" => pass.anchor.tick = LastSent(pass.layer)

(* While nothing is lost or overtaken, the deltas of a layer in flight are *)
(* a chain from the client's clock to the newest send.                     *)
Clock(l) == IF applied[l] = 0 THEN 1 ELSE applied[l]
InFlight(l, t) == \E x \in deltas : x.layer = l /\ x.tick = t

Linked(d) ==
    d.tick > Clock(d.layer) =>
        /\ d.base >= Clock(d.layer)
        /\ d.base = Clock(d.layer) \/ InFlight(d.layer, d.base)

Chained ==
    ~disturbed =>
        /\ (full /\ \A l \in Layers : applied[l] = 0) \/ \A l \in Layers : applied[l] # 0
        /\ \A l \in Layers : LastSent(l) = Clock(l) \/ InFlight(l, LastSent(l))
        /\ \A d \in deltas : Linked(d)
        /\ \A d, x \in deltas : x.layer = d.layer /\ x.tick < d.tick => x.tick <= d.base

-----------------------------------------------------------------------------
(* Facts about contents.                                                   *)

(* A content is a function from entities to values.                        *)
LEMMA ContentFacts ==
    ASSUME NEW c \in Contents
    PROVE  /\ DOMAIN c \subseteq Entities /\ c \in [DOMAIN c -> 0..MaxVal]
           /\ \A e \in DOMAIN c : c[e] \in 0..MaxVal /\ c[e] \in Int
<1>1. PICK S \in SUBSET Entities : c \in [S -> 0..MaxVal]
  BY DEF Contents
<1> QED
  BY <1>1, LayerAssumption

LEMMA IsContent ==
    ASSUME NEW S \in SUBSET Entities, NEW f \in [S -> 0..MaxVal]
    PROVE  f \in Contents
BY DEF Contents

LEMMA EmptyIsContent == Empty \in Contents /\ DOMAIN Empty = {}
<1>1. Empty \in [{} -> 0..MaxVal] /\ {} \in SUBSET Entities
  BY DEF Empty
<1> QED
  BY <1>1, IsContent DEF Empty

LEMMA NoBaseIsBase == NoBase \in Bases /\ NoBase.tick = 0
BY EmptyIsContent, LayerAssumption DEF NoBase, Bases

(* The part of a content that is of one layer.                             *)
LEMMA OnIsContent ==
    ASSUME NEW l, NEW c \in Contents
    PROVE  On(l, c) \in Contents /\ DOMAIN On(l, c) = {x \in DOMAIN c : x[1] = l}
<1>1. On(l, c) \in [{x \in DOMAIN c : x[1] = l} -> 0..MaxVal]
  BY ContentFacts DEF On
<1> QED
  BY <1>1, IsContent, ContentFacts

-----------------------------------------------------------------------------
(* Types.                                                                  *)

LEMMA ConstantFacts ==
    /\ MaxTick \in Nat \ {0} /\ NLayers \in Nat \ {0} /\ RingCap \in Nat \ {0}
    /\ 1 \in Ticks /\ Layers \subseteq 0..NLayers /\ 1 \in Layers /\ 0 \in 0..MaxTick
    /\ Ticks \subseteq 0..MaxTick
BY LayerAssumption DEF Ticks, Layers

LEMMA TypesInit == LayerInit => Types /\ RingsFit
<1> SUFFICES ASSUME LayerInit PROVE Types /\ RingsFit
  OBVIOUS
<1> USE ConstantFacts, EmptyIsContent, NoBaseIsBase
<1>1. tick = 1 /\ past \in [Ticks -> Contents]
  BY DEF LayerInit
<1>2. \A l \in Layers : World(l) \in Contents
  BY <1>1, OnIsContent DEF World
<1>3. row \in [Layers -> Bases]
  BY <1>2 DEF LayerInit, Bases
<1>4. ring \in [Layers -> Seq(Bases)] /\ RingsFit
  BY DEF LayerInit, RingsFit
<1> QED
  BY <1>1, <1>3, <1>4 DEF LayerInit, Types, Idle, Resting, Steps

(* What a delta is made of.                                                *)
LEMMA DeltaType ==
    ASSUME Types, NEW l \in Layers, NEW resync \in BOOLEAN, NEW b \in Bases
    PROVE  Delta(l, resync, b) \in Deltas
<1> DEFINE old == IF resync THEN Empty ELSE b.content
<1> DEFINE new == World(l)
<1> DEFINE both == {x \in DOMAIN new \cap DOMAIN old : Changed(old[x], new[x])}
<1>1. old \in Contents /\ new \in Contents
  BY EmptyIsContent, OnIsContent, ConstantFacts DEF Types, Bases, World
<1> HIDE DEF old, new
<1>2. DOMAIN old \subseteq Entities /\ DOMAIN new \subseteq Entities
      /\ \A e \in DOMAIN new : new[e] \in 0..MaxVal
  BY <1>1, ContentFacts
<1>3. [e \in DOMAIN new \ DOMAIN old |-> new[e]] \in Contents
  <2>1. [e \in DOMAIN new \ DOMAIN old |-> new[e]] \in [DOMAIN new \ DOMAIN old -> 0..MaxVal]
    BY <1>2
  <2> QED
    BY <1>2, <2>1, IsContent
<1>4. [e \in both |-> new[e]] \in Contents
  <2>1. [e \in both |-> new[e]] \in [both -> 0..MaxVal] /\ both \in SUBSET Entities
    BY <1>2
  <2> QED
    BY <2>1, IsContent
<1>5. DOMAIN old \ DOMAIN new \in SUBSET Entities
  BY <1>2
<1>6. b.tick \in 0..MaxTick /\ tick \in Ticks
  BY DEF Types, Bases
<1>7. Delta(l, resync, b) =
        [layer |-> l, resync |-> resync, base |-> b.tick, tick |-> tick,
         created |-> [e \in DOMAIN new \ DOMAIN old |-> new[e]],
         updated |-> [e \in both |-> new[e]],
         destroyed |-> DOMAIN old \ DOMAIN new]
  BY DEF Delta, old, new
<1> HIDE DEF both
<1> QED
  BY <1>3, <1>4, <1>5, <1>6, <1>7 DEF Deltas

(* What the client makes of a delta.                                       *)
LEMMA MergeType ==
    ASSUME NEW c \in Contents, NEW d \in Deltas
    PROVE  Merge(c, d) \in Contents
<1>1. d.created \in Contents /\ d.updated \in Contents
  BY DEF Deltas
<1>2. Pruned(c, d) \in Contents
  <2>1. DOMAIN Pruned(c, d) \in SUBSET Entities /\ Pruned(c, d) \in [DOMAIN Pruned(c, d) -> 0..MaxVal]
    BY ContentFacts DEF Pruned
  <2> QED
    BY <2>1, IsContent
<1> DEFINE base == Pruned(c, d)
<1> DEFINE ids == (DOMAIN base \cup DOMAIN d.created) \ d.destroyed
<1> DEFINE val(e) == IF e \in DOMAIN d.updated THEN d.updated[e]
                     ELSE IF e \in DOMAIN d.created THEN d.created[e] ELSE base[e]
<1>3. ids \in SUBSET Entities /\ \A e \in ids : val(e) \in 0..MaxVal
  BY <1>1, <1>2, ContentFacts
<1>4. Merge(c, d) = [e \in ids |-> val(e)]
  BY DEF Merge
<1>5. [e \in ids |-> val(e)] \in [ids -> 0..MaxVal]
  BY <1>3
<1> HIDE DEF ids, val
<1> QED
  BY <1>3, <1>4, <1>5, IsContent

LEMMA ViewType ==
    ASSUME NEW v \in Contents, NEW target \in Contents, NEW d \in Deltas
    PROVE  ViewAfter(v, d, target) \in Contents
<1> DEFINE carried == (DOMAIN d.created \cup DOMAIN d.updated) \cap DOMAIN target
<1> DEFINE dead == {e \in DOMAIN v : d.resync /\ e[1] = d.layer /\ e \notin DOMAIN target}
<1> DEFINE ids == ((DOMAIN v \ dead) \cup carried) \ d.destroyed
<1>1. /\ DOMAIN v \subseteq Entities /\ DOMAIN target \subseteq Entities
      /\ \A e \in DOMAIN v : v[e] \in 0..MaxVal
      /\ \A e \in DOMAIN target : target[e] \in 0..MaxVal
  BY ContentFacts
<1>2. ids \in SUBSET Entities
      /\ \A e \in ids : (IF e \in carried THEN target[e] ELSE v[e]) \in 0..MaxVal
  BY <1>1
<1>3. ViewAfter(v, d, target) = [e \in ids |-> IF e \in carried THEN target[e] ELSE v[e]]
  BY DEF ViewAfter
<1> HIDE DEF ids, carried
<1>4. [e \in ids |-> IF e \in carried THEN target[e] ELSE v[e]] \in [ids -> 0..MaxVal]
  BY <1>2
<1> QED
  BY <1>2, <1>3, <1>4, IsContent

(* The ring after a send and after a report.                               *)
LEMMA QueueType ==
    ASSUME NEW q \in Seq(Bases), Len(q) <= RingCap, NEW b \in Bases
    PROVE  /\ Queue(q, b) \in Seq(Bases) /\ Len(Queue(q, b)) \in 1..RingCap
           /\ Queue(q, b)[Len(Queue(q, b))] = b
           /\ \A i \in 1..Len(Queue(q, b)) :
                 Queue(q, b)[i] = b \/ \E j \in 1..Len(q) : Queue(q, b)[i] = q[j]
<1>1. CASE Len(q) < RingCap
  <2>1. Queue(q, b) = Append(q, b)
    BY <1>1 DEF Queue
  <2> QED
    BY <1>1, <2>1, ConstantFacts
<1>2. CASE ~(Len(q) < RingCap)
  <2>1. Queue(q, b) = Append(Tail(q), b) /\ Len(q) = RingCap /\ q # << >>
    BY <1>2, ConstantFacts DEF Queue
  <2>2. /\ Tail(q) \in Seq(Bases) /\ Len(Tail(q)) = Len(q) - 1
        /\ \A i \in 1..(Len(q) - 1) : Tail(q)[i] = q[i + 1]
    BY <2>1
  <2>3. Len(Append(Tail(q), b)) = Len(q)
    BY <2>1, <2>2
  <2>4. \A i \in 1..Len(q) : Append(Tail(q), b)[i] = IF i = Len(q) THEN b ELSE q[i + 1]
    BY <2>1, <2>2
  <2> QED
    BY <2>1, <2>2, <2>3, <2>4, ConstantFacts
<1> QED
  BY <1>1, <1>2

LEMMA PoppedType ==
    ASSUME NEW q \in Seq(Bases), NEW a, NEW n \in Popped(q, a)
    PROVE  /\ SubSeq(q, n + 1, Len(q)) \in Seq(Bases)
           /\ n \in 0..Len(q) /\ Len(SubSeq(q, n + 1, Len(q))) = Len(q) - n
           /\ \A i \in 1..(Len(q) - n) : SubSeq(q, n + 1, Len(q))[i] = q[n + i]
BY DEF Popped

LEMMA LastIsIn ==
    ASSUME NEW S, NEW s \in Seq(S), s # << >>
    PROVE  Last(s) \in S /\ Last(s) = s[Len(s)] /\ Len(s) \in Nat \ {0}
BY DEF Last

(* The handler goes through the layers and rests.                          *)
LEMMA AfterLayerIs ==
    ASSUME NEW l \in Layers
    PROVE  AfterLayer(l) = [layer |-> IF l = NLayers THEN 0 ELSE l + 1, base |-> NoBase]
<1>1. l \in 1..NLayers /\ NLayers \in Nat \ {0}
  BY ConstantFacts DEF Layers
<1>2. (NLayers + 1) % (NLayers + 1) = 0
  BY <1>1
<1>3. l # NLayers => (l + 1) % (NLayers + 1) = l + 1
  BY <1>1
<1> QED
  BY <1>2, <1>3 DEF AfterLayer

Passes == [step : Steps, layer : Layers, row : Bases, anchor : Bases, shield : BOOLEAN]

LEMMA NextLayerIs ==
    ASSUME NEW l \in Layers
    PROVE  NextLayer(l) \in Passes /\ NextLayer(l).step \in {"idle", "row"}
<1>1. l \in 1..NLayers /\ NLayers \in Nat \ {0}
  BY ConstantFacts DEF Layers
<1>2. l # NLayers => l + 1 \in Layers
  BY <1>1 DEF Layers
<1>3. Idle \in Passes
  BY ConstantFacts, NoBaseIsBase DEF Idle, Passes, Steps
<1>4. l # NLayers => [Idle EXCEPT !.step = "row", !.layer = l + 1] \in Passes
  BY <1>2, <1>3 DEF Passes, Steps
<1> QED
  BY <1>3, <1>4 DEF NextLayer, Idle

LEMMA RingType ==
    ASSUME Types, NEW l \in Layers
    PROVE  ring[l] \in Seq(Bases)
BY DEF Types

(* The report handler takes a base for one of the layers.                  *)
LEMMA TakesALayer ==
    ASSUME Types, TakeConfirmed
    PROVE  handler.layer \in Layers
<1>1. handler.layer \in 0..NLayers
  BY DEF Types
<1>2. handler.layer # 0
  BY DEF TakeConfirmed
<1> QED
  BY <1>1, <1>2, ConstantFacts DEF Layers

LEMMA TypesStep == Types /\ RingsFit /\ [LayerNext]_layerVars => Types' /\ RingsFit'
<1> SUFFICES ASSUME Types, RingsFit, [LayerNext]_layerVars PROVE Types' /\ RingsFit'
  OBVIOUS
<1> USE ConstantFacts, NoBaseIsBase
<1>1. CASE Simulate
  <2> PICK w \in Contents : past' = [past EXCEPT ![tick + 1] = w]
    BY <1>1 DEF Simulate
  <2>1. tick' \in Ticks /\ past' \in [Ticks -> Contents]
    BY <1>1 DEF Simulate, Types, Ticks
  <2> QED
    BY <1>1, <2>1 DEF Simulate, Types, RingsFit, serverVars, baseVars, network, stream, clientVars
<1>2. CASE StartPass
  BY <1>2 DEF StartPass, Types, RingsFit, simVars, baseVars, network, stream, clientVars, Ticks,
              Idle, Steps
<1>3. CASE ReadRow
  BY <1>3 DEF ReadRow, Types, RingsFit, simVars, baseVars, network, stream, clientVars, Steps
<1>4. CASE ReadRing
  <2>1. Anchor(pass.layer, pass.row) \in Bases /\ ShieldDue(pass.layer) \in BOOLEAN
    <3>1. ring[pass.layer] # << >> => Last(ring[pass.layer]) \in Bases
      BY RingType, LastIsIn DEF Types
    <3> QED
      BY <3>1 DEF Types, Anchor, ShieldDue
  <2> QED
    BY <1>4, <2>1 DEF ReadRing, Types, RingsFit, simVars, baseVars, network, stream, clientVars, Steps
<1>5. CASE SendLayer
  <2> DEFINE l == pass.layer
             resync == NeedsResync(l, tick - pass.anchor.tick, requested[l] \/ pass.shield)
             b == [tick |-> tick, content |-> World(l)]
  <2>1. /\ l \in Layers /\ resync \in BOOLEAN /\ pass.anchor \in Bases
        /\ tick \in Ticks /\ tick \in 0..MaxTick
    BY DEF Types, NeedsResync
  <2>2. Delta(l, resync, pass.anchor) \in Deltas
    BY <2>1, DeltaType
  <2>3. b \in Bases
    BY <2>1, OnIsContent DEF Types, World, Bases
  <2>4. Queue(ring[l], b) \in Seq(Bases) /\ Len(Queue(ring[l], b)) <= RingCap
    <3>1. ring[l] \in Seq(Bases) /\ Len(ring[l]) <= RingCap
      BY <2>1, RingType DEF RingsFit
    <3> HIDE DEF b
    <3>2. Queue(ring[l], b) \in Seq(Bases) /\ Len(Queue(ring[l], b)) \in 1..RingCap
      BY <2>3, <3>1, QueueType
    <3> QED
      BY <3>2
  <2>5. NextLayer(l) \in Passes
    BY <2>1, NextLayerIs
  <2>6. deltas' \subseteq Deltas
    BY <1>5, <2>2 DEF SendLayer, Types
  <2>7. ring' \in [Layers -> Seq(Bases)] /\ RingsFit'
    <3>1. ring' = ring \/ ring' = [ring EXCEPT ![l] = Queue(@, b)]
      BY <1>5 DEF SendLayer
    <3> HIDE DEF b, l
    <3>2. ring \in [Layers -> Seq(Bases)] /\ \A k \in Layers : Len(ring[k]) <= RingCap
      BY DEF Types, RingsFit
    <3> QED
      BY <2>1, <2>4, <3>1, <3>2 DEF RingsFit
  <2>8. pass' = NextLayer(l)
    BY <1>5 DEF SendLayer
  <2>9. requested' \in [Layers -> BOOLEAN] /\ shieldAt' \in [Layers -> 0..MaxTick]
    BY <1>5, <2>1 DEF SendLayer, Types
  <2> QED
    BY <1>5, <2>5, <2>6, <2>7, <2>8, <2>9 DEF SendLayer, Types, Passes, simVars, network, clientVars
<1>6. CASE \E l \in asks : ReceiveAsk(l)
  BY <1>6 DEF ReceiveAsk, Types, RingsFit, simVars, baseVars, network, stream, clientVars
<1>7. CASE \E r \in reports : ReceiveReport(r)
  <2> PICK r \in reports : ReceiveReport(r)
    BY <1>7
  <2>1. reported' \in [Layers -> 0..MaxTick]
    BY DEF ReceiveReport, Merged, Types
  <2> QED
    BY <2>1 DEF ReceiveReport, Types, RingsFit, simVars, baseVars, network, stream, clientVars, Resting
<1>8. CASE TakeConfirmed
  <2> DEFINE l == handler.layer
  <2>1. l \in Layers
    BY <1>8, TakesALayer
  <2>2. Matching(ring[l], reported[l]) \subseteq Bases
    <3>1. ring[l] \in Seq(Bases)
      BY <2>1, RingType
    <3> QED
      BY <3>1 DEF Matching, ToSet
  <2>3. ring' \in [Layers -> Seq(Bases)] /\ RingsFit'
    <3>1. PICK n \in Popped(ring[l], reported[l]) :
             ring' = [ring EXCEPT ![l] = SubSeq(@, n + 1, Len(@))]
      BY <1>8 DEF TakeConfirmed
    <3>2. SubSeq(ring[l], n + 1, Len(ring[l])) \in Seq(Bases)
          /\ Len(SubSeq(ring[l], n + 1, Len(ring[l]))) <= RingCap
      <4>1. ring[l] \in Seq(Bases) /\ Len(ring[l]) <= RingCap /\ Len(ring[l]) \in Nat
        <5>1. ring[l] \in Seq(Bases)
          BY <2>1, RingType
        <5>2. Len(ring[l]) <= RingCap
          BY <2>1 DEF RingsFit
        <5> QED
          BY <5>1, <5>2
      <4> HIDE DEF l
      <4>2. Len(SubSeq(ring[l], n + 1, Len(ring[l]))) = Len(ring[l]) - n /\ n \in 0..Len(ring[l])
            /\ SubSeq(ring[l], n + 1, Len(ring[l])) \in Seq(Bases)
        BY <4>1, PoppedType
      <4> QED
        BY <4>1, <4>2
    <3> QED
      BY <2>1, <3>1, <3>2 DEF Types, RingsFit
  <2>4. confirmed' \in [Layers -> Bases] /\ handler' \in [layer : 0..NLayers, base : Bases]
    <3>1. AfterLayer(l) \in [layer : 0..NLayers, base : Bases]
      BY <2>1, AfterLayerIs DEF Layers
    <3> QED
      <4>1. \/ confirmed' = confirmed /\ handler' = AfterLayer(l)
            \/ \E b \in Bases : /\ confirmed' = [confirmed EXCEPT ![l] = b]
                                /\ handler' = [handler EXCEPT !.base = b]
        BY <1>8, <2>2 DEF TakeConfirmed
      <4>2. handler \in [layer : 0..NLayers, base : Bases] /\ confirmed \in [Layers -> Bases]
        BY DEF Types
      <4> HIDE DEF l
      <4> QED
        BY <2>1, <3>1, <4>1, <4>2
  <2> QED
    BY <1>8, <2>3, <2>4 DEF TakeConfirmed, Types, simVars, network, stream, clientVars
<1>9. CASE MirrorRow
  <2>1. handler.layer \in 0..NLayers /\ handler.base \in Bases
    BY DEF Types
  <2>2. row' \in [Layers -> Bases]
    BY <1>9, <2>1 DEF MirrorRow, Types
  <2>3. handler' \in [layer : 0..NLayers, base : Bases]
    <3>1. (handler.layer + 1) % (NLayers + 1) \in 0..NLayers
      BY <2>1
    <3> QED
      BY <1>9, <3>1 DEF MirrorRow, AfterLayer
  <2> QED
    BY <1>9, <2>2, <2>3 DEF MirrorRow, Types, RingsFit, simVars, network, stream, clientVars
<1>10. CASE ReceiveFull
  <2>1. past[1] \in Contents /\ 1 \in 0..MaxTick
    BY DEF Types
  <2>2. applied' \in [Layers -> 0..MaxTick] /\ held' \in Bases /\ view' \in Contents
    <3>1. \/ applied' = applied /\ held' = held /\ view' = view
          \/ /\ applied' = [l \in Layers |-> 1]
             /\ held' = [tick |-> 1, content |-> past[1]] /\ view' = past[1]
      BY <1>10 DEF ReceiveFull
    <3>2. [l \in Layers |-> 1] \in [Layers -> 0..MaxTick] /\ [tick |-> 1, content |-> past[1]] \in Bases
      BY <2>1 DEF Bases
    <3>3. applied \in [Layers -> 0..MaxTick] /\ held \in Bases /\ view \in Contents
      BY DEF Types
    <3> QED
      BY <2>1, <3>1, <3>2, <3>3
  <2>3. full' \in BOOLEAN
    BY <1>10 DEF ReceiveFull
  <2> QED
    BY <1>10, <2>2, <2>3 DEF ReceiveFull, Types, RingsFit, simVars, serverVars, baseVars
<1>11. CASE \E d \in deltas : DropStale(d) \/ RejectDelta(d) \/ ApplyDelta(d)
  <2> PICK d \in deltas : DropStale(d) \/ RejectDelta(d) \/ ApplyDelta(d)
    BY <1>11
  <2>1. Arrive(d) => deltas' \subseteq Deltas
    BY DEF Arrive, Types
  <2>2. CASE DropStale(d)
    BY <2>1, <2>2 DEF DropStale, Types, RingsFit, simVars, serverVars, baseVars, clientVars
  <2>3. CASE RejectDelta(d)
    <3>1. asks' \subseteq Layers /\ askedAt' \in [Layers -> 0..MaxTick]
      <4>1. d.layer \in Layers /\ tick \in 0..MaxTick
        BY DEF Types, Deltas, Ticks
      <4> QED
        <5>1. \/ asks' = asks \cup {d.layer} /\ askedAt' = [askedAt EXCEPT ![d.layer] = tick]
              \/ asks' = asks /\ askedAt' = askedAt
          BY <2>3 DEF RejectDelta
        <5>2. asks \subseteq Layers /\ askedAt \in [Layers -> 0..MaxTick]
          BY DEF Types
        <5> QED
          BY <4>1, <5>1, <5>2
    <3> QED
      BY <2>1, <2>3, <3>1 DEF RejectDelta, Types, RingsFit, simVars, serverVars, baseVars
  <2>4. CASE ApplyDelta(d)
    <3> DEFINE target == Merge(held.content, d)
    <3>1. d \in Deltas /\ d.layer \in Layers /\ d.tick \in 0..MaxTick
      BY DEF Types, Deltas
    <3>2. target \in Contents
      BY <3>1, MergeType DEF Types, Bases
    <3>3. view' \in Contents
      BY <2>4, <3>1, <3>2, ViewType DEF ApplyDelta, Types
    <3>4. held' \in Bases /\ applied' \in [Layers -> 0..MaxTick]
      BY <2>4, <3>1, <3>2 DEF ApplyDelta, Types, Bases
    <3> QED
      BY <2>1, <2>4, <3>3, <3>4 DEF ApplyDelta, Types, RingsFit, simVars, serverVars, baseVars
  <2> QED
    BY <2>2, <2>3, <2>4
<1>12. CASE SendReport
  BY <1>12 DEF SendReport, Types, RingsFit, simVars, serverVars, baseVars, stream
<1>13. CASE LoseState
  BY <1>13 DEF LoseState, Types, RingsFit, serverVars, baseVars, clientVars
<1>14. CASE LoseSignal
  BY <1>14 DEF LoseSignal, Types, RingsFit, serverVars, baseVars, stream, clientVars
<1>15. CASE UNCHANGED layerVars
  BY <1>15 DEF layerVars, Types, RingsFit, simVars, serverVars, baseVars, network, stream, clientVars
<1> QED
  BY <1>1, <1>2, <1>3, <1>4, <1>5, <1>6, <1>7, <1>8, <1>9, <1>10, <1>11, <1>12, <1>13, <1>14,
     <1>15 DEF LayerNext

-----------------------------------------------------------------------------
(* The server's bases and the deltas tell the truth.                       *)

(* The past does not change.                                               *)
LEMMA PastKept ==
    ASSUME Types, [LayerNext]_layerVars
    PROVE  /\ tick \in 1..MaxTick /\ tick' \in 1..MaxTick /\ tick <= tick'
           /\ \A t \in 1..tick : t \in Ticks /\ past'[t] = past[t]
<1>1. tick \in 1..MaxTick /\ past \in [Ticks -> Contents] /\ MaxTick \in Nat
  BY ConstantFacts DEF Types, Ticks
<1>2. CASE Simulate
  <2>1. PICK w \in Contents : past' = [past EXCEPT ![tick + 1] = w]
    BY <1>2 DEF Simulate
  <2>2. tick' = tick + 1 /\ tick < MaxTick
    BY <1>2 DEF Simulate
  <2> QED
    BY <1>1, <2>1, <2>2 DEF Ticks
<1>3. ~Simulate => tick' = tick /\ past' = past
  BY DEF LayerNext, StartPass, ReadRow, ReadRing, SendLayer, ReceiveAsk, ReceiveReport,
         TakeConfirmed, MirrorRow, ReceiveFull, DropStale, RejectDelta, ApplyDelta, SendReport,
         LoseState, LoseSignal, simVars, layerVars
<1> QED
  BY <1>1, <1>2, <1>3 DEF Ticks

LEMMA BasesInit == LayerInit => BasesTrue /\ DeltasExact
<1> SUFFICES ASSUME LayerInit PROVE BasesTrue /\ DeltasExact
  OBVIOUS
<1>1. \A l \in Layers : Truthful(l, row[l])
  BY DEF LayerInit, World, Truthful
<1> QED
  BY <1>1, NoBaseIsBase DEF LayerInit, BasesTrue, DeltasExact, Idle, Resting

LEMMA BasesStep == Types /\ RingsFit /\ BasesTrue /\ [LayerNext]_layerVars => BasesTrue'
<1> SUFFICES ASSUME Types, RingsFit, BasesTrue, [LayerNext]_layerVars PROVE BasesTrue'
  OBVIOUS
<1> DEFINE T(l, b) == b.tick \in 1..tick' /\ b.content = On(l, past'[b.tick])
<1>1. \A l, b : Truthful(l, b) => T(l, b)
  BY PastKept DEF Truthful
<1>2. BasesTrue' = (
        /\ \A l \in Layers :
              /\ T(l, row'[l])
              /\ confirmed'[l].tick # 0 => T(l, confirmed'[l])
              /\ \A i \in 1..Len(ring'[l]) : T(l, ring'[l][i])
        /\ pass'.step \in {"ring", "send"} => T(pass'.layer, pass'.row)
        /\ pass'.step = "send" => T(pass'.layer, pass'.anchor)
        /\ handler'.base # NoBase => handler'.layer # 0 /\ T(handler'.layer, handler'.base))
  BY DEF BasesTrue, Truthful
<1>3. /\ \A l \in Layers :
            /\ T(l, row[l])
            /\ confirmed[l].tick # 0 => T(l, confirmed[l])
            /\ \A i \in 1..Len(ring[l]) : T(l, ring[l][i])
      /\ pass.step \in {"ring", "send"} => T(pass.layer, pass.row)
      /\ pass.step = "send" => T(pass.layer, pass.anchor)
      /\ handler.base # NoBase => handler.layer # 0 /\ T(handler.layer, handler.base)
  <2> HIDE DEF T
  <2> QED
    BY <1>1 DEF BasesTrue
<1>4. pass.layer \in Layers /\ tick \in 1..tick'
  BY PastKept, NoBaseIsBase DEF Types
<1> HIDE DEF T
<1>5. CASE UNCHANGED <<row, ring, confirmed, pass, handler>>
  BY <1>2, <1>3, <1>5
<1>6. CASE StartPass
  <2>1. pass'.step = "row" /\ UNCHANGED <<row, ring, confirmed, handler>>
    BY <1>6 DEF StartPass, Idle, baseVars
  <2> QED
    BY <1>2, <1>3, <2>1
<1>7. CASE ReadRow
  <2>1. /\ pass'.step = "ring" /\ pass'.layer = pass.layer /\ pass'.row = row[pass.layer]
        /\ UNCHANGED <<row, ring, confirmed, handler>>
    BY <1>7 DEF ReadRow, baseVars, Types
  <2> QED
    BY <1>2, <1>3, <1>4, <2>1
<1>8. CASE ReadRing
  <2>1. /\ pass'.step = "send" /\ pass'.layer = pass.layer /\ pass'.row = pass.row
        /\ pass'.anchor = Anchor(pass.layer, pass.row) /\ pass.step = "ring"
        /\ UNCHANGED <<row, ring, confirmed, handler>>
    BY <1>8 DEF ReadRing, baseVars, Types
  <2>2. T(pass.layer, Anchor(pass.layer, pass.row))
    <3>1. CASE ring[pass.layer] # << >>
      <4>1. /\ Last(ring[pass.layer]) = ring[pass.layer][Len(ring[pass.layer])]
            /\ Len(ring[pass.layer]) \in Nat \ {0}
        BY <1>4, <3>1, RingType, LastIsIn
      <4>2. Len(ring[pass.layer]) \in 1..Len(ring[pass.layer])
        BY <4>1
      <4> QED
        BY <1>3, <1>4, <3>1, <4>1, <4>2 DEF Anchor
    <3>2. CASE ring[pass.layer] = << >>
      BY <1>3, <1>4, <2>1, <3>2 DEF Anchor
    <3> QED
      BY <3>1, <3>2
  <2> QED
    BY <1>2, <1>3, <2>1, <2>2
<1>9. CASE SendLayer
  <2> DEFINE l == pass.layer
             b == [tick |-> tick, content |-> World(l)]
  <2>1. pass' = NextLayer(l) /\ UNCHANGED <<row, confirmed, handler, tick, past>>
    BY <1>9 DEF SendLayer, simVars
  <2>2. pass'.step \in {"idle", "row"}
    BY <1>4, <2>1, NextLayerIs
  <2>3. T(l, b)
    BY <1>4, <2>1 DEF T, World
  <2>4. ring' = ring \/ ring' = [ring EXCEPT ![l] = Queue(@, b)]
    BY <1>9 DEF SendLayer
  <2>5. b \in Bases
    <3>1. past[tick] \in Contents /\ tick \in 0..MaxTick
      BY ConstantFacts DEF Types
    <3> QED
      BY <3>1, OnIsContent DEF World, Bases
  <2> HIDE DEF b, l
  <2>6. ring[l] \in Seq(Bases) /\ Len(ring[l]) <= RingCap /\ l \in Layers
    BY <1>4, RingType DEF RingsFit, l
  <2>7. \A i \in 1..Len(Queue(ring[l], b)) : T(l, Queue(ring[l], b)[i])
    <3>1. \A i \in 1..Len(Queue(ring[l], b)) :
             Queue(ring[l], b)[i] = b \/ \E j \in 1..Len(ring[l]) : Queue(ring[l], b)[i] = ring[l][j]
      BY <2>5, <2>6, QueueType
    <3> QED
      BY <1>3, <2>3, <2>6, <3>1
  <2>8. ring \in [Layers -> Seq(Bases)]
    BY DEF Types
  <2>9. \A k \in Layers : \A i \in 1..Len(ring'[k]) : T(k, ring'[k][i])
    <3>1. CASE ring' = ring
      BY <1>3, <3>1
    <3>2. CASE ring' = [ring EXCEPT ![l] = Queue(@, b)]
      <4>1. ring'[l] = Queue(ring[l], b) /\ \A k \in Layers \ {l} : ring'[k] = ring[k]
        BY <2>6, <2>8, <3>2
      <4> QED
        BY <1>3, <2>7, <4>1
    <3> QED
      BY <2>4, <3>1, <3>2
  <2> QED
    BY <1>2, <1>3, <2>1, <2>2, <2>9
<1>10. CASE \E r \in reports : ReceiveReport(r)
  <2>1. handler'.base = NoBase /\ UNCHANGED <<row, ring, confirmed, pass>>
    BY <1>10 DEF ReceiveReport, Resting, baseVars
  <2> QED
    BY <1>2, <1>3, <2>1
<1>11. CASE TakeConfirmed
  <2> DEFINE l == handler.layer
  <2>1. l \in Layers /\ UNCHANGED <<row, pass>>
    BY <1>11, TakesALayer DEF TakeConfirmed
  <2>2. PICK n \in Popped(ring[l], reported[l]) :
           ring' = [ring EXCEPT ![l] = SubSeq(@, n + 1, Len(@))]
    BY <1>11 DEF TakeConfirmed
  <2>3. \/ confirmed' = confirmed /\ handler' = AfterLayer(l)
        \/ \E b \in Matching(ring[l], reported[l]) :
              /\ confirmed' = [confirmed EXCEPT ![l] = b]
              /\ handler' = [handler EXCEPT !.base = b]
    BY <1>11 DEF TakeConfirmed
  <2>4. ring \in [Layers -> Seq(Bases)] /\ confirmed \in [Layers -> Bases]
        /\ handler \in [layer : 0..NLayers, base : Bases] /\ l \in Nat \ {0}
    <3>1. l \in Nat \ {0}
      BY <2>1 DEF Layers
    <3>2. /\ ring \in [Layers -> Seq(Bases)] /\ confirmed \in [Layers -> Bases]
          /\ handler \in [layer : 0..NLayers, base : Bases]
      BY DEF Types
    <3> QED
      BY <3>1, <3>2
  <2>5. AfterLayer(l).base = NoBase
    BY DEF AfterLayer
  <2>6. handler.layer = l
    OBVIOUS
  <2> HIDE DEF l
  <2>7. \A b \in Matching(ring[l], reported[l]) : T(l, b)
    BY <1>3, <2>1 DEF Matching, ToSet
  <2>8. \A k \in Layers : \A i \in 1..Len(ring'[k]) : T(k, ring'[k][i])
    <3>1. /\ ring'[l] = SubSeq(ring[l], n + 1, Len(ring[l]))
          /\ \A k \in Layers \ {l} : ring'[k] = ring[k]
      BY <2>1, <2>2, <2>4
    <3>2. /\ n \in 0..Len(ring[l]) /\ Len(ring'[l]) = Len(ring[l]) - n
          /\ \A i \in 1..(Len(ring[l]) - n) : ring'[l][i] = ring[l][n + i]
      BY <2>1, <2>2, <2>4, <3>1, PoppedType
    <3>3. \A i \in 1..(Len(ring[l]) - n) : n + i \in 1..Len(ring[l])
      BY <2>1, <2>4, <3>2
    <3>4. \A i \in 1..Len(ring'[l]) : T(l, ring'[l][i])
      BY <1>3, <2>1, <3>2, <3>3
    <3> QED
      BY <1>3, <3>1, <3>4
  <2>9. CASE confirmed' = confirmed /\ handler' = AfterLayer(l)
    BY <1>2, <1>3, <2>1, <2>5, <2>8, <2>9
  <2>10. CASE \E b \in Matching(ring[l], reported[l]) :
                /\ confirmed' = [confirmed EXCEPT ![l] = b]
                /\ handler' = [handler EXCEPT !.base = b]
    <3> PICK b \in Matching(ring[l], reported[l]) :
                /\ confirmed' = [confirmed EXCEPT ![l] = b]
                /\ handler' = [handler EXCEPT !.base = b]
      BY <2>10
    <3>1. T(l, b) /\ confirmed'[l] = b /\ \A k \in Layers \ {l} : confirmed'[k] = confirmed[k]
      BY <2>1, <2>4, <2>7
    <3>2. handler'.base = b /\ handler'.layer = l
      BY <2>4, <2>6
    <3> QED
      BY <1>2, <1>3, <2>1, <2>4, <2>8, <3>1, <3>2
  <2> QED
    BY <2>3, <2>9, <2>10
<1>12. CASE MirrorRow
  <2>1. /\ row' = [row EXCEPT ![handler.layer] = handler.base] /\ handler.base # NoBase
        /\ handler'.base = NoBase /\ UNCHANGED <<ring, confirmed, pass>>
    BY <1>12 DEF MirrorRow, AfterLayer
  <2> QED
    BY <1>2, <1>3, <2>1 DEF Types
<1>13. ASSUME LayerNext, ~StartPass, ~ReadRow, ~ReadRing, ~SendLayer, ~TakeConfirmed, ~MirrorRow,
              ~ \E r \in reports : ReceiveReport(r)
       PROVE  UNCHANGED <<row, ring, confirmed, pass, handler>>
  BY <1>13 DEF LayerNext, Simulate, ReceiveAsk, ReceiveFull, DropStale, RejectDelta, ApplyDelta,
         SendReport, LoseState, LoseSignal, serverVars, baseVars
<1>14. UNCHANGED layerVars => UNCHANGED <<row, ring, confirmed, pass, handler>>
  BY DEF layerVars, serverVars, baseVars
<1> QED
  BY <1>5, <1>6, <1>7, <1>8, <1>9, <1>10, <1>11, <1>12, <1>13, <1>14

(* No action but SendLayer puts a delta in flight.                         *)
LEMMA OnlySendAdds ==
    ASSUME Types, [LayerNext]_layerVars, ~SendLayer
    PROVE  deltas' \subseteq deltas
BY DEF LayerNext, Simulate, StartPass, ReadRow, ReadRing, ReceiveAsk, ReceiveReport,
       TakeConfirmed, MirrorRow, ReceiveFull, DropStale, RejectDelta, ApplyDelta, Arrive, SendReport,
       LoseState, LoseSignal, network, stream, layerVars

(* What a send puts in flight, and that its ring's end names it.           *)
LEMMA SendIs ==
    ASSUME Types, RingsFit, SendLayer
    PROVE  LET l == pass.layer
               b == [tick |-> tick, content |-> World(l)]
           IN  /\ l \in Layers /\ b \in Bases
               /\ \/ deltas' = deltas /\ ring' = ring
                  \/ \E resync \in BOOLEAN :
                        /\ pass.anchor.tick < tick
                        /\ deltas' = deltas \cup {Delta(l, resync, pass.anchor)}
                        /\ ring' = [ring EXCEPT ![l] = Queue(@, b)]
<1> DEFINE l == pass.layer
           b == [tick |-> tick, content |-> World(l)]
           resync == NeedsResync(l, tick - pass.anchor.tick, requested[l] \/ pass.shield)
<1>1. l \in Layers /\ resync \in BOOLEAN
  BY DEF Types, NeedsResync
<1>2. past[tick] \in Contents /\ tick \in 0..MaxTick
  BY ConstantFacts DEF Types
<1>3. b \in Bases
  BY <1>2, OnIsContent DEF World, Bases
<1>4. \/ deltas' = deltas /\ ring' = ring
      \/ /\ Sendable(Delta(l, resync, pass.anchor))
         /\ deltas' = deltas \cup {Delta(l, resync, pass.anchor)}
         /\ ring' = [ring EXCEPT ![l] = Queue(@, b)]
  BY DEF SendLayer
<1>5. Sendable(Delta(l, resync, pass.anchor)) => pass.anchor.tick < tick
  BY DEF Sendable, Delta
<1> QED
  BY <1>1, <1>3, <1>4, <1>5

LEMMA DeltasStep ==
    Types /\ RingsFit /\ BasesTrue /\ DeltasExact /\ [LayerNext]_layerVars => DeltasExact'
<1> SUFFICES ASSUME Types, RingsFit, BasesTrue, DeltasExact, [LayerNext]_layerVars
             PROVE  DeltasExact'
  OBVIOUS
<1> DEFINE E(d) ==
      /\ d.tick \in 1..tick' /\ d.base \in 1..(d.tick - 1)
      /\ Describes(d, IF d.resync THEN Empty ELSE On(d.layer, past'[d.base]),
                   On(d.layer, past'[d.tick]))
<1>1. DeltasExact' = \A d \in deltas' : E(d)
  BY DEF DeltasExact, Exact, Describes, Changed, On
<1>2. \A d : Exact(d) => E(d)
  <2> SUFFICES ASSUME NEW d, Exact(d) PROVE E(d)
    OBVIOUS
  <2>1. d.tick \in 1..tick /\ d.base \in 1..(d.tick - 1)
    BY DEF Exact
  <2>2. d.tick \in 1..tick' /\ past'[d.tick] = past[d.tick] /\ past'[d.base] = past[d.base]
    BY <2>1, PastKept
  <2> QED
    BY <2>1, <2>2 DEF Exact
<1>3. CASE ~SendLayer
  BY <1>1, <1>2, <1>3, OnlySendAdds DEF DeltasExact
<1>4. CASE SendLayer
  <2> DEFINE l == pass.layer
  <2>1. UNCHANGED <<tick, past>> /\ pass.step = "send"
    BY <1>4 DEF SendLayer, simVars
  <2>2. Truthful(l, pass.anchor) /\ pass.anchor.tick \in 1..tick
    BY <2>1 DEF BasesTrue, Truthful
  <2>3. ASSUME NEW resync \in BOOLEAN, pass.anchor.tick < tick
        PROVE  Exact(Delta(l, resync, pass.anchor))
    <3> DEFINE d == Delta(l, resync, pass.anchor)
               old == IF resync THEN Empty ELSE pass.anchor.content
    <3>1. /\ d.layer = l /\ d.resync = resync /\ d.base = pass.anchor.tick /\ d.tick = tick
          /\ Describes(d, old, World(l))
      BY DEF Delta, Describes
    <3>2. World(l) = On(l, past[tick])
      BY DEF World
    <3>3. old = IF resync THEN Empty ELSE On(l, past[pass.anchor.tick])
      BY <2>2 DEF Truthful
    <3>4. tick \in 1..tick /\ pass.anchor.tick \in 1..(tick - 1)
      BY <2>2, <2>3, PastKept
    <3> HIDE DEF d, old
    <3> QED
      BY <3>1, <3>2, <3>3, <3>4 DEF Exact, d
  <2>4. \A d \in deltas' : Exact(d)
    BY <1>4, <2>3, SendIs DEF DeltasExact
  <2> QED
    BY <1>1, <1>2, <2>4
<1> QED
  BY <1>3, <1>4

-----------------------------------------------------------------------------
(* What a delta does to the client.                                        *)

(* Merging a delta into a content that agrees with its base gives one that *)
(* agrees with its target, and touches no other layer.                     *)
LEMMA MergeGives ==
    ASSUME Types, NEW d \in deltas, Exact(d), NEW c \in Contents,
           ~d.resync => Agree(On(d.layer, c), On(d.layer, past[d.base]))
    PROVE  /\ Agree(On(d.layer, Merge(c, d)), On(d.layer, past[d.tick]))
           /\ \A l \in Layers \ {d.layer} : On(l, Merge(c, d)) = On(l, c)
<1> DEFINE old == IF d.resync THEN Empty ELSE On(d.layer, past[d.base])
           new == On(d.layer, past[d.tick])
           m == Merge(c, d)
<1>1. d \in Deltas /\ d.tick \in Ticks /\ d.base \in Ticks /\ Describes(d, old, new)
  <2>1. d \in Deltas /\ tick \in 1..MaxTick /\ MaxTick \in Nat
    BY ConstantFacts DEF Types, Ticks
  <2>2. d.tick \in 1..tick /\ d.base \in 1..(d.tick - 1)
    BY DEF Exact
  <2> QED
    BY <2>1, <2>2 DEF Exact, Ticks
<1>2. past[d.tick] \in Contents /\ past[d.base] \in Contents
  BY <1>1 DEF Types
<1>3. old \in Contents /\ new \in Contents /\ m \in Contents
  BY <1>1, <1>2, OnIsContent, EmptyIsContent, MergeType
<1>4. /\ \A e \in DOMAIN old : e[1] = d.layer
      /\ \A e \in DOMAIN new : e[1] = d.layer
  <2>1. /\ DOMAIN On(d.layer, past[d.base]) = {x \in DOMAIN past[d.base] : x[1] = d.layer}
        /\ DOMAIN new = {x \in DOMAIN past[d.tick] : x[1] = d.layer}
    BY <1>2, OnIsContent
  <2>2. \A e \in DOMAIN new : e[1] = d.layer
    BY <2>1
  <2>3. \A e \in DOMAIN old : e[1] = d.layer
    <3>1. CASE d.resync
      BY <3>1, EmptyIsContent
    <3>2. CASE ~d.resync
      <4>1. DOMAIN old = {x \in DOMAIN past[d.base] : x[1] = d.layer}
        BY <2>1, <3>2
      <4> QED
        BY <4>1
    <3> QED
      BY <3>1, <3>2
  <2> QED
    BY <2>2, <2>3
<1> HIDE DEF old, new
<1>5. /\ \A e \in DOMAIN old : old[e] \in Int
      /\ \A e \in DOMAIN new : new[e] \in Int
  BY <1>3, ContentFacts
<1>6. /\ DOMAIN d.created = DOMAIN new \ DOMAIN old
      /\ DOMAIN d.updated = {x \in DOMAIN new \cap DOMAIN old : Changed(old[x], new[x])}
      /\ d.destroyed = DOMAIN old \ DOMAIN new
      /\ \A e \in DOMAIN d.created : d.created[e] = new[e]
      /\ \A e \in DOMAIN d.updated : d.updated[e] = new[e]
  BY <1>1 DEF Describes
<1> DEFINE base == Pruned(c, d)
<1>7. /\ DOMAIN base = {e \in DOMAIN c : e[1] # d.layer \/ ~d.resync}
      /\ \A e \in DOMAIN base : base[e] = c[e]
  BY DEF Pruned
<1>8. /\ DOMAIN m = (DOMAIN base \cup DOMAIN d.created) \ d.destroyed
      /\ \A e \in DOMAIN m : m[e] = IF e \in DOMAIN d.updated THEN d.updated[e]
                                    ELSE IF e \in DOMAIN d.created THEN d.created[e] ELSE base[e]
  BY DEF Merge
<1> HIDE DEF m, base
<1>9. /\ DOMAIN On(d.layer, c) = {e \in DOMAIN c : e[1] = d.layer}
      /\ \A e \in DOMAIN On(d.layer, c) : On(d.layer, c)[e] = c[e]
      /\ DOMAIN On(d.layer, m) = {e \in DOMAIN m : e[1] = d.layer}
      /\ \A e \in DOMAIN On(d.layer, m) : On(d.layer, m)[e] = m[e]
  BY DEF On
<1>10. ~d.resync => Agree(On(d.layer, c), old)
  BY DEF old
<1>11. d.resync => DOMAIN old = {}
  BY EmptyIsContent DEF old
<1>12. DOMAIN On(d.layer, m) = DOMAIN new
  <2>1. CASE d.resync
    BY <2>1, <1>4, <1>6, <1>7, <1>8, <1>9, <1>11
  <2>2. CASE ~d.resync
    BY <2>2, <1>4, <1>6, <1>7, <1>8, <1>9, <1>10 DEF Agree
  <2> QED
    BY <2>1, <2>2
<1>13. ASSUME Eps = 0, NEW e \in DOMAIN new PROVE On(d.layer, m)[e] = new[e]
  <2>1. e \in DOMAIN m /\ On(d.layer, m)[e] = m[e] /\ e[1] = d.layer
    BY <1>4, <1>9, <1>12
  <2>2. CASE e \in DOMAIN d.updated \/ e \in DOMAIN d.created
    BY <2>1, <2>2, <1>6, <1>8
  <2>3. CASE ~(e \in DOMAIN d.updated \/ e \in DOMAIN d.created)
    <3>1. e \in DOMAIN old /\ ~Changed(old[e], new[e]) /\ m[e] = base[e] /\ e \in DOMAIN base
      BY <2>1, <2>3, <1>6, <1>8
    <3>2. old[e] = new[e]
      BY <1>5, <1>13, <3>1 DEF Changed
    <3>3. ~d.resync
      BY <3>1, <1>11
    <3>4. base[e] = c[e] /\ c[e] = old[e]
      BY <1>7, <1>9, <1>10, <1>13, <2>1, <3>1, <3>3 DEF Agree
    <3> QED
      BY <2>1, <3>1, <3>2, <3>4
  <2> QED
    BY <2>2, <2>3
<1>14. ASSUME NEW l \in Layers \ {d.layer} PROVE On(l, m) = On(l, c)
  <2>1. /\ \A e \in DOMAIN d.created : e[1] # l
        /\ \A e \in DOMAIN d.updated : e[1] # l
        /\ \A e \in d.destroyed : e[1] # l
    BY <1>4, <1>6
  <2>2. {e \in DOMAIN m : e[1] = l} = {e \in DOMAIN c : e[1] = l}
    BY <1>7, <1>8, <2>1
  <2>3. \A e \in {x \in DOMAIN c : x[1] = l} : m[e] = c[e]
    BY <1>7, <1>8, <2>1, <2>2
  <2> QED
    BY <2>2, <2>3 DEF On
<1> QED
  BY <1>12, <1>13, <1>14 DEF Agree, new, m

(* The map the game reads follows the same deltas.                         *)
LEMMA ViewGives ==
    ASSUME Types, NEW d \in deltas, Exact(d), NEW v \in Contents, NEW target \in Contents,
           ~d.resync => Agree(On(d.layer, v), On(d.layer, past[d.base])),
           Agree(On(d.layer, target), On(d.layer, past[d.tick]))
    PROVE  /\ Agree(On(d.layer, ViewAfter(v, d, target)), On(d.layer, past[d.tick]))
           /\ \A l \in Layers \ {d.layer} : On(l, ViewAfter(v, d, target)) = On(l, v)
<1> DEFINE old == IF d.resync THEN Empty ELSE On(d.layer, past[d.base])
           new == On(d.layer, past[d.tick])
           m == ViewAfter(v, d, target)
<1>1. d \in Deltas /\ d.tick \in Ticks /\ d.base \in Ticks /\ Describes(d, old, new)
  <2>1. d \in Deltas /\ tick \in 1..MaxTick /\ MaxTick \in Nat
    BY ConstantFacts DEF Types, Ticks
  <2>2. d.tick \in 1..tick /\ d.base \in 1..(d.tick - 1)
    BY DEF Exact
  <2> QED
    BY <2>1, <2>2 DEF Exact, Ticks
<1>2. past[d.tick] \in Contents /\ past[d.base] \in Contents
  BY <1>1 DEF Types
<1>3. old \in Contents /\ new \in Contents
  BY <1>1, <1>2, OnIsContent, EmptyIsContent
<1>4. /\ \A e \in DOMAIN old : e[1] = d.layer
      /\ \A e \in DOMAIN new : e[1] = d.layer
  <2>1. /\ DOMAIN On(d.layer, past[d.base]) = {x \in DOMAIN past[d.base] : x[1] = d.layer}
        /\ DOMAIN new = {x \in DOMAIN past[d.tick] : x[1] = d.layer}
    BY <1>2, OnIsContent
  <2>2. \A e \in DOMAIN new : e[1] = d.layer
    BY <2>1
  <2>3. \A e \in DOMAIN old : e[1] = d.layer
    <3>1. CASE d.resync
      BY <3>1, EmptyIsContent
    <3>2. CASE ~d.resync
      <4>1. DOMAIN old = {x \in DOMAIN past[d.base] : x[1] = d.layer}
        BY <2>1, <3>2
      <4> QED
        BY <4>1
    <3> QED
      BY <3>1, <3>2
  <2> QED
    BY <2>2, <2>3
<1> HIDE DEF old, new
<1>5. /\ \A e \in DOMAIN old : old[e] \in Int
      /\ \A e \in DOMAIN new : new[e] \in Int
  BY <1>3, ContentFacts
<1>6. /\ DOMAIN d.created = DOMAIN new \ DOMAIN old
      /\ DOMAIN d.updated = {x \in DOMAIN new \cap DOMAIN old : Changed(old[x], new[x])}
      /\ d.destroyed = DOMAIN old \ DOMAIN new
  BY <1>1 DEF Describes
<1> DEFINE carried == (DOMAIN d.created \cup DOMAIN d.updated) \cap DOMAIN target
           dead == {e \in DOMAIN v : d.resync /\ e[1] = d.layer /\ e \notin DOMAIN target}
<1>7. /\ DOMAIN m = ((DOMAIN v \ dead) \cup carried) \ d.destroyed
      /\ \A e \in DOMAIN m : m[e] = IF e \in carried THEN target[e] ELSE v[e]
  BY DEF ViewAfter
<1> HIDE DEF m
<1>8. \A c : /\ DOMAIN On(d.layer, c) = {e \in DOMAIN c : e[1] = d.layer}
             /\ \A e \in DOMAIN On(d.layer, c) : On(d.layer, c)[e] = c[e]
  BY DEF On
<1>9. /\ \A e : e \in DOMAIN target /\ e[1] = d.layer <=> e \in DOMAIN new
      /\ Eps = 0 => \A e \in DOMAIN new : target[e] = new[e]
  BY <1>4, <1>8 DEF Agree, new
<1>10. ~d.resync => /\ \A e : e \in DOMAIN v /\ e[1] = d.layer <=> e \in DOMAIN old
                    /\ Eps = 0 => \A e \in DOMAIN old : v[e] = old[e]
  BY <1>4, <1>8 DEF Agree, old
<1>11. d.resync => DOMAIN old = {}
  BY EmptyIsContent DEF old
<1>12. carried = DOMAIN d.created \cup DOMAIN d.updated
  BY <1>6, <1>9
<1> HIDE DEF carried
<1>13. DOMAIN On(d.layer, m) = DOMAIN new
  <2> DEFINE mine == {e \in DOMAIN m : e[1] = d.layer}
  <2>0. DOMAIN On(d.layer, m) = mine
    BY <1>8
  <2>1. CASE d.resync
    <3>1. d.destroyed = {} /\ carried = DOMAIN new
      BY <2>1, <1>6, <1>11, <1>12
    <3>2. \A e \in DOMAIN v \ dead : e[1] = d.layer => e \in DOMAIN new
      BY <2>1, <1>9
    <3>3. mine = DOMAIN new
      BY <3>1, <3>2, <1>4, <1>7
    <3> QED
      BY <2>0, <3>3
  <2>2. CASE ~d.resync
    <3>1. dead = {}
      BY <2>2
    <3>2. mine = DOMAIN new
      BY <2>2, <3>1, <1>4, <1>6, <1>7, <1>10, <1>12
    <3> QED
      BY <2>0, <3>2
  <2> QED
    BY <2>1, <2>2
<1>14. ASSUME Eps = 0, NEW e \in DOMAIN new PROVE On(d.layer, m)[e] = new[e]
  <2>1. e \in DOMAIN m /\ On(d.layer, m)[e] = m[e] /\ e[1] = d.layer
    BY <1>4, <1>8, <1>13
  <2>2. CASE e \in carried
    BY <1>7, <1>9, <1>14, <2>1, <2>2
  <2>3. CASE e \notin carried
    <3>1. e \in DOMAIN old /\ ~Changed(old[e], new[e]) /\ m[e] = v[e]
      BY <1>6, <1>7, <1>12, <2>1, <2>3
    <3>2. old[e] = new[e]
      BY <1>5, <1>14, <3>1 DEF Changed
    <3>3. v[e] = old[e]
      BY <1>10, <1>11, <1>14, <3>1
    <3> QED
      BY <2>1, <3>1, <3>2, <3>3
  <2> QED
    BY <2>2, <2>3
<1>15. ASSUME NEW l \in Layers \ {d.layer} PROVE On(l, m) = On(l, v)
  <2>1. (\A e \in carried : e[1] # l) /\ \A e \in d.destroyed : e[1] # l
    BY <1>4, <1>6, <1>12
  <2>2. {e \in DOMAIN m : e[1] = l} = {e \in DOMAIN v : e[1] = l}
    BY <1>7, <2>1
  <2>3. \A e \in {x \in DOMAIN v : x[1] = l} : m[e] = v[e]
    BY <1>7, <2>1, <2>2
  <2> QED
    BY <2>2, <2>3 DEF On
<1> QED
  BY <1>13, <1>14, <1>15 DEF Agree, new, m

-----------------------------------------------------------------------------
(* What the arithmetic needs of the types.                                 *)
LEMMA NumberTypes ==
    ASSUME Types
    PROVE  /\ tick \in Nat \ {0} /\ tick <= MaxTick /\ held.tick \in Nat
           /\ \A l \in Layers : /\ applied[l] \in Nat /\ reported[l] \in Nat
                                /\ lastReported[l] \in Nat /\ confirmed[l] \in Bases
                                /\ confirmed[l].tick \in Nat /\ row[l].tick \in Nat
           /\ \A d \in deltas : /\ d.layer \in Layers /\ d.tick \in Nat \ {0} /\ d.base \in Nat
                                /\ d.resync \in BOOLEAN
           /\ \A r \in reports : \A l \in Layers : r[l] \in Nat
           /\ pass.layer \in Layers /\ pass.anchor \in Bases /\ pass.anchor.tick \in Nat
           /\ pass.row.tick \in Nat
<1>1. MaxTick \in Nat /\ 0..MaxTick \subseteq Nat /\ Ticks \subseteq Nat \ {0}
  BY ConstantFacts DEF Ticks
<1>2. \A b \in Bases : b.tick \in Nat
  BY <1>1 DEF Bases
<1>3. tick \in Nat \ {0} /\ tick <= MaxTick
  BY <1>1 DEF Types, Ticks
<1>4. \A l \in Layers : /\ applied[l] \in Nat /\ reported[l] \in Nat /\ lastReported[l] \in Nat
  BY <1>1 DEF Types
<1>5. \A l \in Layers : confirmed[l] \in Bases /\ row[l] \in Bases
  BY DEF Types
<1>6. \A d \in deltas : /\ d.layer \in Layers /\ d.tick \in Nat \ {0} /\ d.base \in Nat
                        /\ d.resync \in BOOLEAN
  BY <1>1 DEF Types, Deltas
<1>7. \A r \in reports : \A l \in Layers : r[l] \in Nat
  BY <1>1 DEF Types
<1>8. pass.layer \in Layers /\ pass.anchor \in Bases /\ pass.row \in Bases /\ held \in Bases
  BY DEF Types
<1> QED
  BY <1>2, <1>3, <1>4, <1>5, <1>6, <1>7, <1>8

(* The frame the client merges into is its newest, as long as no delta of  *)
(* one layer overtakes a delta of another; then each clock tells what the  *)
(* frame and the map hold.                                                 *)

InOrder == Ordered \/ NLayers = 1

LEMMA AppliedInOrder ==
    ASSUME InOrder, Types, FrameNewest, NEW d \in deltas, ApplyDelta(d)
    PROVE  /\ d.layer \in Layers /\ d.tick > applied[d.layer]
           /\ \A x \in deltas : x.layer # d.layer => d.tick <= x.tick
           /\ held' = [tick |-> d.tick, content |-> Merge(held.content, d)]
<1>1. /\ d.layer \in Layers /\ d.tick \in Nat /\ applied \in [Layers -> Nat] /\ held.tick \in Nat
      /\ \A x \in deltas : x.layer \in Layers
  BY NumberTypes, ConstantFacts DEF Types
<1>2. d.tick > applied[d.layer]
  BY <1>1 DEF ApplyDelta, Stale
<1>3. \A x \in deltas : x.layer # d.layer => d.tick <= x.tick
  BY <1>1 DEF ApplyDelta, Arrive, InOrder, Layers
<1>4. d.tick >= held.tick
  <2>1. CASE held.tick = 0
    BY <1>1, <2>1
  <2>2. CASE held.tick # 0
    <3>1. PICK l \in Layers : held.tick <= applied[l]
      BY <2>2 DEF FrameNewest
    <3>2. CASE l = d.layer
      BY <1>1, <1>2, <3>1, <3>2
    <3>3. CASE l # d.layer
      <4>1. applied[l] <= d.tick
        BY <3>3 DEF FrameNewest
      <4> QED
        BY <1>1, <3>1, <4>1
    <3> QED
      BY <3>2, <3>3
  <2> QED
    BY <2>1, <2>2
<1> QED
  BY <1>1, <1>2, <1>3, <1>4 DEF ApplyDelta

(* Only the first full and a delta that applies move the client.           *)
LEMMA OnlyTheseApply ==
    ASSUME [LayerNext]_layerVars, ~ReceiveFull, \A d \in deltas : ~ApplyDelta(d)
    PROVE  UNCHANGED <<applied, held, view>>
BY DEF LayerNext, Simulate, StartPass, ReadRow, ReadRing, SendLayer, ReceiveAsk, ReceiveReport,
       TakeConfirmed, MirrorRow, DropStale, RejectDelta, SendReport, LoseState, LoseSignal,
       clientVars, layerVars

LEMMA FullIs ==
    ASSUME Types, ReceiveFull
    PROVE  /\ deltas' = deltas /\ tick' = tick /\ past' = past
           /\ \/ UNCHANGED <<applied, held, view>>
              \/ /\ \A l \in Layers : applied[l] = 0
                 /\ applied' = [l \in Layers |-> 1]
                 /\ held' = [tick |-> 1, content |-> past[1]] /\ view' = past[1]
<1>1. applied \in [Layers -> Nat]
  BY DEF Types
<1>2. (\A l \in Layers : applied[l] = 0) \/ \E l \in Layers : 1 <= applied[l]
  BY <1>1
<1> QED
  BY <1>2 DEF ReceiveFull, simVars

LEMMA FrameStep ==
    InOrder /\ Types /\ RingsFit /\ DeltasExact /\ FrameNewest /\ [LayerNext]_layerVars
        => FrameNewest'
<1> SUFFICES ASSUME InOrder, Types, RingsFit, DeltasExact, FrameNewest, [LayerNext]_layerVars
             PROVE  FrameNewest'
  OBVIOUS
<1>1. /\ tick \in Nat /\ tick' \in Nat /\ 1 <= tick /\ tick <= tick'
      /\ applied \in [Layers -> Nat] /\ 1 \in Layers
      /\ \A d \in deltas : d.layer \in Layers /\ d.tick \in Nat \ {0}
  <2>1. applied \in [Layers -> Nat]
    BY DEF Types
  <2>2. 1 \in Layers /\ tick \in 1..MaxTick /\ tick' \in 1..MaxTick /\ tick <= tick'
    BY PastKept, ConstantFacts
  <2> QED
    BY <2>1, <2>2, NumberTypes
<1>2. CASE ReceiveFull
  <2>1. CASE UNCHANGED <<applied, held, view>>
    BY <1>2, <2>1, FullIs DEF FrameNewest
  <2>2. CASE applied' = [l \in Layers |-> 1] /\ held' = [tick |-> 1, content |-> past[1]]
    <3>1. /\ \A l \in Layers : applied'[l] = 1
          /\ held'.tick = 1 /\ deltas' = deltas /\ tick' = tick
      BY <1>2, <2>2, FullIs
    <3> QED
      BY <1>1, <3>1 DEF FrameNewest
  <2> QED
    BY <1>2, <2>1, <2>2, FullIs
<1>3. ASSUME NEW d \in deltas, ApplyDelta(d) PROVE FrameNewest'
  <2>1. /\ d.layer \in Layers /\ d.tick > applied[d.layer]
        /\ \A x \in deltas : x.layer # d.layer => d.tick <= x.tick
        /\ held'.tick = d.tick
    BY <1>3, AppliedInOrder
  <2>2. /\ applied' = [applied EXCEPT ![d.layer] = d.tick] /\ deltas' \subseteq deltas
        /\ tick' = tick
    BY <1>3 DEF ApplyDelta, Arrive, simVars
  <2>3. applied'[d.layer] = d.tick /\ \A l \in Layers \ {d.layer} : applied'[l] = applied[l]
    BY <1>1, <2>1, <2>2
  <2>4. d.tick <= tick
    BY DEF DeltasExact, Exact
  <2>5. \A x \in deltas' : \A l \in Layers \ {x.layer} : applied'[l] <= x.tick
    BY <2>1, <2>2, <2>3 DEF FrameNewest
  <2> QED
    BY <1>1, <2>1, <2>2, <2>3, <2>4, <2>5 DEF FrameNewest
<1>4. CASE SendLayer
  <2>1. \A d \in deltas' : d \in deltas \/ d.tick = tick
    <3>1. \A resync : Delta(pass.layer, resync, pass.anchor).tick = tick
      BY DEF Delta
    <3> QED
      BY <1>4, <3>1, SendIs
  <2>2. UNCHANGED <<tick, applied, held>>
    BY <1>4 DEF SendLayer, simVars, clientVars
  <2> QED
    BY <2>1, <2>2 DEF FrameNewest
<1>5. CASE ~ReceiveFull /\ ~SendLayer /\ \A d \in deltas : ~ApplyDelta(d)
  <2>1. UNCHANGED <<applied, held>> /\ deltas' \subseteq deltas
    BY <1>5, OnlyTheseApply, OnlySendAdds
  <2>2. \A l \in Layers : applied[l] <= tick'
    BY <1>1 DEF FrameNewest
  <2> QED
    BY <2>1, <2>2 DEF FrameNewest
<1> QED
  BY <1>2, <1>3, <1>4, <1>5

LEMMA ClockStep ==
    InOrder /\ Types /\ DeltasExact /\ FrameNewest /\ ClockAgrees /\ [LayerNext]_layerVars
        => ClockAgrees'
<1> SUFFICES ASSUME InOrder, Types, DeltasExact, FrameNewest, ClockAgrees, [LayerNext]_layerVars
             PROVE  ClockAgrees'
  OBVIOUS
<1> DEFINE A(l, c, t) == Agree(On(l, c), On(l, past'[t]))
<1>1. ClockAgrees' = \A l \in Layers : applied'[l] # 0 => A(l, held'.content, applied'[l])
                                                        /\ A(l, view', applied'[l])
  BY DEF ClockAgrees, Agree, On
<1>2. \A l \in Layers : applied[l] # 0 => /\ applied[l] \in 1..tick
                                          /\ A(l, held.content, applied[l])
                                          /\ A(l, view, applied[l])
  <2> SUFFICES ASSUME NEW l \in Layers, applied[l] # 0
               PROVE  /\ applied[l] \in 1..tick
                      /\ A(l, held.content, applied[l]) /\ A(l, view, applied[l])
    OBVIOUS
  <2>1. applied[l] \in 1..tick
    BY DEF FrameNewest, Types, Ticks
  <2>2. past'[applied[l]] = past[applied[l]]
    BY <2>1, PastKept
  <2> QED
    BY <2>1, <2>2 DEF ClockAgrees
<1>3. CASE ReceiveFull
  <2>1. CASE UNCHANGED <<applied, held, view>>
    BY <1>1, <1>2, <2>1
  <2>2. CASE /\ applied' = [l \in Layers |-> 1]
             /\ held' = [tick |-> 1, content |-> past[1]] /\ view' = past[1]
    <3>1. /\ \A l \in Layers : applied'[l] = 1
          /\ held'.content = past[1] /\ view' = past[1] /\ past' = past
      BY <1>3, <2>2, FullIs
    <3> QED
      BY <1>1, <3>1 DEF Agree
  <2> QED
    BY <1>3, <2>1, <2>2, FullIs
<1>4. ASSUME NEW d \in deltas, ApplyDelta(d) PROVE ClockAgrees'
  <2> DEFINE k == d.layer
             m == Merge(held.content, d)
             w == ViewAfter(view, d, m)
  <2>1. /\ k \in Layers /\ d \in Deltas /\ applied \in [Layers -> 0..MaxTick] /\ Exact(d)
        /\ held.content \in Contents /\ view \in Contents
    BY DEF Types, Deltas, Bases, DeltasExact
  <2>2. held'.content = m
    BY <1>4, AppliedInOrder
  <2>3. /\ applied' = [applied EXCEPT ![k] = d.tick] /\ view' = w /\ past' = past
        /\ ~d.resync => d.base = applied[k]
    BY <1>4 DEF ApplyDelta, Mismatch, simVars
  <2>4. ~d.resync => /\ Agree(On(k, held.content), On(k, past[d.base]))
                     /\ Agree(On(k, view), On(k, past[d.base]))
    <3>1. d.base # 0
      BY <2>1 DEF Exact
    <3> QED
      BY <2>1, <2>3, <3>1 DEF ClockAgrees
  <2>5. /\ Agree(On(k, m), On(k, past[d.tick]))
        /\ \A l \in Layers \ {k} : On(l, m) = On(l, held.content)
    BY <2>1, <2>4, MergeGives
  <2>6. m \in Contents
    BY <2>1, MergeType
  <2>7. /\ Agree(On(k, w), On(k, past[d.tick]))
        /\ \A l \in Layers \ {k} : On(l, w) = On(l, view)
    <3> HIDE DEF m
    <3> QED
      BY <2>1, <2>4, <2>5, <2>6, ViewGives
  <2> HIDE DEF m, w
  <2>8. applied'[k] = d.tick /\ \A l \in Layers \ {k} : applied'[l] = applied[l]
    BY <2>1, <2>3
  <2> HIDE DEF k
  <2>9. A(k, held'.content, applied'[k]) /\ A(k, view', applied'[k])
    BY <2>2, <2>3, <2>5, <2>7, <2>8
  <2>10. ASSUME NEW l \in Layers \ {k}, applied'[l] # 0
         PROVE  A(l, held'.content, applied'[l]) /\ A(l, view', applied'[l])
    BY <1>2, <2>2, <2>3, <2>5, <2>7, <2>8, <2>10
  <2> QED
    BY <1>1, <2>9, <2>10
<1>5. CASE ~ReceiveFull /\ \A d \in deltas : ~ApplyDelta(d)
  <2>1. UNCHANGED <<applied, held, view>>
    BY <1>5, OnlyTheseApply
  <2> QED
    BY <1>1, <1>2, <2>1
<1> QED
  BY <1>3, <1>4, <1>5

-----------------------------------------------------------------------------
(* The confirmed base trails the report, the report the client.            *)

LEMMA AppliedGrows ==
    ASSUME Types, [LayerNext]_layerVars, NEW l \in Layers
    PROVE  applied[l] <= applied'[l]
<1>1. applied \in [Layers -> Nat]
  BY DEF Types
<1>2. CASE ReceiveFull
  BY <1>1, <1>2, FullIs
<1>3. ASSUME NEW d \in deltas, ApplyDelta(d) PROVE applied[l] <= applied'[l]
  <2>1. d.layer \in Layers /\ d.tick \in Nat
    BY NumberTypes
  <2>2. applied' = [applied EXCEPT ![d.layer] = d.tick] /\ ~(d.tick <= applied[d.layer])
    BY <1>3 DEF ApplyDelta, Stale
  <2> QED
    BY <1>1, <2>1, <2>2
<1>4. CASE ~ReceiveFull /\ \A d \in deltas : ~ApplyDelta(d)
  BY <1>1, <1>4, OnlyTheseApply
<1> QED
  BY <1>2, <1>3, <1>4

LEMMA TrailingInit == LayerInit => Trailing /\ Confirming
BY NoBaseIsBase DEF LayerInit, Trailing, Confirming, Resting

LEMMA TrailingStep ==
    Types /\ BasesTrue /\ Trailing /\ Confirming /\ [LayerNext]_layerVars
        => Trailing' /\ Confirming'
<1> SUFFICES ASSUME Types, BasesTrue, Trailing, Confirming, [LayerNext]_layerVars
             PROVE  Trailing' /\ Confirming'
  OBVIOUS
<1>1. \A l \in Layers : applied[l] <= applied'[l] /\ applied[l] \in Nat /\ applied'[l] \in Nat
  <2>1. MaxTick \in Nat /\ (applied' \in [Layers -> 0..MaxTick] \/ applied' = applied)
    <3>1. CASE ReceiveFull
      BY <3>1, FullIs, ConstantFacts
    <3>2. ASSUME NEW d \in deltas, ApplyDelta(d) PROVE applied' \in [Layers -> 0..MaxTick]
      <4>1. d.tick \in 0..MaxTick /\ applied \in [Layers -> 0..MaxTick]
        BY ConstantFacts DEF Types, Deltas
      <4> QED
        BY <3>2, <4>1 DEF ApplyDelta
    <3>3. CASE ~ReceiveFull /\ \A d \in deltas : ~ApplyDelta(d)
      <4>1. applied' = applied
        BY <3>3, OnlyTheseApply
      <4> QED
        BY <4>1, ConstantFacts
    <3> QED
      BY <3>1, <3>2, <3>3, ConstantFacts
  <2> QED
    BY <2>1, AppliedGrows, NumberTypes
<1>2. \A l \in Layers : /\ reported[l] \in Nat /\ lastReported[l] \in Nat
                        /\ confirmed[l].tick \in Nat /\ row[l].tick \in Nat
                        /\ \A r \in reports : r[l] \in Nat
  BY NumberTypes
<1>3. CASE UNCHANGED <<row, confirmed, reported, handler>>
  <2>1. /\ \A l \in Layers : lastReported'[l] = lastReported[l] \/ lastReported'[l] = applied[l]
        /\ \A r \in reports' : r \in reports \/ r = applied
    BY DEF LayerNext, Simulate, StartPass, ReadRow, ReadRing, SendLayer, ReceiveAsk, ReceiveReport,
           TakeConfirmed, MirrorRow, ReceiveFull, DropStale, RejectDelta, ApplyDelta, SendReport,
           LoseState, LoseSignal, network, clientVars, layerVars
  <2>2. \A l \in Layers : /\ reported[l] <= applied'[l] /\ lastReported'[l] <= applied'[l]
                          /\ \A r \in reports' : r[l] <= applied'[l]
    BY <1>1, <1>2, <2>1 DEF Trailing
  <2>3. Confirming'
    BY <1>3 DEF Confirming
  <2> QED
    BY <1>3, <2>2, <2>3 DEF Trailing
<1>4. CASE \E r \in reports : ReceiveReport(r)
  <2> PICK r \in reports : ReceiveReport(r)
    BY <1>4
  <2>1. /\ handler = Resting /\ handler' = [layer |-> 1, base |-> NoBase]
        /\ UNCHANGED <<row, confirmed, applied, lastReported>> /\ reports' \subseteq reports
    BY DEF ReceiveReport, Resting, baseVars, clientVars
  <2>2. \A l \in Layers : reported'[l] = IF r[l] > reported[l] THEN r[l] ELSE reported[l]
    BY DEF ReceiveReport, Merged
  <2>3. \A l \in Layers : confirmed[l].tick <= reported'[l] /\ reported'[l] <= applied[l]
    BY <1>1, <1>2, <2>2 DEF Trailing
  <2> QED
    BY <2>1, <2>3 DEF Trailing, Confirming, Resting
<1>5. CASE TakeConfirmed
  <2> DEFINE l == handler.layer
  <2>1. /\ l \in Layers /\ handler.base = NoBase
        /\ UNCHANGED <<row, reported, reports, applied, lastReported>>
    BY <1>5, TakesALayer DEF TakeConfirmed, network, clientVars
  <2>2. \/ confirmed' = confirmed /\ handler' = AfterLayer(l)
        \/ \E b \in Matching(ring[l], reported[l]) :
              /\ confirmed' = [confirmed EXCEPT ![l] = b]
              /\ handler' = [handler EXCEPT !.base = b]
    BY <1>5 DEF TakeConfirmed
  <2>3. CASE confirmed' = confirmed /\ handler' = AfterLayer(l)
    BY <2>1, <2>3 DEF Trailing, Confirming, AfterLayer
  <2>4. ASSUME NEW b \in Matching(ring[l], reported[l]),
               confirmed' = [confirmed EXCEPT ![l] = b],
               handler' = [handler EXCEPT !.base = b]
        PROVE  Trailing' /\ Confirming'
    <3>1. b.tick = reported[l] /\ b.tick # 0 /\ b # NoBase
      <4>1. PICK i \in 1..Len(ring[l]) : b = ring[l][i]
        BY <2>1, <2>4, RingType DEF Matching, ToSet
      <4>2. Truthful(l, b)
        BY <2>1, <4>1 DEF BasesTrue
      <4> QED
        BY <2>4, <4>2, NoBaseIsBase, NumberTypes DEF Matching, Truthful
    <3>2. /\ confirmed'[l] = b /\ \A k \in Layers \ {l} : confirmed'[k] = confirmed[k]
          /\ handler'.base = b /\ handler'.layer = l
      <4>1. confirmed \in [Layers -> Bases] /\ handler \in [layer : 0..NLayers, base : Bases]
        BY DEF Types
      <4> QED
        BY <2>1, <2>4, <4>1
    <3>3. l # 0
      BY <2>1 DEF Layers
    <3> HIDE DEF l
    <3>4. Confirming'
      BY <3>1, <3>2, <3>3 DEF Confirming
    <3>5. ASSUME NEW k \in Layers \ {l}
          PROVE  row[k].tick \in {1, confirmed[k].tick}
      BY <2>1, <3>5 DEF Trailing
    <3>6. \A k \in Layers : confirmed'[k].tick <= reported[k]
      BY <1>2, <2>1, <3>1, <3>2 DEF Trailing
    <3> QED
      BY <2>1, <3>1, <3>2, <3>4, <3>5, <3>6 DEF Trailing
  <2> QED
    BY <2>2, <2>3, <2>4
<1>6. CASE MirrorRow
  <2>1. /\ row' = [row EXCEPT ![handler.layer] = handler.base] /\ handler'.base = NoBase
        /\ handler.base = confirmed[handler.layer] /\ handler.layer \in Layers
        /\ UNCHANGED <<confirmed, reported, reports, applied, lastReported>>
    BY <1>6 DEF MirrorRow, AfterLayer, Confirming, network, clientVars, Types, Layers
  <2>2. row \in [Layers -> Bases]
    BY DEF Types
  <2>3. \A k \in Layers : row'[k].tick \in {1, confirmed[k].tick}
    BY <2>1, <2>2 DEF Trailing
  <2> QED
    BY <2>1, <2>3 DEF Trailing, Confirming
<1>7. ASSUME ~TakeConfirmed, ~MirrorRow, ~ \E r \in reports : ReceiveReport(r)
      PROVE  UNCHANGED <<row, confirmed, reported, handler>>
  BY <1>7 DEF LayerNext, Simulate, StartPass, ReadRow, ReadRing, SendLayer, ReceiveAsk, ReceiveFull,
         DropStale, RejectDelta, ApplyDelta, SendReport, LoseState, LoseSignal, serverVars, baseVars,
         layerVars
<1> QED
  BY <1>3, <1>4, <1>5, <1>6, <1>7

-----------------------------------------------------------------------------
(* What was sent last of a layer changes only when the layer is sent: a    *)
(* report that empties the ring confirms its newest entry.                 *)

LEMMA LastSentNat ==
    ASSUME Types, BasesTrue, NEW l \in Layers
    PROVE  LastSent(l) \in 1..tick
<1>1. CASE ring[l] # << >>
  <2>1. Len(ring[l]) \in 1..Len(ring[l])
    BY <1>1, RingType
  <2> QED
    BY <1>1, <2>1 DEF LastSent, BasesTrue, Truthful
<1>2. CASE ring[l] = << >> /\ confirmed[l].tick # 0
  BY <1>2 DEF LastSent, BasesTrue, Truthful
<1>3. CASE ring[l] = << >> /\ confirmed[l].tick = 0
  BY <1>3, NumberTypes DEF LastSent
<1> QED
  BY <1>1, <1>2, <1>3

LEMMA TakeKeepsLast ==
    ASSUME Types, BasesTrue, Trailing, RingOrdered, TakeConfirmed, NEW k \in Layers
    PROVE  /\ LastSent(k)' = LastSent(k)
           /\ \A i \in 1..Len(ring'[k]) : \E j \in 1..Len(ring[k]) : ring'[k][i] = ring[k][j]
<1> DEFINE l == handler.layer
           q == ring[l]
           a == reported[l]
<1>1. /\ l \in Layers
      /\ ring \in [Layers -> Seq(Bases)] /\ confirmed \in [Layers -> Bases]
  <2>1. l \in Layers
    BY TakesALayer
  <2>2. ring \in [Layers -> Seq(Bases)] /\ confirmed \in [Layers -> Bases]
    BY DEF Types
  <2> QED
    BY <2>1, <2>2
<1>2. PICK n \in Popped(q, a) : ring' = [ring EXCEPT ![l] = SubSeq(@, n + 1, Len(@))]
  BY DEF TakeConfirmed
<1>3. /\ Matching(q, a) = {} => confirmed' = confirmed
      /\ Matching(q, a) # {} =>
            \E b \in Matching(q, a) : confirmed' = [confirmed EXCEPT ![l] = b]
  BY DEF TakeConfirmed
<1> HIDE DEF l
<1>4. CASE k # l
  <2>1. ring'[k] = ring[k] /\ confirmed'[k] = confirmed[k]
    BY <1>1, <1>2, <1>3, <1>4
  <2> QED
    BY <2>1 DEF LastSent
<1>5. CASE k = l
  <2> DEFINE s == ring'[k]
  <2>1. q \in Seq(Bases) /\ Len(q) \in Nat
    <3>1. q \in Seq(Bases)
      BY <1>1
    <3> QED
      BY <3>1
  <2>2. /\ q = ring[k] /\ a = reported[k] /\ s = SubSeq(q, n + 1, Len(q))
    BY <1>1, <1>2, <1>5
  <2> HIDE DEF q, a, s
  <2>3. /\ n \in 0..Len(q) /\ Len(s) = Len(q) - n /\ s \in Seq(Bases)
        /\ \A i \in 1..(Len(q) - n) : s[i] = q[n + i]
    BY <2>1, <2>2, PoppedType
  <2>4. \A i \in 1..Len(s) : n + i \in 1..Len(q) /\ s[i] = q[n + i]
    BY <2>1, <2>3
  <2>5. \A i \in 1..n : q[i].tick <= a
    BY <1>2 DEF Popped
  <2>6. LastSent(k)' = IF s # << >> THEN s[Len(s)].tick
                       ELSE IF confirmed'[k].tick # 0 THEN confirmed'[k].tick ELSE 1
    BY DEF LastSent, s
  <2>7. LastSent(k) = IF q # << >> THEN q[Len(q)].tick
                      ELSE IF confirmed[k].tick # 0 THEN confirmed[k].tick ELSE 1
    BY <2>2 DEF LastSent
  <2>8. ASSUME n < Len(q) PROVE LastSent(k)' = LastSent(k)
    <3>1. q # << >> /\ Len(s) \in Nat \ {0}
      BY <2>1, <2>3, <2>8
    <3>2. s # << >> /\ Len(s) \in 1..Len(s) /\ n + Len(s) = Len(q)
      BY <2>1, <2>3, <3>1
    <3>3. s[Len(s)] = q[Len(q)]
      BY <2>4, <3>2
    <3> QED
      BY <2>6, <2>7, <3>1, <3>2, <3>3
  <2>9. ASSUME n = Len(q), q = << >> PROVE LastSent(k)' = LastSent(k)
    <3>1. Matching(q, a) = {} /\ s = << >>
      BY <2>1, <2>3, <2>9 DEF Matching, ToSet
    <3> QED
      BY <1>3, <2>6, <2>7, <2>9, <3>1
  <2>10. ASSUME n = Len(q), q # << >> PROVE LastSent(k)' = LastSent(k)
    <3> DEFINE e == q[Len(q)]
    <3>1. Len(q) \in 1..n /\ e \in Bases /\ s = << >>
      BY <2>1, <2>3, <2>10
    <3>2. LastSent(k) = e.tick
      BY <2>7, <2>10
    <3>3. a <= applied[k] /\ applied[k] <= LastSent(k) /\ a \in Nat /\ applied[k] \in Nat
          /\ LastSent(k) \in Nat \ {0}
      BY <2>2, NumberTypes, LastSentNat DEF Trailing, RingOrdered
    <3>4. e.tick = a /\ a # 0
      BY <2>5, <3>1, <3>2, <3>3
    <3>5. e \in Matching(q, a)
      BY <2>1, <3>1, <3>4, <2>10 DEF Matching, ToSet
    <3>6. PICK b \in Matching(q, a) : confirmed' = [confirmed EXCEPT ![l] = b]
      BY <1>3, <3>5
    <3>7. confirmed'[k].tick = a
      BY <1>1, <1>5, <3>6 DEF Matching
    <3> QED
      BY <2>6, <3>1, <3>2, <3>4, <3>7
  <2>11. LastSent(k)' = LastSent(k)
    BY <2>1, <2>3, <2>8, <2>9, <2>10
  <2>12. \A i \in 1..Len(s) : \E j \in 1..Len(q) : s[i] = q[j]
    BY <2>4
  <2> QED
    BY <2>2, <2>11, <2>12 DEF s
<1> QED
  BY <1>4, <1>5

(* A send of a layer is the last one of it, and newer than all before.     *)
LEMMA SendMovesLast ==
    ASSUME Types, RingsFit, BasesTrue, RingOrdered, PassCurrent, SendLayer, NEW k \in Layers
    PROVE  \/ deltas' = deltas /\ ring' = ring /\ LastSent(k)' = LastSent(k)
           \/ /\ k # pass.layer /\ ring'[k] = ring[k] /\ LastSent(k)' = LastSent(k)
              /\ \A d \in deltas' : d \in deltas \/ d.layer # k
           \/ /\ k = pass.layer /\ LastSent(k) < tick /\ LastSent(k)' = tick
              /\ \E d \in deltas' : /\ deltas' = deltas \cup {d}
                                    /\ d.layer = k /\ d.base = LastSent(k) /\ d.tick = tick
              /\ \A i \in 1..Len(ring'[k]) :
                    ring'[k][i].tick = tick \/ \E j \in 1..Len(ring[k]) : ring'[k][i] = ring[k][j]
<1> DEFINE l == pass.layer
           b == [tick |-> tick, content |-> World(l)]
           q == ring[l]
<1>1. l \in Layers /\ b \in Bases /\ confirmed' = confirmed /\ pass.step = "send"
  BY SendIs DEF SendLayer
<1>2. pass.anchor.tick = LastSent(l)
  BY <1>1 DEF PassCurrent
<1>3. CASE deltas' = deltas /\ ring' = ring
  BY <1>1, <1>3 DEF LastSent
<1>4. ASSUME NEW resync \in BOOLEAN, pass.anchor.tick < tick,
             deltas' = deltas \cup {Delta(l, resync, pass.anchor)},
             ring' = [ring EXCEPT ![l] = Queue(@, b)]
      PROVE  \/ /\ k # pass.layer /\ ring'[k] = ring[k] /\ LastSent(k)' = LastSent(k)
                /\ \A d \in deltas' : d \in deltas \/ d.layer # k
             \/ /\ k = pass.layer /\ LastSent(k) < tick /\ LastSent(k)' = tick
                /\ \E d \in deltas' : /\ deltas' = deltas \cup {d}
                                      /\ d.layer = k /\ d.base = LastSent(k) /\ d.tick = tick
                /\ \A i \in 1..Len(ring'[k]) :
                      ring'[k][i].tick = tick \/ \E j \in 1..Len(ring[k]) : ring'[k][i] = ring[k][j]
  <2> DEFINE d == Delta(l, resync, pass.anchor)
  <2>1. d.layer = l /\ d.base = pass.anchor.tick /\ d.tick = tick
    BY DEF Delta
  <2>2. ring \in [Layers -> Seq(Bases)] /\ q \in Seq(Bases) /\ Len(q) <= RingCap
    <3>1. ring \in [Layers -> Seq(Bases)] /\ q \in Seq(Bases)
      BY <1>1, RingType DEF Types
    <3>2. Len(q) <= RingCap
      BY <1>1 DEF RingsFit
    <3> QED
      BY <3>1, <3>2
  <2>3. b.tick = tick
    OBVIOUS
  <2> HIDE DEF d, b
  <2>4. CASE k # l
    <3>1. ring'[k] = ring[k]
      BY <1>4, <2>2, <2>4
    <3>2. LastSent(k)' = LastSent(k)
      BY <1>1, <3>1 DEF LastSent
    <3>3. \A x \in deltas' : x \in deltas \/ x.layer # k
      BY <1>4, <2>1, <2>4 DEF d
    <3> QED
      BY <2>4, <3>1, <3>2, <3>3
  <2>5. CASE k = l
    <3> DEFINE s == ring'[k]
    <3>1. s = Queue(q, b) /\ ring[k] = q
      BY <1>1, <1>4, <2>2, <2>5
    <3> HIDE DEF s, q
    <3>2. /\ s \in Seq(Bases) /\ Len(s) \in 1..RingCap /\ s[Len(s)] = b
          /\ \A i \in 1..Len(s) : s[i] = b \/ \E j \in 1..Len(q) : s[i] = q[j]
      <4>1. /\ Queue(q, b) \in Seq(Bases) /\ Len(Queue(q, b)) \in 1..RingCap
            /\ Queue(q, b)[Len(Queue(q, b))] = b
            /\ \A i \in 1..Len(Queue(q, b)) :
                  Queue(q, b)[i] = b \/ \E j \in 1..Len(q) : Queue(q, b)[i] = q[j]
        BY <1>1, <2>2, QueueType
      <4> QED
        BY <3>1, <4>1
    <3>3. s # << >>
      BY <3>2
    <3>4. LastSent(k)' = IF s # << >> THEN s[Len(s)].tick
                         ELSE IF confirmed'[k].tick # 0 THEN confirmed'[k].tick ELSE 1
      BY DEF LastSent, s
    <3>5. LastSent(k)' = tick
      BY <2>3, <3>2, <3>3, <3>4
    <3>6. LastSent(k) = pass.anchor.tick
      BY <1>2, <2>5
    <3>7. d \in deltas' /\ deltas' = deltas \cup {d} /\ d.layer = k /\ d.base = LastSent(k)
      BY <1>4, <2>1, <2>5, <3>6 DEF d
    <3>8. \A i \in 1..Len(s) : s[i].tick = tick \/ \E j \in 1..Len(q) : s[i] = q[j]
      BY <2>3, <3>2
    <3> QED
      BY <1>4, <2>1, <2>5, <3>1, <3>5, <3>6, <3>7, <3>8 DEF s
  <2> QED
    BY <2>4, <2>5
<1>5. \/ deltas' = deltas /\ ring' = ring
      \/ \E resync \in BOOLEAN :
            /\ pass.anchor.tick < tick
            /\ deltas' = deltas \cup {Delta(l, resync, pass.anchor)}
            /\ ring' = [ring EXCEPT ![l] = Queue(@, b)]
  BY SendIs
<1> HIDE DEF l, b
<1>6. CASE deltas' = deltas /\ ring' = ring
  BY <1>3, <1>6
<1>7. CASE \E resync \in BOOLEAN :
              /\ pass.anchor.tick < tick
              /\ deltas' = deltas \cup {Delta(l, resync, pass.anchor)}
              /\ ring' = [ring EXCEPT ![l] = Queue(@, b)]
  BY <1>4, <1>7
<1> QED
  BY <1>5, <1>6, <1>7

LEMMA OthersKeepLast ==
    ASSUME [LayerNext]_layerVars, ~SendLayer, ~TakeConfirmed
    PROVE  UNCHANGED <<ring, confirmed>>
BY DEF LayerNext, Simulate, StartPass, ReadRow, ReadRing, ReceiveAsk, ReceiveReport,
       MirrorRow, ReceiveFull, DropStale, RejectDelta, ApplyDelta, SendReport,
       LoseState, LoseSignal, serverVars, baseVars, layerVars

LEMMA RingOrderedInit == LayerInit => RingOrdered /\ PassCurrent
<1> SUFFICES ASSUME LayerInit PROVE RingOrdered /\ PassCurrent
  OBVIOUS
<1>1. \A l \in Layers : LastSent(l) = 1 /\ ring[l] = << >> /\ applied[l] = 0
  BY NoBaseIsBase DEF LayerInit, LastSent
<1>2. tick = 1 /\ deltas = {} /\ pass = Idle
  BY DEF LayerInit
<1> QED
  BY <1>1, <1>2 DEF RingOrdered, PassCurrent, Idle

LEMMA RingOrderedStep ==
    Types /\ RingsFit /\ BasesTrue /\ DeltasExact /\ Trailing /\ RingOrdered /\ PassCurrent
        /\ [LayerNext]_layerVars => RingOrdered'
<1> SUFFICES ASSUME Types, RingsFit, BasesTrue, DeltasExact, Trailing, RingOrdered, PassCurrent,
                    [LayerNext]_layerVars
             PROVE  RingOrdered'
  OBVIOUS
<1> SUFFICES ASSUME NEW k \in Layers
             PROVE  /\ applied'[k] <= LastSent(k)' /\ LastSent(k)' <= tick'
                    /\ \A i \in 1..Len(ring'[k]) : ring'[k][i].tick \in 1..LastSent(k)'
                    /\ \A d \in deltas' : d.layer = k => d.tick <= LastSent(k)'
  BY DEF RingOrdered
<1>1. /\ applied[k] <= LastSent(k) /\ LastSent(k) \in 1..tick
      /\ \A i \in 1..Len(ring[k]) : ring[k][i].tick \in 1..LastSent(k)
      /\ \A d \in deltas : d.layer = k => d.tick <= LastSent(k)
  BY LastSentNat DEF RingOrdered
<1>2. tick \in Nat \ {0} /\ tick' \in Nat /\ tick <= tick' /\ applied[k] \in Nat
      /\ \A d \in deltas : d.tick \in Nat
  BY PastKept, NumberTypes
<1>3. CASE SendLayer
  <2>1. applied' = applied /\ tick' = tick
    BY <1>3 DEF SendLayer, clientVars, simVars
  <2>2. CASE deltas' = deltas /\ ring' = ring /\ LastSent(k)' = LastSent(k)
    BY <1>1, <1>2, <2>1, <2>2
  <2>3. CASE /\ k # pass.layer /\ ring'[k] = ring[k] /\ LastSent(k)' = LastSent(k)
             /\ \A d \in deltas' : d \in deltas \/ d.layer # k
    BY <1>1, <1>2, <2>1, <2>3
  <2>4. CASE /\ k = pass.layer /\ LastSent(k) < tick /\ LastSent(k)' = tick
             /\ \E d \in deltas' : /\ deltas' = deltas \cup {d}
                                   /\ d.layer = k /\ d.base = LastSent(k) /\ d.tick = tick
             /\ \A i \in 1..Len(ring'[k]) :
                   ring'[k][i].tick = tick \/ \E j \in 1..Len(ring[k]) : ring'[k][i] = ring[k][j]
    <3>1. \A d \in deltas' : d.layer = k => d.tick <= tick
      BY <1>1, <1>2, <2>4
    <3>2. \A i \in 1..Len(ring'[k]) : ring'[k][i].tick \in 1..tick
      <4>1. 1..LastSent(k) \subseteq 1..tick /\ tick \in 1..tick
        BY <1>1, <1>2
      <4> QED
        BY <1>1, <2>4, <4>1
    <3> QED
      BY <1>1, <1>2, <2>1, <2>4, <3>1, <3>2
  <2> QED
    BY <1>3, <2>2, <2>3, <2>4, SendMovesLast
<1>4. CASE TakeConfirmed
  <2>1. applied' = applied /\ tick' = tick /\ deltas' = deltas
    BY <1>4 DEF TakeConfirmed, clientVars, simVars, network, stream
  <2>2. /\ LastSent(k)' = LastSent(k)
        /\ \A i \in 1..Len(ring'[k]) : \E j \in 1..Len(ring[k]) : ring'[k][i] = ring[k][j]
    BY <1>4, TakeKeepsLast
  <2> QED
    BY <1>1, <1>2, <2>1, <2>2
<1>5. CASE ~SendLayer /\ ~TakeConfirmed
  <2>1. LastSent(k)' = LastSent(k) /\ ring' = ring /\ deltas' \subseteq deltas
    BY <1>5, OthersKeepLast, OnlySendAdds DEF LastSent
  <2>2. applied'[k] <= LastSent(k)
    <3>1. CASE ReceiveFull
      BY <1>1, <1>2, <3>1, FullIs
    <3>2. ASSUME NEW d \in deltas, ApplyDelta(d) PROVE applied'[k] <= LastSent(k)
      <4>1. applied' = [applied EXCEPT ![d.layer] = d.tick] /\ applied \in [Layers -> 0..MaxTick]
            /\ d.layer \in Layers
        BY <3>2, NumberTypes DEF ApplyDelta, Types
      <4>2. applied'[k] = applied[k] \/ (d.layer = k /\ applied'[k] = d.tick)
        BY <4>1
      <4> QED
        BY <1>1, <4>2
    <3>3. CASE ~ReceiveFull /\ \A d \in deltas : ~ApplyDelta(d)
      BY <1>1, <3>3, OnlyTheseApply
    <3> QED
      BY <3>1, <3>2, <3>3
  <2> QED
    BY <1>1, <1>2, <2>1, <2>2
<1> QED
  BY <1>3, <1>4, <1>5

LEMMA PassCurrentStep ==
    Types /\ RingsFit /\ BasesTrue /\ Trailing /\ Confirming /\ RingOrdered /\ PassCurrent
        /\ [LayerNext]_layerVars => PassCurrent'
<1> SUFFICES ASSUME Types, RingsFit, BasesTrue, Trailing, Confirming, RingOrdered, PassCurrent,
                    [LayerNext]_layerVars
             PROVE  PassCurrent'
  OBVIOUS
<1> DEFINE l == pass.layer
<1>1. l \in Layers /\ pass \in Passes /\ confirmed[l].tick \in Nat /\ row[l].tick \in Nat
  BY NumberTypes DEF Types, Passes
<1>3. CASE StartPass \/ SendLayer
  <2>1. pass'.step \in {"idle", "row"}
    BY <1>1, <1>3, NextLayerIs DEF StartPass, SendLayer, Idle
  <2> QED
    BY <2>1 DEF PassCurrent
<1>4. CASE ReadRow
  <2>1. /\ pass'.step = "ring" /\ pass'.layer = l /\ pass'.row = row[l]
        /\ confirmed' = confirmed
    BY <1>1, <1>4 DEF ReadRow, baseVars, Passes
  <2>2. confirmed[l].tick = 0 => row[l].tick = 1
    <3>1. row[l].tick # 0
      BY <1>1 DEF BasesTrue, Truthful
    <3> QED
      BY <1>1, <3>1 DEF Trailing, Confirming
  <2> QED
    BY <2>1, <2>2 DEF PassCurrent
<1>5. CASE ReadRing
  <2>1. /\ pass.step = "ring" /\ pass'.step = "send" /\ pass'.layer = l
        /\ pass'.anchor = Anchor(l, pass.row) /\ UNCHANGED <<ring, confirmed>>
    BY <1>1, <1>5 DEF ReadRing, baseVars, Passes
  <2>2. Anchor(l, pass.row).tick = LastSent(l)
    <3>1. CASE ring[l] # << >>
      BY <1>1, <3>1, RingType, LastIsIn DEF Anchor, LastSent
    <3>2. CASE ring[l] = << >>
      BY <1>1, <2>1, <3>2 DEF Anchor, LastSent, PassCurrent
    <3> QED
      BY <3>1, <3>2
  <2>3. pass'.anchor.tick = (IF ring'[l] # << >> THEN ring'[l][Len(ring'[l])].tick
                             ELSE IF confirmed'[l].tick # 0 THEN confirmed'[l].tick ELSE 1)
    BY <2>1, <2>2 DEF LastSent
  <2> QED
    BY <2>1, <2>3 DEF PassCurrent, LastSent
<1>6. CASE TakeConfirmed
  <2>1. pass' = pass
    BY <1>6 DEF TakeConfirmed
  <2>2. ASSUME NEW k \in Layers
        PROVE  /\ LastSent(k)' = LastSent(k)
               /\ confirmed'[k].tick = 0 => confirmed[k].tick = 0
    <3>1. LastSent(k)' = LastSent(k)
      BY <1>6, TakeKeepsLast
    <3>2. confirmed'[k].tick = 0 => confirmed[k].tick = 0
      <4> DEFINE h == handler.layer
      <4>1. h \in Layers /\ confirmed \in [Layers -> Bases]
        BY <1>6, TakesALayer DEF Types
      <4>2. \A b \in Matching(ring[h], reported[h]) : b.tick # 0
        <5>1. \A b \in Matching(ring[h], reported[h]) : Truthful(h, b)
          BY <4>1, RingType DEF Matching, ToSet, BasesTrue
        <5> QED
          BY <5>1 DEF Truthful
      <4>3. confirmed' = confirmed \/ \E b \in Matching(ring[h], reported[h]) :
                                         confirmed' = [confirmed EXCEPT ![h] = b]
        BY <1>6 DEF TakeConfirmed
      <4> HIDE DEF h
      <4> QED
        BY <4>1, <4>2, <4>3
    <3> QED
      BY <3>1, <3>2
  <2>3. \A k \in Layers : (IF ring'[k] # << >> THEN ring'[k][Len(ring'[k])].tick
                           ELSE IF confirmed'[k].tick # 0 THEN confirmed'[k].tick ELSE 1)
                          = LastSent(k)
    BY <2>2 DEF LastSent
  <2> QED
    BY <1>1, <2>1, <2>2, <2>3 DEF PassCurrent, LastSent
<1>7. CASE ~(StartPass \/ SendLayer) /\ ~ReadRow /\ ~ReadRing /\ ~TakeConfirmed
  <2>1. pass' = pass
    BY <1>7 DEF LayerNext, Simulate, ReceiveAsk, ReceiveReport,
       MirrorRow, ReceiveFull, DropStale, RejectDelta, ApplyDelta, SendReport,
       LoseState, LoseSignal, serverVars, layerVars
  <2>2. UNCHANGED <<ring, confirmed>>
    BY <1>7, OthersKeepLast
  <2> QED
    BY <2>1, <2>2 DEF PassCurrent, LastSent
<1> QED
  BY <1>3, <1>4, <1>5, <1>6, <1>7

-----------------------------------------------------------------------------
(* The chain of the deltas in flight, while nothing is lost or overtaken.  *)

LEMMA ChainedInit == LayerInit => Chained
BY NoBaseIsBase DEF LayerInit, Chained, LastSent, Clock, Linked

(* A delta that arrives in an undisturbed stream is the first of its layer.*)
LEMMA FirstOfItsLayer ==
    ASSUME Types, Chained, NEW d \in deltas, Arrive(d), ~disturbed'
    PROVE  /\ ~disturbed /\ ~full
           /\ \A x \in deltas : x.layer = d.layer => d.tick <= x.tick
           /\ deltas' = deltas \/ deltas' = deltas \ {d}
           /\ \A l \in Layers : applied[l] # 0 /\ Clock(l) = applied[l]
<1>1. /\ ~disturbed /\ ~full /\ \A x \in deltas : x.layer = d.layer => ~(x.tick < d.tick)
      /\ deltas' = deltas \/ deltas' = deltas \ {d}
  BY DEF Arrive
<1>2. \A x \in deltas : x.layer = d.layer => d.tick <= x.tick
  BY <1>1, NumberTypes
<1>3. \A l \in Layers : applied[l] # 0
  BY <1>1 DEF Chained
<1> QED
  BY <1>1, <1>2, <1>3 DEF Clock

(* The first delta of a layer is based on the client's clock.              *)
LEMMA FirstMatches ==
    ASSUME Types, DeltasExact, Chained, ~disturbed, ~full, NEW d \in deltas,
           \A x \in deltas : x.layer = d.layer => d.tick <= x.tick
    PROVE  Stale(d) \/ ~Mismatch(d)
<1>1. d.layer \in Layers /\ d.tick \in Nat /\ d.base \in Nat /\ d.base < d.tick
      /\ applied[d.layer] \in Nat
  BY NumberTypes DEF DeltasExact, Exact
<1>2. Clock(d.layer) = applied[d.layer]
  BY <1>1 DEF Chained, Clock
<1>3. ~InFlight(d.layer, d.base)
  BY <1>1, NumberTypes DEF InFlight
<1>4. Linked(d)
  BY DEF Chained
<1> QED
  BY <1>1, <1>2, <1>3, <1>4 DEF Linked, Stale, Mismatch

(* A stream whose clocks and last sends stay, and that loses at most stale *)
(* deltas, stays a chain.                                                  *)
LEMMA ChainDrops ==
    ASSUME Types, Chained, ~disturbed, NEW gone \in SUBSET deltas,
           deltas' = deltas \ gone,
           \A d \in gone : d.tick <= applied[d.layer] /\ applied[d.layer] <= LastSent(d.layer),
           \A l \in Layers : LastSent(l)' = LastSent(l) /\ Clock(l)' = Clock(l)
    PROVE  /\ \A l \in Layers : (LastSent(l) = Clock(l) \/ InFlight(l, LastSent(l)))'
           /\ \A d \in deltas' : Linked(d)'
           /\ \A d, x \in deltas' : x.layer = d.layer /\ x.tick < d.tick => x.tick <= d.base
<1>1. \A d \in deltas : /\ d.layer \in Layers /\ d.tick \in Nat \ {0} /\ d.base \in Nat
                        /\ applied[d.layer] \in Nat
  BY NumberTypes
<1>2. \A d \in gone : d.tick <= Clock(d.layer) /\ Clock(d.layer) <= LastSent(d.layer)
                      /\ Clock(d.layer) \in Nat
  BY <1>1 DEF Clock
<1>3. ASSUME NEW l \in Layers
      PROVE  (LastSent(l) = Clock(l) \/ InFlight(l, LastSent(l)))'
  <2>1. CASE LastSent(l) = Clock(l)
    BY <2>1
  <2>2. CASE LastSent(l) # Clock(l)
    <3>1. PICK x \in deltas : x.layer = l /\ x.tick = LastSent(l)
      BY <2>2 DEF Chained, InFlight
    <3>2. x \notin gone
      BY <1>1, <1>2, <2>2, <3>1
    <3>3. x \in deltas' /\ x.layer = l /\ x.tick = LastSent(l)'
      BY <3>1, <3>2
    <3>4. InFlight(l, LastSent(l))' = \E y \in deltas' : y.layer = l /\ y.tick = LastSent(l)'
      BY DEF InFlight
    <3> QED
      BY <3>3, <3>4
  <2> QED
    BY <2>1, <2>2
<1>4. ASSUME NEW d \in deltas' PROVE Linked(d)'
  <2>1. d \in deltas /\ d.layer \in Layers
    BY <1>1
  <2>2. Clock(d.layer)' = Clock(d.layer)
    BY <2>1
  <2>3. SUFFICES ASSUME d.tick > Clock(d.layer)
                 PROVE  /\ d.base >= Clock(d.layer)
                        /\ d.base = Clock(d.layer)
                           \/ \E y \in deltas' : y.layer = d.layer /\ y.tick = d.base
    BY <2>2 DEF Linked, InFlight
  <2>4. /\ d.base >= Clock(d.layer)
        /\ d.base = Clock(d.layer) \/ \E y \in deltas : y.layer = d.layer /\ y.tick = d.base
    BY <2>1, <2>3 DEF Chained, Linked, InFlight
  <2>5. ASSUME NEW y \in deltas, y.layer = d.layer, y.tick = d.base, d.base # Clock(d.layer)
        PROVE  y \in deltas'
    BY <1>1, <1>2, <2>1, <2>4, <2>5
  <2> QED
    BY <2>4, <2>5
<1>5. \A d, x \in deltas' : x.layer = d.layer /\ x.tick < d.tick => x.tick <= d.base
  BY DEF Chained
<1> QED
  BY <1>3, <1>4, <1>5

(* The first delta of its layer applies: the chain now starts at its tick. *)
LEMMA ChainApplies ==
    ASSUME Types, DeltasExact, RingOrdered, Chained, NEW d \in deltas, ApplyDelta(d), ~disturbed',
           \A l \in Layers : LastSent(l)' = LastSent(l)
    PROVE  Chained'
<1> DEFINE k == d.layer
<1>1. /\ ~disturbed /\ ~full
      /\ \A x \in deltas : x.layer = k => d.tick <= x.tick
      /\ deltas' = deltas \/ deltas' = deltas \ {d}
      /\ \A l \in Layers : applied[l] # 0 /\ Clock(l) = applied[l]
  BY FirstOfItsLayer DEF ApplyDelta
<1>2. /\ k \in Layers /\ applied' = [applied EXCEPT ![k] = d.tick] /\ d.tick > applied[k]
      /\ applied \in [Layers -> 0..MaxTick] /\ d.tick \in Nat \ {0}
  <2>1. k \in Layers /\ d.tick \in Nat \ {0} /\ applied[k] \in Nat
    BY NumberTypes
  <2>2. applied' = [applied EXCEPT ![k] = d.tick] /\ ~(d.tick <= applied[k])
    BY DEF ApplyDelta, Stale
  <2>3. applied \in [Layers -> 0..MaxTick]
    BY DEF Types
  <2> QED
    BY <2>1, <2>2, <2>3
<1>3. \A x \in deltas : /\ x.layer \in Layers /\ x.tick \in Nat \ {0} /\ x.base \in Nat
                        /\ x.base < x.tick /\ applied[x.layer] \in Nat
  BY NumberTypes DEF DeltasExact, Exact
<1>4. /\ applied'[k] = d.tick /\ Clock(k)' = d.tick
      /\ \A l \in Layers \ {k} : applied'[l] = applied[l] /\ Clock(l)' = applied[l]
  BY <1>1, <1>2 DEF Clock
<1> HIDE DEF k
<1>5. \A x \in deltas : x \in deltas' \/ x = d
  BY <1>1
<1>6. \A l \in Layers : applied'[l] # 0
  BY <1>1, <1>2, <1>4
<1>7. ASSUME NEW l \in Layers
      PROVE  LastSent(l)' = Clock(l)' \/ \E y \in deltas' : y.layer = l /\ y.tick = LastSent(l)'
  <2>1. LastSent(l) = applied[l] \/ \E y \in deltas : y.layer = l /\ y.tick = LastSent(l)
    BY <1>1 DEF Chained, InFlight
  <2>2. CASE l # k
    BY <1>4, <1>5, <2>1, <2>2 DEF k
  <2>3. CASE l = k
    <3>1. d.tick <= LastSent(l)
      BY <2>3 DEF RingOrdered, k
    <3>2. PICK y \in deltas : y.layer = l /\ y.tick = LastSent(l)
      BY <1>2, <2>1, <2>3, <3>1
    <3> QED
      BY <1>4, <1>5, <2>3, <3>2
  <2> QED
    BY <2>2, <2>3
<1>8. ASSUME NEW x \in deltas', x.tick > Clock(x.layer)'
      PROVE  /\ x.base >= Clock(x.layer)'
             /\ x.base = Clock(x.layer)' \/ \E y \in deltas' : y.layer = x.layer /\ y.tick = x.base
  <2>1. x \in deltas
    BY <1>1
  <2>2. CASE x.layer # k
    <3>1. Clock(x.layer)' = applied[x.layer] /\ Clock(x.layer) = applied[x.layer]
      BY <1>1, <1>3, <1>4, <2>1, <2>2
    <3>2. /\ x.base >= applied[x.layer]
          /\ x.base = applied[x.layer] \/ \E y \in deltas : y.layer = x.layer /\ y.tick = x.base
      BY <1>1, <1>8, <2>1, <3>1 DEF Chained, Linked, InFlight
    <3> QED
      BY <1>5, <2>2, <3>1, <3>2 DEF k
  <2>3. CASE x.layer = k
    <3>1. x.tick > d.tick /\ d.tick <= x.base
      BY <1>1, <1>4, <1>8, <2>1, <2>3 DEF Chained, k
    <3>2. x.base = applied[k] \/ \E y \in deltas : y.layer = x.layer /\ y.tick = x.base
      <4>1. x.tick > Clock(k) /\ Linked(x)
        BY <1>1, <1>2, <1>3, <2>1, <3>1 DEF Chained
      <4> QED
        BY <1>1, <1>2, <2>3, <4>1 DEF Linked, InFlight
    <3>3. PICK y \in deltas : y.layer = x.layer /\ y.tick = x.base
      BY <1>2, <1>3, <2>1, <2>3, <3>1, <3>2
    <3> QED
      BY <1>2, <1>3, <1>4, <1>5, <2>1, <2>3, <3>1, <3>3
  <2> QED
    BY <2>2, <2>3
<1>9. \A x, y \in deltas' : y.layer = x.layer /\ y.tick < x.tick => y.tick <= x.base
  BY <1>1 DEF Chained
<1>10. \A x \in deltas' : Linked(x)'
  BY <1>8 DEF Linked, InFlight
<1>11. \A l \in Layers : (LastSent(l) = Clock(l) \/ InFlight(l, LastSent(l)))'
  BY <1>7 DEF InFlight
<1> QED
  BY <1>6, <1>9, <1>10, <1>11 DEF Chained

(* A send is linked to the one before it.                                  *)
LEMMA ChainSends ==
    ASSUME Types, RingsFit, BasesTrue, RingOrdered, PassCurrent, Chained, SendLayer, ~disturbed'
    PROVE  Chained'
<1>1. /\ ~disturbed /\ UNCHANGED <<applied, full, tick>> /\ pass.layer \in Layers
      /\ \A l \in Layers : Clock(l)' = Clock(l)
  BY NumberTypes DEF SendLayer, clientVars, simVars, Clock
<1>2. \A d \in deltas : /\ d.layer \in Layers /\ d.tick \in Nat \ {0} /\ d.base \in Nat
                        /\ d.tick <= LastSent(d.layer)
  BY NumberTypes DEF RingOrdered
<1>3. \A l \in Layers : /\ Clock(l) <= LastSent(l) /\ Clock(l) \in Nat /\ LastSent(l) \in 1..tick
  BY NumberTypes, LastSentNat DEF RingOrdered, Clock
<1>4. CASE deltas' = deltas /\ ring' = ring
  <2>1. \A l \in Layers : LastSent(l)' = LastSent(l)
    BY <1>4 DEF SendLayer, LastSent
  <2>2. /\ \A l \in Layers : (LastSent(l) = Clock(l) \/ InFlight(l, LastSent(l)))'
        /\ \A d \in deltas' : Linked(d)'
        /\ \A d, x \in deltas' : x.layer = d.layer /\ x.tick < d.tick => x.tick <= d.base
    <3>1. deltas' = deltas \ {} /\ {} \in SUBSET deltas
      BY <1>4
    <3> QED
      BY <1>1, <2>1, <3>1, ChainDrops
  <2> QED
    BY <1>1, <2>2 DEF Chained
<1>5. CASE ~(deltas' = deltas /\ ring' = ring)
  <2> DEFINE k == pass.layer
  <2>1. LastSent(k) < tick /\ \E d \in deltas' : /\ deltas' = deltas \cup {d} /\ d.layer = k
                                                 /\ d.base = LastSent(k) /\ d.tick = tick
    BY <1>1, <1>5, SendMovesLast
  <2>2. PICK n \in deltas' : /\ deltas' = deltas \cup {n} /\ n.layer = k
                             /\ n.base = LastSent(k) /\ n.tick = tick
    BY <2>1
  <2>3. \A l \in Layers : /\ l = k => LastSent(l)' = tick
                          /\ l # k => LastSent(l)' = LastSent(l)
    BY <1>5, SendMovesLast
  <2>4. k \in Layers /\ tick \in Nat
    BY NumberTypes
  <2> HIDE DEF k
  <2>5. ASSUME NEW l \in Layers
        PROVE  LastSent(l)' = Clock(l)' \/ \E y \in deltas' : y.layer = l /\ y.tick = LastSent(l)'
    <3>1. CASE l = k
      BY <2>2, <2>3, <3>1
    <3>2. CASE l # k
      BY <1>1, <2>2, <2>3, <3>2 DEF Chained, InFlight
    <3> QED
      BY <3>1, <3>2
  <2>6. ASSUME NEW x \in deltas', x.tick > Clock(x.layer)
        PROVE  /\ x.base >= Clock(x.layer)
               /\ x.base = Clock(x.layer) \/ \E y \in deltas' : y.layer = x.layer /\ y.tick = x.base
    <3>1. CASE x = n
      BY <1>1, <1>3, <2>2, <2>4, <3>1 DEF Chained, InFlight
    <3>2. CASE x \in deltas
      BY <1>1, <2>2, <2>6, <3>2 DEF Chained, Linked, InFlight
    <3> QED
      BY <2>2, <3>1, <3>2
  <2>7. \A x \in deltas' : x.layer \in Layers
    BY <1>2, <2>2, <2>4
  <2>8. \A x \in deltas' : Linked(x)'
    BY <1>1, <2>6, <2>7 DEF Linked, InFlight
  <2>9. \A x, y \in deltas' : y.layer = x.layer /\ y.tick < x.tick => y.tick <= x.base
    <3> SUFFICES ASSUME NEW x \in deltas', NEW y \in deltas', y.layer = x.layer, y.tick < x.tick
                 PROVE  y.tick <= x.base
      OBVIOUS
    <3>1. CASE x = n
      <4>1. y # n
        BY <2>2, <2>4, <3>1
      <4> QED
        BY <1>2, <2>2, <3>1, <4>1
    <3>2. CASE x \in deltas
      <4>1. y \in deltas
        BY <1>2, <1>3, <2>1, <2>2, <2>4, <3>2
      <4> QED
        BY <1>1, <3>2, <4>1 DEF Chained
    <3> QED
      BY <2>2, <3>1, <3>2
  <2>10. \A l \in Layers : (LastSent(l) = Clock(l) \/ InFlight(l, LastSent(l)))'
    BY <2>5 DEF InFlight
  <2> QED
    BY <1>1, <2>8, <2>9, <2>10 DEF Chained
<1> QED
  BY <1>4, <1>5

LEMMA ChainedStep ==
    Types /\ RingsFit /\ BasesTrue /\ DeltasExact /\ Trailing /\ RingOrdered /\ PassCurrent /\ Chained
        /\ [LayerNext]_layerVars => Chained'
<1> SUFFICES ASSUME Types, RingsFit, BasesTrue, DeltasExact, Trailing, RingOrdered, PassCurrent,
                    Chained, [LayerNext]_layerVars, ~disturbed'
             PROVE  Chained'
  BY DEF Chained
<1>1. ~SendLayer => \A l \in Layers : LastSent(l)' = LastSent(l)
  <2>1. CASE TakeConfirmed
    BY <2>1, TakeKeepsLast
  <2>2. CASE ~TakeConfirmed /\ ~SendLayer
    BY <2>2, OthersKeepLast DEF LastSent
  <2> QED
    BY <2>1, <2>2
<1>2. CASE SendLayer
  BY <1>2, ChainSends
<1>3. ASSUME ~SendLayer, NEW gone \in SUBSET deltas, deltas' = deltas \ gone, ~disturbed,
             \A d \in gone : d.tick <= applied[d.layer],
             \A l \in Layers : Clock(l)' = Clock(l),
             (full' /\ \A l \in Layers : applied'[l] = 0) \/ \A l \in Layers : applied'[l] # 0
      PROVE  Chained'
  <2>1. \A d \in gone : d.tick <= applied[d.layer] /\ applied[d.layer] <= LastSent(d.layer)
    BY <1>3, NumberTypes DEF RingOrdered
  <2>2. \A l \in Layers : LastSent(l)' = LastSent(l) /\ Clock(l)' = Clock(l)
    BY <1>1, <1>3
  <2>3. /\ \A l \in Layers : (LastSent(l) = Clock(l) \/ InFlight(l, LastSent(l)))'
        /\ \A d \in deltas' : Linked(d)'
        /\ \A d, x \in deltas' : x.layer = d.layer /\ x.tick < d.tick => x.tick <= d.base
    BY <1>3, <2>1, <2>2, ChainDrops
  <2> QED
    BY <1>3, <2>3 DEF Chained
<1>4. CASE ReceiveFull /\ ~SendLayer
  <2>1. ~disturbed /\ deltas' = deltas \ {} /\ {} \in SUBSET deltas
    BY <1>4, FullIs DEF ReceiveFull
  <2>2. applied \in [Layers -> Nat] /\ 1 \in Layers
    BY ConstantFacts DEF Types
  <2>3. CASE UNCHANGED <<applied, held, view>>
    <3>1. \E l \in Layers : applied[l] # 0
      <4>1. ~ \A l \in Layers : applied[l] = 0
        BY <1>4, <2>2, <2>3 DEF ReceiveFull
      <4> QED
        BY <4>1
    <3>2. \A l \in Layers : applied'[l] # 0 /\ Clock(l)' = Clock(l)
      BY <2>1, <2>3, <3>1 DEF Chained, Clock
    <3> QED
      BY <1>3, <1>4, <2>1, <3>2
  <2>4. CASE (\A l \in Layers : applied[l] = 0) /\ applied' = [l \in Layers |-> 1]
    <3>1. \A l \in Layers : applied'[l] # 0 /\ Clock(l)' = Clock(l)
      BY <2>4 DEF Clock
    <3> QED
      BY <1>3, <1>4, <2>1, <3>1
  <2> QED
    BY <1>4, <2>3, <2>4, FullIs
<1>5. ASSUME NEW d \in deltas, DropStale(d), ~SendLayer PROVE Chained'
  <2>1. /\ ~disturbed /\ (deltas' = deltas \/ deltas' = deltas \ {d})
        /\ \A l \in Layers : applied[l] # 0
    BY <1>5, FirstOfItsLayer DEF DropStale
  <2>2. UNCHANGED <<applied, full>> /\ d.tick <= applied[d.layer]
    BY <1>5 DEF DropStale, clientVars, Stale
  <2>3. \A l \in Layers : applied'[l] # 0 /\ Clock(l)' = Clock(l)
    BY <2>1, <2>2 DEF Clock
  <2>4. CASE deltas' = deltas
    <3>1. deltas' = deltas \ {} /\ {} \in SUBSET deltas
      BY <2>4
    <3> QED
      BY <1>3, <1>5, <2>1, <2>3, <3>1
  <2>5. CASE deltas' = deltas \ {d}
    <3> DEFINE gone == {d}
    <3>1. /\ gone \in SUBSET deltas /\ deltas' = deltas \ gone
          /\ \A x \in gone : x.tick <= applied[x.layer]
      BY <2>2, <2>5
    <3>2. \A l \in Layers : applied'[l] # 0 /\ Clock(l)' = Clock(l)
      BY <2>3
    <3> HIDE DEF gone
    <3> QED
      BY <1>3, <1>5, <2>1, <3>1, <3>2
  <2> QED
    BY <2>1, <2>4, <2>5
<1>6. ASSUME NEW d \in deltas, RejectDelta(d) PROVE FALSE
  <2>1. Stale(d) \/ ~Mismatch(d)
    BY <1>6, FirstOfItsLayer, FirstMatches DEF RejectDelta
  <2> QED
    BY <1>6, <2>1 DEF RejectDelta
<1>7. ASSUME NEW d \in deltas, ApplyDelta(d), ~SendLayer PROVE Chained'
  BY <1>1, <1>7, ChainApplies
<1>8. ASSUME ~LoseState
      PROVE  \/ SendLayer \/ ReceiveFull
             \/ \E d \in deltas : DropStale(d) \/ RejectDelta(d) \/ ApplyDelta(d)
             \/ UNCHANGED <<deltas, applied, full, disturbed>>
  BY <1>8 DEF LayerNext, Simulate, StartPass, ReadRow, ReadRing, ReceiveAsk, ReceiveReport,
       TakeConfirmed, MirrorRow, SendReport, LoseSignal, clientVars, network, stream, layerVars
<1>9. CASE UNCHANGED <<deltas, applied, full, disturbed>> /\ ~SendLayer
  <2>1. ~disturbed /\ deltas' = deltas \ {} /\ {} \in SUBSET deltas
        /\ \A l \in Layers : Clock(l)' = Clock(l)
    BY <1>9 DEF Clock
  <2>2. (full' /\ \A l \in Layers : applied'[l] = 0) \/ \A l \in Layers : applied'[l] # 0
    BY <1>9, <2>1 DEF Chained
  <2> QED
    BY <1>3, <1>9, <2>1, <2>2
<1>10. ~LoseState
  BY DEF LoseState
<1> QED
  BY <1>2, <1>4, <1>5, <1>6, <1>7, <1>8, <1>9, <1>10

-----------------------------------------------------------------------------
(* The theorems.                                                           *)

ServerInv ==
    /\ Types /\ RingsFit /\ BasesTrue /\ DeltasExact
    /\ Trailing /\ Confirming /\ RingOrdered /\ PassCurrent

LEMMA ServerInvariant == LayerSpec => []ServerInv
<1>1. LayerInit => ServerInv
  BY TypesInit, BasesInit, TrailingInit, RingOrderedInit DEF ServerInv
<1>2. ServerInv /\ [LayerNext]_layerVars => ServerInv'
  BY TypesStep, BasesStep, DeltasStep, TrailingStep, RingOrderedStep, PassCurrentStep DEF ServerInv
<1> QED
  BY <1>1, <1>2, PTL DEF LayerSpec

(* Every variable has its type, and no ring outgrows MAX_PENDING_CONFIRMS. *)
THEOREM LayerTypesCorrect == LayerSpec => []LayerTypeOK
<1>1. ServerInv => LayerTypeOK
  <2> SUFFICES ASSUME ServerInv PROVE LayerTypeOK
    OBVIOUS
  <2>1. \A l \in Layers : Len(ring[l]) <= RingCap /\ ToSet(ring[l]) \subseteq Bases
    BY RingType DEF ServerInv, RingsFit, ToSet
  <2>2. \A d \in deltas : d.layer \in Layers /\ d.base \in 0..MaxTick /\ d.tick \in Ticks
    BY DEF ServerInv, Types, Deltas
  <2> QED
    BY <2>1, <2>2 DEF ServerInv, Types, LayerTypeOK, Steps
<1> QED
  BY <1>1, ServerInvariant, PTL

(* "The confirmed base never moves on a guess" (server.rs 368): whatever   *)
(* is lost, doubled or late, and wherever the report handler stands in its *)
(* two maps, what the server takes for confirmed is not ahead of what was  *)
(* reported, nor that of what the client applied.                          *)
THEOREM NothingIsGuessed == LayerSpec => []ConfirmedIsHeld
<1>1. ServerInv => ConfirmedIsHeld
  <2> SUFFICES ASSUME ServerInv PROVE ConfirmedIsHeld
    OBVIOUS
  <2>1. DOMAIN applied = Layers
    BY DEF ServerInv, Types
  <2> QED
    BY <2>1 DEF ServerInv, Trailing, ConfirmedIsHeld
<1> QED
  BY <1>1, ServerInvariant, PTL

(* Bug 757: while no state datagram is lost or overtaken, the next delta   *)
(* of a layer is based on the tick the client's clock reads, however the   *)
(* report handler and the publish pass interleave.                         *)
THEOREM NoLayerStalls == LayerSpec => []UndisturbedNeverStalls
<1>1. LayerInit => Chained
  BY ChainedInit
<1>2. ServerInv /\ Chained /\ [LayerNext]_layerVars => Chained'
  BY ChainedStep DEF ServerInv
<1>3. ServerInv /\ Chained => UndisturbedNeverStalls
  BY FirstMatches DEF ServerInv, UndisturbedNeverStalls
<1> QED
  BY <1>1, <1>2, <1>3, ServerInvariant, PTL DEF LayerSpec

(* As long as no delta of one layer overtakes a delta of another, each     *)
(* clock of the client names a tick of which the frame and the map hold    *)
(* the very entities, whatever is lost, doubled, or overtaken within a     *)
(* layer ...                                                               *)
LEMMA ClockInvariant ==
    ASSUME InOrder
    PROVE  LayerSpec => [](FrameNewest /\ ClockAgrees)
<1>1. LayerInit => FrameNewest /\ ClockAgrees
  BY ConstantFacts, NoBaseIsBase DEF LayerInit, FrameNewest, ClockAgrees
<1>2. ServerInv /\ FrameNewest /\ ClockAgrees /\ [LayerNext]_layerVars
         => FrameNewest' /\ ClockAgrees'
  BY FrameStep, ClockStep DEF ServerInv
<1> QED
  BY <1>1, <1>2, ServerInvariant, PTL DEF LayerSpec

EntitiesHeld ==
    \A l \in DOMAIN applied : applied[l] # 0 =>
        /\ DOMAIN On(l, held.content) = DOMAIN On(l, past[applied[l]])
        /\ DOMAIN On(l, view) = DOMAIN On(l, past[applied[l]])

THEOREM ClientHoldsTheEntities ==
    ASSUME InOrder
    PROVE  LayerSpec => []EntitiesHeld
<1>1. ServerInv /\ ClockAgrees => EntitiesHeld
  <2> SUFFICES ASSUME ServerInv, ClockAgrees PROVE EntitiesHeld
    OBVIOUS
  <2>1. DOMAIN applied = Layers
    BY DEF ServerInv, Types
  <2> QED
    BY <2>1 DEF ClockAgrees, Agree, EntitiesHeld
<1> QED
  BY <1>1, ServerInvariant, ClockInvariant, PTL

(* Contents of a layer that agree are equal when Eps = 0.                  *)
LEMMA AgreeIsEqual ==
    ASSUME Eps = 0, NEW l, NEW c, NEW w, Agree(On(l, c), On(l, w))
    PROVE  On(l, c) = On(l, w)
<1>1. DOMAIN On(l, c) = DOMAIN On(l, w) /\ \A e \in DOMAIN On(l, c) : On(l, c)[e] = On(l, w)[e]
  BY DEF Agree
<1>2. On(l, c) = [e \in DOMAIN On(l, c) |-> On(l, c)[e]]
      /\ On(l, w) = [e \in DOMAIN On(l, w) |-> On(l, w)[e]]
  BY DEF On
<1> QED
  BY <1>1, <1>2

(* ... and their very values, when the compressor withholds no difference. *)
THEOREM ClientHoldsTheWorld ==
    ASSUME InOrder, Eps = 0
    PROVE  LayerSpec => []ClockTellsContent
<1>1. ServerInv /\ ClockAgrees => ClockTellsContent
  <2> SUFFICES ASSUME ServerInv, ClockAgrees PROVE ClockTellsContent
    OBVIOUS
  <2>1. DOMAIN applied = Layers
    BY DEF ServerInv, Types
  <2> QED
    BY <2>1, AgreeIsEqual DEF ClockAgrees, ClockTellsContent
<1> QED
  BY <1>1, ServerInvariant, ClockInvariant, PTL

-----------------------------------------------------------------------------
(* Each layer implements LayerReplica.                                     *)

History(l) == [t \in 1..tick |-> On(l, past[t])]

(* A function on 1..n is a sequence, and one that extends it begins with   *)
(* it.                                                                     *)
LEMMA HistoryFacts ==
    ASSUME NEW S, NEW n \in Nat, NEW h \in [1..n -> S]
    PROVE  /\ h \in Seq(S) /\ Len(h) = n
           /\ \A g \in Seq(S) : Len(g) = n + 1 /\ (\A t \in 1..n : g[t] = h[t])
                                    => SubSeq(g, 1, n) = h
<1>1. h \in Seq(S) /\ Len(h) = n
  OBVIOUS
<1>2. ASSUME NEW g \in Seq(S), Len(g) = n + 1, \A t \in 1..n : g[t] = h[t]
      PROVE  SubSeq(g, 1, n) = h
  <2>1. SubSeq(g, 1, n) = [t \in 1..n |-> g[t]]
    BY <1>2
  <2>2. h = [t \in 1..n |-> h[t]]
    OBVIOUS
  <2> QED
    BY <1>2, <2>1, <2>2
<1> QED
  BY <1>1, <1>2

LEMMA PastIsContent ==
    ASSUME Types
    PROVE  tick \in Nat /\ \A t \in 1..tick : past[t] \in Contents
BY ConstantFacts DEF Types, Ticks

LEMMA HistoryNow ==
    ASSUME Types, NEW l \in Layers
    PROVE  /\ tick \in Nat
           /\ History(l) \in [1..tick -> Contents] /\ Len(History(l)) = tick
           /\ \A t \in 1..tick : History(l)[t] = On(l, past[t])
<1>1. tick \in Nat /\ \A t \in 1..tick : past[t] \in Contents
  BY PastIsContent
<1>2. History(l) \in [1..tick -> Contents] /\ Len(History(l)) = tick
  <2>1. [t \in 1..tick |-> On(l, past[t])] \in [1..tick -> Contents]
    BY <1>1, OnIsContent
  <2>2. History(l) \in [1..tick -> Contents]
    BY <2>1 DEF History
  <2> QED
    BY <1>1, <2>2, HistoryFacts
<1> QED
  BY <1>1, <1>2 DEF History

LEMMA ReplicaInit ==
    ASSUME LayerInit, Types, NEW l \in Layers
    PROVE  Replica(l)!Init
<1>1. Len(History(l)) = 1
  BY HistoryNow DEF LayerInit
<1>2. applied[l] = 0 /\ held = NoBase /\ view = Empty /\ confirmed[l] = NoBase
  BY DEF LayerInit
<1>3. On(l, Empty) = Empty
  <2>1. On(l, Empty) = [e \in {} |-> Empty[e]]
    BY EmptyIsContent DEF On
  <2> QED
    BY <2>1 DEF Empty
<1>4. held.content = Empty /\ confirmed[l].tick = 0
  BY <1>2 DEF NoBase
<1> QED
  BY <1>1, <1>2, <1>3, <1>4 DEF Replica!Init, History

(* The world goes on.                                                      *)
LEMMA ReplicaPublishes ==
    ASSUME Types, NEW l \in Layers, tick' = tick + 1,
           \A t \in 1..tick' : past'[t] \in Contents, \A t \in 1..tick : past'[t] = past[t],
           UNCHANGED <<applied, held, view, confirmed>>
    PROVE  Replica(l)!Publish
<1>1. /\ tick \in Nat
      /\ History(l) \in [1..tick -> Contents] /\ Len(History(l)) = tick
      /\ \A t \in 1..tick : History(l)[t] = On(l, past[t])
  BY HistoryNow
<1> DEFINE h == [t \in 1..tick' |-> On(l, past'[t])]
<1>2. /\ h \in [1..tick' -> Contents] /\ Len(h) = tick'
      /\ \A t \in 1..tick' : h[t] = On(l, past'[t])
  <2>1. tick' \in Nat
    BY <1>1
  <2>2. h \in [1..tick' -> Contents]
    BY OnIsContent
  <2>3. \A t \in 1..tick' : h[t] = On(l, past'[t])
    OBVIOUS
  <2> HIDE DEF h
  <2> QED
    BY <2>1, <2>2, <2>3, HistoryFacts
<1> HIDE DEF h
<1>3. h \in Seq(Contents) /\ \A t \in 1..tick : h[t] = History(l)[t]
  BY <1>1, <1>2, HistoryFacts
<1>4. SubSeq(h, 1, tick) = History(l) /\ Len(h) = Len(History(l)) + 1
  BY <1>1, <1>2, <1>3, HistoryFacts
<1> QED
  BY <1>1, <1>4 DEF Replica!Publish, History, On, h

(* A step that shows a layer the world of a later tick.                    *)
LEMMA ReplicaShows ==
    ASSUME Types, NEW l \in Layers, NEW t \in 1..tick, applied[l] < t,
           UNCHANGED <<tick, past, confirmed>>, applied'[l] = t,
           On(l, held'.content) = On(l, past[t]), On(l, view') = On(l, past[t])
    PROVE  Replica(l)!Next
<1>1. Len(History(l)) = tick /\ History(l)[t] = On(l, past[t])
  BY HistoryNow
<1>2. History(l)' = History(l)
  BY DEF History, On
<1>3. Replica(l)!Show(t)
  BY <1>1, <1>2 DEF Replica!Show, History, On
<1> QED
  BY <1>1, <1>3 DEF Replica!Next, History

(* The handler takes what the client reported.                             *)
LEMMA ReplicaLearns ==
    ASSUME Types, BasesTrue, Trailing, TakeConfirmed, NEW l \in Layers
    PROVE  [Replica(l)!Next]_(Replica(l)!vars)
<1> DEFINE k == handler.layer
<1>1. k \in Layers /\ confirmed \in [Layers -> Bases]
  BY TakesALayer DEF Types
<1>2. UNCHANGED <<tick, past, applied, held, view>>
  BY DEF TakeConfirmed, simVars, clientVars
<1>3. \/ confirmed' = confirmed
      \/ \E b \in Matching(ring[k], reported[k]) : confirmed' = [confirmed EXCEPT ![k] = b]
  BY DEF TakeConfirmed
<1> HIDE DEF k
<1>4. UNCHANGED <<History(l), On(l, held.content), On(l, view)>>
  BY <1>2 DEF History, On
<1>5. confirmed'[l].tick = confirmed[l].tick => UNCHANGED Replica(l)!vars
  BY <1>2, <1>4 DEF Replica!vars, History
<1>6. CASE confirmed'[l] = confirmed[l]
  BY <1>5, <1>6
<1>7. ASSUME NEW b \in Matching(ring[l], reported[l]), confirmed'[l] = b
      PROVE  [Replica(l)!Next]_(Replica(l)!vars)
  <2>1. b.tick = reported[l]
    BY <1>7 DEF Matching
  <2>2. confirmed[l].tick <= b.tick /\ b.tick <= applied[l]
    BY <2>1 DEF Trailing
  <2>3. confirmed[l].tick \in Nat /\ b.tick \in Nat /\ applied[l] \in Nat
    BY <2>1, NumberTypes
  <2>4. CASE b.tick = confirmed[l].tick
    BY <1>5, <1>7, <2>4
  <2>5. CASE b.tick # confirmed[l].tick
    <3>1. b.tick \in 1..applied[l] /\ confirmed[l].tick < b.tick
      BY <2>2, <2>3, <2>5
    <3>2. Replica(l)!Learn(b.tick)
      BY <1>2, <1>4, <1>7, <3>1 DEF Replica!Learn, History
    <3> QED
      BY <3>1, <3>2 DEF Replica!Next
  <2> QED
    BY <2>4, <2>5
<1> QED
  BY <1>1, <1>3, <1>6, <1>7

(* The client takes the first full, or a delta.                            *)
LEMMA ReplicaTakesFull ==
    ASSUME Types, ReceiveFull, NEW l \in Layers
    PROVE  [Replica(l)!Next]_(Replica(l)!vars)
<1>1. UNCHANGED <<tick, past, confirmed>>
  BY DEF ReceiveFull, simVars, serverVars, baseVars
<1>2. CASE UNCHANGED <<applied, held, view>>
  <2>1. UNCHANGED <<History(l), On(l, held.content), On(l, view)>>
    BY <1>1, <1>2 DEF History, On
  <2> QED
    BY <1>1, <1>2, <2>1 DEF Replica!vars, History
<1>3. CASE /\ \A k \in Layers : applied[k] = 0
           /\ applied' = [k \in Layers |-> 1]
           /\ held' = [tick |-> 1, content |-> past[1]] /\ view' = past[1]
  <2>1. 1 \in 1..tick /\ applied[l] < 1 /\ applied'[l] = 1
    BY <1>3, NumberTypes
  <2>2. On(l, held'.content) = On(l, past[1]) /\ On(l, view') = On(l, past[1])
    BY <1>3
  <2> QED
    BY <1>1, <2>1, <2>2, ReplicaShows
<1> QED
  BY <1>2, <1>3, FullIs

LEMMA ReplicaTakesDelta ==
    ASSUME InOrder, Eps = 0, Types, DeltasExact, FrameNewest, ClockAgrees, ClockAgrees',
           NEW d \in deltas, ApplyDelta(d), NEW l \in Layers
    PROVE  [Replica(l)!Next]_(Replica(l)!vars)
<1> DEFINE m == Merge(held.content, d)
           w == ViewAfter(view, d, m)
<1>1. UNCHANGED <<tick, past, confirmed>>
  BY DEF ApplyDelta, simVars, serverVars, baseVars
<1>2. /\ d.layer \in Layers /\ Exact(d) /\ applied \in [Layers -> 0..MaxTick]
      /\ held.content \in Contents /\ view \in Contents
  BY NumberTypes DEF Types, Bases, DeltasExact
<1>3. d.tick > applied[d.layer] /\ held'.content = m
  BY AppliedInOrder
<1>4. /\ applied' = [applied EXCEPT ![d.layer] = d.tick] /\ view' = w
      /\ ~d.resync => d.base = applied[d.layer]
  BY DEF ApplyDelta, Mismatch
<1>5. CASE l = d.layer
  <2>1. d.tick \in 1..tick /\ applied'[l] = d.tick /\ applied[l] < d.tick
    BY <1>2, <1>3, <1>4, <1>5, NumberTypes DEF Exact
  <2>2. /\ Agree(On(l, held'.content), On(l, past[d.tick]))
        /\ Agree(On(l, view'), On(l, past[d.tick]))
    <3>1. applied'[l] # 0
      BY <2>1
    <3>2. /\ Agree(On(l, held'.content), On(l, past'[applied'[l]]))
          /\ Agree(On(l, view'), On(l, past'[applied'[l]]))
      BY <3>1 DEF ClockAgrees, Agree, On
    <3> QED
      BY <1>1, <2>1, <3>2
  <2>3. On(l, held'.content) = On(l, past[d.tick]) /\ On(l, view') = On(l, past[d.tick])
    BY <2>2, AgreeIsEqual
  <2> QED
    BY <1>1, <2>1, <2>3, ReplicaShows
<1>6. CASE l # d.layer
  <2>1. applied'[l] = applied[l]
    BY <1>2, <1>4, <1>6
  <2>2. ~d.resync => /\ Agree(On(d.layer, held.content), On(d.layer, past[d.base]))
                     /\ Agree(On(d.layer, view), On(d.layer, past[d.base]))
    <3>1. d.base # 0
      BY <1>2 DEF Exact
    <3> QED
      BY <1>2, <1>4, <3>1 DEF ClockAgrees
  <2>3. /\ On(l, m) = On(l, held.content)
        /\ Agree(On(d.layer, m), On(d.layer, past[d.tick]))
    BY <1>2, <1>6, <2>2, MergeGives
  <2>4. On(l, w) = On(l, view)
    <3>1. d \in Deltas
      BY DEF Types
    <3>2. m \in Contents
      BY <1>2, <3>1, MergeType
    <3> HIDE DEF m
    <3> QED
      BY <1>2, <1>6, <2>2, <2>3, <3>2, ViewGives
  <2>5. UNCHANGED <<On(l, held.content), On(l, view), History(l)>>
    BY <1>1, <1>3, <1>4, <2>3, <2>4 DEF History, On
  <2> QED
    BY <1>1, <2>1, <2>5 DEF Replica!vars, History
<1> QED
  BY <1>5, <1>6

LEMMA OnlyTheseConfirm ==
    ASSUME [LayerNext]_layerVars, ~TakeConfirmed
    PROVE  confirmed' = confirmed
BY DEF LayerNext, Simulate, StartPass, ReadRow, ReadRing, SendLayer, ReceiveAsk, ReceiveReport,
       MirrorRow, ReceiveFull, DropStale, RejectDelta, ApplyDelta, SendReport, LoseState,
       LoseSignal, serverVars, baseVars, layerVars

LEMMA ReplicaStepIs ==
    ASSUME InOrder, Eps = 0, Types, Types', BasesTrue, DeltasExact, Trailing, FrameNewest,
           ClockAgrees, ClockAgrees', [LayerNext]_layerVars, NEW l \in Layers
    PROVE  [Replica(l)!Next]_(Replica(l)!vars)
<1>1. CASE Simulate
  <2>1. tick' = tick + 1 /\ UNCHANGED <<applied, held, view, confirmed>>
    BY <1>1 DEF Simulate, serverVars, baseVars, clientVars
  <2>2. \A t \in 1..tick' : past'[t] \in Contents
    <3>1. tick' \in Ticks /\ past' \in [Ticks -> Contents]
      BY DEF Types
    <3>2. 1..tick' \subseteq Ticks
      BY <3>1, ConstantFacts DEF Ticks
    <3> QED
      BY <3>1, <3>2
  <2>3. \A t \in 1..tick : past'[t] = past[t]
    BY PastKept
  <2>4. Replica(l)!Publish
    BY <2>1, <2>2, <2>3, ReplicaPublishes
  <2> QED
    BY <2>4 DEF Replica!Next
<1>2. CASE ReceiveFull
  BY <1>2, ReplicaTakesFull
<1>3. ASSUME NEW d \in deltas, ApplyDelta(d) PROVE [Replica(l)!Next]_(Replica(l)!vars)
  BY <1>3, ReplicaTakesDelta
<1>4. CASE TakeConfirmed
  BY <1>4, ReplicaLearns
<1>5. CASE ~Simulate /\ ~ReceiveFull /\ (\A d \in deltas : ~ApplyDelta(d)) /\ ~TakeConfirmed
  <2>1. tick' = tick /\ past' = past
    BY <1>5 DEF LayerNext, StartPass, ReadRow, ReadRing, SendLayer, ReceiveAsk, ReceiveReport,
           MirrorRow, DropStale, RejectDelta, SendReport,
           LoseState, LoseSignal, simVars, layerVars
  <2>2. UNCHANGED <<applied, held, view>> /\ confirmed' = confirmed
    BY <1>5, OnlyTheseApply, OnlyTheseConfirm
  <2>3. UNCHANGED <<History(l), On(l, held.content), On(l, view)>>
    BY <2>1, <2>2 DEF History, On
  <2> QED
    BY <2>1, <2>2, <2>3 DEF Replica!vars, History
<1> QED
  BY <1>1, <1>2, <1>3, <1>4, <1>5

(* Each layer of a client is a replica: whatever is lost, doubled, or      *)
(* overtaken within a layer, it goes forward from one world the server had *)
(* to a later one, each shown whole and alike in the frame and in the map, *)
(* untouched by the other layers' deltas, and the server's confirmed base  *)
(* follows behind, never to go back.                                       *)
THEOREM EachLayerIsAReplica ==
    ASSUME InOrder, Eps = 0
    PROVE  LayerSpec => ImplementsReplica
<1>1. LayerInit => \A l \in DOMAIN applied : Replica(l)!Init
  BY TypesInit, ReplicaInit DEF Types
<1>2. ServerInv /\ ServerInv' /\ FrameNewest /\ ClockAgrees /\ ClockAgrees'
        /\ [LayerNext]_layerVars => ReplicasStep
  <2> SUFFICES ASSUME ServerInv, ServerInv', FrameNewest, ClockAgrees, ClockAgrees',
                      [LayerNext]_layerVars
               PROVE  ReplicasStep
    OBVIOUS
  <2>1. DOMAIN applied = Layers
    BY DEF ServerInv, Types
  <2>2. \A l \in Layers : [Replica(l)!Next]_(Replica(l)!vars)
    BY ReplicaStepIs DEF ServerInv
  <2> QED
    BY <2>1, <2>2 DEF ReplicasStep
<1>3. LayerSpec => [][UNCHANGED replicaVars \/ ReplicasStep]_layerVars
  BY <1>2, ServerInvariant, ClockInvariant, PTL DEF LayerSpec
<1> QED
  BY <1>1, <1>3, PTL DEF LayerSpec, ImplementsReplica

-----------------------------------------------------------------------------
(* A calm heals.  When the pass has done a layer, what it has said of the  *)
(* layer is not older than the resync period, nor, if there is news, than  *)
(* the interval.                                                           *)

Done(l) == published = tick /\ (pass.step = "idle" \/ pass.layer > l)
Within(l, n) == IF Done(l) THEN tick < LastSent(l) + n
                ELSE calm = 0 \/ tick <= LastSent(l) + n

(* An incremental delta would have something to say.                       *)
Differ(old, new) ==
    \/ DOMAIN old # DOMAIN new
    \/ \E e \in DOMAIN old \cap DOMAIN new : Changed(old[e], new[e])

(* The world has not changed since the calm began.                         *)
Steady ==
    /\ calm \in 0..(tick - 1)
    /\ \A t \in (tick - calm)..tick : past[t] = past[tick]

(* Nothing of an earlier tick is in flight.                                *)
Prompted ==
    /\ full => tick = 1
    /\ \A d \in deltas : d.tick = tick

Punctual ==
    \A l \in Layers : World(l) # Empty =>
        /\ Within(l, Resync[l])
        /\ Differ(On(l, past[LastSent(l)]), World(l)) => Within(l, Gap(l))

(* The client holds the world, or a resync that will give it is in flight, *)
(* or the newest send, lost perhaps, is not later than a gap of the calm.  *)
Good(l) == applied[l] # 0 /\ On(l, past[applied[l]]) = World(l)
Coming(l) == \E d \in deltas : d.layer = l /\ d.resync
Early(l) == LastSent(l) < tick - calm + Gap(l)
Healing == \A l \in Layers : World(l) # Empty => Good(l) \/ Coming(l) \/ Early(l)

LEMMA PeriodTypes ==
    ASSUME NEW l \in Layers
    PROVE  Gap(l) \in Nat \ {0} /\ Resync[l] \in Nat \ {0} /\ Interval[l] \in Nat \ {0}
BY LayerAssumption DEF Gap

(* A layer has no more entities than a delta may carry.                    *)
LEMMA FitsADelta ==
    ASSUME PerLayer <= MaxDelta, NEW l, NEW c \in Contents,
           NEW S \in SUBSET DOMAIN On(l, c)
    PROVE  ~(Cardinality(S) > MaxDelta)
<1>1. S \subseteq {x \in Entities : x[1] = l}
  <2>1. DOMAIN On(l, c) = {x \in DOMAIN c : x[1] = l}
    BY OnIsContent
  <2>2. DOMAIN c \subseteq Entities
    BY ContentFacts
  <2> QED
    BY <2>1, <2>2
<1> DEFINE f == [e \in S |-> e[2]]
<1>2. f \in [S -> 1..PerLayer] /\ \A e \in S : f[e] = e[2] /\ e = <<l, e[2]>>
  BY <1>1 DEF Entities
<1> HIDE DEF f
<1>3. \A a, b \in S : f[a] = f[b] => a = b
  BY <1>2
<1>4. f \in Injection(S, 1..PerLayer)
  BY <1>2, <1>3 DEF Injection, IsInjective
<1>5. PerLayer \in Nat /\ MaxDelta \in Nat
  BY LayerAssumption
<1>6. IsFiniteSet(1..PerLayer) /\ Cardinality(1..PerLayer) = PerLayer
  BY <1>5, FS_Interval
<1>7. IsFiniteSet(S) /\ Cardinality(S) <= PerLayer
  BY <1>4, <1>6, FS_Injection
<1>8. Cardinality(S) \in Nat
  BY <1>7, FS_CardinalityType
<1> QED
  BY <1>5, <1>7, <1>8

LEMMA NotEmpty ==
    ASSUME NEW l, World(l) # Empty
    PROVE  DOMAIN World(l) # {}
BY DEF World, On, Empty

(* The delta that the pass considers.                                      *)
LEMMA Considers ==
    ASSUME Types, BasesTrue, PassCurrent, PerLayer <= MaxDelta, pass.step = "send",
           NEW resync \in BOOLEAN, World(pass.layer) # Empty
    PROVE  LET l == pass.layer
               s == LastSent(l)
           IN  /\ l \in Layers /\ pass.anchor.tick = s /\ s \in 1..tick
               /\ Sendable(Delta(l, resync, pass.anchor))
                     <=> s < tick /\ (resync \/ Differ(On(l, past[s]), World(l)))
<1> DEFINE l == pass.layer
           s == LastSent(l)
           d == Delta(l, resync, pass.anchor)
           new == World(l)
           old == IF resync THEN Empty ELSE On(l, past[s])
           up == {x \in DOMAIN new \cap DOMAIN old : Changed(old[x], new[x])}
<1>1. l \in Layers /\ pass.anchor.tick = s /\ pass.anchor.content = On(l, past[s]) /\ s \in 1..tick
  BY NumberTypes, LastSentNat DEF PassCurrent, BasesTrue, Truthful
<1>2. past[tick] \in Contents /\ new = On(l, past[tick])
  BY DEF Types, World
<1>3. DOMAIN new # {}
  BY NotEmpty
<1>4. /\ d.base = s /\ d.tick = tick /\ d.destroyed = DOMAIN old \ DOMAIN new
      /\ DOMAIN d.created = DOMAIN new \ DOMAIN old /\ DOMAIN d.updated = up
  BY <1>1 DEF Delta
<1>5. ~Withheld(d)
  <2>1. DOMAIN d.created \in SUBSET DOMAIN On(l, past[tick])
        /\ DOMAIN d.updated \in SUBSET DOMAIN On(l, past[tick])
    BY <1>2, <1>4
  <2> HIDE DEF l, d, new, old
  <2>2. /\ ~(Cardinality(DOMAIN d.created) > MaxDelta)
        /\ ~(Cardinality(DOMAIN d.updated) > MaxDelta)
    BY <1>2, <2>1, FitsADelta
  <2> QED
    BY <2>2 DEF Withheld
<1> DEFINE says == DOMAIN d.created # {} \/ DOMAIN d.updated # {} \/ d.destroyed # {}
<1>6. says <=> resync \/ Differ(On(l, past[s]), new)
  <2>1. CASE resync
    <3>1. DOMAIN old = {}
      BY <2>1, EmptyIsContent
    <3> QED
      BY <1>3, <1>4, <2>1, <3>1
  <2>2. CASE ~resync
    <3>1. old = On(l, past[s])
      BY <2>2
    <3> HIDE DEF d, old, new, s, l
    <3>2. says <=> (DOMAIN old # DOMAIN new \/ up # {})
      BY <1>4
    <3> QED
      BY <2>2, <3>1, <3>2 DEF Differ
  <2> QED
    BY <2>1, <2>2
<1>7. Sendable(d) <=> s < tick /\ says
  BY <1>4, <1>5 DEF Sendable
<1> HIDE DEF d, old, new, says
<1> QED
  BY <1>1, <1>6, <1>7 DEF d, new

(* What the pass does not say again it has said a short while ago, and     *)
(* what it says is either everything or the news.                          *)
LEMMA SaysInTime ==
    ASSUME Types, RingsFit, BasesTrue, RingOrdered, PassCurrent, PerLayer <= MaxDelta,
           SendLayer, NEW l, l = pass.layer, World(l) # Empty
    PROVE  \/ /\ LastSent(l)' = LastSent(l)
              /\ tick < LastSent(l) + Resync[l]
              /\ Differ(On(l, past[LastSent(l)]), World(l)) => tick < LastSent(l) + Gap(l)
           \/ /\ LastSent(l)' = tick
              /\ Coming(l)' \/ Differ(On(l, past[LastSent(l)]), World(l))
<1> DEFINE s == LastSent(l)
           req == NeedsResync(l, tick - s, requested[l] \/ pass.shield)
           d == Delta(l, req, pass.anchor)
           news == Differ(On(l, past[s]), World(l))
           due == tick - s >= Interval[l] \/ req \/ Interval[l] = OnChange
<1>1. l \in Layers /\ pass.step = "send" /\ pass.anchor.tick = s /\ s \in 1..tick /\ tick \in Nat
  BY Considers, NumberTypes DEF SendLayer
<1>2. Resync[l] \in Nat \ {0} /\ Interval[l] \in Nat \ {0} /\ Gap(l) \in Nat \ {0}
  BY <1>1, PeriodTypes
<1>3. requested[l] \in BOOLEAN /\ pass.shield \in BOOLEAN /\ req \in BOOLEAN
  BY <1>1 DEF Types, NeedsResync
<1>4. tick - s >= Resync[l] => req
  BY DEF NeedsResync
<1>5. Sendable(d) <=> s < tick /\ (req \/ news)
  BY <1>1, <1>3, Considers
<1>6. IF due /\ Sendable(d)
      THEN /\ deltas' = deltas \cup {d}
           /\ ring' = [ring EXCEPT ![l] = Queue(@, [tick |-> tick, content |-> World(l)])]
      ELSE UNCHANGED <<deltas, ring>>
  BY <1>1 DEF SendLayer
<1>7. d.layer = l /\ d.resync = req /\ confirmed' = confirmed
  BY DEF Delta, SendLayer
<1> HIDE DEF req, d, news
<1>8. CASE due /\ Sendable(d)
  <2>1. ring[l] \in Seq(Bases) /\ Len(ring[l]) <= RingCap /\ ring \in [Layers -> Seq(Bases)]
    BY <1>1, RingType DEF Types, RingsFit
  <2>2. [tick |-> tick, content |-> World(l)] \in Bases
    BY <1>1, SendIs
  <2> DEFINE b == [tick |-> tick, content |-> World(l)]
             q == ring'[l]
  <2>3. q = Queue(ring[l], b)
    BY <1>1, <1>6, <1>8, <2>1
  <2>4. b.tick = tick
    OBVIOUS
  <2> HIDE DEF b, q
  <2>5. q \in Seq(Bases) /\ Len(q) \in 1..RingCap /\ q[Len(q)] = b
    BY <2>1, <2>2, <2>3, QueueType DEF b
  <2>6. LastSent(l)' = tick
    BY <2>4, <2>5 DEF LastSent, q
  <2>7. Coming(l)' \/ news
    BY <1>5, <1>6, <1>7, <1>8 DEF Coming
  <2> QED
    BY <2>6, <2>7 DEF news
<1>9. CASE ~(due /\ Sendable(d))
  <2>1. LastSent(l)' = s
    BY <1>6, <1>7, <1>9 DEF LastSent
  <2>2. tick < s + Resync[l]
    BY <1>1, <1>2, <1>4, <1>5, <1>9
  <2>3. ASSUME news PROVE tick < s + Gap(l)
    <3>1. s < tick => ~due
      BY <1>5, <1>9, <2>3
    <3>2. Interval[l] # OnChange => Gap(l) = Interval[l]
      BY DEF Gap
    <3> HIDE DEF s
    <3>3. CASE s < tick
      BY <1>1, <1>2, <3>1, <3>2, <3>3
    <3>4. CASE ~(s < tick)
      BY <1>1, <1>2, <3>4
    <3> QED
      BY <3>3, <3>4
  <2> QED
    BY <2>1, <2>2, <2>3 DEF news
<1> QED
  BY <1>8, <1>9

(* What the other steps leave alone.                                       *)
LEMMA LastKept ==
    ASSUME Types, RingsFit, BasesTrue, Trailing, RingOrdered, PassCurrent,
           [LayerNext]_layerVars, NEW l \in Layers, ~SendLayer \/ l # pass.layer
    PROVE  LastSent(l)' = LastSent(l)
<1>1. CASE SendLayer
  BY <1>1, SendMovesLast
<1>2. CASE TakeConfirmed
  BY <1>2, TakeKeepsLast
<1>3. CASE ~SendLayer /\ ~TakeConfirmed
  BY <1>3, OthersKeepLast DEF LastSent
<1> QED
  BY <1>1, <1>2, <1>3

LEMMA TimeKept ==
    ASSUME [LayerNext]_layerVars, ~Simulate
    PROVE  /\ UNCHANGED <<tick, past>>
           /\ calm' = calm \/ calm' = 0
           /\ calm' = calm \/ LoseState \/ LoseSignal
BY DEF LayerNext, StartPass, ReadRow, ReadRing, SendLayer, ReceiveAsk, ReceiveReport,
       TakeConfirmed, MirrorRow, ReceiveFull, DropStale, RejectDelta, ApplyDelta, SendReport,
       LoseState, LoseSignal, simVars, layerVars

LEMMA DoneKept ==
    ASSUME Types, [LayerNext]_layerVars, ~Simulate, NEW l \in Layers,
           ~SendLayer \/ l # pass.layer
    PROVE  Done(l)' <=> Done(l)
<1>1. tick' = tick /\ l \in 1..NLayers /\ NLayers \in Nat /\ pass.layer \in 1..NLayers
      /\ pass \in Passes
  BY TimeKept, ConstantFacts DEF Types, Layers, Passes
<1>2. CASE SendLayer
  <2>1. published' = published /\ pass' = NextLayer(pass.layer) /\ pass.step = "send" /\ l # pass.layer
    BY <1>2 DEF SendLayer
  <2>2. CASE pass.layer = NLayers
    <3>1. pass'.step = "idle" /\ pass.layer > l
      BY <1>1, <2>1, <2>2 DEF NextLayer, Idle
    <3> QED
      BY <1>1, <2>1, <3>1 DEF Done
  <2>3. CASE pass.layer # NLayers
    <3>1. pass'.step = "row" /\ pass'.layer = pass.layer + 1
      BY <2>1, <2>3 DEF NextLayer, Idle
    <3>2. pass.layer + 1 > l <=> pass.layer > l
      BY <1>1, <2>1
    <3> QED
      BY <1>1, <2>1, <3>1, <3>2 DEF Done
  <2> QED
    BY <2>2, <2>3
<1>3. CASE StartPass
  <2>1. published # tick /\ pass'.step = "row" /\ pass'.layer = 1
    BY <1>3 DEF StartPass, Idle
  <2> QED
    BY <1>1, <2>1 DEF Done
<1>4. CASE ReadRow \/ ReadRing
  <2>1. /\ pass.step # "idle" /\ pass'.step # "idle" /\ pass'.layer = pass.layer
        /\ published' = published
    BY <1>1, <1>4 DEF ReadRow, ReadRing, Passes
  <2> QED
    BY <1>1, <2>1 DEF Done
<1>5. CASE ~(SendLayer \/ StartPass \/ ReadRow \/ ReadRing)
  <2>1. UNCHANGED <<pass, published>>
    BY <1>5 DEF LayerNext, ReceiveAsk, ReceiveReport,
       TakeConfirmed, MirrorRow, ReceiveFull, DropStale, RejectDelta, ApplyDelta, SendReport,
       LoseState, LoseSignal, serverVars, layerVars
  <2> QED
    BY <1>1, <2>1 DEF Done
<1> QED
  BY <1>2, <1>3, <1>4, <1>5

(* A tick of a calm leaves the worlds it compares.                         *)
LEMMA TickIs ==
    ASSUME Prompt, Types, BasesTrue, Steady, Simulate
    PROVE  /\ tick' = tick + 1 /\ deltas = {} /\ deltas' = {} /\ ~full /\ ~full'
           /\ applied' = applied
           /\ \A l \in Layers : Done(l) /\ ~Done(l)' /\ LastSent(l)' = LastSent(l)
           /\ \A t \in 1..tick : past'[t] = past[t]
           /\ \/ calm' = 0
              \/ calm' = calm + 1 /\ past'[tick + 1] = past[tick]
<1>1. /\ tick' = tick + 1 /\ tick < MaxTick /\ pass.step = "idle" /\ CaughtUp
      /\ UNCHANGED <<serverVars, network, clientVars>>
  BY DEF Simulate
<1>2. /\ published = tick /\ deltas = {} /\ ~full
      /\ UNCHANGED <<published, ring, confirmed, deltas, full, applied>>
  BY <1>1 DEF CaughtUp, serverVars, baseVars, network, stream, clientVars
<1>3. PICK w \in Contents : /\ past' = [past EXCEPT ![tick + 1] = w]
                            /\ calm' = IF w = past[tick] /\ calm < CalmCap THEN calm + 1 ELSE 0
  BY DEF Simulate
<1>4. tick \in 1..MaxTick /\ past \in [Ticks -> Contents] /\ Ticks = 1..MaxTick /\ MaxTick \in Nat
  BY ConstantFacts DEF Types, Ticks
<1>5. past'[tick + 1] = w /\ \A t \in 1..tick : past'[t] = past[t]
  BY <1>1, <1>3, <1>4
<1>6. \A l \in Layers : Done(l) /\ ~Done(l)' /\ LastSent(l)' = LastSent(l)
  <2>1. published' # tick'
    BY <1>1, <1>2, <1>4
  <2> QED
    BY <1>1, <1>2, <2>1 DEF Done, LastSent
<1> QED
  BY <1>1, <1>2, <1>3, <1>5, <1>6

LEMMA SteadyStep ==
    ASSUME Prompt, Types, BasesTrue, Steady, [LayerNext]_layerVars
    PROVE  Steady'
<1>1. tick \in Nat \ {0} /\ calm \in Nat /\ calm <= tick - 1
  BY NumberTypes DEF Steady
<1>2. CASE ~Simulate
  <2>1. UNCHANGED <<tick, past>> /\ calm' \in 0..calm
    BY <1>1, <1>2, TimeKept
  <2>2. \A t \in (tick - calm')..tick : t \in (tick - calm)..tick
    <3>1. calm' \in Nat /\ calm' <= calm
      BY <1>1, <2>1
    <3>2. \A t, c, b \in Nat : b <= c => \A x \in (t - b)..t : x \in (t - c)..t
      OBVIOUS
    <3> QED
      BY <1>1, <3>1, <3>2
  <2>3. calm' \in 0..(tick - 1)
    BY <1>1, <2>1
  <2> QED
    BY <2>1, <2>2, <2>3 DEF Steady
<1>3. CASE Simulate
  <2>1. /\ tick' = tick + 1 /\ \A t \in 1..tick : past'[t] = past[t]
        /\ calm' = 0 \/ (calm' = calm + 1 /\ past'[tick + 1] = past[tick])
    BY <1>3, TickIs
  <2>2. CASE calm' = 0
    <3>1. \A t \in (tick' - 0)..tick' : t = tick'
      BY <1>1, <2>1
    <3> QED
      BY <1>1, <2>1, <2>2, <3>1 DEF Steady
  <2>3. CASE calm' = calm + 1 /\ past'[tick + 1] = past[tick]
    <3>1. calm' \in 0..(tick' - 1)
      BY <1>1, <2>1, <2>3
    <3>2. ASSUME NEW t \in (tick' - calm')..tick' PROVE past'[t] = past'[tick']
      <4>1. t = tick + 1 \/ (t \in (tick - calm)..tick /\ t \in 1..tick)
        BY <1>1, <2>1, <2>3
      <4> QED
        BY <2>1, <2>3, <4>1 DEF Steady
    <3> QED
      BY <3>1, <3>2 DEF Steady
  <2> QED
    BY <2>1, <2>2, <2>3
<1> QED
  BY <1>2, <1>3

LEMMA PromptedStep ==
    ASSUME Prompt, Types, RingsFit, BasesTrue, RingOrdered, PassCurrent, Steady, Prompted,
           [LayerNext]_layerVars
    PROVE  Prompted'
<1>1. CASE Simulate
  BY <1>1, TickIs DEF Prompted
<1>2. CASE SendLayer
  <2>1. tick' = tick /\ full' = full /\ pass.layer \in Layers
    BY <1>2, NumberTypes DEF SendLayer, simVars
  <2>2. \A d \in deltas' : d \in deltas \/ d.tick = tick
    BY <1>2, <2>1, SendMovesLast
  <2> QED
    BY <2>1, <2>2 DEF Prompted
<1>3. CASE ~Simulate /\ ~SendLayer
  <2>1. tick' = tick /\ deltas' \subseteq deltas
    BY <1>3, TimeKept, OnlySendAdds
  <2>2. full' => full
    BY <1>3 DEF LayerNext, StartPass, ReadRow, ReadRing, ReceiveAsk, ReceiveReport,
       TakeConfirmed, MirrorRow, ReceiveFull, DropStale, RejectDelta, ApplyDelta, SendReport,
       LoseState, LoseSignal, network, stream, layerVars
  <2> QED
    BY <2>1, <2>2 DEF Prompted
<1> QED
  BY <1>1, <1>2, <1>3

(* In a calm the world is that of the last tick, and no send is late.      *)
LEMMA WorldKept ==
    ASSUME Types, BasesTrue, NEW l \in Layers, UNCHANGED <<tick, past>>, LastSent(l)' = LastSent(l)
    PROVE  /\ World(l)' = World(l)
           /\ Differ(On(l, past[LastSent(l)]), World(l))' <=> Differ(On(l, past[LastSent(l)]), World(l))
BY DEF World, Differ, On, Changed

LEMMA PunctualStep ==
    ASSUME Prompt, PerLayer <= MaxDelta, Types, RingsFit, BasesTrue, Trailing, RingOrdered,
           PassCurrent, Steady, Punctual, [LayerNext]_layerVars
    PROVE  Punctual'
<1> SUFFICES ASSUME NEW l \in Layers, World(l)' # Empty
             PROVE  /\ Within(l, Resync[l])'
                    /\ Differ(On(l, past[LastSent(l)]), World(l))' => Within(l, Gap(l))'
  BY DEF Punctual, Gap
<1>1. /\ tick \in Nat \ {0} /\ calm \in Nat /\ LastSent(l) \in 1..tick
      /\ Resync[l] \in Nat \ {0} /\ Gap(l) \in Nat \ {0} /\ Gap(l)' = Gap(l)
  BY NumberTypes, LastSentNat, PeriodTypes DEF Steady, Gap
<1>2. CASE Simulate
  <2>1. /\ tick' = tick + 1 /\ Done(l) /\ ~Done(l)' /\ LastSent(l)' = LastSent(l)
        /\ \A t \in 1..tick : past'[t] = past[t]
        /\ calm' = 0 \/ past'[tick + 1] = past[tick]
    BY <1>2, TickIs
  <2>2. CASE calm' = 0
    BY <2>1, <2>2 DEF Within
  <2>3. CASE past'[tick + 1] = past[tick]
    <3>1. World(l)' = World(l) /\ past'[LastSent(l)] = past[LastSent(l)]
      BY <1>1, <2>1, <2>3 DEF World, On
    <3>2. Differ(On(l, past[LastSent(l)]), World(l))' <=> Differ(On(l, past[LastSent(l)]), World(l))
      BY <2>1, <3>1 DEF Differ, Changed, On
    <3>3. tick < LastSent(l) + Resync[l]
      BY <2>1, <3>1 DEF Punctual, Within
    <3>4. Differ(On(l, past[LastSent(l)]), World(l)) => tick < LastSent(l) + Gap(l)
      BY <2>1, <3>1 DEF Punctual, Within
    <3>5. \A n \in Nat : tick < LastSent(l) + n => tick + 1 <= LastSent(l) + n
      BY <1>1
    <3>6. Within(l, Resync[l])'
      BY <1>1, <2>1, <3>3, <3>5 DEF Within
    <3>7. Differ(On(l, past[LastSent(l)]), World(l)) => Within(l, Gap(l))'
      BY <1>1, <2>1, <3>4, <3>5 DEF Within
    <3> QED
      BY <3>2, <3>6, <3>7
  <2> QED
    BY <2>1, <2>2, <2>3
<1>3. CASE SendLayer /\ l = pass.layer
  <2>1. UNCHANGED <<tick, past>> /\ World(l)' = World(l)
    BY <1>3 DEF SendLayer, simVars, World, On
  <2>2. CASE LastSent(l)' = tick
    <3>1. \A n \in Nat \ {0} : tick < tick + n /\ tick <= tick + n
      BY <1>1
    <3> QED
      BY <1>1, <2>1, <2>2, <3>1 DEF Within
  <2>3. CASE /\ LastSent(l)' = LastSent(l)
             /\ tick < LastSent(l) + Resync[l]
             /\ Differ(On(l, past[LastSent(l)]), World(l)) => tick < LastSent(l) + Gap(l)
    <3>1. \A n \in Nat : tick < LastSent(l) + n => tick <= LastSent(l) + n
      BY <1>1
    <3>2. Within(l, Resync[l])'
      BY <1>1, <2>1, <2>3, <3>1 DEF Within
    <3>3. Differ(On(l, past[LastSent(l)]), World(l)) => Within(l, Gap(l))'
      BY <1>1, <2>1, <2>3, <3>1 DEF Within
    <3> QED
      BY <2>1, <2>3, <3>2, <3>3, WorldKept
  <2> QED
    BY <1>3, <2>1, <2>2, <2>3, SaysInTime
<1>4. CASE ~Simulate /\ (~SendLayer \/ l # pass.layer)
  <2>1. /\ UNCHANGED <<tick, past>> /\ LastSent(l)' = LastSent(l) /\ (Done(l)' <=> Done(l))
        /\ calm' = calm \/ calm' = 0
    BY <1>4, TimeKept, LastKept, DoneKept
  <2>2. /\ World(l)' = World(l)
        /\ Differ(On(l, past[LastSent(l)]), World(l))' <=> Differ(On(l, past[LastSent(l)]), World(l))
    BY <2>1, WorldKept
  <2>3. Within(l, Resync[l]) => Within(l, Resync[l])'
    BY <2>1 DEF Within
  <2>4. Within(l, Gap(l)) => Within(l, Gap(l))'
    BY <1>1, <2>1 DEF Within
  <2> QED
    BY <2>2, <2>3, <2>4 DEF Punctual
<1> QED
  BY <1>2, <1>3, <1>4

LEMMA HealingStep ==
    ASSUME Prompt, PerLayer <= MaxDelta, Types, RingsFit, BasesTrue, DeltasExact, Trailing,
           RingOrdered, PassCurrent, Steady, Prompted, Punctual, Healing, [LayerNext]_layerVars,
           RingOrdered'
    PROVE  Healing'
<1> SUFFICES ASSUME NEW l \in Layers, World(l)' # Empty
             PROVE  Good(l)' \/ Coming(l)' \/ Early(l)'
  BY DEF Healing
<1>1. /\ tick \in Nat \ {0} /\ calm \in 0..(tick - 1) /\ LastSent(l) \in 1..tick
      /\ applied[l] \in 0..tick /\ applied \in [Layers -> Nat]
      /\ Resync[l] \in Nat \ {0} /\ Gap(l) \in Nat \ {0} /\ Gap(l)' = Gap(l)
  <2>1. applied[l] <= LastSent(l) /\ LastSent(l) <= tick
    BY DEF RingOrdered
  <2>2. applied \in [Layers -> Nat]
    BY DEF Types
  <2> QED
    BY <2>1, <2>2, NumberTypes, LastSentNat, PeriodTypes DEF Steady, Gap
<1>2. CASE Simulate
  <2>1. /\ tick' = tick + 1 /\ deltas = {} /\ LastSent(l)' = LastSent(l) /\ applied' = applied
        /\ \A t \in 1..tick : past'[t] = past[t]
        /\ calm' = 0 \/ (calm' = calm + 1 /\ past'[tick + 1] = past[tick])
    BY <1>2, TickIs
  <2>2. CASE calm' = 0
    <3>1. LastSent(l) < tick + 1 - 0 + Gap(l)
      BY <1>1
    <3> QED
      BY <1>1, <2>1, <2>2, <3>1 DEF Early
  <2>3. CASE calm' = calm + 1 /\ past'[tick + 1] = past[tick]
    <3>1. World(l)' = World(l)
      BY <2>1, <2>3 DEF World, On
    <3>2. Good(l) => Good(l)'
      <4>1. applied[l] # 0 => past'[applied[l]] = past[applied[l]]
        BY <1>1, <2>1
      <4> QED
        BY <2>1, <3>1, <4>1 DEF Good, On
    <3>3. Early(l) => Early(l)'
      <4>1. tick + 1 - (calm + 1) = tick - calm
        BY <1>1
      <4> QED
        BY <1>1, <2>1, <2>3, <4>1 DEF Early
    <3> QED
      BY <2>1, <3>1, <3>2, <3>3 DEF Healing, Coming
  <2> QED
    BY <2>1, <2>2, <2>3
<1>3. CASE SendLayer /\ l = pass.layer
  <2>1. /\ UNCHANGED <<tick, past, applied, calm>> /\ World(l)' = World(l)
        /\ Good(l) => Good(l)'
    BY <1>3 DEF SendLayer, simVars, clientVars, World, On, Good
  <2>2. Coming(l) => Coming(l)'
    BY <1>3 DEF SendLayer, Coming
  <2>3. CASE LastSent(l)' = LastSent(l)
    <3>1. Early(l) => Early(l)'
      BY <1>1, <2>1, <2>3 DEF Early
    <3> QED
      BY <2>1, <2>2, <3>1 DEF Healing
  <2>4. CASE Differ(On(l, past[LastSent(l)]), World(l)) /\ LastSent(l)' = tick
    <3>1. past[LastSent(l)] # past[tick]
      <4>1. ~Differ(World(l), World(l))
        <5>1. past[tick] \in Contents
          BY DEF Types
        <5>2. World(l) \in Contents
          BY <5>1, OnIsContent DEF World
        <5>3. \A e \in DOMAIN World(l) : World(l)[e] \in 0..MaxVal /\ World(l)[e] \in Int
          BY <5>2, ContentFacts
        <5>4. MaxVal \in Nat /\ Eps \in Nat
          BY LayerAssumption
        <5> QED
          BY <5>3, <5>4 DEF Differ, Changed
      <4> QED
        BY <2>4, <4>1 DEF World
    <3>2. LastSent(l) < tick - calm
      <4>1. LastSent(l) \notin (tick - calm)..tick
        BY <3>1 DEF Steady
      <4> QED
        BY <1>1, <4>1
    <3>3. ~Done(l)
      <4>1. pass.step = "send" /\ pass.layer = l /\ l \in Nat
        BY <1>3 DEF SendLayer, Layers
      <4> QED
        BY <4>1 DEF Done
    <3>4. calm = 0 \/ tick <= LastSent(l) + Gap(l)
      BY <2>1, <2>4, <3>3 DEF Punctual, Within
    <3>5. tick < tick - calm + Gap(l)
      BY <1>1, <3>2, <3>4
    <3> QED
      BY <1>1, <2>1, <2>4, <3>5 DEF Early
  <2> QED
    BY <1>3, <2>1, <2>3, <2>4, SaysInTime
<1>4. CASE ~Simulate /\ (~SendLayer \/ l # pass.layer)
  <2>1. /\ UNCHANGED <<tick, past>> /\ LastSent(l)' = LastSent(l)
        /\ calm' = calm \/ calm' = 0
        /\ calm' = calm \/ LoseState \/ LoseSignal
    BY <1>4, TimeKept, LastKept
  <2>2. World(l)' = World(l)
    BY <2>1 DEF World, On
  <2>3. CASE calm' = 0
    <3>1. LastSent(l) < tick - 0 + Gap(l)
      BY <1>1
    <3> QED
      BY <1>1, <2>1, <2>3, <3>1 DEF Early
  <2>4. CASE calm' = calm
    <3>1. Early(l) => Early(l)'
      BY <1>1, <2>1, <2>4 DEF Early
    <3>2. applied'[l] = tick => Good(l)'
      BY <1>1, <2>1 DEF Good, World
    <3>3. Good(l) => Good(l)'
      <4>1. CASE applied'[l] = applied[l]
        BY <2>1, <2>2, <4>1 DEF Good, On
      <4>2. CASE ReceiveFull
        <5>1. full /\ tick = 1
          BY <4>2 DEF ReceiveFull, Prompted
        <5>2. applied'[l] = applied[l] \/ applied'[l] = tick
          BY <4>2, <5>1, FullIs
        <5> QED
          BY <3>2, <4>1, <5>2
      <4>3. ASSUME NEW d \in deltas, ApplyDelta(d) PROVE Good(l) => Good(l)'
        <5>1. applied' = [applied EXCEPT ![d.layer] = d.tick] /\ d.tick = tick
          BY <4>3 DEF ApplyDelta, Prompted
        <5>2. applied'[l] = applied[l] \/ applied'[l] = tick
          BY <1>1, <5>1
        <5> QED
          BY <3>2, <4>1, <5>2
      <4> QED
        BY <4>1, <4>2, <4>3, OnlyTheseApply
    <3>4. ASSUME Coming(l) PROVE Coming(l)' \/ Good(l)' \/ Early(l)'
      <4>1. PICK r \in deltas : r.layer = l /\ r.resync
        BY <3>4 DEF Coming
      <4>2. CASE r \in deltas'
        BY <4>1, <4>2 DEF Coming
      <4>3. CASE r \notin deltas'
        <5>1. r.tick = tick /\ r.layer = l
          BY <4>1 DEF Prompted
        <5>2. CASE DropStale(r)
          <6>1. tick <= applied[l] /\ applied' = applied
            BY <5>1, <5>2 DEF DropStale, Stale, clientVars
          <6>2. applied'[l] = tick
            BY <1>1, <6>1
          <6> QED
            BY <3>2, <6>2
        <5>3. CASE ApplyDelta(r)
          <6>1. applied'[l] = tick
            BY <1>1, <5>1, <5>3 DEF ApplyDelta
          <6> QED
            BY <3>2, <6>1
        <5>4. ~RejectDelta(r)
          BY <4>1 DEF RejectDelta, Mismatch
        <5>5. CASE LoseState
          <6>1. calm' = 0
            BY <5>5 DEF LoseState
          <6> QED
            BY <2>3, <6>1
        <5>6. LoseState \/ DropStale(r) \/ ApplyDelta(r)
          <6>1. \A d \in deltas : DropStale(d) \/ RejectDelta(d) \/ ApplyDelta(d) => d = r
            BY <4>3 DEF DropStale, RejectDelta, ApplyDelta, Arrive
          <6>2. LoseState \/ SendLayer \/ \E d \in deltas : DropStale(d) \/ RejectDelta(d) \/ ApplyDelta(d)
            BY <1>4, <4>3 DEF LayerNext, StartPass, ReadRow, ReadRing, ReceiveAsk, ReceiveReport,
               TakeConfirmed, MirrorRow, ReceiveFull, SendReport, LoseSignal, network, stream, layerVars
          <6>3. ~SendLayer
            BY <4>3 DEF SendLayer
          <6> QED
            BY <5>4, <6>1, <6>2, <6>3
        <5> QED
          BY <5>2, <5>3, <5>5, <5>6
      <4> QED
        BY <4>2, <4>3
    <3> QED
      BY <2>2, <3>1, <3>3, <3>4 DEF Healing
  <2> QED
    BY <2>1, <2>3, <2>4
<1> QED
  BY <1>2, <1>3, <1>4

(* When a calm is as long as the resync period and the gap, the newest     *)
(* send cannot be both early and recent, so the client holds the world.    *)
Calmly == Steady /\ Prompted /\ Punctual /\ Healing

LEMMA CalmInvariant ==
    ASSUME Prompt, PerLayer <= MaxDelta
    PROVE  LayerSpec => []Calmly
<1>1. LayerInit => Calmly
  <2> SUFFICES ASSUME LayerInit PROVE Calmly
    OBVIOUS
  <2>1. tick = 1 /\ calm = 0 /\ published = 0 /\ deltas = {}
    BY DEF LayerInit
  <2>2. \A l \in Layers : LastSent(l) = 1 /\ Gap(l) \in Nat \ {0}
    BY NoBaseIsBase, PeriodTypes DEF LayerInit, LastSent
  <2>3. \A t \in (1 - 0)..1 : t = 1
    OBVIOUS
  <2>4. Steady /\ Prompted
    BY <2>1, <2>3 DEF Steady, Prompted
  <2>5. Punctual /\ Healing
    BY <2>1, <2>2 DEF Punctual, Healing, Within, Done, Early
  <2> QED
    BY <2>4, <2>5 DEF Calmly
<1>2. ServerInv /\ ServerInv' /\ Calmly /\ [LayerNext]_layerVars => Calmly'
  <2> SUFFICES ASSUME ServerInv, ServerInv', Calmly, [LayerNext]_layerVars PROVE Calmly'
    OBVIOUS
  <2> USE DEF ServerInv, Calmly
  <2>1. Steady'
    BY SteadyStep
  <2>2. Prompted'
    BY PromptedStep
  <2>3. Punctual'
    BY PunctualStep
  <2>4. Healing'
    BY HealingStep
  <2> QED
    BY <2>1, <2>2, <2>3, <2>4
<1> QED
  BY <1>1, <1>2, ServerInvariant, PTL DEF LayerSpec

LEMMA CalmOutlasts ==
    ASSUME ServerInv, Calmly, NEW l \in Layers, calm >= Resync[l] + Gap(l) - 1,
           pass.step = "idle", CaughtUp, World(l) # Empty
    PROVE  Good(l)
<1>1. /\ tick \in Nat \ {0} /\ calm \in Nat /\ LastSent(l) \in Nat
      /\ Resync[l] \in Nat \ {0} /\ Gap(l) \in Nat \ {0}
  BY NumberTypes, LastSentNat, PeriodTypes DEF Calmly, Steady, ServerInv
<1>2. deltas = {} /\ Done(l)
  BY DEF CaughtUp, Done
<1>3. tick < LastSent(l) + Resync[l]
  BY <1>2 DEF Calmly, Punctual, Within
<1>4. ~(LastSent(l) < tick - calm + Gap(l))
  BY <1>1, <1>3
<1> QED
  BY <1>2, <1>4 DEF Calmly, Healing, Coming, Early

(* A calm that outlasts the resync period heals, whatever was lost before  *)
(* it, when each tick is published and what it sends is delivered or lost  *)
(* in time: each layer that is not empty is in the client's frame and in   *)
(* its map, with the very entities of the world ...                        *)
EntitiesHealed ==
    \A l \in Layers :
        calm >= Resync[l] + Gap(l) - 1 /\ pass.step = "idle" /\ CaughtUp /\ World(l) # Empty
            => /\ DOMAIN On(l, held.content) = DOMAIN World(l)
               /\ DOMAIN On(l, view) = DOMAIN World(l)

LEMMA CalmTells ==
    ASSUME ServerInv, Calmly, ClockAgrees, NEW l \in Layers,
           calm >= Resync[l] + Gap(l) - 1, pass.step = "idle", CaughtUp, World(l) # Empty
    PROVE  Agree(On(l, held.content), World(l)) /\ Agree(On(l, view), World(l))
BY CalmOutlasts DEF Good, ClockAgrees

THEOREM CalmBringsTheEntities ==
    ASSUME Prompt, InOrder, PerLayer <= MaxDelta
    PROVE  LayerSpec => []EntitiesHealed
<1>1. ServerInv /\ Calmly /\ ClockAgrees => EntitiesHealed
  BY CalmTells DEF EntitiesHealed, Agree
<1> QED
  BY <1>1, ServerInvariant, CalmInvariant, ClockInvariant, PTL

(* ... and with its very values, when the compressor withholds no          *)
(* difference.                                                             *)
THEOREM CalmHealsTheClient ==
    ASSUME Prompt, InOrder, Eps = 0, PerLayer <= MaxDelta
    PROVE  LayerSpec => []CalmHeals
<1>1. ServerInv /\ Calmly /\ ClockAgrees => CalmHeals
  BY CalmTells, AgreeIsEqual DEF CalmHeals, World
<1> QED
  BY <1>1, ServerInvariant, CalmInvariant, ClockInvariant, PTL
=============================================================================
