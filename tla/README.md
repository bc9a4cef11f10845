# Verification of RFS

RFS is a naval combat game: an authoritative Rust server (`server_src/crates`),
a Rust render client (`src/src`) and a Go supervisor of server processes
(`ops/orchestrator`). This directory holds TLA+ models of the parts whose
correctness depends on the order of events, the TLC configurations that check
them, and TLAPS proofs. `server.rs`, `client.rs`, `connection.rs`, `channel.rs`,
`snapshot.rs`, `auth.rs` and `fragment.rs` below are those of
`server_src/crates/net/src`; `main.rs`, `match_.rs`, `net.rs` and `votes.rs` are
those of the server, `control/` is its operator's door; `ship.rs`, `station.rs` and
`compartment.rs` are those of `crates/ship/src`, `spatial.rs` is that of
`crates/core/src`, and the two files named `tick.rs`
are told apart as `sim/tick.rs` and `server/tick.rs`.

## 1. The system

### Parts, state, operations

| Part | State | Operations |
|---|---|---|
| Reliable transport (`connection.rs`, `channel.rs`) | numbering, ledger of unacked datagrams, the peer's ack pair; contiguous mark and gap set | register, retransmit pass, ack; track, ack header, heartbeat reply |
| Handshake (`client.rs`, `server.rs`) | connect attempt, pending challenges, token bucket, nonces | Connect, Challenge, Confirm, Accept, Reject, retry, expiry |
| Session tables (`server.rs`, `main.rs`) | `connections`, `connection_by_addr`, `pending_confirms`, `client_layers`, the event queue, the game loop's players | admit, evict, remove, sweep, spawn, despawn, kick |
| Layer replication (`server.rs`, `snapshot.rs`, `client.rs`) | per client and layer: base row, ring of unconfirmed sends, confirmed base, resync flags; the client's frame ring, clocks, entity map | publish pass, report handler, apply, resync request |
| Datagram authentication (`auth.rs`) | counters of both ends, a replay window per peer | number and seal, accept |
| Fragmentation (`fragment.rs`) | groups, newest seen and completed message per type, byte budget | push, assemble, expire, evict |
| Interest (`interest.rs`, `main.rs`) | five spatial indices, layers of entities, per-player visible sets | sync with the simulation, refresh, filter views and events |
| First-full admission (`server.rs`) | queue and set of waiting clients | discover, admit |
| Spatial index (`spatial.rs`) | cells, spilled entities, the cell of each id | insert, remove, clear, query |
| Bandwidth (`bandwidth.rs`) | token bucket, histories | admit, refill |
| Guns (`station.rs`, `net.rs`, `server/tick.rs`) | seat, aim, magazine, reload cycle, cooldown; booked shots | fire, fire at a target, aim, reload, behave, repair; resolve after a tick |
| Water (`compartment.rs`, `ship.rs`) | levels, breaches, seals, pumps, bulkheads | breach, seal, pump, tick |
| Hulls and shells (`sim/tick.rs`) | ship table, sinking flags and timers, pending damage, projectiles | land damage, update, contacts, fly |
| Match, votes (`match_.rs`, `votes.rs`, `net.rs`) | players, tracked ships, one vote | spawn, despawn, commands, ballot |
| Control door (`control/`) | auth gate, orders, journal, ban list | hello, command, watch, stop |
| Supervisor (`ops/orchestrator`) | instance table, process states | start, stop, kill, restart, status |
| Render client, RHI (`src/src`) | frame graph, resources, allocators | record, submit, allocate |

### How they interact

The server runs three long-lived tasks over shared tables, each table under a
lock of its own:

* the **receive task** reads a datagram, passes it through the replay window,
  runs the handshake or the connection's handlers, and emits events to the game
  loop through a bounded queue;
* the **send task** sweeps dead connections, admits first fulls, runs the publish
  pass and the retransmit pass, and sends;
* the **game loop** drains the event queue, spawns and despawns players, applies
  commands, steps the simulation and publishes its snapshot.

No operation holds two table locks, so removal, eviction, the pass and the
report handler are sequences of lock windows that interleave. Client and server
meet only through UDP, which loses, repeats and reorders. On the client a
receive task applies state and a send task reports what was applied.

### What is hard

Two tasks in different windows of a removal or of a confirmation; acks, reports,
Accepts and deltas out of order; a retry racing its answer; a client that dies
and comes back from the same port; bounded rings, gap sets, ledgers, queues and
slots at their limit; numbering shared by kinds of traffic that are tracked
separately. `PROJECT.json` lists every such hazard at its line.

### What makes each part correct

* Transport: an ack describes what arrived, a command runs at most once, every
  ledger entry leaves.
* Handshake: one session per challenge, both ends agree on the session, an honest
  client connects before its timeout and is not refused by its own leftover.
* Tables: a session lives once and is told of before its successor is announced; an
  address maps to its newest session, every end is reported, no player
  outlives its connection, no unreachable connection keeps its slot.
* Replication: a layer's clock names the world the client holds for it; nothing is
  confirmed on a guess; losses heal.
* Interest: an index answers as a map would; a refresh gives each player what the
  simulation calls for; a snapshot comes up to the tick it is stamped with; a player
  sees its own ship; every registered player gets its first full.
* Authentication: no datagram passes twice, nothing fresh is refused, a new
  connection is not shut out by the numbers of the old one.
* Fragmentation: a message comes out at most once and alone, the byte budget
  holds, a sender that goes on is heard across the wrap of its numbers.
* Match: connection table, players map, interest tables and seats agree; nobody is
  thrown out without a reason; an open vote ends.
* Guns: an order to fire brings at most one shell, and one that waits for its turret
  ends; a reload that is acknowledged has loaded something (it never has).
* Water: it comes through breaches, goes through pumps, and is otherwise only moved.
* Hulls: a loss is announced once, the wreck leaves once and on time, whatever still
  hits it.
* Control door: the ban file holds the ban list, a stop is announced and ends the
  server, no command waits for ever.

## 2. Modules

| Module | Models | Proved in |
|---|---|---|
| `CommandDelivery` | contract: a command runs at most once, its sender closes its books once | - |
| `ReliableLink` | one direction of the transport, either way round | `ReliableLinkProofs` |
| `LayerReplica` | contract: a layer shows worlds the server had, and goes forward | - |
| `LayerSync` | replication to one client | `LayerSyncProofs` |
| `SessionDirectory` | contract: a session lives once, its end is told before its successor is announced | - |
| `SessionTable` | the tables and the three tasks | `SessionTableProofs` |
| `Handshake` | opening a session, in real time | `SessionTableProofs` |
| `MCSessions` | instances of `SessionTable` and `Handshake` | - |
| `ReplayWindow` | the window and its verdict | `TransportProofs` |
| `WireSeal` | the numbers of both directions, reconnections, a client that rebinds; extends `ReplayWindow` and implements it | `TransportProofs` |
| `FragmentAssembler` | messages split by one sender, marks and groups of the receiver, two sessions | `TransportProofs` |
| `MCTransport` | `ReliableLink`, `WireSeal` (and with it `ReplayWindow`) and `FragmentAssembler`, and a second instance of the last | - |
| `MCToClient` | instances of `ReliableLink` and `LayerSync` (two) | - |
| `SpatialGrid` | one spatial index | `InterestProofs` |
| `Interest` | game loop, interest manager and publish pass: who is shown what, and when | `InterestProofs` |
| `MCInterest` | instances of the two above | - |
| `MatchLoop`, `MCMatchLoop` | the drain of the event queue, the tick, crews, seats, the vote | `MatchLoopProofs` |
| `ControlDoor`, `MCControlDoor` | the tasks of the operator's door, the ban list and its file, the stop | `ControlDoorProofs` |
| `Gunnery` | the guns of a ship and the booked shots | `ShipProofs` |
| `Flooding` | the water of a ship | `ShipProofs` |
| `Battle` | the tick of the simulation: hulls, damage, shells | `ShipProofs` |
| `MCShip` | an instance of each of the three above | - |

The modules meet at their borders: what `ReliableLink` executes is a command of
`MatchLoop`; what `SessionTable` reports are the events `MatchLoop` drains, and
its admission is the one `Handshake` asks for; a large packet of `LayerSync`
travels as the fragments of `FragmentAssembler`, and every datagram passes
`WireSeal` first; a kick or ban of `ControlDoor` ends in the disconnect that
`MatchLoop` and `SessionTable` have as an action. A command of `MatchLoop` is an
action of `Gunnery` or `Flooding`; a shell that `Gunnery` counts flies in `Battle`,
whose damage breaches a compartment of `Flooding` and takes down a gun; the hull
`Battle` removes is the ship `Gunnery` and `MatchLoop` lose. `Interest` filters the
world before `LayerSync` replicates it, keeps its five indices in what `SpatialGrid`
models, follows the crews of `MatchLoop`, and inserts the row that `SessionTable` may
have to remove.

### ReliableLink
`ToServer` selects the direction: commands towards the server, or their acks
towards the client; the ends run the same code but for the heartbeat reply. A
datagram is its number and stays in flight until lost, so late, reordered and
repeated arrivals are all there. `fate` is the ledger with its past: an entry is
pending, then acked, given up or evicted. The mark's advance is written as the
end of the contiguous run, not as the loop, and the retransmit pass takes any
set of due entries because the model has no clock.

### LayerSync
One simulation thread, one publish pass and one report handler, in the lock
windows of the code: the pass reads the row, then ring and confirmed base, then
sends and queues; the handler takes the proof out of the ring, then mirrors it
into the row. Rows and rings are per client, so one client is the whole
structure. An entity's state is one small number. `Ordered` and `Prompt` limit
the network and the pace; section 5 says what happens without them.

### SessionTable
`ops[t]` is the lock window task `t` is in front of. `remove_connection` is the
same five steps for the sweep, a Disconnect, a kick and the game loop's own
timeout check; `claim_addr_and_evict_replaced_session` is five others. Events go
through the bounded queue. `SessionDirectory` is the same without tasks and windows:
one life per session, one owner per address, and what is told before what.

### Handshake
A clock ticks only when nothing is overdue, so a datagram arrives within `max`
ticks, the connect loop wakes on time, and the bucket refills one unit a tick.
The ledger sends the Accept again until an ack retires it (`acked`) or the retries are
spent. What acks it is whatever a client sends that has tracked an Accept: the client's
Connection outlives its sessions (`marked`), and the first Accept of a process is not
tracked, for there is no Connection yet. The server looks at the session such a datagram
echoes, except for the kinds that carry none (`asks`). `acks` holds the echoes that may
still arrive, at any time or never. `Settings` is the set of networks and loads a behaviour may have; `Init` picks
one.

### ReplayWindow, WireSeal
The 64-bit mask is the set of its bits, `b` standing for `highest - b`. WireSeal
is written over the window: `ReplayWindow`'s `window` is the server's, and beside it
are the client's, the counters that feed the two and the processes that use the
address in turn. The tag itself is assumed to do its work.

### FragmentAssembler
One counter numbers the messages of all types; a receiver keeps, per type, the
newest number seen and the newest completed. A chunk is one unit of bytes and
carries its message, so that a mixture of two messages can be seen. The network
repeats and reorders fragments but none outlives `MaxLag` further messages.
`buffered` is kept as the code keeps it, by what each call adds and drops; that it is
what the groups hold is a property. `spent` and `since` are histories that say how far the sender is ahead of a mark.

### MatchLoop
A player is known in four places: `connections`, `players`, the interest manager
(`grid`, `viewers`) and `seat`. `Drain` takes one event and does everything the
arm of the match in `main.rs` does; a disconnect within it appends its own event
to the queue that is being drained. `Tick` is the simulation's step with what the
loop repairs afterwards. Hulls only get worse; which stations break and where an
orphaned crew goes is left open.

### ControlDoor
Each door is a task that holds one command and moves from lock window to lock
window: change the list, write the file in two halves, wait for room in the queue,
journal. The loop takes one order at a time and checks its stop once the queue is
empty. The loop ends by signal, by an empty server, by its deadline or at once. The
queue outlives it, for the receiving end is a local of `main` (`main.rs:385`): until
`MainReturns`, after the window of the farewells, an order with room is still queued and
one without waits. What then waits is released, with a refusal or with its task
(`Closed`). The next process starts from the file; it may also follow a crash.

### Gunnery
The commands of the drain are actions of their own; `StationTick` is everything a
tick does to the guns, from the damage that lands first to the booked shots resolved
last. Angles are counted in slew steps, and the health left, the flooded guns and
the shells the projectile cap refuses are left open. `orders` and `fired` are
histories.

### Flooding
Each compartment has bulkheads of its own, so two compartments are joined by two
doors, each sealed by itself. A tick fills and pumps, asks for every transfer from
one set of levels, then moves them one after another; how much of what it may ask
for a door asks is open, as the rate is a matter of floating point. `is_sealed` is
kept for breached compartments only, since a breach clears it.

### Battle
The four parts of a tick in their order, with commands between ticks. What a hit
takes, which hulls touch, what a shell meets and whether armour turns it are open.
`began`, `gone` and `age` are histories of each ship.

### SpatialGrid, Interest
One axis stands for three. An index is its cells, each a bag with a ceiling, the list
of what full cells spilled, and the cell each id was last filed under; `truth` is the
map it should be. A query answers place by place, so that an entity filed twice is
seen twice. `Interest` has such an index as a partial function (`grid`), since
the proof shows that it is one, and five of them as one. The game loop's `stage` goes
through the sync of `main.rs`, ship by ship; the publish pass (`pass`) copies the
indices one after another, admits, recomputes in two steps, sends, discovers. `age`
counts the ticks since an entry was the simulation's; `unsettled` are the players put
aboard a ship after their sets were last filled. The queries of one recompute are one
step, and `update_all_interests` is one; a tick brings at most one change.

## 3. Runs

Bounds are constants named in the modules. All runs together fire every action.
Where two instances answer one question they share a run: the MC module chooses
the instance in its initial state.

| Run | Question | Bounds, and why they are enough |
|---|---|---|
| `transport` | Does the link implement `CommandDelivery`, does the ledger drain, is a datagram or a message taken twice, is anything fresh refused, does the budget hold, does an Accept get through? | link: 3 datagrams of all ledgered kinds, gap set that never overflows; a retry budget of 1 separates "sent again" from "given up". window: width 2, 10 numbers, so that the mask empties and refills several times. seal: 2 processes, 1 connection, 1 challenge, 3 datagrams each, enough to leave the window. sharing: 2 types with a budget of 3 chunks and 2 groups, so that supersession, eviction and expiry all meet. wrapping: 1 type whose numbers wrap at 8 under two sessions, with stale fragments of the first |
| `to_client` | What the server sends: are marks, headers and retirements truthful, is each layer a replica (`LayerReplica`), does the undisturbed stream never stall, do losses heal? | link: 4 datagrams, window 2, 1 gap, ledger 2, 1 retry: two out-of-order arrivals overflow the gap set, the third entry evicts, numbers reach beyond the window. content: 2 layers, ring of 2, 3 ticks, a datagram up to 2 ticks late, so that a send is queued while the report of the one before is handled; resync, eviction from the ring and shield occur. heal: 2 entities of 2 values, 5 ticks, resync period 3: a lost delta, a change and the calm after them fit |
| `link_echo_ack` | Is an acked entry delivered? (no) | as in `to_client`'s link, two datagrams in flight, towards the server |
| `sessions` | How does a session open, and do its tables agree whatever the interleaving, and implement `SessionDirectory`? | opening: 6 networks (prompt; lossy with one slot; 2 clients in turn on one that keeps order, with a fault; the same with repeats; 1 whose datagrams overtake each other or are repeated and whose acks may echo no session; 3 clients in turn whose datagrams overtake each other); 5 ticks an interval, so two round trips of a tick a way fit, 3 retries until timeout. tables: 2 connections of one address, so that a removal races the claim that replaces it; a queue of 6 holds every event they cause, so that none is dropped |
| `fragments_mixed` | Does one message come out at a time? (no) | 1 type, 2 chunks, 2 sessions |
| `match_loop` | Do the four places agree, is a disconnect justified, does a vote end? | 3 connections, 2 ships: a voter leaves, rejoins under a new id, its target is kicked while its own events are queued; a ship sinks under its crew, then the last one. Four instances: 2 posts and a banned address; the same with 1 post and a queue of 2; nobody banned and a queue of 2, so that three players vote and two of them are the quorum; a quorum of three and a window of 2 ticks, so that a vote stays open over a second ballot, which re-arms a window already shortened |
| `control_door` | Does the file hold the list, is a stop announced and final, does a command wait for ever? | 2 operators, 2 commands, queue 1, two targets, a save that fails at either half, one restart, a stop of 2 seconds with thresholds at both; the second command meets a queue that the first has filled, before and after the end of the loop |
| `control_banned` | Does a banned player stay out? (no) | 1 host with 2 ports |
| `ship` | Does an order fire once and a booking end, is water accounted for, does a loss run its course? | guns: 1 gun (guns of a ship meet only in a seat's occupant), 3 orders, so that a booking is superseded and that it meets a later order, deadline of 2 ticks with a turret 2 ticks away; water: 3 compartments, a door into the same compartment from both sides and one back; battle: 3 ships, 2 shells of which one explodes, 1 ricochet, 2 updates to sink, so that a wreck is hit again |
| `reload_acked` | Has an acknowledged reload loaded anything? (no) | 1 gun of 2 rounds |
| `interest` | Does an index answer as a map, is a stamp honest, is a refresh exact, does a view hold the own ship, is everyone served? | index: 3 ids in cells of one, 4 places, queries of every width, so that two ids spill, and both ways to query occur. sea: 1 player, 2 ships within or out of sight, 1 shell, 2 changes, so that a ship founders and is gone, or a shell is fired and is spent, while a pass runs. short and long: 2 players, 1 admission a pass, a queue of 1 or 2 |
| `far_hits` | Does a hit reach only those who are shown it? (no) | 1 player, 3 ships of which one is out of sight, 1 shell |

In `to_client` the differences below `Eps` and the withholding bound are set so that
they do not bite (section 5). `CHECK_DEADLOCK FALSE` is given where the
counters that bound a behaviour run out and a system whose clients have left rests;
the ticks of `ship`, `reload_acked`, `interest` and `far_hits` go on for ever, and there
deadlock is checked.

Every property is paired with a mutant of a mapped definition - an off-by-one in
the mask, a missing `.min`, an eviction that is not reported - that TLC finds to
break it under the same configuration. Mutants are the operators whose comment
says "mutant".

Where two properties are halves of one statement one definition combines them:
`SessionsMatch` and `GetsIn` of `Handshake` are two properties each.

### Fairness

* `ReliableLink`: the send loop runs a retransmit pass each round and an entry is
  due 250 ms after it was last touched, so every entry is served again and again
  (weak fairness for the pass that serves it). Nothing is assumed of the network.
* `SessionTable`: the receive task's lock windows end and the send task runs and
  sweeps; weak fairness for each. Silence passes for a connection no datagram
  reaches (`connection_timeout`), and only for such a one.
* `WireSeal`: the send loop sends and the client's receive task reads. The claim is
  made only for a network that loses nothing.
* `Handshake` has no fairness: its time bounds make "in time" a safety property.
* `MatchLoop`: the loop drains (weak fairness), and it ticks when it finds the queue
  empty. The drain of `main.rs` takes events until there are none, with no bound of
  its own, so that it ticks at all rests on it outpacing the senders now and then:
  strong fairness of the event that empties the queue, and of the tick. Nothing is
  assumed of the players.
* `ControlDoor`: tasks run and the clock advances (weak fairness). A writer waits for
  the readers of the lock, a sender for room in the queue, the loop's checks for a
  drained queue; the lock and tokio's channel serve their waiters in order and the drain
  takes what is there, so each is strongly fair. After the loop `main` sleeps for the
  farewells, aborts the network's tasks and returns, waiting for nobody else (weak
  fairness of `MainReturns`). The operators need not send or stop.
* `Interest`: the game loop and the publish pass take their next step, each weakly
  fair. Nothing is assumed of the clients or of what a tick brings; `Served` is
  claimed while the connection lasts.
* `Gunnery`: the game loop's interval ticks as long as the server runs (weak fairness
  of the tick). Nothing is assumed of the gunners.

## 4. Proofs

`ReliableLinkProofs` proves, for every window, cap, budget and number of
datagrams allowed by `LinkAssumption`:

* `TypeCorrect`, `MarkIsSound`, `CommandsRunAtMostOnce`, `MarkStalls` and, of both
  sides of the mark at once, `MarkTruthful`, from one inductive invariant. `MarkSound`
  and `AtMostOnce` are not inductive: one also needs that every number in use is at
  most `nextSeq` (`Numbered`,
  `EntriesNumbered`: else a new datagram might reuse a number the receiver has
  seen), that what was received is reliable (`ReceivedKinds`: why the mark stops
  at an unreliable number), and that an executed command is below the mark, in
  the gap set or was forgotten from it (`ExecutedRemembered`: the duplicate gate
  is exactly as good as this memory).
* `HeadersAreSound`: towards the client each header describes datagrams that
  arrived, for any window. The arithmetic is in `WindowMod` and `InWindow`: bit
  `n % Window` names one distance in `1..Window`.
* `AcksRetireDelivered`: the stored ack pair inherits the header's soundness
  (`StoredSound`), so an entry inside the window is retired only if delivered.
* `LinkImplementsDelivery`: with room for every gap (`GapCap >= MaxSeq`), each
  step maps to a step of `CommandDelivery` or a stutter.

`LayerSyncProofs` proves, for every number of layers, entities, values and ticks, every
ring, resync period and withholding bound:

* `NothingIsGuessed` (`ConfirmedIsHeld`): the base the server builds a delta against is
  a frame the client holds. What is confirmed was reported applied (`Confirming`), and
  what the client applied is never older than that.
* `NoLayerStalls` (`UndisturbedNeverStalls`): while no state datagram was lost or
  overtaken, the deltas of a layer in flight are a chain from the client's clock to the
  newest send (`Chained`), so the next one is based on the tick the clock reads.
* `ClientHoldsTheWorld` (`ClockTellsContent`): a clock names the tick whose world the
  client's layer is. The world of a tick is a history of the model, and everything in
  the chain is described by it: the bases in the ring and the confirmed one
  (`BasesTrue`), the deltas under way as the difference of two such worlds
  (`DeltasExact`), the ring as ascending in ticks (`RingOrdered`) and the window of a
  pass as of this tick (`PassCurrent`). `ClientHoldsTheEntities` is the part about
  the entity map of a frame. Two assumptions stand in the theorem and not in the module.
  `InOrder`: deltas arrive in the order they were sent, or there is one layer; without
  it the statement is false (section 5). `Eps = 0`: what falls below the threshold
  enters the base unsent and adds up, so that for `Eps > 0` no bound on the error
  holds at all (section 5).
* `EachLayerIsAReplica` (`ImplementsReplica`): the refinement. The history of a layer is
  its part of `past` up to now; what the client shows is its part of the frame and of the
  entity map, under its clock; what the server knows is the confirmed base. A tick
  publishes, the first full and a delta that applies show a later world, a report whose
  proof is in the ring teaches the server, and everything else stutters. That a delta leaves
  the other layers alone is in `MergeGives` and `ViewGives`; that what it shows is
  a world, whole, is `ClockAgrees` of the next state, under the two assumptions above.
  `ClockTellsContent` is the part of it that looks at one state only.
* `CalmHealsTheClient` (`CalmHeals`): a world that has not
  changed for `Resync + Gap - 1` ticks is the client's, whatever was lost before, in any
  layer that is not empty; `Gap` is the interval of the layer, or one if it is sent on
  change. `Punctual` says that once a pass has done a layer, the last send is younger
  than the resync period, and than `Gap` if there is news. `Healing` says that the client
  holds the world, or a resync is in flight, or the newest send is from before the
  calm's first `Gap` ticks were over: a send after that is a resync, since what is
  news was said by then. At the end of the calm the third is excluded by the first.
  Its assumptions: `Prompt`, each tick is published and what it sends is delivered or
  lost before the next; `InOrder`; and no layer has more entities than a delta may
  carry, for section 5 shows that a withheld resync is never made up for.
  `CalmBringsTheEntities` needs nothing of `Eps`; the values need `Eps = 0` as above.

`TransportProofs` proves of `ReplayWindow`, for every width and any order and number
of arrivals, four properties. The invariant is `WindowTypeOK /\ WindowExact /\
AcceptedOnce`: at-most-once alone is not inductive, since acceptance looks at the
mask, so the mask has to be exact. `ShiftedBit` and `AfterBits` say what the shift does.

Of `WireSeal`, for any number of processes, connections and datagrams:

* `SealImplementsWindow` (`ImplementsReplayWindow`): each step is a step of the window
  or leaves it alone, so its invariant holds of an address used by several processes.
* `NothingTakenTwice` (`NothingTwice`): what passed is known to the window that took
  it (`TakenIsKnown`), and a window goes on refusing what it refuses
  (`RefusedStays`), however two of the server's counters mix in one window.

Of `FragmentAssembler`, for any types, sizes and limits (`FragmentAssumption`: the
numbers are even in count, a jump that is admitted and the lag of the network are
less than half of them, as 1024 is of 2^32):

* `BudgetIsKept` (`BudgetKept`): inductive once every group is known to hold something;
  an empty group could be evicted in place of one that makes room.
* `SendersAreHeard` (`Hears`): `MarksTracked` says that a mark lies behind the sender by
  the numbers spent since, one more where zero was skipped, and that distance decides
  which half a number is in.
* `MessagesComeOutOnce` (`DeliveredOnce`), for one session: a message that came out is
  refused by the completed mark, and the newest number seen lies no further back
  (`Settled`). The second part is what keeps the first, because the completed mark
  follows the deliveries, in the order of the sender as long as nothing under way is
  more than half the numbers old (`OnceInv`).

`MatchLoopProofs` proves, for every roster, number of connections, ban list, quorum
and queue length:

* `TypeCorrect` and `CrewsStayReal`: the crews are inductive beside the types, given
  that the roster walk finds a ship if there is one. That the walk passes every ship
  is `WalkReachesAll`, arithmetic of `%`; that its first hit exists is `Minimum`,
  from the library's well-foundedness of the naturals.
* `SeatsStayManned`: not inductive alone. A player bound a second time would leave
  its seat on the first ship, so one has to know that an id connects once, which is
  a fact about the queue (`OneEventEach`, `EventsTell`).
* `CrewSettles`: `CrewIsTheConnected` says something only of an empty queue. `Owed`
  says it of every queue: where table and crew differ, the event that mends it is
  still pending. `DrainQueueInv` shows that taking one event, and appending the
  farewell of a disconnect, keep this.
* `ThrownOutRightly`: the open vote consists of ballots for its target
  (`VoteIsBallots`), so a quorum is a quorum of distinct voters for that player.

`ControlDoorProofs` proves `FileHolds` and `WarnedFirst` for any number of operators,
delays and thresholds. Both are inductive beside a few types; the first because the
file is written from the list as it is at that moment, under a lock the list cannot
change under, the second because the thresholds are announced before the deadline is
looked at.

`ShipProofs` proves of `Gunnery`, for any number of guns, players and orders, any
magazine, cycle and deadline:

* `CycleEndsFull`: a completed reload cycle means a full magazine (`GunsSound`), for a
  cycle completes only when there is no room left and a shot starts it again. The room
  a reload command wants and the completed cycle it waits for therefore never meet.
* `OrdersFireOnce`: not inductive alone. `OrdersSound` adds that an order not yet given
  has no shell and no booking, and that two bookings share neither gun nor order, so
  that the one an arrival consumes is the only one of its order.

and of `Battle` `LossIsCertain`, for any number of ships and shells. `LossInv`
says that timer and age of a sinking hull add up to `SinkTicks` (`Clocked`: no hit
winds the timer up again), and that the only sinking hull whose loss is not yet told
is one this tick's damage made so, after the capture (`Fresh`).

and of `Flooding` `WaterIsConserved` (`WaterOnlyThroughBreaches`), for any compartments,
any sequence of doors, any depth and rates (`FloodingAssumption`). The tick is two folds:
the transfers, door after door, and the total, compartment after compartment. Both are
library folds, whose recursive function is a `CHOOSE`: `FoldExists` shows that there is a
function to choose, by the least size at which there would be none, and `SubsetInduction`
stands in for induction, by a least subset without the property. `SumBound` and
`SumChange` are the two facts about totals; `MovedKeeps` is a transfer, which moves what
the source still has into what room the receiver still has (`PouredKeeps` repeats it),
and `TickBalance` the tick. That a compartment with neither breach nor open door gains
nothing is carried along the same fold.

`InterestProofs` proves three properties of `Interest` for any number of clients, ships
and shells, any ranges, budget and queue (`InterestAssumption`: a ship is seen from at
least one place away, and no client is called `Nobody`).

* `StampsAreHonest`: the statement is about the pass; the invariant is mostly
  about the loop. `SyncedSoFar` follows the sync: the ships before `next` and their
  crews are of this tick, wrecks are out of the index once they are retired, and with
  the shells everything is of this tick, until the next one. It needs
  `CrewsKnown`, that a crew in the index is aboard a ship that floats, which is why the
  orphans are repaired first. `Published` says how far behind the published tick may be,
  `PassInv` that the pass's is no further ahead.
* `RefreshesAreExact` (`RefreshIsExact`): ages are not enough here, so `TableInv`
  follows the sync again with the content of the tables: who has an entry and a layer
  (`Listed`), what an entry says once its ship is through (`Told`, `Manned`), and that a
  player between two ships has left the tables but not the loop (`Recorded`).
  `SightIsExact` then computes what the five queries return.
* `OwnShipIsShown` (`ViewHasOwnShip`): the recompute of an admission may run in the
  middle of a sync, when a ship, its hull in the index and its player are at two
  places. `Close` says that they are never more than one step of a ship apart, and this
  is where the radius of at least one is used. The view also needs a layer for each hull
  in the index, which holds from the first sync on only (`Covered`): a pass begun
  before it has nobody in line (`NobodyServed`), since its queue was empty. What the pass
  copied stays enough because hulls only enter the index at the start (`Gentle`).

`IndexIsExact` proves of `SpatialGrid`, for any ids, extent, cell size, ceiling of a cell
and limits of a walk, that it is a map (`GridIsAMap`). The invariant is `Holds`, relating
the index to the set it stands for: one entry of an id, in its own cell or aside, never
both, and the id filed under that cell wherever the entry lies. The last part is what
`remove` and an update rely on to find what was spilled. `InsertKeeps` and `RemoveKeeps`
go through the code's cases; `WalkCovers`, that a walk reaches the cell of every position
in range, is arithmetic of the division, and needs nothing of the ceiling.

`SessionTableProofs` proves four properties of the tables for any number of addresses,
connections and slots and any length of the queue; the only assumption on the constants is
that the length and the last id are numbers (`SessionAssumption`).

* `TheMapIsCurrent`: at rest, an address maps to nobody or to its newest live connection.
  The statement says nothing while a task is busy, so `TableInv` says what the windows
  leave in between. `Mapped`: an entry is the newest *claimed* connection of its address,
  and when that one is gone a task is about to erase it (`Erasing`). `Evicting`: a session
  under eviction has lost its address already. `Types` and `Newcomer` keep a connection in
  the middle of its opening out of the hands of the other tasks, since neither its
  silence nor an event can have told them of it (`Known`).
* `EveryEndIsReported`: `Accounted` says whose report a missing connection is: the task
  that found it in the table, or the eviction that replaced it, owes the event (`Owed`).
  That the queue then has room for it is not part of the statement.
* `EndsSettle` (`EndsAreSettled`): once the tasks rest, every connection that is gone has
  been reported, and once the queue is drained it has no player either. The second
  depends on room in the queue, since `emit_event` drops what does not fit, so the
  theorem is about behaviours in which two more events always do (`Roomy`; the queue
  has 16384 places). A report is not enough: what counts is its place. `GhostFree`
  says that a connection which is gone is still owed a report, or is `Mourned`: its
  end is queued behind every announcement of it, and is queued if it has a player.
* `TheTablesAreADirectory` (`ImplementsDirectory`): the refinement. The phase of a session
  is read off the id counter, the reports, `connections` and the window the receive task
  is in front of (`Phase`). Each window is one
  step of `SessionDirectory` or none: the removal's first is the end of the session if it
  was still there, its second forgets the address, its last tells. That a step is allowed
  there needs `DirectoryInv` besides `TableInv`: a session that was told of, is being
  taken down past its first window, or is replaced and past its eviction's, is out of
  `connections` (`Placed`, `Ended`), and one that is replaced is told of when its
  successor is about to be announced (`Succeeding`). The contract leaves
  open whose mapping `Forget` drops, which is the race of section 5.

The same module proves of `Handshake`, for any intervals, burst, resends and networks:

* `SessionsAreMatched` (`SessionsMatch`), by `OpeningInv`. That a challenge opens one
  session is `NoncesSpent`: a nonce in `opened` is not pending, and a nonce is minted
  once. That the retries of a start open one session is about time: `OneEach` counts
  the exchanges that have opened a session or are under way, and says that there are at
  most as many as starts; and that, while the client tries, whatever is under way
  comes from its last Connect, since its age and those of the steps before it, at most
  `max` each, cover the time since (`Reached`, `Young`). So when the next Connect is due
  nothing is left that four ways of `max` could explain, and a session opened meanwhile
  would have had its Accept arrive and end the attempt. That the ends agree has two
  halves. For a ledger that sent the Accept again it is `StaleIsOld`: until the live
  session first does, the Accepts of the evicted are at least as old as the session, and by
  then they are older than any datagram lives; from there on each resend has reached the
  client, is under way, or has cost a fault. The order of arrival does not matter, nor
  what was acked. For an Accept that was acked it is `InOrder`: on a network that keeps
  order the Accepts under way ascend, none is older than the session the client holds or
  than any that an ack echoes, and the server takes only an echo of the live one.
* `ClientsGetIn` (`GetsIn`), by `Persisting`: a client alone on its address, whose network
  loses no more than the timeout has room for, does not give up without a session. The
  connect loop wakes at multiples of the interval (`Timely`), so it suffices to count
  faults against retries. Before a session exists (`Asking`) at most one exchange is under
  way and is bound to succeed: its Connect will be answered, or the pending claim is the
  one it carries (`Claimed`), and its datagrams find a token each (the bucket lacks at most
  what the last Connect took); every earlier exchange cost a fault. A client that
  still tries has acked nothing (`Untold`). Afterwards (`Answered`) the Accept is
  under way, or was lost and is due to be sent again, each resend against a fault of its own.
  Assumed are a bucket of three tokens (the code has four) and challenges that live for
  an interval (eight seconds against a quarter).
* `LeftoverRefusesNobody`: where the others leave a second slot no Reject is ever under
  way (the other half of `GetsIn`).
* `OpeningTyped`: the bucket, the clocks and the numbers stay in bounds.

The proofs gave the properties their premises: four ways, not two round trips of any
speed, within an interval; fewer faults than resends, or a network that keeps order;
for `ConnectsInTime` (`Spared`) also that the ledger resends as often as datagrams are
lost and that the faults, an interval each, fit into the timeout.

Only model-checked: liveness (`LedgerDrains`, `OrphanEnds`, `AcceptGetsThrough`,
`VoteEnds`, `StopEnds`, `NoCommandHangs`, `BookingEnds`, `EveryoneIsServed`), which is outside the
prover's reach. Every invariant and action property of the runs is proved.

## 5. What the checks show of the code

Five statements of the code's own comments and documents are refuted by runs (`findings`):

* **An ack does not mean delivered** (`link_echo_ack`). The server's HeartbeatAck
  carries the heartbeat's number in the field its peer reads as a cumulative ack.
* **Two messages can be mixed** (`fragments_mixed`). A new session numbers its
  messages from one under the assembler of the old one, so a chunk still under way
  completes a message it does not belong to.
* **A banned player comes back** (`control_banned`). The ban list is asked for the
  text of the whole socket address, port included.
* **An acknowledged reload loads nothing** (`reload_acked`). The result of
  `reload_station` is dropped (`net.rs:393`), and the automatic cycle leaves no state in
  which a reload succeeds: no player can change the shell a gun fires.

* **A hit is told to everyone** (`far_hits`). The shell has left `entity_layers` when its
  `ShipHit` goes out, and an id without a layer counts as visible (`interest.rs:400`).

The following were counterexamples to stronger properties met on the way; the
models contain the behaviour, and the properties checked say where they stop.

Transport and handshake:

* A SACK bit is tested at `(seq - ack) & 31` without an upper bound, so it also
  stands for `ack + 32 + n` (`channel.rs:139`); `RetireOnlyDelivered` is therefore
  limited to the window.
* A command whose gap was forgotten runs again when it is retransmitted
  (`connection.rs:1131`); hence `AtMostOnce` up to `forgotten`.
* A command is recorded as received before the full event queue drops it
  (`server.rs:1481`): acked, never run.
* A client that keeps its Connection over a restart of the session keeps its
  contiguous mark, under which the new server numbers from one (`client.rs:1348`).
* With a round trip above the retry interval of 250 ms each Connect replaces the
  challenge being answered and the client never connects (`server.rs:1303`, against
  `server.rs:514-516`). `Far` in `MCSessions` is such a network.
* A Connect retried after the Accept was sent opens a second session
  (`server.rs:1263`); `OneSessionPerChallenge` of `Handshake` excludes it where two round
  trips fit into a retry interval and nothing is lost or doubled.
* A client may hold a session the server has evicted, for good. The client retries while
  its Accept is late, so two sessions are opened; the live one's Accept is taken twice,
  the second copy is tracked, the next Input acks it and the ledger is empty
  (`channel.rs:139`); then the first session's Accept, overtaken by the others, arrives
  and is taken like any other (`client.rs:1345-1368`). Only the timeouts end this.
  `SessionsAgree` therefore speaks of an Accept that was sent again more often than
  datagrams were lost or doubled, or of an acked one where `Orderly` holds. TLC finds the
  ends apart when any of its three conditions is dropped: with overtaking, with a
  repeated datagram, or with acks that echo no session. The kinds of the last sort
  (ResyncRequest, Fragment, EventAck, Rpc, Disconnect) pass the session gate whatever
  session their sender is in (`server.rs:1666`), and retire the new Accept by a mark that
  an old session left. A resend that was collected just before its connection was evicted
  and is sent after it (`server.rs:2796-2820`) counts as overtaking.
* Confirms draw on the bucket of the Connects (`server.rs:1293`).
* The cap counts the session the new one replaces (`server.rs:1710`).
* An Accept with the number of a challenge already seen is refused as a replay,
  and gets through when retransmitted (`server.rs:1876`).
* A client that rebinds its port is refused until it passes its predecessor's
  numbers (`server.rs:1108`).
* A datagram of the connection before passes the window of the address and is
  stopped, if at all, by the session number (`server.rs:1868`).

Tables and layers:

* A removal clears the address's mapping after a new session claimed it
  (`server.rs:2222`, against `server.rs:1755-1756`): the new session is out of reach
  until its timeout. `OwnerIsReachable` in `SessionTable` says what does not hold,
  `OrphanEnds` that the damage is bounded.
* The resync of a layer with no entities is an empty delta, which is not sent, while
  its request is consumed (`server.rs:2633`, against `server.rs:2509-2511`): an
  emptied layer does not heal. `EmptiedLayerHeals` in `LayerSync` says so.
* An eviction and a sweep of the same connection both report it (`server.rs:2253`).
* A row and a track are inserted for a connection removed between two windows,
  and nothing removes them (`server.rs:662`, `server.rs:2679`).
* A delta that overtakes one of another layer is merged into the older frame and
  lost in the newer (`client.rs:2022`); hence `Ordered` in the "content" instance.
* A layer with more than 512 changes is withheld at every pass, the resync too
  (`snapshot.rs:507`).
* Changes below the threshold enter the next base unsent and add up (`snapshot.rs:622`).
* A scheduled resync is due by the age of the anchor, which every send renews:
  a layer that changes all the time never gets one (`server.rs:2486`).

Fragments:

* All types share one numbering while each has a mark of its own: a type that sends
  nothing while the others spend more than 1024 numbers is refused until the numbers
  come round (`fragment.rs:112`); hence `spent` in `Hears`.
* The completed mark starts at 0 (`or_insert(0)`), so a first completed number of
  2^31 or more leaves it there.
* After a new session its messages are refused until they pass the old mark
  (`fragment.rs:96`).

Match:

* A ballot stays when its voter leaves, while the quorum counts the players online,
  so a player who reconnects votes twice in effect (`votes.rs:89`; the comment at
  `votes.rs:293` has one player unable to supply the second vote). The property
  counts connections, not people.
* When the last ship is lost the orphans lose their player and keep their
  connection; `CrewIsTheConnected` therefore asks for a ship afloat.
* A newcomer may be put aboard a hull that is already sinking, and is then never told
  that it died.
* `ExitStation` looks for the seat's occupant after vacating it, so its broadcast is
  never sent (`net.rs:204`).
* The drain has no bound of its own (see Fairness).

Control door:

* A ban whose save fails is refused to the operator and in force until the next
  start; an unban whose save fails cannot be repeated ("not banned") while the file
  keeps the ban.
* A ban or unban order does nothing in the loop: nobody online is disconnected by it
  (the comment at `control/server.rs:805` says the loop does).
* After the loop has ended by a signal the status word is still "running", and the queue
  is open until `main` returns, a tenth of a second later: an order in between is
  answered "queued" and nobody takes it (`main.rs:385`, against `control/server.rs:700-701`,
  "a slow door, not ... a lie about what got queued"). `NoCommandHangs` promises an
  end of the wait, not that what was queued is done.
* The door journals after it has queued the order, against its comment at
  `control/server.rs:680`.
* After a stop at once `stopping` is still empty, so the orders behind it in the same
  drain are carried out.
* Two reloads around one not yet applied compare the file with stale rules: the
  second is answered "unchanged" and the first one's values win.
* A process that ends between the two halves of a save leaves a file that the next
  start refuses; `FileHoldsTheList` leaves out `life = "unreadable"`.

Ships:

* A gun taken down by `SetStationBehavior` is put up again by the next tick, which sets
  `is_operational` from the compartment alone (`station.rs:163`). In the other
  direction a repair puts up a flooded gun until that tick.
* A booking stays when a later immediate shot of the same gun is ordered and refused,
  and fires when the gun is ready, although `server/tick.rs:253-254` says a superseded
  aim cannot fire. It also outlives the gunner who left the seat.
* Sealing a bulkhead seals the door of one of its two sides; water goes on through the
  other.
* The damage graph reports a compartment once, so one that was sealed after a breach is
  not breached again by any further hit.
* A ship that sinks leaves the ship table only; its entry of `ship_physics` stays
  (`sim/tick.rs:822`, against `remove_ship` at `sim/tick.rs:1498`).
* Whether a hull sinks depends on its health alone, not on its water (`ship.rs:518`).

Interest:

* The same holds for other events that are about an id which has just gone: `ShipSunk`
  (the wreck is retired before the broadcast), `ProjectileImpact`, and the
  `StationVacated` of a player who leaves (`remove_player` precedes it). The comment at
  `interest.rs:394-398` takes telling too much as the cheap mistake, and means the
  bulkheads and pumps that never have a layer.
* A player put on another ship has empty sets until the next refresh, and a pass before
  that sends it a view without any ship, its own included (`interest.rs:102`); hence
  `unsettled` in `ViewHasOwnShip`.
* The recompute of an admission may put back sets read before a refresh that overtook
  it; the next refresh mends it (`interest.rs:306`).
* A player removed between the readiness check and the filter gets an empty first full
  (`server.rs:657`). A connection removed while its `Arc` is still in the pass's list
  may be put in line; it is dropped when its turn comes.
* The `PlayerSpawned` of a newcomer never reaches itself: it is broadcast before its
  sets are filled.
* A walk of `query_bounds` visits the cells of the box alone, while it and the scan ask
  what overlaps the box: what reaches in from the next cell is found by the scan only
  (`spatial.rs:354-368`). Only tests call it; the interest manager asks by radius.
* An id that was reported at a position that is not finite keeps its last one
  (`spatial.rs:136`).

## 6. Not modelled

In the modelled parts: statistics and RTT smoothing, `pending_acks`, payloads,
wrap-around of the transport's 32-bit numbers (a session would have to send for more
than a year), the payload cache, interpolation, the cap of the challenge table, the
unsigned dialect, eviction of idle replay windows, corrupt fragment headers (their
writer never produces them), steering and helm arbitration, the spread of fire, fuel,
turret pitch, compartments of different depth, the operator's
authorization, reads and journal. Floating-point simulation and physics, drawing,
driver calls and file parsing are left out altogether; the components of
`PROJECT.json` give the reason for each.

Most of the repository is of the latter kind: the render client, its hardware
interface for four graphics APIs and the physics of the simulation are some ninety
thousand lines of sequential floating-point and driver code, about which a model
checker would only repeat the arithmetic.

The supervisor is left out because it does not build as it is laid out: `main.go`
is `package main` beside files of `package supervisor` and imports a directory that
is not there. Reading it showed: nothing is ever added to the WaitGroup its exit watcher
waits on, so an instance is dropped from the table while its process runs and the
pump's `Done` panics (`supervisor.go:205`); an automatic restart sets a state and
relaunches nothing (`supervisor.go:224`); `StatusAll` takes a read lock it already
holds, which deadlocks with a waiting writer.

## 7. Plan

1. **Breadth.** `Interest`'s pass composed with `SessionTable`; `LinkAcrossSessions` (a
   client that keeps its mark when the server numbers from one again); the buddy allocator and the
   damage walk as algorithms against reference definitions; the bandwidth bucket in
   integers.
2. **Abstract specifications.** A crew list, one post per player, for `MatchLoop`; the
   ban list as one atomic register, for `ControlDoor`.
3. **Proofs.** `ConnectsInTime` on a network that doubles datagrams.
