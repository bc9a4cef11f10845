------------------------- MODULE FragmentAssembler --------------------------
(***************************************************************************)
(* A message that does not fit a datagram, from fragment_large_packet to   *)
(* the receiver's assembler (net/fragment.rs, net/connection.rs).          *)
(*                                                                         *)
(* One counter numbers the messages of every type, and one assembler keeps *)
(* a mark per type.  The client's assembler lives in a Connection that is  *)
(* kept when the server answers a new session with a Connection of its own *)
(* (client.rs, ConnectAccept), so two senders number the same marks.       *)
(*                                                                         *)
(* The numbers wrap at Modulus (2^32).  The network loses, repeats and     *)
(* reorders fragments, but none outlives MaxLag further messages.          *)
(***************************************************************************)
EXTENDS Naturals, FiniteSets, Functions

CONSTANTS
    Types,        \* packet types large enough to be split
    Sizes,        \* numbers of chunks a message may have
    Modulus,      \* 2^32
    MaxId,        \* bound: the last number a session uses before it wraps
    MaxJump,      \* MAX_FORWARD_JUMP (1024)
    Ttl,          \* FRAGMENT_GROUP_TTL, in ticks of the model
    MaxGroups,    \* MAX_FRAGMENT_GROUPS (32)
    MaxBuffered,  \* MAX_TOTAL_BUFFERED_BYTES, in chunks
    MaxLag,       \* bound: messages a fragment may lag behind the newest
    MaxWire,      \* bound: fragments in flight
    MaxSessions   \* bound: sessions in one behaviour

(* The window of the wrap-aware comparison is half of the numbers; a jump  *)
(* it admits and the lag of the network are well within it.                *)
ASSUME FragmentAssumption ==
    /\ {Modulus, MaxId, MaxJump, Ttl, MaxBuffered} \subseteq Nat \ {0}
    /\ {MaxGroups, MaxLag, MaxWire, MaxSessions} \subseteq Nat
    /\ Sizes \subseteq Nat \ {0}
    /\ Modulus = 2 * (Modulus \div 2)
    /\ MaxJump < Modulus \div 2 /\ MaxLag + 1 < Modulus \div 2

VARIABLES
    session,    \* the server's Connection that sends
    nextId,     \* its next_fragment_id
    wire,       \* fragments in flight
    groups,     \* the assembler: groups by <<type, id>>
    seen,       \* latest_seen of a type; {} or one number
    completed,  \* latest_completed of a type; {} or one number
    buffered,   \* buffered_bytes
    delivered,  \* history: messages that came out and have fragments in flight
    out,        \* history: the messages of the chunks that came out in this step
    spent,      \* history: numbers this session spent since latest_seen, up to MaxJump
    since       \* history: the same since latest_completed, up to half the numbers

sender == <<session, nextId>>
assembler == <<groups, seen, completed, buffered>>
marks == <<spent, since>>
chunkVars == <<sender, wire, assembler, delivered, out, marks>>

Half == Modulus \div 2
Key(msg) == <<msg.type, msg.id>>
Smaller(x, y) == IF x < y THEN x ELSE y

ChunkInit ==
    /\ session = 1 /\ nextId = 0 /\ wire = {}
    /\ groups = << >> /\ buffered = 0
    /\ seen = [t \in Types |-> {}] /\ completed = [t \in Types |-> {}]
    /\ delivered = {} /\ out = {}
    /\ spent = [t \in Types |-> 0]
    /\ since = [t \in Types |-> 0]

-----------------------------------------------------------------------------
(* The sender.                                                             *)

(* Zero is skipped when the counter wraps.                                 *)
NumberAfter(n) == IF (n + 1) % Modulus = 0 THEN 1 ELSE (n + 1) % Modulus

Distance(a, b) == (a + Modulus - b) % Modulus
SpentSince(msg, cap) ==
    IF msg.session = session THEN Smaller(Distance(nextId, msg.id), cap) ELSE cap
PlainNewer(a, b) == a > b  \* mutant: not wrap-aware
Newer(a, b) == a # b /\ Distance(a, b) < Half

(* The network's promise: a fragment is gone before its message is old.    *)
InTime(f) == IF f.msg.session = session THEN Distance(nextId, f.msg.id) < MaxLag ELSE nextId < MaxLag

SendMessage(t, n) ==
    LET msg == [session |-> session, type |-> t, id |-> NumberAfter(nextId), size |-> n]
    IN  /\ \A f \in wire : InTime(f)
        /\ Cardinality(wire) + n <= MaxWire
        /\ msg.id <= MaxId
        /\ nextId' = msg.id
        /\ wire' = wire \cup {[msg |-> msg, index |-> i] : i \in 1..n}
        /\ spent' = [u \in Types |-> Smaller(spent[u] + 1, MaxJump)]
        /\ since' = [u \in Types |-> Smaller(since[u] + 1, Half)]
        /\ out' = {}
        /\ UNCHANGED <<session, assembler, delivered>>

(* A message of a type that is not in Types takes its number here.         *)
SpendNumber ==
    /\ NumberAfter(nextId) <= MaxId
    /\ \A f \in wire : InTime(f)
    /\ nextId' = NumberAfter(nextId)
    /\ spent' = [u \in Types |-> Smaller(spent[u] + 1, MaxJump)]
    /\ since' = [u \in Types |-> Smaller(since[u] + 1, Half)]
    /\ out' = {}
    /\ UNCHANGED <<session, wire, assembler, delivered>>

(* The server admits the client anew: its Connection counts from zero, the *)
(* client's assembler is the one it had.                                   *)
NewSession ==
    /\ session < MaxSessions
    /\ session' = session + 1 /\ nextId' = 0
    /\ spent' = [t \in Types |-> MaxJump] /\ since' = [t \in Types |-> Half]
    /\ out' = {}
    /\ UNCHANGED <<wire, assembler, delivered>>

InFlight(msgs, fragments) == {msg \in msgs : \E f \in fragments : f.msg = msg}

LoseChunk(f) ==
    /\ wire' = wire \ {f}
    /\ delivered' = InFlight(delivered, wire')
    /\ out' = {}
    /\ UNCHANGED <<sender, assembler, marks>>

-----------------------------------------------------------------------------
(* FragmentAssembler::push.                                                *)

Without(held, keys) == Restrict(held, DOMAIN held \ keys)
Chunks(held) == UNION {{<<k, i>> : i \in DOMAIN held[k].chunks} : k \in DOMAIN held}
Bytes(held) == Cardinality(Chunks(held))
Stalest(held) == {k \in DOMAIN held : \A j \in DOMAIN held : held[j].age <= held[k].age}

(* drop_group: buffered_bytes when no group but those held is left.        *)
Kept(held) ==
    LET dropped == Bytes(Restrict(groups, DOMAIN groups \ DOMAIN held))
    IN  IF dropped < buffered THEN buffered - dropped ELSE 0

(* evict_stale: the cap first, then the expired.                           *)
Expired(held) == {k \in DOMAIN held : held[k].age >= Ttl}
Swept(held) ==
    LET surplus == IF Cardinality(DOMAIN held) > MaxGroups
                   THEN Cardinality(DOMAIN held) - MaxGroups ELSE 0
    IN  {Without(held, old \cup Expired(held)) :
            old \in {s \in SUBSET DOMAIN held :
                        /\ Cardinality(s) = surplus
                        /\ \A k \in s, j \in DOMAIN held \ s : held[j].age <= held[k].age}}

NotSuperseded(t, id) ==  \* mutant: the mark of what was completed is not asked
    \A s \in seen[t] : ~Newer(s, id) /\ (Newer(id, s) => Distance(id, s) <= MaxJump)

(* Neither delivered already, nor superseded, nor too far ahead.           *)
Admissible(t, id) ==
    /\ \A c \in completed[t] : Newer(id, c)
    /\ \A s \in seen[t] : ~Newer(s, id) /\ (Newer(id, s) => Distance(id, s) <= MaxJump)

(* A newer message drops every other group of its type.                    *)
Superseded(held, t, id) ==
    IF \E s \in seen[t] : Newer(id, s)
    THEN {k \in DOMAIN held : k[1] = t /\ k[2] # id} ELSE {}

NoEviction(held) == {held}  \* mutant: the budget is not enforced

(* evict_for: the oldest groups go until the chunk fits.                   *)
RoomFor(held) ==
    IF Kept(held) < MaxBuffered THEN {held}
    ELSE {Without(held, {k}) : k \in Stalest(held)}
NoGroup(n) == [size |-> n, chunks |-> [i \in {} |-> 0], age |-> 0]
Stored(group, f) ==
    IF f.index \in DOMAIN group.chunks \/ group.size # f.msg.size THEN group
    ELSE [group EXCEPT !.chunks = [i \in DOMAIN @ \cup {f.index} |->
                                      IF i = f.index THEN f.msg ELSE @[i]],
                       !.age = 0]
Received(group) == Cardinality(DOMAIN group.chunks)
Complete(group) == Received(group) = group.size

(* assemble: the mark starts at 0 and moves only to a newer number.        *)
CompletedMark(t, id) ==
    LET mark == IF completed[t] = {} THEN {0} ELSE completed[t]
    IN  {IF Newer(id, c) THEN id ELSE c : c \in mark}

Refuse(held) ==
    /\ groups' = held /\ buffered' = Kept(held)
    /\ out' = {}
    /\ UNCHANGED <<seen, completed, marks>>

Deliver(held, group, msg) ==
    /\ groups' = Without(held, {Key(msg)})
    /\ buffered' = Kept(groups')
    /\ completed' = [completed EXCEPT ![msg.type] = CompletedMark(msg.type, msg.id)]
    /\ out' = {group.chunks[i] : i \in DOMAIN group.chunks}
    /\ since' = [since EXCEPT ![msg.type] = SpentSince(msg, Half)]

Take(held, f) ==
    LET key == Key(f.msg)
        before == IF key \in DOMAIN held THEN held[key] ELSE NoGroup(f.msg.size)
        group == Stored(before, f)
    IN  IF Complete(group) THEN Deliver(held, group, f.msg)
        ELSE /\ groups' = [k \in DOMAIN held \cup {key} |-> IF k = key THEN group ELSE held[k]]
             /\ buffered' = Kept(held) + (Received(group) - Received(before))
             /\ out' = {}
             /\ UNCHANGED <<completed, since>>

Push(f) ==
    \E held \in Swept(groups) :
        IF ~Admissible(f.msg.type, f.msg.id) THEN Refuse(held)
        ELSE /\ \E rest \in RoomFor(Without(held, Superseded(held, f.msg.type, f.msg.id))) :
                    Take(rest, f)
             /\ seen' = [seen EXCEPT ![f.msg.type] = {f.msg.id}]
             /\ spent' = [spent EXCEPT ![f.msg.type] = SpentSince(f.msg, MaxJump)]

(* A fragment arrives; the network may keep a copy of it.                  *)
ArriveChunk(f) ==
    /\ Push(f)
    /\ wire' \in {wire, wire \ {f}}
    /\ delivered' = InFlight(delivered \cup out', wire')
    /\ UNCHANGED sender

Tick ==
    /\ \E k \in DOMAIN groups : groups[k].age < Ttl
    /\ groups' = [k \in DOMAIN groups |-> [groups[k] EXCEPT !.age = Smaller(@ + 1, Ttl)]]
    /\ out' = {}
    /\ UNCHANGED <<sender, wire, seen, completed, buffered, delivered, marks>>

ChunkNext ==
    \/ \E t \in Types, n \in Sizes : SendMessage(t, n)
    \/ \E f \in wire : ArriveChunk(f) \/ LoseChunk(f)
    \/ SpendNumber
    \/ NewSession
    \/ Tick

ChunkSpec == ChunkInit /\ [][ChunkNext]_chunkVars

-----------------------------------------------------------------------------
(* No message comes out of the assembler twice, whatever copies of its     *)
(* fragments are still under way (the marks of push and assemble); said of *)
(* the first session, as a second one numbers its messages anew.           *)
DeliveredOnce == [][session = 1 => out' \cap delivered = {}]_chunkVars

(* Whatever is half received is counted to the byte, however its group     *)
(* goes, and never exceeds the budget (drop_group, assemble, evict_for).   *)
BudgetKept == buffered = Bytes(groups) /\ buffered <= MaxBuffered

(* A sender that goes on is heard, across the wrap of its counter: if one  *)
(* of its last MaxJump numbers is the mark of a type, the next message of  *)
(* that type is taken.  Two senders escape it and are excluded by name:    *)
(* one that spends more than MaxJump numbers on other types, and one whose *)
(* first completed message has a number in the upper half (the mark then   *)
(* stays at the 0 that assemble inserts).                                  *)
Hears ==
    \A t \in DOMAIN completed :
        /\ spent[t] + 1 < MaxJump
        /\ completed[t] # {0} /\ since[t] + 2 < Half
        => Admissible(t, NumberAfter(nextId))

(* make_fragments on msg_id: "receivers use it to tell interleaved         *)
(* fragmented messages apart".  What comes out is one message.             *)
Whole == Cardinality(out) <= 1
=============================================================================
