------------------------- MODULE SessionTableProofs -------------------------
(***************************************************************************)
(* The address map and the reported ends, for any number of addresses,     *)
(* connections and slots, and any length of the event queue; and the       *)
(* opening of a session, on any network and for any of its times.          *)
(***************************************************************************)
EXTENDS SessionTable, Handshake, FiniteSetTheorems, TLAPS

Opens == {"claim", "evictConn", "evictTrack", "evictRow", "evictEvent", "announce"}
Evicts == {"evictConn", "evictTrack", "evictRow", "evictEvent"}
Kinds == {"connected", "disconnected", "timeout"}
Op == [step : Steps, id : Nat, old : Nat, had : BOOLEAN, why : Reasons]

(* The connections made, and those whose opening is over.                  *)
Made == 1..(nextId - 1)
Opening == ops["receive"].step \in Opens
Known == {i \in Made : Opening => i # ops["receive"].id}

(* A connection in the middle of its opening is in no other task's hands.  *)
Types ==
    /\ nextId \in Nat \ {0} /\ live \subseteq Made
    /\ byAddr \in [Addrs -> Nat] /\ ops \in [Tasks -> Op]
    /\ rows \subseteq Known /\ silent \subseteq Known /\ aged \subseteq Known
    /\ players \subseteq Known /\ events \in Seq(Kinds \X Known)
    /\ sweep \in [{"send", "game"} -> SUBSET ({1, 2} \X Known)]

Working ==
    \A t \in Tasks :
        /\ ops[t].step \in Opens => t = "receive"
        /\ ops[t].step \notin Opens \cup {"idle"} => ops[t].id \in Known

Newcomer ==
    Opening =>
        /\ ops["receive"].id = nextId - 1 /\ ops["receive"].id \in live
        /\ home[ops["receive"].id] \in Addrs

(* The session that is evicted has lost its address already.               *)
Evicting ==
    ops["receive"].step \in Evicts =>
        /\ ops["receive"].old \in Known
        /\ home[ops["receive"].old] = home[ops["receive"].id]
        /\ byAddr[home[ops["receive"].id]] # ops["receive"].old

Unclaimed(i) == At("receive", "claim") /\ ops["receive"].id = i
Erasing(t, i) == At(t, "addr") /\ ops[t].id = i

(* An address maps to the newest connection that has claimed it; when that *)
(* one is gone, its erasure is still to come.                              *)
Mapped(a) ==
    byAddr[a] # 0 =>
        /\ byAddr[a] \in Made /\ home[byAddr[a]] = a /\ ~Unclaimed(byAddr[a])
        /\ byAddr[a] \in live \/ \E t \in Tasks : Erasing(t, byAddr[a])
        /\ \A i \in Made : home[i] = a /\ ~Unclaimed(i) => i <= byAddr[a]

TableInv == Types /\ Working /\ Newcomer /\ Evicting /\ \A a \in Addrs : Mapped(a)

(* A connection that has left the tables is reported, or the task that     *)
(* took it out has still to do so.                                         *)
Owes(t, i) ==
    ops[t].step \in {"addr", "track", "row", "event"} /\ ops[t].had /\ ops[t].id = i

Evicted(i) ==
    ops["receive"].step \in {"evictTrack", "evictRow", "evictEvent"} /\ ops["receive"].old = i

Owed(i) == Evicted(i) \/ \E t \in Tasks : Owes(t, i)

Accounted == \A i \in Made : i \in live \/ i \in reported \/ Owed(i)

-----------------------------------------------------------------------------
LEMMA TableInit == Init => TableInv /\ Accounted
  BY DEF Init, TableInv, Types, Working, Newcomer, Evicting, Mapped, Accounted, Owed,
         Made, Known, Opening, Op, Idle, Steps, Reasons, Tasks, At, Opens, Evicts

(* A removal, a step to come and an idle task are operations.              *)
LEMMA OpShapes ==
  /\ Idle \in Op /\ Idle.step = "idle"
  /\ \A i \in Nat, why \in Reasons :
        Removal(i, why) \in Op /\ Removal(i, why).step = "conn" /\ Removal(i, why).id = i
  BY DEF Idle, Op, Removal, Steps, Reasons

LEMMA BegunShape ==
  ASSUME NEW i \in Nat, NEW step \in Steps
  PROVE  /\ [Idle EXCEPT !.step = step, !.id = i] \in Op
         /\ [Idle EXCEPT !.step = step, !.id = i].step = step
         /\ [Idle EXCEPT !.step = step, !.id = i].id = i
  BY DEF Idle, Op, Steps, Reasons

(* The queue holds events of known connections, full or not.               *)
LEMMA EventShapes ==
  ASSUME NEW S, NEW q \in Seq(Kinds \X S), NEW i \in S
  PROVE  /\ \A k \in Kinds : Offer(q, <<k, i>>) \in Seq(Kinds \X S)
         /\ Emitted(q, <<"timeout">>, i) \in Seq(Kinds \X S)
         /\ \A why : Emitted(q, Farewell(why), i) \in Seq(Kinds \X S)
<1>1. \A r \in Seq(Kinds \X S), k \in Kinds : Offer(r, <<k, i>>) \in Seq(Kinds \X S)
  BY DEF Offer
<1>2. Emitted(q, <<"timeout">>, i) = Offer(q, <<"timeout", i>>)
  BY DEF Emitted
<1>3. Emitted(q, <<"disconnected">>, i) = Offer(q, <<"disconnected", i>>)
  BY DEF Emitted
<1>4. Emitted(q, <<"disconnected", "timeout">>, i)
        = Offer(Offer(q, <<"disconnected", i>>), <<"timeout", i>>)
  BY DEF Emitted
<1>5. Emitted(q, <<"disconnected">>, i) \in Seq(Kinds \X S)
  BY <1>1, <1>3 DEF Kinds
<1>6. Emitted(q, <<"disconnected", "timeout">>, i) \in Seq(Kinds \X S)
  BY <1>1, <1>4 DEF Kinds
<1>7. Emitted(q, <<"timeout">>, i) \in Seq(Kinds \X S)
  BY <1>1, <1>2 DEF Kinds
<1> QED
  BY <1>1, <1>5, <1>6, <1>7 DEF Farewell

-----------------------------------------------------------------------------
(* A step that leaves the connections, the address map and the receive     *)
(* task alone disturbs neither the newcomer nor the map.                   *)
LEMMA CoreFrame ==
  ASSUME TableInv, UNCHANGED <<nextId, home, live, byAddr>>,
         ops'["receive"] = ops["receive"],
         \A t \in Tasks : \A i : Erasing(t, i) => Erasing(t, i)'
  PROVE  /\ Made' = Made /\ Known' = Known
         /\ Newcomer' /\ Evicting' /\ \A a \in Addrs : Mapped(a)'
<1>1. Made' = Made /\ Opening' = Opening /\ Known' = Known
  BY DEF Made, Opening, Known
<1>2. \A i : Unclaimed(i)' = Unclaimed(i)
  BY DEF Unclaimed, At
<1>3. Newcomer' /\ Evicting'
  BY <1>1 DEF TableInv, Newcomer, Evicting
<1>4. ASSUME NEW a \in Addrs PROVE Mapped(a)'
  <2>1. Mapped(a)
    BY DEF TableInv
  <2> QED
    BY <1>1, <1>2, <2>1 DEF Mapped
<1> QED
  BY <1>1, <1>3, <1>4

(* A step that touches none of that, and puts an idle task to work on a    *)
(* known connection or releases it.                                        *)
LEMMA TaskStep ==
  ASSUME TableInv, UNCHANGED <<nextId, home, live, byAddr>>,
         NEW t \in {"send", "game"}, NEW o \in Op,
         ops' = [ops EXCEPT ![t] = o], ~At(t, "addr"),
         o.step \notin Opens, o.step # "idle" => o.id \in Known,
         rows' \subseteq Known, silent' \subseteq Known, aged' \subseteq Known,
         players' \subseteq Known, events' \in Seq(Kinds \X Known),
         sweep' \in [{"send", "game"} -> SUBSET ({1, 2} \X Known)]
  PROVE  TableInv'
<1>1. ops \in [Tasks -> Op] /\ t \in Tasks /\ t # "receive"
  BY DEF TableInv, Types, Tasks
<1>2. /\ ops' \in [Tasks -> Op] /\ ops'["receive"] = ops["receive"]
      /\ ops'[t] = o /\ \A u \in Tasks \ {t} : ops'[u] = ops[u]
  BY <1>1 DEF Tasks
<1>3. \A u \in Tasks : \A i : Erasing(u, i) => Erasing(u, i)'
  BY <1>1, <1>2 DEF Erasing, At
<1>4. /\ Made' = Made /\ Known' = Known
      /\ Newcomer' /\ Evicting' /\ \A a \in Addrs : Mapped(a)'
  BY <1>2, <1>3, CoreFrame
<1>5. Types'
  BY <1>2, <1>4 DEF TableInv, Types
<1>6. Working'
  BY <1>1, <1>2, <1>4 DEF TableInv, Working
<1> QED
  BY <1>4, <1>5, <1>6 DEF TableInv

(* A step of no task's program counter.                                    *)
LEMMA QuietStep ==
  ASSUME TableInv, UNCHANGED <<nextId, home, live, byAddr, ops>>,
         rows' \subseteq Known, silent' \subseteq Known, aged' \subseteq Known,
         players' \subseteq Known, events' \in Seq(Kinds \X Known),
         sweep' \in [{"send", "game"} -> SUBSET ({1, 2} \X Known)]
  PROVE  TableInv'
<1>1. \A u \in Tasks : \A i : Erasing(u, i) => Erasing(u, i)'
  BY DEF Erasing, At
<1>2. /\ Made' = Made /\ Known' = Known
      /\ Newcomer' /\ Evicting' /\ \A a \in Addrs : Mapped(a)'
  BY <1>1, CoreFrame
<1>3. Types'
  BY <1>2 DEF TableInv, Types
<1>4. Working'
  BY <1>2 DEF TableInv, Working
<1> QED
  BY <1>2, <1>3, <1>4 DEF TableInv

LEMMA QueueStep ==
  ASSUME TableInv, events # << >>
  PROVE  /\ Tail(events) \in Seq(Kinds \X Known)
         /\ \A kind, i : Head(events) = <<kind, i>> => i \in Known
<1>1. events \in Seq(Kinds \X Known)
  BY DEF TableInv, Types
<1>2. Tail(events) \in Seq(Kinds \X Known) /\ Head(events) \in Kinds \X Known
  BY <1>1
<1> QED
  BY <1>2

-----------------------------------------------------------------------------
LEMMA TimeStep ==
  ASSUME TableInv, NEW i, Silence(i) \/ Age(i)
  PROVE  TableInv'
<1>1. i \in Known
  BY DEF TableInv, Types, Silence, Age, Known
<1> QED
  BY <1>1, QuietStep DEF TableInv, Types, Silence, Age, tables

LEMMA SweepStep ==
  ASSUME TableInv, NEW t \in {"send", "game"}, Sweep(t)
  PROVE  TableInv'
<1>0. Types /\ live \cap silent \subseteq Known /\ live \cap aged \subseteq Known
  BY DEF TableInv, Types
<1>1. CASE CollectDead(t)
  <2>1. Due(t) \subseteq {1, 2} \X Known
    BY <1>0 DEF Due, TimedOut, Unregistered
  <2>2. sweep' \in [{"send", "game"} -> SUBSET ({1, 2} \X Known)]
    BY <1>0, <1>1, <2>1 DEF CollectDead, Types
  <2> QED
    BY <1>0, <1>1, <2>2, QuietStep DEF CollectDead, Types, tables, clock
<1>2. CASE SweepNext(t)
  <2>1. PICK x \in sweep[t] :
          /\ sweep' = [sweep EXCEPT ![t] = @ \ {x}]
          /\ ops' = IF t = "game" /\ x[2] \notin live THEN ops
                    ELSE [ops EXCEPT ![t] = Removal(x[2], "timeout")]
    BY <1>2 DEF SweepNext
  <2>2. x \in {1, 2} \X Known /\ x[2] \in Known /\ x[2] \in Nat
    BY <1>0, <2>1 DEF Types, Known, Made
  <2>3. sweep' \in [{"send", "game"} -> SUBSET ({1, 2} \X Known)]
    BY <1>0, <2>1 DEF Types
  <2>4. CASE ops' = ops
    BY <1>0, <1>2, <2>3, <2>4, QuietStep DEF SweepNext, Types, tables, clock
  <2>5. CASE ops' = [ops EXCEPT ![t] = Removal(x[2], "timeout")]
    <3>1. /\ Removal(x[2], "timeout") \in Op
          /\ Removal(x[2], "timeout").step = "conn" /\ Removal(x[2], "timeout").id = x[2]
      BY <2>2, OpShapes DEF Reasons
    <3> QED
      BY <1>0, <1>2, <2>2, <2>3, <2>5, <3>1, TaskStep
      DEF SweepNext, Types, tables, clock, At, Opens
  <2> QED
    BY <2>1, <2>4, <2>5
<1> QED
  BY <1>1, <1>2 DEF Sweep

LEMMA PublishStep == TableInv /\ Publishing => TableInv'
<1> SUFFICES ASSUME TableInv, Publishing PROVE TableInv'
  OBVIOUS
<1>0. Types /\ "send" \in {"send", "game"} /\ Known \subseteq Nat
  BY DEF TableInv, Types, Known, Made
<1>1. ASSUME NEW i, AdmitReady(i) \/ PassReads(i) PROVE TableInv'
  <2>1. i \in Known /\ i \in Nat
    BY <1>0, <1>1 DEF AdmitReady, PassReads, Types
  <2>2. PICK step \in {"full", "push"} :
          ops' = [ops EXCEPT !["send"] = [Idle EXCEPT !.step = step, !.id = i]]
    BY <1>1 DEF AdmitReady, PassReads
  <2>3. /\ [Idle EXCEPT !.step = step, !.id = i] \in Op
        /\ [Idle EXCEPT !.step = step, !.id = i].step = step
        /\ [Idle EXCEPT !.step = step, !.id = i].id = i
    <3>1. step \in Steps
      BY DEF Steps
    <3> QED
      BY <2>1, <3>1, BegunShape
  <2>4. UNCHANGED <<nextId, home, tables, clock, events, players, sweep>> /\ ~At("send", "addr")
    BY <1>1 DEF AdmitReady, PassReads, At
  <2> QED
    BY <1>0, <2>1, <2>2, <2>3, <2>4, TaskStep DEF Types, tables, clock, Opens
<1>2. CASE AdmitFull \/ PassPushes
  <2>1. ops["send"].id \in Known
    BY <1>0, <1>2 DEF AdmitFull, PassPushes, TableInv, Working, At, Tasks, Opens
  <2>2. /\ ops' = [ops EXCEPT !["send"] = Idle] /\ ~At("send", "addr")
        /\ UNCHANGED <<nextId, home, live, byAddr, clock, events, players, sweep>>
        /\ rows' \subseteq Known
    BY <1>0, <1>2, <2>1 DEF AdmitFull, PassPushes, Done, At, Types
  <2> QED
    BY <1>0, <2>2, OpShapes, TaskStep DEF Types, clock, Opens
<1> QED
  BY <1>1, <1>2 DEF Publishing
LEMMA GameStep ==
  ASSUME TableInv, NEW i, Spawn(i) \/ Refuse(i) \/ Despawn(i) \/ Kick(i)
  PROVE  TableInv'
<1>0. Types /\ "game" \in {"send", "game"} /\ Known \subseteq Nat
  BY DEF TableInv, Types, Known, Made
<1>1. ASSUME i \in Known, NEW why \in Reasons
      PROVE  /\ Removal(i, why) \in Op /\ Removal(i, why).step \notin Opens
             /\ Removal(i, why).id \in Known
  <2>1. i \in Nat
    BY <1>0, <1>1
  <2>2. Removal(i, why) \in Op /\ Removal(i, why).step = "conn" /\ Removal(i, why).id = i
    BY <2>1, OpShapes
  <2> QED
    BY <1>1, <2>2 DEF Opens
<1>2. CASE Spawn(i)
  <2>1. i \in Known /\ events' \in Seq(Kinds \X Known)
    BY <1>2, QueueStep DEF Spawn, NextEvent
  <2> QED
    BY <1>0, <1>2, <2>1, QuietStep DEF Spawn, Types, tables, clock
<1>3. CASE Refuse(i)
  <2>1. i \in Known /\ events' \in Seq(Kinds \X Known)
    BY <1>3, QueueStep DEF Refuse, NextEvent
  <2>2. /\ UNCHANGED <<nextId, home, tables, clock, players, sweep>> /\ ~At("game", "addr")
        /\ ops' = IF i \in live THEN [ops EXCEPT !["game"] = Removal(i, "left")] ELSE ops
    BY <1>3 DEF Refuse, NextEvent, At
  <2>3. CASE ops' = ops
    BY <1>0, <2>1, <2>2, <2>3, QuietStep DEF Types, tables, clock
  <2>4. CASE ops' = [ops EXCEPT !["game"] = Removal(i, "left")]
    <3>1. "left" \in Reasons
      BY DEF Reasons
    <3> QED
      BY <1>0, <1>1, <2>1, <2>2, <2>4, <3>1, TaskStep DEF Types, tables, clock
  <2> QED
    BY <2>2, <2>3, <2>4
<1>4. CASE Despawn(i)
  <2>1. events' \in Seq(Kinds \X Known)
    BY <1>4, QueueStep DEF Despawn, NextEvent
  <2> QED
    BY <1>0, <1>4, <2>1, QuietStep DEF Despawn, Types, tables, clock
<1>5. CASE Kick(i)
  <2>1. i \in Known
    BY <1>0, <1>5 DEF Kick, Types
  <2>2. PICK why \in {"left", "vote"} : ops' = [ops EXCEPT !["game"] = Removal(i, why)]
    BY <1>5 DEF Kick
  <2>3. why \in Reasons
    BY DEF Reasons
  <2>4. UNCHANGED <<nextId, home, tables, clock, events, players, sweep>> /\ ~At("game", "addr")
    BY <1>5 DEF Kick, At
  <2> QED
    BY <1>0, <1>1, <2>1, <2>2, <2>3, <2>4, TaskStep DEF Types, tables, clock
<1> QED
  BY <1>2, <1>3, <1>4, <1>5

-----------------------------------------------------------------------------
(* The receive task opens a session: a step within the opening keeps the   *)
(* newcomer's number, and its claim comes first.                           *)
LEMMA RegisterStep == ASSUME TableInv, NEW a \in Addrs, Register(a) PROVE TableInv'
<1> DEFINE o == [Idle EXCEPT !.step = "claim", !.id = nextId]
<1>0. Types
  BY DEF TableInv
<1>1. o \in Op /\ o.step = "claim" /\ o.id = nextId
  <2>1. nextId \in Nat /\ "claim" \in Steps
    BY <1>0 DEF Types, Steps
  <2> QED
    BY <2>1, BegunShape
<1>2. /\ ops["receive"].step = "idle" /\ nextId' = nextId + 1 /\ live' = live \cup {nextId}
      /\ home[nextId] = a /\ ops' = [ops EXCEPT !["receive"] = o]
      /\ UNCHANGED <<home, byAddr, tracks, rows, clock, events, players, sweep>>
  BY DEF Register, At
<1>3. /\ ops' \in [Tasks -> Op] /\ ops'["receive"] = o
      /\ \A t \in Tasks : t # "receive" => ops'[t] = ops[t]
  BY <1>0, <1>1, <1>2 DEF Types, Tasks
<1>4. /\ nextId \in Nat \ {0} /\ Made' = Made \cup {nextId} /\ nextId \notin Made
  BY <1>0, <1>2 DEF Types, Made
<1>5. Known = Made /\ Known' = Made
  BY <1>1, <1>2, <1>3, <1>4 DEF Known, Opening, Opens
<1>6. Types'
  BY <1>0, <1>2, <1>3, <1>4, <1>5 DEF Types, clock
<1>7. Working'
  BY <1>0, <1>1, <1>3, <1>5 DEF TableInv, Working, Opens
<1>8. Newcomer' /\ Evicting'
  BY <1>1, <1>2, <1>3, <1>4 DEF Newcomer, Evicting, Evicts
<1>9. ASSUME NEW b \in Addrs PROVE Mapped(b)'
  <2>1. Mapped(b) /\ byAddr' = byAddr /\ home' = home
    BY <1>2 DEF TableInv
  <2>2. \A i : Unclaimed(i)' <=> i = nextId
    BY <1>1, <1>3 DEF Unclaimed, At
  <2>3. \A t \in Tasks : \A i : Erasing(t, i) => Erasing(t, i)'
    BY <1>2, <1>3 DEF Erasing, At
  <2>4. \A i : ~Unclaimed(i)
    BY <1>2 DEF Unclaimed, At
  <2> QED
    BY <1>2, <1>4, <2>1, <2>2, <2>3, <2>4 DEF Mapped
<1> QED
  BY <1>6, <1>7, <1>8, <1>9 DEF TableInv

LEMMA ClaimStep == TableInv /\ Claim => TableInv'
<1> SUFFICES ASSUME TableInv, Claim PROVE TableInv'
  OBVIOUS
<1> DEFINE i == ops["receive"].id
           old == byAddr[home[i]]
<1>0. Types /\ ops["receive"].step = "claim" /\ Opening
  BY DEF TableInv, Claim, At, Opening, Opens
<1>1. i = nextId - 1 /\ i \in live /\ home[i] \in Addrs /\ i \in Made /\ i \notin Known
  BY <1>0 DEF TableInv, Newcomer, Types, Known
<1>2. /\ byAddr' = [byAddr EXCEPT ![home[i]] = i]
      /\ ops' = [ops EXCEPT !["receive"].old = old,
                            !["receive"].step = IF old = 0 THEN "announce" ELSE "evictConn"]
      /\ UNCHANGED <<nextId, home, live, tracks, rows, clock, events, players, sweep>>
  BY DEF Claim, AfterClaim
<1>3. /\ ops["receive"] \in Op /\ old \in Nat /\ i \in Nat
      /\ byAddr' \in [Addrs -> Nat] /\ byAddr'[home[i]] = i
      /\ \A b \in Addrs : b # home[i] => byAddr'[b] = byAddr[b]
  BY <1>0, <1>1, <1>2 DEF Types, Tasks, Made
<1>4. /\ ops' \in [Tasks -> Op]
      /\ ops'["receive"].id = i /\ ops'["receive"].old = old
      /\ ops'["receive"].step = IF old = 0 THEN "announce" ELSE "evictConn"
      /\ \A t \in Tasks : t # "receive" => ops'[t] = ops[t]
  BY <1>0, <1>2, <1>3 DEF Types, Tasks, Op, Steps
<1>5. Made' = Made /\ Opening' /\ Known' = Known
  BY <1>0, <1>2, <1>4 DEF Made, Opening, Known, Opens
<1>6. Types'
  BY <1>0, <1>2, <1>3, <1>4, <1>5 DEF Types, clock
<1>7. Working'
  BY <1>4, <1>5 DEF TableInv, Working, Opens
<1>8. Newcomer'
  BY <1>1, <1>2, <1>4 DEF Newcomer
<1>9. Evicting'
  <2>1. Mapped(home[i])
    BY <1>1 DEF TableInv
  <2>2. old # 0 => old \in Made /\ home[old] = home[i] /\ old # i
    BY <1>0, <1>1, <2>1 DEF Mapped, Unclaimed, At
  <2>3. old # 0 => old \in Known
    BY <2>2 DEF Known
  <2>4. ops'["receive"].step \in Evicts => old # 0
    BY <1>4 DEF Evicts
  <2>5. home' = home /\ byAddr'[home[i]] = i
    BY <1>2, <1>3
  <2> QED
    BY <1>4, <1>5, <2>2, <2>3, <2>4, <2>5 DEF Evicting
<1>10. ASSUME NEW b \in Addrs PROVE Mapped(b)'
  <2>1. \A j : ~Unclaimed(j)'
    BY <1>4 DEF Unclaimed, At
  <2>2. \A t \in Tasks : \A j : Erasing(t, j) => Erasing(t, j)'
    BY <1>0, <1>4 DEF Erasing, At
  <2>3. CASE b = home[i]
    BY <1>0, <1>1, <1>2, <1>3, <1>5, <2>1, <2>3 DEF Mapped, Made, Types
  <2>4. CASE b # home[i]
    <3>1. Mapped(b) /\ byAddr'[b] = byAddr[b] /\ live' = live /\ home' = home
      BY <1>2, <1>3, <2>4 DEF TableInv
    <3>2. \A j \in Made : home[j] = b => ~Unclaimed(j)
      BY <2>4 DEF Unclaimed
    <3> QED
      BY <1>5, <2>1, <2>2, <3>1, <3>2 DEF Mapped
  <2> QED
    BY <2>3, <2>4
<1> QED
  BY <1>6, <1>7, <1>8, <1>9, <1>10 DEF TableInv
-----------------------------------------------------------------------------
(* A task that is opening no session turns to operation o.                 *)
LEMMA OwnStep ==
  ASSUME TableInv, NEW t \in Tasks, NEW o \in Op, ops[t].step \notin Opens,
         ops' = [ops EXCEPT ![t] = o], UNCHANGED <<nextId, home>>,
         o.step \notin Opens, o.step # "idle" => o.id \in Known
  PROVE  /\ ops' \in [Tasks -> Op] /\ ops'[t] = o
         /\ \A u \in Tasks \ {t} : ops'[u] = ops[u]
         /\ Made' = Made /\ Known' = Known /\ Working'
         /\ live' \subseteq live /\ (\A i \in live \ live' : i \in Known) => Newcomer'
         /\ byAddr' = byAddr => Evicting'
         /\ \A i : Unclaimed(i)' = Unclaimed(i)
<1>1. ops \in [Tasks -> Op] /\ "receive" \in Tasks
  BY DEF TableInv, Types, Tasks
<1>2. /\ ops' \in [Tasks -> Op] /\ ops'[t] = o
      /\ \A u \in Tasks \ {t} : ops'[u] = ops[u]
  BY <1>1
<1>3. Opening' = Opening /\ (Opening => ops'["receive"] = ops["receive"])
  BY <1>1, <1>2 DEF Opening
<1>4. Made' = Made /\ Known' = Known
  BY <1>3 DEF Made, Known
<1>5. Working'
  BY <1>1, <1>2, <1>4 DEF TableInv, Working
<1>6. live' \subseteq live /\ (\A i \in live \ live' : i \in Known) => Newcomer'
  BY <1>3 DEF TableInv, Newcomer, Known
<1>7. \A step \in Opens : At("receive", step)' = At("receive", step)
  BY <1>1, <1>2, <1>3 DEF At, Opening
<1>8. byAddr' = byAddr => Evicting'
  <2>1. ops'["receive"].step \in Evicts => Opening'
    BY DEF Opening, Opens, Evicts
  <2> QED
    BY <1>3, <1>4, <2>1 DEF TableInv, Evicting
<1>9. \A i : Unclaimed(i)' = Unclaimed(i)
  <2>1. At("receive", "claim") => Opening
    BY DEF At, Opening, Opens
  <2> QED
    BY <1>3, <1>7, <2>1 DEF Unclaimed, Opens
<1> QED
  BY <1>2, <1>4, <1>5, <1>6, <1>8, <1>9

(* The operation a removal turns to.                                       *)
LEMMA NextWindow ==
  ASSUME TableInv, NEW t \in Tasks, NEW step \in Steps, NEW b \in BOOLEAN
  PROVE  /\ [ops[t] EXCEPT !.step = step, !.had = b] \in Op
         /\ [ops[t] EXCEPT !.step = step, !.had = b].step = step
         /\ [ops[t] EXCEPT !.step = step, !.had = b].id = ops[t].id
         /\ [ops[t] EXCEPT !.step = step] \in Op
         /\ [ops[t] EXCEPT !.step = step].step = step
         /\ [ops[t] EXCEPT !.step = step].id = ops[t].id
<1>1. ops[t] \in Op
  BY DEF TableInv, Types
<1> QED
  BY <1>1, ZenonT(60) DEF Op

LEMMA RemoveConnStep == ASSUME TableInv, NEW t \in Tasks, RemoveConn(t) PROVE TableInv'
<1> DEFINE i == ops[t].id
           o == [ops[t] EXCEPT !.step = "addr", !.had = i \in live]
<1>0. Types /\ ops[t].step = "conn" /\ ops[t].step \notin Opens /\ i \in Known
  BY DEF TableInv, Working, RemoveConn, At, Opens
<1>1. o \in Op /\ o.step = "addr" /\ o.id = i
  <2>1. "addr" \in Steps /\ (i \in live) \in BOOLEAN
    BY DEF Steps
  <2> QED
    BY <2>1, NextWindow, ZenonT(60)
<1>2. /\ ops' = [ops EXCEPT ![t] = o] /\ live' = live \ {i}
      /\ silent' = silent \ {i} /\ aged' = aged \ {i}
      /\ UNCHANGED <<nextId, home, byAddr, tracks, rows, events, players, sweep>>
  BY <1>0 DEF RemoveConn, Removed, TableInv, Types
<1>3. /\ ops' \in [Tasks -> Op] /\ ops'[t] = o
      /\ \A u \in Tasks \ {t} : ops'[u] = ops[u]
      /\ Made' = Made /\ Known' = Known /\ Working' /\ Newcomer' /\ Evicting'
      /\ \A j : Unclaimed(j)' = Unclaimed(j)
  BY <1>0, <1>1, <1>2, OwnStep DEF Opens
<1>4. Types'
  BY <1>0, <1>2, <1>3 DEF Types
<1>5. ASSUME NEW a \in Addrs PROVE Mapped(a)'
  <2>1. Mapped(a)
    BY DEF TableInv
  <2>2. Erasing(t, i)'
    BY <1>1, <1>3 DEF Erasing, At
  <2>3. \A u \in Tasks : \A j : Erasing(u, j) => Erasing(u, j)'
    BY <1>0, <1>3 DEF Erasing, At
  <2> QED
    BY <1>2, <1>3, <2>1, <2>2, <2>3 DEF Mapped
<1> QED
  BY <1>3, <1>4, <1>5 DEF TableInv

(* The erasure drops whatever the address maps to: a newer session too.    *)
LEMMA RemoveAddrStep == ASSUME TableInv, NEW t \in Tasks, RemoveAddr(t) PROVE TableInv'
<1> DEFINE i == ops[t].id
           o == [ops[t] EXCEPT !.step = "track"]
<1>0. Types /\ ops[t].step = "addr" /\ ops[t].step \notin Opens /\ i \in Known
  BY DEF TableInv, Working, RemoveAddr, At, Opens
<1>1. o \in Op /\ o.step = "track" /\ o.id = i
  <2>1. "track" \in Steps
    BY DEF Steps
  <2> QED
    BY <2>1, NextWindow
<1>2. /\ ops' = [ops EXCEPT ![t] = o] /\ byAddr' = [byAddr EXCEPT ![home[i]] = 0]
      /\ UNCHANGED <<nextId, home, live, tracks, rows, clock, events, players, sweep>>
  BY <1>0 DEF RemoveAddr, Unmapped, Goto, TableInv, Types
<1>3. /\ ops' \in [Tasks -> Op] /\ ops'[t] = o
      /\ \A u \in Tasks \ {t} : ops'[u] = ops[u]
      /\ Made' = Made /\ Known' = Known /\ Working' /\ Newcomer'
      /\ \A j : Unclaimed(j)' = Unclaimed(j)
  BY <1>0, <1>1, <1>2, OwnStep DEF Opens
<1>4. /\ byAddr' \in [Addrs -> Nat]
      /\ \A a \in Addrs : byAddr'[a] = IF a = home[i] THEN 0 ELSE byAddr[a]
  BY <1>0, <1>2 DEF Types
<1>5. Types'
  BY <1>0, <1>2, <1>3, <1>4 DEF Types, clock
<1>6. Evicting'
  <2> SUFFICES ASSUME ops'["receive"].step \in Evicts PROVE Evicting'
    BY DEF Evicting
  <2> DEFINE r == ops["receive"]
  <2>1. ops'["receive"] = r /\ r.step \in Evicts /\ r.step \in Opens
    <3>1. t # "receive"
      BY <1>1, <1>3 DEF Evicts
    <3> QED
      BY <1>3, <3>1 DEF Tasks, Evicts, Opens
  <2>2. home[r.id] \in Addrs
    BY <2>1 DEF TableInv, Newcomer, Opening
  <2>3. r.old \in Known /\ home[r.old] = home[r.id] /\ byAddr[home[r.id]] # r.old
    BY <2>1 DEF TableInv, Evicting
  <2>4. r.old # 0
    BY <1>0, <2>3 DEF Known, Made, Types
  <2>5. byAddr'[home[r.id]] # r.old
    BY <1>4, <2>2, <2>3, <2>4
  <2> QED
    BY <1>2, <1>3, <2>1, <2>3, <2>5 DEF Evicting
<1>7. ASSUME NEW a \in Addrs PROVE Mapped(a)'
  <2>1. Mapped(a)
    BY DEF TableInv
  <2>2. CASE a = home[i]
    BY <1>4, <2>2 DEF Mapped
  <2>3. CASE a # home[i]
    <3>1. byAddr'[a] = byAddr[a] /\ (byAddr[a] # 0 => byAddr[a] # i)
      BY <1>4, <2>1, <2>3 DEF Mapped
    <3>2. \A u \in Tasks : \A j : j # i /\ Erasing(u, j) => Erasing(u, j)'
      BY <1>3 DEF Erasing, At
    <3> QED
      BY <1>2, <1>3, <2>1, <3>1, <3>2 DEF Mapped
  <2> QED
    BY <2>2, <2>3
<1> QED
  BY <1>3, <1>5, <1>6, <1>7 DEF TableInv
LEMMA RemoveRestStep ==
  ASSUME TableInv, NEW t \in Tasks, RemoveTrack(t) \/ RemoveRow(t) \/ EmitGone(t)
  PROVE  TableInv'
<1> DEFINE i == ops[t].id
<1>0. /\ Types /\ ops[t].step \in {"track", "row", "event"} /\ ops[t].step \notin Opens
      /\ i \in Known
  BY DEF TableInv, Working, RemoveTrack, RemoveRow, EmitGone, At, Opens
<1>1. PICK o \in Op : /\ ops' = [ops EXCEPT ![t] = o]
                      /\ o.step \in {"row", "event", "idle"} /\ o.id \in {i, 0}
                      /\ o.step # "idle" => o.id = i
  <2>1. CASE RemoveTrack(t)
    <3>1. "row" \in Steps
      BY DEF Steps
    <3>2. [ops[t] EXCEPT !.step = "row"] \in Op
      BY <3>1, NextWindow
    <3> QED
      BY <1>0, <2>1, <3>1, <3>2, NextWindow DEF RemoveTrack, Goto, Types
  <2>2. CASE RemoveRow(t)
    <3>1. "event" \in Steps
      BY DEF Steps
    <3>2. [ops[t] EXCEPT !.step = "event"] \in Op
      BY <3>1, NextWindow
    <3> QED
      BY <1>0, <2>2, <3>1, <3>2, NextWindow DEF RemoveRow, Goto, Types
  <2>3. CASE EmitGone(t)
    <3>1. ops' = [ops EXCEPT ![t] = Idle] /\ Idle.id = 0
      BY <2>3 DEF EmitGone, Done, Idle
    <3> QED
      BY <3>1, OpShapes
  <2> QED
    BY <2>1, <2>2, <2>3
<1>2. /\ UNCHANGED <<nextId, home, live, byAddr, clock, sweep>>
      /\ rows' \subseteq rows /\ players' \subseteq players
  BY DEF RemoveTrack, RemoveRow, EmitGone, tables
<1>3. /\ ops' \in [Tasks -> Op] /\ ops'[t] = o
      /\ \A u \in Tasks \ {t} : ops'[u] = ops[u]
      /\ Made' = Made /\ Known' = Known /\ Working' /\ Newcomer' /\ Evicting'
      /\ \A j : Unclaimed(j)' = Unclaimed(j)
  BY <1>0, <1>1, <1>2, OwnStep DEF Opens
<1>4. events' \in Seq(Kinds \X Known)
  <2>1. events \in Seq(Kinds \X Known)
    BY <1>0 DEF Types
  <2>2. \A why : Emitted(events, Farewell(why), i) \in Seq(Kinds \X Known)
    BY <1>0, <2>1, EventShapes
  <2> QED
    BY <2>1, <2>2 DEF RemoveTrack, RemoveRow, EmitGone, Gone
<1>5. Types'
  BY <1>0, <1>2, <1>3, <1>4 DEF Types, clock
<1>6. ASSUME NEW a \in Addrs PROVE Mapped(a)'
  <2>1. Mapped(a)
    BY DEF TableInv
  <2>2. \A u \in Tasks : \A j : Erasing(u, j) => Erasing(u, j)'
    BY <1>0, <1>3 DEF Erasing, At
  <2> QED
    BY <1>2, <1>3, <2>1, <2>2 DEF Mapped
<1> QED
  BY <1>3, <1>5, <1>6 DEF TableInv

LEMMA RemoveStep == ASSUME TableInv, NEW t \in Tasks, TakeDown(t) PROVE TableInv'
  BY RemoveConnStep, RemoveAddrStep, RemoveRestStep DEF TakeDown

-----------------------------------------------------------------------------
(* The windows of an eviction, one after the other.                        *)
LEMMA EvictStep ==
  ASSUME TableInv, EvictConn \/ EvictTrack \/ EvictRow \/ EvictEvent
  PROVE  TableInv'
<1> DEFINE r == ops["receive"]
<1>0. Types /\ r.step \in Evicts /\ r.step # "claim" /\ Opening /\ "receive" \in Tasks
  BY DEF TableInv, EvictConn, EvictTrack, EvictRow, EvictEvent, At, Opening, Opens, Evicts, Tasks
<1>1. /\ r.old \in Known /\ home[r.old] = home[r.id] /\ byAddr[home[r.id]] # r.old
      /\ r.id = nextId - 1 /\ r.id \in live /\ home[r.id] \in Addrs /\ r.old # r.id
  BY <1>0 DEF TableInv, Evicting, Newcomer, Known
<1>2. PICK step \in Evicts \cup {"announce"} : ops' = [ops EXCEPT !["receive"].step = step]
  BY DEF EvictConn, EvictTrack, EvictRow, EvictEvent, Goto, Evicts
<1>3. /\ ops' \in [Tasks -> Op]
      /\ ops'["receive"].id = r.id /\ ops'["receive"].old = r.old
      /\ ops'["receive"].step = step
      /\ \A t \in Tasks : t # "receive" => ops'[t] = ops[t]
  <2>1. step \in Steps /\ r \in Op
    BY <1>0 DEF Steps, Evicts, Types
  <2> QED
    BY <1>0, <1>2, <2>1 DEF Types, Op
<1>4. /\ UNCHANGED <<nextId, home, byAddr, players, sweep>> /\ rows' \subseteq rows
      /\ silent' \subseteq silent /\ aged' \subseteq aged
      /\ live' = live \/ live' = live \ {r.old}
  BY DEF EvictConn, EvictTrack, EvictRow, EvictEvent, Removed, tables, clock
<1>5. Made' = Made /\ Opening' /\ Known' = Known
  BY <1>0, <1>3, <1>4 DEF Made, Opening, Known, Opens, Evicts
<1>6. events' \in Seq(Kinds \X Known)
  <2>1. events \in Seq(Kinds \X Known)
    BY <1>0 DEF Types
  <2>2. Emitted(events, <<"timeout">>, r.old) \in Seq(Kinds \X Known)
    BY <1>1, <2>1, EventShapes
  <2> QED
    BY <2>1, <2>2 DEF EvictConn, EvictTrack, EvictRow, EvictEvent, Replaced, Gone
<1>7. Types'
  BY <1>0, <1>3, <1>4, <1>5, <1>6 DEF Types
<1>8. Working'
  BY <1>3, <1>5 DEF TableInv, Working, Opens, Evicts
<1>9. Newcomer' /\ Evicting'
  BY <1>1, <1>3, <1>4, <1>5 DEF Newcomer, Evicting
<1>10. ASSUME NEW a \in Addrs PROVE Mapped(a)'
  <2>1. Mapped(a)
    BY DEF TableInv
  <2>2. \A j : ~Unclaimed(j) /\ ~Unclaimed(j)'
    BY <1>0, <1>3 DEF Unclaimed, At, Evicts
  <2>3. \A t \in Tasks : \A j : Erasing(t, j) => Erasing(t, j)'
    BY <1>0, <1>3 DEF Erasing, At, Evicts
  <2>4. byAddr[a] # 0 => byAddr[a] # r.old
    BY <1>1, <2>1 DEF Mapped
  <2> QED
    BY <1>4, <1>5, <2>1, <2>2, <2>3, <2>4 DEF Mapped
<1> QED
  BY <1>7, <1>8, <1>9, <1>10 DEF TableInv
(* The newcomer is one of the known from here on.                          *)
LEMMA AnnounceStep == TableInv /\ Announce => TableInv'
<1> SUFFICES ASSUME TableInv, Announce PROVE TableInv'
  OBVIOUS
<1> DEFINE i == ops["receive"].id
<1>0. Types /\ ops["receive"].step = "announce" /\ Opening
  BY DEF TableInv, Announce, At, Opening, Opens
<1>1. /\ ops' = [ops EXCEPT !["receive"] = Idle]
      /\ events' = Offer(events, <<"connected", i>>)
      /\ UNCHANGED <<nextId, home, tables, clock, players, sweep>>
  BY DEF Announce, Done
<1>2. /\ ops' \in [Tasks -> Op] /\ ops'["receive"] = Idle /\ Idle.step = "idle"
      /\ \A t \in Tasks : t # "receive" => ops'[t] = ops[t]
  BY <1>0, <1>1, OpShapes DEF Types, Tasks
<1>3. Made' = Made /\ i \in Made /\ Known' = Made /\ Known \subseteq Made
  BY <1>0, <1>1, <1>2 DEF TableInv, Types, Newcomer, Made, Known, Opening, Opens
<1>4. events' \in Seq(Kinds \X Made)
  <2>1. events \in Seq(Kinds \X Made)
    BY <1>0, <1>3 DEF Types
  <2>2. "connected" \in Kinds
    BY DEF Kinds
  <2> QED
    BY <1>1, <1>3, <2>1, <2>2, EventShapes
<1>5. Types'
  BY <1>0, <1>1, <1>2, <1>3, <1>4 DEF Types, tables, clock
<1>6. Working' /\ Newcomer' /\ Evicting'
  BY <1>0, <1>2, <1>3 DEF TableInv, Working, Newcomer, Evicting, Opening, Opens, Evicts
<1>7. ASSUME NEW a \in Addrs PROVE Mapped(a)'
  <2>1. Mapped(a)
    BY DEF TableInv
  <2>2. \A j : ~Unclaimed(j) /\ ~Unclaimed(j)'
    BY <1>0, <1>2 DEF Unclaimed, At
  <2>3. \A t \in Tasks : \A j : Erasing(t, j) => Erasing(t, j)'
    BY <1>0, <1>2 DEF Erasing, At
  <2> QED
    BY <1>1, <1>3, <2>1, <2>2, <2>3 DEF Mapped, tables
<1> QED
  BY <1>5, <1>6, <1>7 DEF TableInv

LEMMA DatagramStep ==
  ASSUME TableInv, NEW a \in Addrs, Disconnect(a) \/ Beat(a)
  PROVE  TableInv'
<1> DEFINE i == byAddr[a]
           o == Removal(i, "left")
<1>0. /\ Types /\ ops["receive"].step = "idle" /\ ~Opening /\ Known = Made
      /\ i \in Known /\ i \in Nat /\ "receive" \in Tasks
  BY DEF TableInv, Types, Disconnect, Beat, At, Opening, Opens, Known, Made, Tasks
<1>1. CASE Beat(a)
  BY <1>0, <1>1, QuietStep DEF Beat, Types, tables
<1>2. CASE Disconnect(a)
  <2>1. o \in Op /\ o.step = "conn" /\ o.id = i
    <3>1. "left" \in Reasons
      BY DEF Reasons
    <3> QED
      BY <1>0, <3>1, OpShapes
  <2>2. /\ ops' = [ops EXCEPT !["receive"] = o]
        /\ UNCHANGED <<nextId, home, tables, clock, events, players, sweep>>
    BY <1>2 DEF Disconnect
  <2>3. /\ ops' \in [Tasks -> Op] /\ ops'["receive"] = o
        /\ \A u \in Tasks \ {"receive"} : ops'[u] = ops[u]
        /\ Made' = Made /\ Known' = Known /\ Working' /\ Newcomer' /\ Evicting'
        /\ \A j : Unclaimed(j)' = Unclaimed(j)
    BY <1>0, <2>1, <2>2, OwnStep DEF Opens, tables
  <2>4. Types'
    BY <1>0, <2>2, <2>3 DEF Types, tables, clock
  <2>5. ASSUME NEW b \in Addrs PROVE Mapped(b)'
    <3>1. Mapped(b)
      BY DEF TableInv
    <3>2. \A u \in Tasks : \A j : Erasing(u, j) => Erasing(u, j)'
      BY <1>0, <2>3 DEF Erasing, At
    <3> QED
      BY <2>2, <2>3, <3>1, <3>2 DEF Mapped, tables
  <2> QED
    BY <2>3, <2>4, <2>5 DEF TableInv
<1> QED
  BY <1>1, <1>2

LEMMA TableStep == TableInv /\ [Next]_vars => TableInv'
<1> SUFFICES ASSUME TableInv, [Next]_vars PROVE TableInv'
  OBVIOUS
<1>1. CASE Receive
  BY <1>1, RegisterStep, DatagramStep, ClaimStep, EvictStep, AnnounceStep, RemoveStep
  DEF Receive, Tasks
<1>2. CASE Send
  BY <1>2, SweepStep, PublishStep, RemoveStep DEF Send, Sweeping, Tasks
<1>3. CASE Game
  BY <1>3, GameStep, SweepStep, RemoveStep DEF Game, Tasks
<1>4. CASE \E i \in Ids : Silence(i) \/ Age(i)
  BY <1>4, TimeStep
<1>5. CASE UNCHANGED vars
  BY <1>5, QuietStep DEF vars, tables, clock, TableInv, Types
<1> QED
  BY <1>1, <1>2, <1>3, <1>4, <1>5 DEF Next

(* An address at rest maps to nobody or to its newest live connection,     *)
(* whichever tasks raced over it (remove_connection,                       *)
(* claim_addr_and_evict_replaced_session).                                 *)
THEOREM TheMapIsCurrent == Spec => []MappingIsCurrent
<1>1. TableInv => MappingIsCurrent
  <2> SUFFICES ASSUME TableInv, Resting, NEW a \in Addrs, byAddr[a] # 0
               PROVE  byAddr[a] \in live /\ \A i \in live : home[i] = a => i <= byAddr[a]
    BY DEF MappingIsCurrent
  <2>1. Mapped(a) /\ live \subseteq Made
    BY DEF TableInv, Types
  <2>2. \A t \in Tasks : ~Erasing(t, byAddr[a])
    BY DEF Resting, Erasing, At
  <2>3. \A i \in Made : ~Unclaimed(i)
    BY DEF Resting, Unclaimed, At, Tasks
  <2> QED
    BY <2>1, <2>2, <2>3 DEF Mapped
<1> QED
  BY TableInit, TableStep, <1>1, PTL DEF Spec
-----------------------------------------------------------------------------
(* A step that takes nothing out and forgives no task what it owes.        *)
LEMMA AccountFrame ==
  ASSUME Accounted, Made' = Made, live \subseteq live', reported \subseteq reported',
         \A i \in Made : Owed(i) => Owed(i)' \/ i \in reported'
  PROVE  Accounted'
  BY DEF Accounted

(* A task that owes nothing turns to another operation.                    *)
LEMMA FreeTurn ==
  ASSUME TableInv, Accounted, NEW t \in Tasks, NEW o,
         ops' = [ops EXCEPT ![t] = o] \/ ops' = ops,
         ops[t].step \in {"idle", "conn", "full", "push", "claim", "announce"},
         nextId' = nextId, live' = live, reported' = reported
  PROVE  Accounted'
<1>1. ops \in [Tasks -> Op] /\ "receive" \in Tasks
  BY DEF TableInv, Types, Tasks
<1>2. \A u \in Tasks : u # t => ops'[u] = ops[u]
  BY <1>1
<1>3. \A i \in Made : Owed(i) => Owed(i)'
  <2>1. \A i \in Made : Evicted(i) => Evicted(i)'
    BY <1>1, <1>2 DEF Evicted
  <2>2. \A u \in Tasks, i \in Made : Owes(u, i) => Owes(u, i)'
    BY <1>1, <1>2 DEF Owes
  <2> QED
    BY <2>1, <2>2 DEF Owed
<1> QED
  BY <1>3, AccountFrame DEF Made

(* A removal owes the report from the window that takes the connection     *)
(* out, if it was there, to the event.                                     *)
LEMMA RemoveAccounts == ASSUME TableInv, Accounted, NEW t \in Tasks, TakeDown(t) PROVE Accounted'
<1> DEFINE i == ops[t].id
<1>0. ops \in [Tasks -> Op] /\ "receive" \in Tasks /\ nextId' = nextId /\ Made' = Made
  BY DEF TableInv, Types, Tasks, TakeDown, RemoveConn, RemoveAddr, RemoveTrack, RemoveRow,
         EmitGone, Made
<1>1. CASE RemoveConn(t)
  <2>1. /\ ops[t].step = "conn" /\ live' = live \ {i} /\ reported' = reported
        /\ \A u \in Tasks : u # t => ops'[u] = ops[u]
        /\ ops'[t].step = "addr" /\ ops'[t].id = i
        /\ i \in live => ops'[t].had
    BY <1>0, <1>1 DEF RemoveConn, Removed, At, Op
  <2>2. \A j \in Made : Evicted(j) => Evicted(j)'
    BY <1>0, <2>1 DEF Evicted
  <2>3. \A u \in Tasks, j \in Made : Owes(u, j) => Owes(u, j)'
    BY <1>0, <2>1 DEF Owes
  <2>4. i \in live => Owes(t, i)'
    BY <2>1 DEF Owes
  <2> QED
    BY <1>0, <2>1, <2>2, <2>3, <2>4 DEF Accounted, Owed
<1>2. CASE RemoveAddr(t) \/ RemoveTrack(t) \/ RemoveRow(t)
  <2>1. /\ ops[t].step \in {"addr", "track", "row"} /\ live' = live /\ reported' = reported
        /\ \A u \in Tasks : u # t => ops'[u] = ops[u]
        /\ ops'[t].step \in {"track", "row", "event"} /\ ops'[t].id = i
        /\ ops'[t].had = ops[t].had
    BY <1>0, <1>2 DEF RemoveAddr, RemoveTrack, RemoveRow, Goto, At, Op
  <2>2. \A j \in Made : Evicted(j) => Evicted(j)'
    BY <1>0, <2>1 DEF Evicted
  <2>3. \A u \in Tasks, j \in Made : Owes(u, j) => Owes(u, j)'
    BY <1>0, <2>1 DEF Owes
  <2>4. \A j \in Made : Owed(j) => Owed(j)'
    BY <2>2, <2>3 DEF Owed
  <2> QED
    BY <1>0, <2>1, <2>4, AccountFrame
<1>3. CASE EmitGone(t)
  <2>1. /\ ops[t].step = "event" /\ live' = live /\ reported \subseteq reported'
        /\ \A u \in Tasks : u # t => ops'[u] = ops[u]
        /\ ops[t].had => i \in reported'
    BY <1>0, <1>3 DEF EmitGone, Gone, Done, At, tables
  <2>2. \A j \in Made : Evicted(j) => Evicted(j)'
    BY <1>0, <2>1 DEF Evicted
  <2>3. \A u \in Tasks, j \in Made : Owes(u, j) => Owes(u, j)' \/ j \in reported'
    BY <1>0, <2>1 DEF Owes
  <2>4. \A j \in Made : Owed(j) => Owed(j)' \/ j \in reported'
    BY <2>2, <2>3 DEF Owed
  <2> QED
    BY <1>0, <2>1, <2>4, AccountFrame
<1> QED
  BY <1>1, <1>2, <1>3 DEF TakeDown

(* And so does an eviction, of the session it has replaced.                *)
LEMMA EvictAccounts ==
  ASSUME TableInv, Accounted, EvictConn \/ EvictTrack \/ EvictRow \/ EvictEvent
  PROVE  Accounted'
<1> DEFINE r == ops["receive"]
<1>0. /\ ops \in [Tasks -> Op] /\ "receive" \in Tasks /\ r \in Op
      /\ nextId' = nextId /\ Made' = Made
  BY DEF TableInv, Types, Tasks, EvictConn, EvictTrack, EvictRow, EvictEvent, Made
<1>1. PICK step \in {"evictTrack", "evictRow", "evictEvent", "announce"} :
        /\ ops' = [ops EXCEPT !["receive"].step = step]
        /\ step = "announce" => EvictEvent
  BY DEF EvictConn, EvictTrack, EvictRow, EvictEvent, Goto
<1>2. /\ r.step \in Evicts /\ ops'["receive"].old = r.old /\ ops'["receive"].step = step
      /\ \A u \in Tasks : u # "receive" => ops'[u] = ops[u]
  BY <1>0, <1>1 DEF EvictConn, EvictTrack, EvictRow, EvictEvent, At, Op, Evicts
<1>3. /\ live \ {r.old} \subseteq live' /\ reported \subseteq reported'
      /\ step = "announce" => r.old \in reported' /\ live' = live
  BY <1>0, <1>1 DEF EvictConn, EvictTrack, EvictRow, EvictEvent, Removed, Replaced, Gone, tables
<1>4. \A j \in Made : j = r.old => j \in reported' \/ Evicted(j)'
  BY <1>1, <1>2, <1>3 DEF Evicted
<1>5. \A j \in Made : Evicted(j) => j = r.old
  BY DEF Evicted
<1>6. \A u \in Tasks, j \in Made : Owes(u, j) => Owes(u, j)'
  BY <1>0, <1>2 DEF Owes, Evicts
<1> QED
  BY <1>0, <1>3, <1>4, <1>5, <1>6 DEF Accounted, Owed
LEMMA OpenAccounts ==
  ASSUME TableInv, Accounted, (\E a \in Addrs : Register(a)) \/ Claim \/ Announce
  PROVE  Accounted'
<1>0. ops \in [Tasks -> Op] /\ "receive" \in Tasks
  BY DEF TableInv, Types, Tasks
<1>1. CASE \E a \in Addrs : Register(a)
  <2>1. /\ ops["receive"].step = "idle" /\ live' = live \cup {nextId} /\ reported' = reported
        /\ nextId' = nextId + 1
        /\ \A u \in Tasks : u # "receive" => ops'[u] = ops[u]
    BY <1>0, <1>1 DEF Register, At
  <2>2. \A j : Owed(j) => Owed(j)'
    BY <1>0, <2>1 DEF Owed, Owes, Evicted
  <2>3. Made' \subseteq Made \cup {nextId}
    BY <2>1 DEF Made, TableInv, Types
  <2> QED
    BY <2>1, <2>2, <2>3 DEF Accounted
<1>2. CASE Claim
  <2>1. /\ ops["receive"].step = "claim" /\ Made' = Made
        /\ live' = live /\ reported' = reported
        /\ \A u \in Tasks : u # "receive" => ops'[u] = ops[u]
    BY <1>0, <1>2 DEF Claim, At, Made
  <2>2. \A j \in Made : Owed(j) => Owed(j)'
    BY <1>0, <2>1 DEF Owed, Owes, Evicted
  <2> QED
    BY <2>1, <2>2, AccountFrame
<1>3. CASE Announce
  BY <1>0, <1>3, FreeTurn DEF Announce, Done, At, tables
<1> QED
  BY <1>1, <1>2, <1>3

LEMMA AccountStep == TableInv /\ Accounted /\ [Next]_vars => Accounted'
<1> SUFFICES ASSUME TableInv, Accounted, [Next]_vars PROVE Accounted'
  OBVIOUS
<1>0. "receive" \in Tasks /\ "send" \in Tasks /\ "game" \in Tasks
  BY DEF Tasks
<1>1. ASSUME UNCHANGED <<nextId, live, reported, ops>> PROVE Accounted'
  BY <1>1 DEF Accounted, Made, Owed, Owes, Evicted
<1>2. ASSUME NEW t \in {"send", "game"}, Sweep(t) PROVE Accounted'
  <2>1. CASE CollectDead(t)
    BY <1>1, <2>1 DEF CollectDead, tables
  <2>2. CASE SweepNext(t)
    <3>1. PICK x : ops' = IF t = "game" /\ x[2] \notin live THEN ops
                         ELSE [ops EXCEPT ![t] = Removal(x[2], "timeout")]
      BY <2>2 DEF SweepNext
    <3> QED
      BY <1>0, <2>2, <3>1, FreeTurn DEF SweepNext, At, tables
  <2> QED
    BY <1>2, <2>1, <2>2 DEF Sweep
<1>3. ASSUME NEW a \in Addrs, Disconnect(a) \/ Beat(a) PROVE Accounted'
  <2>1. CASE Disconnect(a)
    BY <1>0, <2>1, FreeTurn DEF Disconnect, At, tables
  <2>2. CASE Beat(a)
    BY <1>1, <2>2 DEF Beat, tables
  <2> QED
    BY <1>3, <2>1, <2>2
<1>4. CASE Publishing
  <2>1. ASSUME NEW i, AdmitReady(i) \/ PassReads(i) PROVE Accounted'
    BY <1>0, <2>1, FreeTurn DEF AdmitReady, PassReads, At, tables
  <2>2. CASE AdmitFull \/ PassPushes
    BY <1>0, <2>2, FreeTurn DEF AdmitFull, PassPushes, Done, At
  <2> QED
    BY <1>4, <2>1, <2>2 DEF Publishing
<1>5. ASSUME NEW i, Spawn(i) \/ Refuse(i) \/ Despawn(i) \/ Kick(i) PROVE Accounted'
  <2>1. CASE Spawn(i) \/ Despawn(i)
    BY <1>1, <2>1 DEF Spawn, Despawn, tables
  <2>2. CASE Refuse(i)
    BY <1>0, <2>2, FreeTurn DEF Refuse, NextEvent, At, tables
  <2>3. CASE Kick(i)
    BY <1>0, <2>3, FreeTurn DEF Kick, At, tables
  <2> QED
    BY <1>5, <2>1, <2>2, <2>3
<1>6. CASE \E i \in Ids : Silence(i) \/ Age(i)
  BY <1>1, <1>6 DEF Silence, Age, tables
<1>7. CASE UNCHANGED vars
  BY <1>1, <1>7 DEF vars, tables
<1>8. CASE Receive
  BY <1>0, <1>3, <1>8, OpenAccounts, EvictAccounts, RemoveAccounts DEF Receive
<1>9. CASE Send
  BY <1>0, <1>2, <1>4, <1>9, RemoveAccounts DEF Send, Sweeping
<1>10. CASE Game
  BY <1>0, <1>2, <1>5, <1>10, RemoveAccounts DEF Game
<1> QED
  BY <1>6, <1>7, <1>8, <1>9, <1>10 DEF Next

(* No connection leaves the tables unreported: of the tasks that race to   *)
(* remove it, the one that took it out tells the game loop                 *)
(* (remove_connection, sweep_timeouts, disconnect_client).                 *)
THEOREM EveryEndIsReported == Spec => []GoneIsReported
<1>1. TableInv /\ Accounted => GoneIsReported
  <2> SUFFICES ASSUME Accounted, Resting, NEW i \in Made, i \notin live PROVE i \in reported
    BY DEF GoneIsReported, Made
  <2>1. ~Owed(i)
    BY DEF Owed, Owes, Evicted, Resting, At, Tasks
  <2> QED
    BY <2>1 DEF Accounted
<1> QED
  BY TableInit, TableStep, AccountStep, <1>1, PTL DEF Spec

-----------------------------------------------------------------------------
(* What the game loop still has to hear of a connection that is gone and   *)
(* that no task owes a report of: its end is in the queue, after every     *)
(* announcement of it and for as long as it has a player.                  *)
Farewells(i) == {<<"disconnected", i>>, <<"timeout", i>>}
SaidAfter(p, i) == \E q \in 1..Len(events) : p < q /\ events[q] \in Farewells(i)

Mourned(i) ==
    /\ i \in players => SaidAfter(0, i)
    /\ \A p \in 1..Len(events) : events[p] = <<"connected", i>> => SaidAfter(p, i)

GhostFree == \A i \in Known \ live : Owed(i) \/ Mourned(i)

(* The queue has room for the two events of a timeout.                     *)
Roomy == Len(events) + 2 <= EventCap

LEMMA QueueLength == ASSUME TableInv PROVE Len(events) \in Nat /\ events \in Seq(Kinds \X Known)
  BY DEF TableInv, Types

(* What is put at the end of the queue.                                    *)
Grown(S) ==
    /\ Len(events') \in Nat /\ Len(events) <= Len(events')
    /\ \A p \in 1..Len(events) : events'[p] = events[p]
    /\ \A p \in (Len(events) + 1)..Len(events') : events'[p] \in S

LEMMA FarewellGrows ==
  ASSUME TableInv, Roomy, NEW i, NEW why,
         events' = Emitted(events, Farewell(why), i) \/ events' = Emitted(events, <<"timeout">>, i)
  PROVE  Grown(Farewells(i)) /\ Len(events) < Len(events')
<1>1. Len(events) \in Nat /\ events \in Seq(Kinds \X Known) /\ Len(events) + 2 <= EventCap
  BY QueueLength DEF Roomy
<1> DEFINE T == (Kinds \X Known) \cup Farewells(i)
           last == <<"timeout", i>>
           first == <<"disconnected", i>>
<1>2. first \in T /\ last \in T /\ first \in Farewells(i) /\ last \in Farewells(i) /\ events \in Seq(T)
  <2>1. first \in Farewells(i) /\ last \in Farewells(i)
    BY DEF Farewells
  <2>2. Kinds \X Known \subseteq T
    OBVIOUS
  <2> QED
    BY <1>1, <2>1, <2>2
<1> HIDE DEF T, first, last
<1>3. ASSUME NEW r \in Seq(T), Len(r) < EventCap, NEW e \in T
      PROVE  Offer(r, e) = Append(r, e) /\ Append(r, e) \in Seq(T) /\ Len(Append(r, e)) = Len(r) + 1
  BY <1>3 DEF Offer
<1>4. Offer(events, first) = Append(events, first) /\ Offer(events, last) = Append(events, last)
  <2>1. Len(events) < EventCap
    BY <1>1, SessionAssumption
  <2> QED
    BY <1>2, <1>3, <2>1
<1>5. Offer(Append(events, first), last) = Append(Append(events, first), last)
  <2> DEFINE r == Append(events, first)
  <2>1. r \in Seq(T) /\ Len(r) = Len(events) + 1
    BY <1>2
  <2> HIDE DEF r
  <2>2. Len(r) < EventCap
    BY <1>1, <2>1, SessionAssumption
  <2>3. Offer(r, last) = Append(r, last)
    BY <1>2, <1>3, <2>1, <2>2
  <2> QED
    BY <2>3 DEF r
<1>6. events' \in {Append(events, first), Append(events, last), Append(Append(events, first), last)}
  <2>1. Emitted(events, <<"timeout">>, i) = Offer(events, last)
    BY DEF Emitted, last
  <2>2. Emitted(events, <<"disconnected">>, i) = Offer(events, first)
    BY DEF Emitted, first
  <2>3. Emitted(events, <<"disconnected", "timeout">>, i) = Offer(Offer(events, first), last)
    BY DEF Emitted, first, last
  <2> QED
    BY <1>4, <1>5, <2>1, <2>2, <2>3 DEF Farewell
<1>7. ASSUME NEW e \in {first, last}, events' = Append(events, e)
      PROVE  Grown(Farewells(i)) /\ Len(events) < Len(events')
  BY <1>1, <1>2, <1>7 DEF Grown
<1>8. CASE events' = Append(Append(events, first), last)
  <2> DEFINE r == Append(events, first)
  <2>1. /\ r \in Seq(T) /\ Len(r) = Len(events) + 1 /\ r[Len(events) + 1] = first
        /\ \A p \in 1..Len(events) : r[p] = events[p]
    BY <1>2
  <2> HIDE DEF r
  <2>2. /\ Len(events') = Len(r) + 1 /\ events'[Len(r) + 1] = last
        /\ \A p \in 1..Len(r) : events'[p] = r[p]
    <3>1. events' = Append(r, last)
      BY <1>8 DEF r
    <3> QED
      BY <1>2, <2>1, <3>1
  <2>3. \A p \in (Len(events) + 1)..Len(events') : p = Len(events) + 1 \/ p = Len(events) + 2
    BY <1>1, <2>1, <2>2
  <2> QED
    BY <1>1, <1>2, <2>1, <2>2, <2>3 DEF Grown
<1> QED
  BY <1>6, <1>7, <1>8

(* What was said stays said when the queue grows, and when its head goes.  *)
LEMMA GrownMourns ==
  ASSUME TableInv, NEW S, Grown(S), NEW i, <<"connected", i>> \notin S, players' \subseteq players, Mourned(i)
  PROVE  Mourned(i)'
<1>1. Len(events) \in Nat
  BY QueueLength
<1>2. ASSUME NEW p \in Nat, SaidAfter(p, i) PROVE SaidAfter(p, i)'
  BY <1>1, <1>2 DEF SaidAfter, Grown
<1>3. \A p \in 1..Len(events') : events'[p] = <<"connected", i>> => p \in 1..Len(events) /\ events[p] = <<"connected", i>>
  BY <1>1 DEF Grown
<1> QED
  BY <1>2, <1>3 DEF Mourned

LEMMA FarewellMourns ==
  ASSUME TableInv, NEW i, Grown(Farewells(i)), Len(events) < Len(events')
  PROVE  Mourned(i)'
<1>1. Len(events) \in Nat /\ Len(events') \in Nat
  BY QueueLength DEF Grown
<1> DEFINE q == Len(events) + 1
<1>2. q \in 1..Len(events') /\ events'[q] \in Farewells(i)
  BY <1>1 DEF Grown
<1>3. ASSUME NEW p \in Nat, p <= Len(events) PROVE SaidAfter(p, i)'
  BY <1>1, <1>2, <1>3 DEF SaidAfter
<1>4. \A p \in 1..Len(events') : events'[p] = <<"connected", i>> => p <= Len(events)
  BY <1>1 DEF Grown, Farewells
<1> QED
  BY <1>1, <1>3, <1>4 DEF Mourned

LEMMA HeadMourns ==
  ASSUME TableInv, NEW k, Spawn(k) \/ Refuse(k) \/ Despawn(k), NEW i, Mourned(i)
  PROVE  Mourned(i)'
<1>1. events # << >> /\ events' = Tail(events) /\ events \in Seq(Kinds \X Known) /\ Len(events) \in Nat
  BY QueueLength DEF Spawn, Refuse, Despawn, NextEvent
<1>2. /\ Len(events') = Len(events) - 1 /\ Len(events) >= 1
      /\ \A p \in 1..Len(events') : p + 1 \in 1..Len(events) /\ events'[p] = events[p + 1]
  BY <1>1
<1>3. ASSUME NEW p \in Nat, SaidAfter(p + 1, i) PROVE SaidAfter(p, i)'
  <2>1. PICK q \in 1..Len(events) : p + 1 < q /\ events[q] \in Farewells(i)
    BY <1>3 DEF SaidAfter
  <2>2. q - 1 \in 1..Len(events') /\ p < q - 1 /\ events'[q - 1] = events[q]
    BY <1>1, <1>2, <2>1
  <2> QED
    BY <2>1, <2>2 DEF SaidAfter
<1>4. \A p \in 1..Len(events') : events'[p] = <<"connected", i>> => SaidAfter(p, i)'
  <2> TAKE p \in 1..Len(events')
  <2>1. p \in Nat /\ p + 1 \in 1..Len(events) /\ events'[p] = events[p + 1]
    BY <1>2
  <2> QED
    BY <1>3, <2>1 DEF Mourned
<1>5. ASSUME i \in players' PROVE SaidAfter(0, i)'
  <2>1. events[1] = Head(events) /\ 1 \in 1..Len(events)
    BY <1>1, <1>2
  <2>2. CASE events[1] = <<"connected", i>>
    BY <1>3, <2>1, <2>2 DEF Mourned
  <2>3. CASE events[1] # <<"connected", i>>
    <3>1. i \in players /\ events[1] \notin Farewells(i)
      <4>1. CASE Spawn(k) \/ Refuse(k)
        BY <1>5, <2>1, <2>3, <4>1 DEF Spawn, Refuse, NextEvent, Farewells
      <4>2. CASE Despawn(k)
        BY <1>5, <2>1, <4>2 DEF Despawn, NextEvent, Farewells
      <4> QED
        BY <4>1, <4>2
    <3>2. PICK q \in 1..Len(events) : 0 < q /\ events[q] \in Farewells(i)
      BY <3>1 DEF Mourned, SaidAfter
    <3>3. 1 < q
      BY <3>1, <3>2
    <3>4. SaidAfter(0 + 1, i)
      BY <3>2, <3>3 DEF SaidAfter
    <3> QED
      BY <1>3, <3>4
  <2> QED
    BY <2>2, <2>3
<1> QED
  BY <1>4, <1>5 DEF Mourned

-----------------------------------------------------------------------------
(* A step under which every connection that is gone stays owed or mourned. *)
LEMMA GhostFrame ==
  ASSUME TableInv, GhostFree, Known' \subseteq Known \cup live',
         \A i \in live \ live' : Owed(i)',
         \A i \in Known : Owed(i) => Owed(i)' \/ Mourned(i)',
         \A i \in Known : Mourned(i) => Mourned(i)'
  PROVE  GhostFree'
  BY DEF GhostFree

LEMMA QueueFrame ==
  ASSUME NEW i, events' = events, players' \subseteq players, Mourned(i)
  PROVE  Mourned(i)'
  BY DEF Mourned, SaidAfter

(* What is said of one connection unsays nothing of another.               *)
LEMMA FarewellFrame ==
  ASSUME TableInv, NEW j, Grown(Farewells(j)), players' \subseteq players, NEW i, Mourned(i)
  PROVE  Mourned(i)'
<1>1. <<"connected", i>> \notin Farewells(j)
  BY DEF Farewells
<1> QED
  BY <1>1, GrownMourns

(* The known are the made when no connection is opened.                    *)
LEMMA KnownFrame ==
  ASSUME nextId' = nextId, ops'["receive"] = ops["receive"] \/ (~Opening /\ ~Opening')
  PROVE  Known' = Known
  BY DEF Known, Made, Opening

(* A task that owes nothing turns to another operation.                    *)
LEMMA GhostTurn ==
  ASSUME TableInv, GhostFree, NEW t \in Tasks, NEW o,
         ops' = [ops EXCEPT ![t] = o] \/ ops' = ops,
         ops[t].step \in {"idle", "full", "push"}, o.step \notin Opens,
         nextId' = nextId, live' = live,
         \A i \in Known : Mourned(i) => Mourned(i)'
  PROVE  GhostFree'
<1>1. ops \in [Tasks -> Op] /\ "receive" \in Tasks
  BY DEF TableInv, Types, Tasks
<1>2. /\ \A u \in Tasks : u # t => ops'[u] = ops[u]
      /\ ops'[t] = o \/ ops'[t] = ops[t]
  BY <1>1
<1>3. \A i : Owed(i) => Owed(i)'
  <2>1. \A i : Evicted(i) => Evicted(i)'
    BY <1>1, <1>2 DEF Evicted
  <2>2. \A u \in Tasks : \A i : Owes(u, i) => Owes(u, i)'
    BY <1>1, <1>2 DEF Owes
  <2> QED
    BY <2>1, <2>2 DEF Owed
<1>4. Known' = Known
  BY <1>1, <1>2, KnownFrame DEF Opening, Opens
<1> QED
  BY <1>3, <1>4, GhostFrame

(* The windows of a removal: what it took out it owes, and it pays with    *)
(* the event.                                                              *)
LEMMA GhostRemove ==
  ASSUME TableInv, GhostFree, Roomy, NEW t \in Tasks, TakeDown(t)
  PROVE  GhostFree'
<1> DEFINE i == ops[t].id
<1>0. ops \in [Tasks -> Op] /\ "receive" \in Tasks /\ nextId' = nextId
  BY DEF TableInv, Types, Tasks, TakeDown, RemoveConn, RemoveAddr, RemoveTrack, RemoveRow, EmitGone
<1>1. PICK o : /\ ops' = [ops EXCEPT ![t] = o] /\ o.step \notin Opens
               /\ ops[t].step \notin Opens
  <2>1. CASE RemoveConn(t)
    <3> DEFINE o == [ops[t] EXCEPT !.step = "addr", !.had = i \in live]
    <3>1. ops' = [ops EXCEPT ![t] = o] /\ o.step = "addr" /\ ops[t].step = "conn"
      BY <1>0, <2>1 DEF RemoveConn, At, Op
    <3> QED
      BY <3>1 DEF Opens
  <2>2. ASSUME NEW next \in {"track", "row", "event"}, Goto(t, next), ops[t].step \notin Opens
        PROVE  \E o : /\ ops' = [ops EXCEPT ![t] = o] /\ o.step \notin Opens
                      /\ ops[t].step \notin Opens
    <3> DEFINE o == [ops[t] EXCEPT !.step = next]
    <3>1. ops' = [ops EXCEPT ![t] = o] /\ o.step = next
      BY <1>0, <2>2 DEF Goto, Op
    <3> QED
      BY <2>2, <3>1 DEF Opens
  <2>3. CASE EmitGone(t)
    BY <1>0, <2>3, OpShapes DEF EmitGone, Done, At, Opens
  <2> QED
    BY <2>1, <2>2, <2>3 DEF TakeDown, RemoveAddr, RemoveTrack, RemoveRow, At, Opens
<1>2. /\ \A u \in Tasks : u # t => ops'[u] = ops[u]
      /\ ops'[t].step \notin Opens /\ ops[t].step \notin Opens
  BY <1>0, <1>1
<1>3. Known' = Known
  BY <1>0, <1>2, KnownFrame DEF Opening
<1>4. \A j : Evicted(j) => Evicted(j)'
  BY <1>0, <1>2 DEF Evicted, Opens
<1>5. CASE RemoveConn(t)
  <2>1. /\ ops[t].step = "conn" /\ live' = live \ {i} /\ UNCHANGED <<events, players>>
        /\ ops'[t].step = "addr" /\ ops'[t].id = i
        /\ i \in live => ops'[t].had
    BY <1>0, <1>5 DEF RemoveConn, Removed, At, Op
  <2>2. \A u \in Tasks : \A j : Owes(u, j) => Owes(u, j)'
    BY <1>2, <2>1 DEF Owes
  <2>3. i \in live => Owed(i)'
    BY <2>1 DEF Owes, Owed
  <2>4. \A j : Owed(j) => Owed(j)'
    BY <1>4, <2>2 DEF Owed
  <2> QED
    BY <1>3, <2>1, <2>3, <2>4, GhostFrame, QueueFrame
<1>6. CASE RemoveAddr(t) \/ RemoveTrack(t) \/ RemoveRow(t)
  <2>1. /\ ops[t].step \in {"addr", "track", "row"} /\ live' = live /\ UNCHANGED <<events, players>>
        /\ ops'[t].step \in {"track", "row", "event"} /\ ops'[t].id = i
        /\ ops'[t].had = ops[t].had
    BY <1>0, <1>6 DEF RemoveAddr, RemoveTrack, RemoveRow, Goto, At, Op
  <2>2. \A u \in Tasks : \A j : Owes(u, j) => Owes(u, j)'
    BY <1>2, <2>1 DEF Owes
  <2>3. \A j : Owed(j) => Owed(j)'
    BY <1>4, <2>2 DEF Owed
  <2> QED
    BY <1>3, <2>1, <2>3, GhostFrame, QueueFrame
<1>7. CASE EmitGone(t)
  <2> PICK k : k = i
    OBVIOUS
  <2>1. /\ ops[t].step = "event" /\ live' = live /\ players' \subseteq players
        /\ ops[t].had => events' = Emitted(events, Farewell(ops[t].why), k)
        /\ ~ops[t].had => events' = events
    BY <1>7 DEF EmitGone, Gone, At, tables
  <2>2. \A u \in Tasks : \A j : Owes(u, j) => Owes(u, j)' \/ (ops[t].had /\ j = k)
    BY <1>2, <2>1 DEF Owes
  <2>3. \A j : Owed(j) => Owed(j)' \/ (ops[t].had /\ j = k)
    BY <1>4, <2>2 DEF Owed
  <2>4. CASE ops[t].had
    <3>1. Grown(Farewells(k)) /\ Len(events) < Len(events')
      BY <2>1, <2>4, FarewellGrows
    <3>2. Mourned(k)'
      BY <3>1, FarewellMourns
    <3>3. \A j : Owed(j) => Owed(j)' \/ Mourned(j)'
      BY <2>3, <3>2
    <3>4. \A j : Mourned(j) => Mourned(j)'
      BY <2>1, <3>1, FarewellFrame
    <3> QED
      BY <1>3, <2>1, <3>3, <3>4, GhostFrame
  <2>5. CASE ~ops[t].had
    BY <1>3, <2>1, <2>3, <2>5, GhostFrame, QueueFrame
  <2> QED
    BY <2>4, <2>5
<1> QED
  BY <1>5, <1>6, <1>7 DEF TakeDown

(* And so of an eviction.                                                  *)
LEMMA GhostEvict ==
  ASSUME TableInv, GhostFree, Roomy, EvictConn \/ EvictTrack \/ EvictRow \/ EvictEvent
  PROVE  GhostFree'
<1> PICK k : k = ops["receive"].old
  OBVIOUS
<1>0. /\ ops \in [Tasks -> Op] /\ "receive" \in Tasks /\ ops["receive"] \in Op
      /\ nextId' = nextId /\ players' = players
  BY DEF TableInv, Types, Tasks, EvictConn, EvictTrack, EvictRow, EvictEvent, tables, clock
<1>1. PICK step \in {"evictTrack", "evictRow", "evictEvent", "announce"} :
        /\ ops' = [ops EXCEPT !["receive"].step = step]
        /\ step = "announce" => EvictEvent
        /\ step # "announce" => events' = events
  BY DEF EvictConn, EvictTrack, EvictRow, EvictEvent, Goto
<1>2. /\ ops["receive"].step \in Evicts /\ ops'["receive"].step = step
      /\ ops'["receive"].old = k /\ ops'["receive"].id = ops["receive"].id
      /\ \A u \in Tasks : u # "receive" => ops'[u] = ops[u]
  BY <1>0, <1>1 DEF EvictConn, EvictTrack, EvictRow, EvictEvent, At, Op, Evicts
<1>3. Known' = Known
  BY <1>0, <1>2 DEF Known, Made, Opening, Opens, Evicts
<1>4. live \ {k} \subseteq live' /\ (step = "announce" => live' = live)
  BY <1>0, <1>1 DEF EvictConn, EvictTrack, EvictRow, EvictEvent, Removed, tables
<1>5. step # "announce" => Owed(k)'
  BY <1>1, <1>2 DEF Owed, Evicted
<1>6. \A u \in Tasks : \A j : Owes(u, j) => Owes(u, j)'
  BY <1>0, <1>2 DEF Owes, Evicts
<1>7. \A j : Owed(j) => Owed(j)' \/ j = k
  BY <1>6 DEF Owed, Evicted
<1>8. CASE step = "announce"
  <2>1. events' = Emitted(events, <<"timeout">>, k)
    BY <1>1, <1>8 DEF EvictEvent, Replaced, Gone
  <2>2. Grown(Farewells(k)) /\ Len(events) < Len(events')
    BY <2>1, FarewellGrows
  <2>3. Mourned(k)'
    BY <2>2, FarewellMourns
  <2>4. \A j : Owed(j) => Owed(j)' \/ Mourned(j)'
    BY <1>7, <2>3
  <2>5. \A j : Mourned(j) => Mourned(j)'
    BY <1>0, <2>2, FarewellFrame
  <2> QED
    BY <1>3, <1>4, <1>8, <2>4, <2>5, GhostFrame
<1>9. CASE step # "announce"
  <2>1. \A j : Mourned(j) => Mourned(j)'
    BY <1>0, <1>1, <1>9, QueueFrame
  <2>2. \A j : Owed(j) => Owed(j)'
    BY <1>5, <1>7, <1>9
  <2>3. \A j \in live \ live' : Owed(j)'
    BY <1>4, <1>5, <1>9
  <2> QED
    BY <1>3, <2>1, <2>2, <2>3, GhostFrame
<1> QED
  BY <1>8, <1>9

(* A newcomer is in the tables when it is announced, and an announcement   *)
(* of another connection changes nothing for one that is gone.             *)
LEMMA GhostOpen ==
  ASSUME TableInv, GhostFree, Roomy, (\E a \in Addrs : Register(a)) \/ Claim \/ Announce
  PROVE  GhostFree'
<1> PICK k : k = ops["receive"].id
  OBVIOUS
<1>0. /\ ops \in [Tasks -> Op] /\ "receive" \in Tasks /\ ops["receive"] \in Op
      /\ players' = players /\ nextId \in Nat \ {0}
  BY DEF TableInv, Types, Tasks, Register, Claim, Announce
<1>1. PICK o : /\ ops' = [ops EXCEPT !["receive"] = o]
               /\ ops["receive"].step \in {"idle", "claim", "announce"}
  <2>1. CASE \E a \in Addrs : Register(a)
    BY <2>1 DEF Register, At
  <2>2. CASE Claim
    <3>1. ops' = [ops EXCEPT !["receive"] =
                    [ops["receive"] EXCEPT !.old = byAddr[home[k]],
                        !.step = IF byAddr[home[k]] = 0 THEN "announce" ELSE "evictConn"]]
      BY <1>0, <2>2 DEF Claim, AfterClaim
    <3> QED
      BY <2>2, <3>1 DEF Claim, At
  <2>3. CASE Announce
    BY <2>3 DEF Announce, Done, At
  <2> QED
    BY <2>1, <2>2, <2>3
<1>2. \A j : Owed(j) => Owed(j)'
  <2>1. \A u \in Tasks : u # "receive" => ops'[u] = ops[u]
    BY <1>0, <1>1
  <2> QED
    BY <1>0, <1>1, <2>1 DEF Owed, Owes, Evicted
<1>3. CASE \E a \in Addrs : Register(a)
  <2>1. /\ nextId' = nextId + 1 /\ events' = events /\ live \subseteq live'
        /\ ops["receive"].step = "idle" /\ nextId \in live'
    BY <1>3 DEF Register, At
  <2>2. Made' \subseteq Made \cup {nextId} /\ Known = Made
    BY <1>0, <2>1 DEF Known, Made, Opening, Opens
  <2>3. Known' \subseteq Known \cup live'
    BY <2>1, <2>2 DEF Known
  <2> QED
    BY <1>0, <1>2, <2>1, <2>3, GhostFrame, QueueFrame
<1>4. CASE Claim
  <2>1. nextId' = nextId /\ events' = events /\ live' = live
    BY <1>4 DEF Claim
  <2>2. ops["receive"].step = "claim" /\ ops'["receive"].step \in Opens /\ ops'["receive"].id = k
    BY <1>0, <1>4 DEF Claim, At, Op, Opens
  <2>3. Known' = Known
    BY <2>1, <2>2 DEF Known, Made, Opening, Opens
  <2> QED
    BY <1>0, <1>2, <2>1, <2>3, GhostFrame, QueueFrame
<1>5. CASE Announce
  <2>1. /\ nextId' = nextId /\ events' = Offer(events, <<"connected", k>>) /\ live' = live
        /\ Opening
    BY <1>5 DEF Announce, tables, Opening, Opens, At
  <2>2. k \in live /\ k \notin Known /\ Made' = Made /\ Made \subseteq Known \cup {k}
    BY <2>1 DEF TableInv, Newcomer, Known, Made
  <2>3. Known' \subseteq Known \cup live'
    BY <2>1, <2>2 DEF Known
  <2> DEFINE e == <<"connected", k>>
  <2>4. Grown({e})
    <3>1. events \in Seq(Kinds \X Known) /\ Len(events) \in Nat /\ Len(events) < EventCap
      BY QueueLength, SessionAssumption DEF Roomy
    <3>2. events' = Append(events, e)
      BY <2>1, <3>1 DEF Offer
    <3> HIDE DEF e
    <3>3. events \in Seq((Kinds \X Known) \cup {e})
      BY <3>1
    <3>4. /\ Len(events') = Len(events) + 1 /\ events'[Len(events) + 1] = e
          /\ \A p \in 1..Len(events) : events'[p] = events[p]
      BY <3>2, <3>3
    <3> QED
      BY <3>1, <3>4 DEF Grown
  <2>5. ASSUME NEW j \in Known, Mourned(j) PROVE Mourned(j)'
    <3>1. <<"connected", j>> \notin {e}
      BY <2>2, <2>5
    <3> HIDE DEF e
    <3> QED
      BY <1>0, <2>4, <2>5, <3>1, GrownMourns
  <2> QED
    BY <1>2, <2>1, <2>3, <2>5, GhostFrame
<1> QED
  BY <1>3, <1>4, <1>5

LEMMA GhostStep == TableInv /\ GhostFree /\ Roomy /\ [Next]_vars => GhostFree'
<1> SUFFICES ASSUME TableInv, GhostFree, Roomy, [Next]_vars PROVE GhostFree'
  OBVIOUS
<1>0. "receive" \in Tasks /\ "send" \in Tasks /\ "game" \in Tasks
  BY DEF Tasks
<1>1. ASSUME UNCHANGED <<nextId, live, ops, events, players>> PROVE GhostFree'
  BY <1>1 DEF GhostFree, Known, Made, Opening, Owed, Owes, Evicted, Mourned, SaidAfter
<1>2. ASSUME NEW t \in Tasks, NEW o, ops[t].step \in {"idle", "full", "push"},
             ops' = [ops EXCEPT ![t] = o] \/ ops' = ops, o.step \notin Opens,
             nextId' = nextId, live' = live, events' = events, players' = players
      PROVE  GhostFree'
  BY <1>2, GhostTurn, QueueFrame
<1>3. \A i, why : Removal(i, why).step \notin Opens
  BY DEF Removal, Idle, Opens
<1>4. ASSUME NEW t \in {"send", "game"}, Sweep(t) PROVE GhostFree'
  <2>1. CASE CollectDead(t)
    BY <1>1, <2>1 DEF CollectDead, tables
  <2>2. CASE SweepNext(t)
    <3>1. PICK x : ops' = IF t = "game" /\ x[2] \notin live THEN ops
                         ELSE [ops EXCEPT ![t] = Removal(x[2], "timeout")]
      BY <2>2 DEF SweepNext
    <3> QED
      BY <1>0, <1>2, <1>3, <2>2, <3>1 DEF SweepNext, At, tables
  <2> QED
    BY <1>4, <2>1, <2>2 DEF Sweep
<1>5. ASSUME NEW a \in Addrs, Disconnect(a) \/ Beat(a) PROVE GhostFree'
  <2>1. CASE Disconnect(a)
    <3>1. /\ ops["receive"].step = "idle" /\ nextId' = nextId /\ live' = live
          /\ events' = events /\ players' = players
          /\ ops' = [ops EXCEPT !["receive"] = Removal(byAddr[a], "left")]
      BY <2>1 DEF Disconnect, At, tables
    <3>2. PICK o : o = Removal(byAddr[a], "left")
      OBVIOUS
    <3>3. PICK t \in Tasks : t = "receive"
      BY <1>0
    <3>4. ops' = [ops EXCEPT ![t] = o] /\ o.step \notin Opens /\ ops[t].step \in {"idle", "full", "push"}
      BY <1>3, <3>1, <3>2, <3>3
    <3> QED
      BY <3>1, <3>4, GhostTurn, QueueFrame
  <2>2. CASE Beat(a)
    BY <1>1, <2>2 DEF Beat, tables
  <2> QED
    BY <1>5, <2>1, <2>2
<1>6. CASE Publishing
  <2>1. ASSUME NEW i, AdmitReady(i) \/ PassReads(i) PROVE GhostFree'
    <3>1. PICK step \in {"full", "push"} :
            /\ ops' = [ops EXCEPT !["send"] = [Idle EXCEPT !.step = step, !.id = i]]
            /\ ops["send"].step = "idle" /\ nextId' = nextId /\ live' = live
            /\ events' = events /\ players' = players
      BY <2>1 DEF AdmitReady, PassReads, At, tables
    <3>2. [Idle EXCEPT !.step = step, !.id = i].step \notin Opens
      BY DEF Idle, Opens
    <3>3. PICK o : o = [Idle EXCEPT !.step = step, !.id = i]
      OBVIOUS
    <3>4. PICK t \in Tasks : t = "send"
      BY <1>0
    <3>5. ops' = [ops EXCEPT ![t] = o] /\ o.step \notin Opens /\ ops[t].step \in {"idle", "full", "push"}
      BY <3>1, <3>2, <3>3, <3>4
    <3> QED
      BY <3>1, <3>5, GhostTurn, QueueFrame
  <2>2. CASE AdmitFull \/ PassPushes
    <3>1. Idle.step \notin Opens
      BY DEF Idle, Opens
    <3> QED
      BY <1>0, <1>2, <2>2, <3>1 DEF AdmitFull, PassPushes, Done, At
  <2> QED
    BY <1>6, <2>1, <2>2 DEF Publishing
<1>7. ASSUME NEW i, Spawn(i) \/ Refuse(i) \/ Despawn(i) \/ Kick(i) PROVE GhostFree'
  <2>1. CASE Spawn(i) \/ Refuse(i) \/ Despawn(i)
    <3>1. \A j : Mourned(j) => Mourned(j)'
      BY <2>1, HeadMourns
    <3>2. /\ ops["game"].step = "idle" /\ nextId' = nextId /\ live' = live
          /\ ops' = [ops EXCEPT !["game"] = Removal(i, "left")] \/ ops' = ops
      BY <2>1 DEF Spawn, Refuse, Despawn, NextEvent, At, tables
    <3> QED
      BY <1>0, <1>3, <3>1, <3>2, GhostTurn
  <2>2. CASE Kick(i)
    <3>1. PICK why \in {"left", "vote"} :
            /\ ops' = [ops EXCEPT !["game"] = Removal(i, why)]
            /\ ops["game"].step = "idle" /\ nextId' = nextId /\ live' = live
            /\ events' = events /\ players' = players
      BY <2>2 DEF Kick, At, tables
    <3>2. PICK o : o = Removal(i, why)
      OBVIOUS
    <3>3. PICK t \in Tasks : t = "game"
      BY <1>0
    <3>4. ops' = [ops EXCEPT ![t] = o] /\ o.step \notin Opens /\ ops[t].step \in {"idle", "full", "push"}
      BY <1>3, <3>1, <3>2, <3>3
    <3> QED
      BY <3>1, <3>4, GhostTurn, QueueFrame
  <2> QED
    BY <1>7, <2>1, <2>2
<1>8. CASE \E i \in Ids : Silence(i) \/ Age(i)
  BY <1>1, <1>8 DEF Silence, Age, tables
<1>9. CASE UNCHANGED vars
  BY <1>1, <1>9 DEF vars, tables
<1>10. CASE Receive
  BY <1>0, <1>5, <1>10, GhostOpen, GhostEvict, GhostRemove DEF Receive
<1>11. CASE Send
  BY <1>0, <1>4, <1>6, <1>11, GhostRemove DEF Send, Sweeping
<1>12. CASE Game
  BY <1>0, <1>4, <1>7, <1>12, GhostRemove DEF Game
<1> QED
  BY <1>8, <1>9, <1>10, <1>11, <1>12 DEF Next

(* As long as the event queue has room for the events of one timeout, the  *)
(* game loop hears of every end, after every announcement of the same      *)
(* connection: an idle server with a drained queue has reported each       *)
(* connection that is gone and keeps no player of it (emit_event, the      *)
(* event loop of main.rs).                                                 *)
THEOREM EndsSettle == Spec /\ []Roomy => []EndsAreSettled
<1>1. Init => GhostFree
  BY DEF Init, GhostFree, Known, Made
<1>2. TableInv /\ GhostFree => NoGhostPlayer
  <2> SUFFICES ASSUME TableInv, GhostFree, Resting, events = << >>, NEW i \in players, i \notin live
               PROVE  FALSE
    BY DEF NoGhostPlayer
  <2>1. i \in Known /\ ~Owed(i)
    BY DEF TableInv, Types, Owed, Owes, Evicted, Resting, At, Tasks
  <2>2. SaidAfter(0, i)
    BY <2>1 DEF GhostFree, Mourned
  <2> QED
    BY <2>2 DEF SaidAfter
<1>3. TableInv /\ GhostFree /\ Roomy /\ [Next]_vars => (TableInv /\ GhostFree)'
  BY TableStep, GhostStep
<1>4. GoneIsReported /\ NoGhostPlayer => EndsAreSettled
  BY DEF EndsAreSettled
<1> QED
  BY TableInit, EveryEndIsReported, <1>1, <1>2, <1>3, <1>4, PTL DEF Spec

-----------------------------------------------------------------------------
(* The tables implement SessionDirectory.  A session that was told of, is  *)
(* being taken down after its first window, or was evicted, is out of the  *)
(* tables, and the replaced one is told of before its successor is         *)
(* announced.                                                              *)
Ending == {"addr", "track", "row", "event"}

Placed == home \in [Ids -> Addrs] /\ Made \subseteq Ids /\ reported \subseteq Made \ live

Ended ==
    /\ \A t \in Tasks : ops[t].step \in Ending => ops[t].id \notin live
    /\ ops["receive"].step \in Evicts \ {"evictConn"} => ops["receive"].old \notin live

Succeeding == At("receive", "announce") => ops["receive"].old \in reported \cup {0}

DirectoryInv == Placed /\ Ended /\ Succeeding

(* A task that is opening no session starts, ends, or goes on taking one   *)
(* down.                                                                   *)
Turned(t) ==
    \/ ops'[t] = ops[t]
    \/ ops[t].step \notin Opens /\ ops'[t].step \notin Opens \cup Ending
    \/ ops[t].step \in Ending /\ ops'[t].step \in Ending /\ ops'[t].id = ops[t].id

Calm == UNCHANGED <<nextId, home, live, byAddr, reported>> /\ \A t \in Tasks : Turned(t)

Life == [i \in Ids |-> Phase(i)]
Predecessor == IF ops["receive"].step \in Seating THEN ops["receive"].old ELSE 0

LEMMA DirectoryInit == Init => DirectoryInv /\ Directory!Init
<1> SUFFICES ASSUME Init PROVE DirectoryInv /\ Directory!Init
  OBVIOUS
<1>1. /\ nextId = 1 /\ home \in [Ids -> Addrs] /\ live = {} /\ reported = {}
      /\ byAddr = [a \in Addrs |-> 0] /\ ops = [t \in Tasks |-> Idle]
      /\ Idle.step = "idle"
  BY DEF Init, Idle
<1>2. \A t \in Tasks : ops[t].step = "idle"
  BY <1>1
<1>3. Made = {} /\ "receive" \in Tasks
  BY <1>1 DEF Made, Tasks
<1>4. DirectoryInv
  BY <1>1, <1>2, <1>3 DEF DirectoryInv, Placed, Ended, Succeeding, Ending, Evicts, At
<1>5. \A i \in Ids : Phase(i) = "none"
  BY <1>1 DEF Phase, Ids
<1>6. [i \in Ids |-> Phase(i)] = [i \in Ids |-> "none"]
  BY <1>5
<1>7. ops["receive"].step \notin Seating
  BY <1>2, <1>3 DEF Seating
<1> QED
  BY <1>1, <1>4, <1>6, <1>7 DEF Directory!Init

(* The phase of a session, case by case.                                   *)
LEMMA PhaseIs ==
  ASSUME TableInv, DirectoryInv, NEW i \in Ids
  PROVE  /\ Phase(i) = "none" <=> i \notin Made
         /\ Phase(i) = "told" <=> i \in reported
         /\ Phase(i) = "ended" <=> i \in Made \ (live \cup reported)
         /\ Phase(i) = "registered" <=> At("receive", "claim") /\ i = ops["receive"].id
         /\ Phase(i) = "seated" <=> ops["receive"].step \in Seating /\ i = ops["receive"].id
         /\ Phase(i) = "open" <=> i \in live /\ i \in Known
<1>1. /\ nextId \in Nat \ {0} /\ live \subseteq Made /\ reported \subseteq Made \ live /\ i \in Nat \ {0}
  BY SessionAssumption DEF TableInv, Types, DirectoryInv, Placed, Ids
<1>2. i >= nextId <=> i \notin Made
  BY <1>1 DEF Made
<1>3. Opening <=> At("receive", "claim") \/ ops["receive"].step \in Seating
  BY DEF Opening, Opens, Seating, At
<1>4. Opening => ops["receive"].id \in live
  BY DEF TableInv, Newcomer
<1>5. ~(At("receive", "claim") /\ ops["receive"].step \in Seating)
  BY DEF At, Seating
<1>6. \/ i \notin Made /\ Phase(i) = "none"
      \/ i \in reported /\ Phase(i) = "told"
      \/ i \in Made \ (live \cup reported) /\ Phase(i) = "ended"
      \/ /\ i \in live /\ At("receive", "claim") /\ i = ops["receive"].id
         /\ Phase(i) = "registered"
      \/ /\ i \in live /\ ops["receive"].step \in Seating /\ i = ops["receive"].id
         /\ Phase(i) = "seated"
      \/ /\ i \in live /\ i \in Known
         /\ Phase(i) = "open"
  BY <1>1, <1>2, <1>3 DEF Phase, Known
<1>7. i \in Known => ~(Opening /\ i = ops["receive"].id)
  BY DEF Known
<1> QED
  BY <1>1, <1>3, <1>4, <1>5, <1>6, <1>7

(* What a session's phase depends on.                                      *)
LEMMA PhaseKept ==
  ASSUME NEW i, i >= nextId' <=> i >= nextId, i \in reported' <=> i \in reported,
         i \in live' <=> i \in live,
         ops["receive"].id = i /\ At("receive", "claim")
            <=> ops'["receive"].id = i /\ At("receive", "claim")',
         ops["receive"].id = i /\ ops["receive"].step \in Seating
            <=> ops'["receive"].id = i /\ ops'["receive"].step \in Seating
  PROVE  Phase(i)' = Phase(i)
  BY DEF Phase

LEMMA OnePhaseMoves ==
  ASSUME NEW i \in Ids, NEW p, Phase(i)' = p, \A j \in Ids \ {i} : Phase(j)' = Phase(j)
  PROVE  Life' = [Life EXCEPT ![i] = p]
  BY DEF Life

(* A step that moves no session and no address.                            *)
LEMMA CalmKeeps ==
  ASSUME TableInv, DirectoryInv, Calm
  PROVE  DirectoryInv' /\ UNCHANGED Directory!vars
<1>1. UNCHANGED <<nextId, home, live, byAddr, reported>> /\ Made' = Made /\ "receive" \in Tasks
  BY DEF Calm, Made, Tasks
<1>2. \A t \in Tasks : Turned(t)
  BY DEF Calm
<1>3. \/ ops'["receive"] = ops["receive"]
      \/ ops["receive"].step \notin Opens /\ ops'["receive"].step \notin Opens
  BY <1>1, <1>2 DEF Turned, Ending, Opens
<1>4. DirectoryInv'
  <2>1. Placed'
    BY <1>1 DEF DirectoryInv, Placed
  <2>2. Ended'
    <3>1. \A t \in Tasks : ops'[t].step \in Ending => ops'[t].id \notin live
      BY <1>2 DEF DirectoryInv, Ended, Turned
    <3> QED
      BY <1>1, <1>3, <3>1 DEF DirectoryInv, Ended, Evicts, Opens
  <2>3. Succeeding'
    BY <1>1, <1>3 DEF DirectoryInv, Succeeding, At, Opens
  <2> QED
    BY <2>1, <2>2, <2>3 DEF DirectoryInv
<1>5. \A i \in Ids : Phase(i)' = Phase(i)
  BY <1>1, <1>3, PhaseKept DEF At, Opens, Seating
<1>6. [i \in Ids |-> Phase(i)]' = [i \in Ids |-> Phase(i)]
  BY <1>5
<1>7. (IF ops["receive"].step \in Seating THEN ops["receive"].old ELSE 0)'
        = (IF ops["receive"].step \in Seating THEN ops["receive"].old ELSE 0)
  BY <1>3 DEF Opens, Seating
<1> QED
  BY <1>1, <1>4, <1>6, <1>7 DEF Directory!vars

(* One task turns from one operation to another, neither in the middle of  *)
(* an opening or a removal, or goes on with its removal.                   *)
LEMMA CalmTurn ==
  ASSUME TableInv, UNCHANGED <<nextId, home, live, byAddr, reported>>,
         NEW t \in Tasks, NEW o, ops' = [ops EXCEPT ![t] = o],
         \/ ops[t].step \notin Opens /\ o.step \notin Opens \cup Ending
         \/ ops[t].step \in Ending /\ o.step \in Ending /\ o.id = ops[t].id
  PROVE  Calm
<1>1. ops'[t] = o /\ \A u \in Tasks : u # t => ops'[u] = ops[u]
  BY DEF TableInv, Types
<1> QED
  BY <1>1 DEF Calm, Turned

LEMMA RestedCalm ==
  ASSUME UNCHANGED <<nextId, home, live, byAddr, reported, ops>>
  PROVE  Calm
  BY DEF Calm, Turned

LEMMA OutsideSteps ==
  /\ Idle.step \notin Opens \cup Ending
  /\ \A i, why : Removal(i, why).step \notin Opens \cup Ending
  BY DEF Idle, Removal, Opens, Ending

LEMMA SweepCalm == ASSUME TableInv, NEW t \in {"send", "game"}, Sweep(t) PROVE Calm
<1>0. t \in Tasks
  BY DEF Tasks
<1>1. CASE CollectDead(t)
  BY <1>1, RestedCalm DEF CollectDead, tables
<1>2. CASE SweepNext(t)
  <2>1. PICK x : ops' = IF t = "game" /\ x[2] \notin live THEN ops
                       ELSE [ops EXCEPT ![t] = Removal(x[2], "timeout")]
    BY <1>2 DEF SweepNext
  <2>2. ops[t].step \notin Opens /\ UNCHANGED <<nextId, home, live, byAddr, reported>>
    BY <1>2 DEF SweepNext, At, Opens, tables
  <2>3. CASE ops' = ops
    BY <2>2, <2>3, RestedCalm
  <2>4. CASE ops' = [ops EXCEPT ![t] = Removal(x[2], "timeout")]
    BY <1>0, <2>2, <2>4, CalmTurn, OutsideSteps
  <2> QED
    BY <2>1, <2>3, <2>4
<1> QED
  BY <1>1, <1>2 DEF Sweep

LEMMA PublishCalm == ASSUME TableInv, Publishing PROVE Calm
<1>0. "send" \in Tasks
  BY DEF Tasks
<1>1. UNCHANGED <<nextId, home, live, byAddr, reported>>
  BY DEF Publishing, AdmitReady, PassReads, AdmitFull, PassPushes, tables
<1>2. ops["send"].step \in {"idle", "full", "push"}
  BY DEF Publishing, AdmitReady, PassReads, AdmitFull, PassPushes, At
<1>3. PICK o : ops' = [ops EXCEPT !["send"] = o] /\ o.step \in {"idle", "full", "push"}
  <2>1. ASSUME NEW i, AdmitReady(i) \/ PassReads(i)
        PROVE  \E o : ops' = [ops EXCEPT !["send"] = o] /\ o.step \in {"idle", "full", "push"}
    <3>1. PICK step \in {"full", "push"} :
            ops' = [ops EXCEPT !["send"] = [Idle EXCEPT !.step = step, !.id = i]]
      BY <2>1 DEF AdmitReady, PassReads
    <3>2. [Idle EXCEPT !.step = step, !.id = i].step = step
      BY DEF Idle
    <3> QED
      BY <3>1, <3>2
  <2>2. CASE AdmitFull \/ PassPushes
    BY <2>2, OpShapes DEF AdmitFull, PassPushes, Done
  <2> QED
    BY <2>1, <2>2 DEF Publishing
<1> QED
  BY <1>0, <1>1, <1>2, <1>3, CalmTurn DEF Opens, Ending

LEMMA GameCalm ==
  ASSUME TableInv, NEW i, Spawn(i) \/ Refuse(i) \/ Despawn(i) \/ Kick(i)
  PROVE  Calm
<1>0. "game" \in Tasks
  BY DEF Tasks
<1>1. UNCHANGED <<nextId, home, live, byAddr, reported>> /\ ops["game"].step \notin Opens
  BY DEF Spawn, Refuse, Despawn, Kick, NextEvent, tables, At, Opens
<1>2. ops' = ops \/ \E why : ops' = [ops EXCEPT !["game"] = Removal(i, why)]
  BY DEF Spawn, Refuse, Despawn, Kick
<1> QED
  BY <1>0, <1>1, <1>2, CalmTurn, RestedCalm, OutsideSteps

LEMMA DatagramCalm ==
  ASSUME TableInv, NEW a \in Addrs, Disconnect(a) \/ Beat(a)
  PROVE  Calm
<1>1. CASE Beat(a)
  BY <1>1, RestedCalm DEF Beat, tables
<1>2. CASE Disconnect(a)
  <2>1. /\ ops' = [ops EXCEPT !["receive"] = Removal(byAddr[a], "left")]
        /\ UNCHANGED <<nextId, home, live, byAddr, reported>>
        /\ ops["receive"].step \notin Opens /\ "receive" \in Tasks
    BY <1>2 DEF Disconnect, tables, At, Opens, Tasks
  <2> QED
    BY <2>1, CalmTurn, OutsideSteps
<1> QED
  BY <1>1, <1>2

LEMMA RemoveCalm ==
  ASSUME TableInv, NEW t \in Tasks, RemoveTrack(t) \/ RemoveRow(t)
  PROVE  Calm
<1>1. PICK step \in {"row", "event"} : ops' = [ops EXCEPT ![t].step = step]
  BY DEF RemoveTrack, RemoveRow, Goto
<1>2. /\ UNCHANGED <<nextId, home, live, byAddr, reported>>
      /\ ops[t].step \in Ending /\ step \in Steps
  BY DEF RemoveTrack, RemoveRow, At, Ending, Steps
<1>3. [ops[t] EXCEPT !.step = step].step = step /\ [ops[t] EXCEPT !.step = step].id = ops[t].id
  BY <1>2, NextWindow
<1>4. ops' = [ops EXCEPT ![t] = [ops[t] EXCEPT !.step = step]]
  BY <1>1 DEF TableInv, Types
<1> QED
  BY <1>2, <1>3, <1>4, CalmTurn DEF Ending

LEMMA OneMoves ==
  ASSUME NEW i \in Ids, NEW p, NEW q, Phase(i) = p, Phase(i)' = q,
         \A j \in Ids \ {i} : Phase(j)' = Phase(j)
  PROVE  Directory!Moves(i, p, q)
<1>1. Life' = [Life EXCEPT ![i] = q] /\ Life[i] = p
  BY OnePhaseMoves DEF Life
<1> QED
  BY <1>1 DEF Directory!Moves, Life

LEMMA InTheRoom ==
  ASSUME TableInv, DirectoryInv
  PROVE  Directory!InRoom = live
<1>1. \A i \in Ids : Phase(i) \in {"registered", "seated", "open"} <=> i \in live
  <2> SUFFICES ASSUME NEW i \in Ids
               PROVE  Phase(i) \in {"registered", "seated", "open"} <=> i \in live
    OBVIOUS
  <2>1. Phase(i) \in {"none", "told", "ended", "registered", "seated", "open"}
    BY DEF Phase
  <2>2. i \in live => i \in Made /\ i \notin reported
    BY DEF TableInv, Types, DirectoryInv, Placed
  <2>3. i \notin live => Phase(i) \in {"none", "told", "ended"}
    BY <2>1, PhaseIs DEF TableInv, Newcomer, Opening, At, Opens, Seating
  <2> QED
    BY <2>1, <2>2, <2>3, PhaseIs
<1>2. live \subseteq Ids
  BY DEF TableInv, Types, DirectoryInv, Placed
<1>3. Directory!InRoom = {i \in Ids : Phase(i) \in {"registered", "seated", "open"}}
  BY DEF Directory!InRoom
<1> QED
  BY <1>1, <1>2, <1>3

(* The windows of an opening.                                              *)
LEMMA RegisterOpens ==
  ASSUME TableInv, DirectoryInv, NEW a \in Addrs, Register(a), NEW i, i = nextId
  PROVE  DirectoryInv' /\ Directory!Open(i)
<1> DEFINE o == [Idle EXCEPT !.step = "claim", !.id = nextId]
<1>0. /\ nextId \in Nat \ {0} /\ live \subseteq Made /\ ops \in [Tasks -> Op]
      /\ reported \subseteq Made \ live /\ home \in [Ids -> Addrs] /\ Made \subseteq Ids
      /\ "receive" \in Tasks /\ MaxId \in Nat
  BY SessionAssumption DEF TableInv, Types, DirectoryInv, Placed, Tasks
<1>1. /\ ops["receive"].step = "idle" /\ nextId' = nextId + 1 /\ live' = live \cup {nextId}
      /\ nextId <= MaxId /\ Cardinality(live) < MaxConnections
      /\ ops' = [ops EXCEPT !["receive"] = o]
      /\ UNCHANGED <<home, byAddr, reported>>
  BY DEF Register, At
<1>2. o.step = "claim" /\ o.id = nextId
  BY DEF Idle
<1>3. ops'["receive"] = o /\ \A t \in Tasks : t # "receive" => ops'[t] = ops[t]
  BY <1>0, <1>1
<1>4. i \in Ids /\ i \notin Made /\ Made' = Made \cup {i}
  BY <1>0, <1>1 DEF Made, Ids
<1>5. DirectoryInv'
  <2>1. Placed'
    BY <1>0, <1>1, <1>4 DEF Placed, Ids
  <2>2. Ended'
    <3>1. \A t \in Tasks : ops'[t].step \in Ending => ops[t].step \in Ending /\ ops'[t].id = ops[t].id
      BY <1>2, <1>3 DEF Ending
    <3>2. \A t \in Tasks : ops[t].step \in Ending => ops[t].id \in Known
      BY DEF TableInv, Working, Ending, Opens
    <3>3. \A t \in Tasks : ops'[t].step \in Ending => ops'[t].id \notin live'
      BY <1>1, <1>4, <3>1, <3>2 DEF DirectoryInv, Ended, Known
    <3> QED
      BY <1>2, <1>3, <3>3 DEF Ended, Evicts
  <2>3. Succeeding'
    BY <1>2, <1>3 DEF Succeeding, At
  <2> QED
    BY <2>1, <2>2, <2>3 DEF DirectoryInv
<1>6. Phase(i) = "none" /\ Phase(i)' = "registered"
  <2>1. i \in reported' <=> FALSE
    BY <1>0, <1>1, <1>4
  <2>2. ~(i >= nextId') /\ i \in live' /\ i >= nextId
    BY <1>0, <1>1
  <2> QED
    BY <1>2, <1>3, <2>1, <2>2 DEF Phase, At
<1>7. \A j \in Ids \ {i} : Phase(j)' = Phase(j)
  <2> SUFFICES ASSUME NEW j \in Ids \ {i} PROVE Phase(j)' = Phase(j)
    OBVIOUS
  <2>1. j \in Nat /\ (j >= nextId' <=> j >= nextId)
    BY <1>0, <1>1 DEF Ids
  <2>2. j \in live' <=> j \in live
    BY <1>1
  <2> QED
    BY <1>1, <1>2, <1>3, <2>1, <2>2, PhaseKept DEF At, Seating
<1>8. Directory!Moves(i, "none", "registered")
  BY <1>4, <1>6, <1>7, OneMoves
<1>9. \A j \in Ids : /\ Phase(j) \notin {"registered", "seated"}
                     /\ j < i => Phase(j) # "none"
  <2> SUFFICES ASSUME NEW j \in Ids
               PROVE  /\ Phase(j) \notin {"registered", "seated"}
                      /\ j < i => Phase(j) # "none"
    OBVIOUS
  <2>1. j < i => j \in Made
    BY <1>0 DEF Made, Ids
  <2> QED
    BY <1>1, <2>1, PhaseIs DEF At, Seating
<1>10. Directory!Cardinality(Directory!InRoom) < MaxConnections
  BY <1>1, InTheRoom DEF Cardinality, Directory!Cardinality
<1>11. ops["receive"].step \notin Seating /\ ops'["receive"].step \notin Seating
  BY <1>1, <1>2, <1>3 DEF Seating
<1>12. /\ \A j \in Ids : Life[j] \notin {"registered", "seated"}
       /\ \A j \in Ids : j < i => Life[j] # "none"
  BY <1>9 DEF Life
<1>13. Predecessor' = Predecessor
  BY <1>11 DEF Predecessor
<1> QED
  BY <1>1, <1>5, <1>8, <1>10, <1>12, <1>13 DEF Directory!Open, Life, Predecessor

LEMMA ClaimTakes ==
  ASSUME TableInv, DirectoryInv, Claim, NEW i, i = ops["receive"].id
  PROVE  DirectoryInv' /\ Directory!TakeAddress(i)
<1> DEFINE old == byAddr[home[i]]
<1>0. Types /\ ops["receive"].step = "claim" /\ Opening /\ At("receive", "claim") /\ "receive" \in Tasks
  BY DEF TableInv, Claim, At, Opening, Opens, Tasks
<1>1. /\ i \in live /\ i \in Ids /\ home[i] \in Addrs /\ old \in Nat
      /\ reported \subseteq Made \ live /\ i \notin Known
  BY <1>0 DEF TableInv, Newcomer, Types, DirectoryInv, Placed, Known
<1>2. /\ byAddr' = [byAddr EXCEPT ![home[i]] = i]
      /\ ops' = [ops EXCEPT !["receive"].old = old,
                            !["receive"].step = IF old = 0 THEN "announce" ELSE "evictConn"]
      /\ UNCHANGED <<nextId, home, live, reported>>
  BY DEF Claim, AfterClaim
<1>3. /\ ops'["receive"].id = i /\ ops'["receive"].old = old
      /\ ops'["receive"].step = IF old = 0 THEN "announce" ELSE "evictConn"
      /\ \A t \in Tasks : t # "receive" => ops'[t] = ops[t]
  BY <1>0, <1>2 DEF Types, Op
<1>4. Made' = Made
  BY <1>2 DEF Made
<1>5. DirectoryInv'
  <2>1. Placed'
    BY <1>2, <1>4 DEF DirectoryInv, Placed
  <2>2. Ended'
    <3>1. ops'["receive"].step \notin Ending \cup (Evicts \ {"evictConn"})
      BY <1>3 DEF Ending, Evicts
    <3>2. \A t \in Tasks : ops'[t].step \in Ending => ops'[t].id \notin live
      BY <1>3, <3>1 DEF DirectoryInv, Ended
    <3> QED
      BY <1>2, <3>1, <3>2 DEF Ended
  <2>3. Succeeding'
    BY <1>3 DEF Succeeding, At
  <2> QED
    BY <2>1, <2>2, <2>3 DEF DirectoryInv
<1>6. ops'["receive"].step \in Seating
  BY <1>3 DEF Seating
<1>7. Phase(i) = "registered"
  BY <1>0, <1>1, PhaseIs
<1>8. Phase(i)' = "seated"
  <2>1. ~(i >= nextId) /\ i \notin reported
    BY <1>0, <1>1 DEF Types, Made
  <2>2. ~At("receive", "claim")'
    BY <1>3 DEF At
  <2> QED
    BY <1>1, <1>2, <1>3, <1>6, <2>1, <2>2 DEF Phase
<1>9. \A j \in Ids \ {i} : Phase(j)' = Phase(j)
  BY <1>2, <1>3, PhaseKept
<1>10. Directory!Moves(i, "registered", "seated")
  BY <1>1, <1>7, <1>8, <1>9, OneMoves
<1> QED
  BY <1>2, <1>3, <1>5, <1>6, <1>10 DEF Directory!TakeAddress

LEMMA AnnounceOpens ==
  ASSUME TableInv, DirectoryInv, Announce, NEW i, i = ops["receive"].id
  PROVE  DirectoryInv' /\ Directory!Announce(i)
<1> DEFINE old == ops["receive"].old
<1>0. /\ Types /\ ops["receive"].step = "announce" /\ Opening /\ At("receive", "announce")
      /\ "receive" \in Tasks /\ ops["receive"].step \in Seating
  BY DEF TableInv, Announce, At, Opening, Opens, Tasks, Seating
<1>1. i \in live /\ i \in Ids /\ reported \subseteq Made \ live /\ Made \subseteq Ids
  BY <1>0 DEF TableInv, Newcomer, Types, DirectoryInv, Placed
<1>2. ops' = [ops EXCEPT !["receive"] = Idle] /\ UNCHANGED <<nextId, home, live, byAddr, reported>>
  BY DEF Announce, Done, tables
<1>3. /\ ops'["receive"].step = "idle"
      /\ \A t \in Tasks : t # "receive" => ops'[t] = ops[t]
  BY <1>0, <1>2, OpShapes DEF Types
<1>4. Made' = Made
  BY <1>2 DEF Made
<1>5. DirectoryInv'
  <2>1. Placed'
    BY <1>2, <1>4 DEF DirectoryInv, Placed
  <2>2. Ended'
    BY <1>2, <1>3 DEF DirectoryInv, Ended, Ending, Evicts
  <2>3. Succeeding'
    BY <1>3 DEF Succeeding, At
  <2> QED
    BY <2>1, <2>2, <2>3 DEF DirectoryInv
<1>6. ops'["receive"].step \notin Seating /\ ~At("receive", "claim")'
  BY <1>3 DEF Seating, At
<1>7. Phase(i) = "seated" /\ ~At("receive", "claim")
  BY <1>0, <1>1, PhaseIs DEF At
<1>8. Phase(i)' = "open"
  <2>1. ~(i >= nextId) /\ i \notin reported
    BY <1>0, <1>1 DEF Types, Made
  <2> QED
    BY <1>1, <1>2, <1>6, <2>1 DEF Phase
<1>9. \A j \in Ids \ {i} : Phase(j)' = Phase(j)
  BY <1>2, <1>6, <1>7, PhaseKept
<1>10. Directory!Moves(i, "seated", "open")
  BY <1>1, <1>7, <1>8, <1>9, OneMoves
<1>11. old # 0 => old \in Ids /\ Phase(old) = "told"
  BY <1>0, <1>1, PhaseIs DEF DirectoryInv, Succeeding
<1> QED
  BY <1>0, <1>2, <1>5, <1>6, <1>10, <1>11 DEF Directory!Announce

(* The opening under way, if any, is where it was.                         *)
Seated(i) == ops["receive"].step \in Seating /\ ops["receive"].id = i

SameOpening ==
    /\ Predecessor' = Predecessor
    /\ \A i : (Unclaimed(i) <=> Unclaimed(i)') /\ (Seated(i) <=> Seated(i)')

LEMMA EndMoves ==
  ASSUME TableInv, DirectoryInv, SameOpening, NEW d \in Known, live' = live \ {d},
         UNCHANGED <<nextId, home, byAddr, reported>>
  PROVE  Directory!End(d) \/ UNCHANGED Directory!vars
<1>0. /\ d \in Ids /\ nextId \in Nat /\ Known \subseteq Made /\ reported \subseteq Made \ live
      /\ Made \subseteq Ids
  BY DEF TableInv, Types, DirectoryInv, Placed, Known
<1>1. \A j \in Ids \ {d} : Phase(j)' = Phase(j)
  BY PhaseKept DEF SameOpening, Unclaimed, Seated
<1>2. CASE d \in live
  <2>1. Phase(d) = "open"
    BY <1>0, <1>2, PhaseIs
  <2>2. Phase(d)' = "ended"
    BY <1>0, <1>2 DEF Phase, Made
  <2>3. Directory!Moves(d, "open", "ended")
    BY <1>0, <1>1, <2>1, <2>2, OneMoves
  <2> QED
    BY <2>3 DEF Directory!End, SameOpening, Predecessor
<1>3. CASE d \notin live
  <2>1. live' = live
    BY <1>3
  <2>2. \A j \in Ids : Phase(j)' = Phase(j)
    BY <2>1, PhaseKept DEF SameOpening, Unclaimed, Seated
  <2>3. Life' = Life
    BY <2>2 DEF Life
  <2> QED
    BY <2>3 DEF Directory!vars, SameOpening, Predecessor, Life
<1> QED
  BY <1>2, <1>3

LEMMA TellMoves ==
  ASSUME TableInv, DirectoryInv, SameOpening, NEW d \in Known \ live, reported' = reported \cup {d},
         UNCHANGED <<nextId, home, live, byAddr>>
  PROVE  Directory!Tell(d) \/ UNCHANGED Directory!vars
<1>0. /\ d \in Ids /\ d \in Made /\ nextId \in Nat /\ reported \subseteq Made \ live /\ Made \subseteq Ids
  BY DEF TableInv, Types, DirectoryInv, Placed, Known
<1>1. \A j \in Ids \ {d} : Phase(j)' = Phase(j)
  BY PhaseKept DEF SameOpening, Unclaimed, Seated
<1>2. CASE d \notin reported
  <2>1. Phase(d) = "ended"
    BY <1>0, <1>2, PhaseIs
  <2>2. Phase(d)' = "told"
    BY <1>0, <1>2 DEF Phase, Made
  <2>3. Directory!Moves(d, "ended", "told")
    BY <1>0, <1>1, <2>1, <2>2, OneMoves
  <2> QED
    BY <2>3 DEF Directory!Tell, SameOpening, Predecessor
<1>3. CASE d \in reported
  <2>1. reported' = reported
    BY <1>3
  <2>2. \A j \in Ids : Phase(j)' = Phase(j)
    BY <2>1, PhaseKept DEF SameOpening, Unclaimed, Seated
  <2>3. Life' = Life
    BY <2>2 DEF Life
  <2> QED
    BY <2>3 DEF Directory!vars, SameOpening, Predecessor, Life
<1> QED
  BY <1>2, <1>3

-----------------------------------------------------------------------------
(* The windows of a removal.                                               *)
LEMMA RemovalOpensNothing ==
  ASSUME TableInv, NEW t \in Tasks, NEW o, ops' = [ops EXCEPT ![t] = o],
         ops[t].step \notin Opens, o.step \notin Opens
  PROVE  /\ ops'[t] = o /\ \A u \in Tasks : u # t => ops'[u] = ops[u]
         /\ SameOpening
         /\ \/ ops'["receive"] = ops["receive"]
            \/ ops["receive"].step \notin Opens /\ ops'["receive"].step \notin Opens
<1>1. ops'[t] = o /\ \A u \in Tasks : u # t => ops'[u] = ops[u]
  BY DEF TableInv, Types
<1>2. \/ ops'["receive"] = ops["receive"]
      \/ ops["receive"].step \notin Opens /\ ops'["receive"].step \notin Opens
  BY <1>1 DEF Tasks
<1>3. SameOpening
  BY <1>2 DEF SameOpening, Predecessor, Unclaimed, Seated, At, Seating, Opens
<1> QED
  BY <1>1, <1>2, <1>3

LEMMA RemovalEnds ==
  ASSUME TableInv, DirectoryInv, NEW t \in Tasks, NEW d, d = ops[t].id,
         RemoveConn(t) \/ RemoveAddr(t) \/ EmitGone(t)
  PROVE  /\ DirectoryInv'
         /\ \/ Directory!End(d) \/ Directory!Forget(d) \/ Directory!Tell(d)
            \/ UNCHANGED Directory!vars
<1>0. /\ ops[t].step \in {"conn"} \cup Ending /\ ops[t].step \notin Opens /\ d \in Known
      /\ nextId' = nextId /\ home' = home /\ Made' = Made
  BY DEF TableInv, Working, RemoveConn, RemoveAddr, EmitGone, At, Opens, Ending, Made
<1>1. PICK o : /\ ops' = [ops EXCEPT ![t] = o]
               /\ RemoveConn(t) => o.step = "addr" /\ o.id = d
               /\ RemoveAddr(t) => o.step = "track" /\ o.id = d
               /\ EmitGone(t) => o.step = "idle"
  <2>1. CASE RemoveConn(t)
    <3> DEFINE o == [ops[t] EXCEPT !.step = "addr", !.had = d \in live]
    <3>1. ops' = [ops EXCEPT ![t] = o]
      BY <2>1 DEF RemoveConn, TableInv, Types
    <3>2. "addr" \in Steps /\ (d \in live) \in BOOLEAN
      BY DEF Steps
    <3>3. o.step = "addr" /\ o.id = d
      BY <3>2, NextWindow, ZenonT(60)
    <3>4. ~RemoveAddr(t) /\ ~EmitGone(t)
      BY <2>1 DEF RemoveConn, RemoveAddr, EmitGone, At
    <3> QED
      BY <3>1, <3>3, <3>4
  <2>2. CASE RemoveAddr(t)
    <3> DEFINE o == [ops[t] EXCEPT !.step = "track"]
    <3>1. ops' = [ops EXCEPT ![t] = o]
      BY <2>2 DEF RemoveAddr, Goto, TableInv, Types
    <3>2. "track" \in Steps
      BY DEF Steps
    <3>3. o.step = "track" /\ o.id = d
      BY <3>2, NextWindow
    <3>4. ~RemoveConn(t) /\ ~EmitGone(t)
      BY <2>2 DEF RemoveConn, RemoveAddr, EmitGone, At
    <3> QED
      BY <3>1, <3>3, <3>4
  <2>3. CASE EmitGone(t)
    <3>1. ~RemoveConn(t) /\ ~RemoveAddr(t)
      BY <2>3 DEF RemoveConn, RemoveAddr, EmitGone, At
    <3> QED
      BY <2>3, <3>1, OpShapes DEF EmitGone, Done
  <2> QED
    BY <2>1, <2>2, <2>3
<1>2. o.step \notin Opens
  BY <1>1 DEF Opens
<1>3. /\ ops'[t] = o /\ \A u \in Tasks : u # t => ops'[u] = ops[u]
      /\ SameOpening
      /\ \/ ops'["receive"] = ops["receive"]
         \/ ops["receive"].step \notin Opens /\ ops'["receive"].step \notin Opens
  BY <1>0, <1>1, <1>2, RemovalOpensNothing
<1>4. ASSUME live' \subseteq live, Placed', reported \subseteq reported',
             o.step \in Ending => o.id \notin live'
      PROVE  DirectoryInv'
  <2>1. \A u \in Tasks : ops'[u].step \in Ending => ops'[u].id \notin live'
    BY <1>3, <1>4 DEF DirectoryInv, Ended
  <2>2. Ended'
    BY <1>3, <1>4, <2>1 DEF DirectoryInv, Ended, Evicts, Opens
  <2>3. Succeeding'
    BY <1>3, <1>4 DEF DirectoryInv, Succeeding, At, Opens
  <2> QED
    BY <1>4, <2>2, <2>3 DEF DirectoryInv
<1>5. CASE RemoveConn(t)
  <2>1. live' = live \ {d} /\ UNCHANGED <<byAddr, reported>>
    BY <1>5 DEF RemoveConn, Removed
  <2>2. Placed'
    BY <1>0, <2>1 DEF DirectoryInv, Placed
  <2> QED
    BY <1>0, <1>1, <1>3, <1>4, <1>5, <2>1, <2>2, EndMoves
<1>6. CASE RemoveAddr(t)
  <2>1. byAddr' = [byAddr EXCEPT ![home[d]] = 0] /\ UNCHANGED <<live, reported>> /\ d \notin live
    BY <1>6 DEF RemoveAddr, Unmapped, At, DirectoryInv, Ended, Ending
  <2>2. Placed'
    BY <1>0, <2>1 DEF DirectoryInv, Placed
  <2>3. \A j \in Ids : Phase(j)' = Phase(j)
    BY <1>0, <1>3, <2>1, PhaseKept DEF SameOpening, Unclaimed, Seated
  <2>4. Life' = Life
    BY <2>3 DEF Life
  <2>5. d \in Made /\ d \in Ids
    BY <1>0 DEF Known, DirectoryInv, Placed
  <2>6. Life[d] \in {"ended", "told"}
    BY <2>1, <2>5, PhaseIs DEF Life
  <2>7. Directory!Forget(d)
    BY <1>0, <1>3, <2>1, <2>4, <2>6 DEF Directory!Forget, SameOpening, Life, Predecessor
  <2> QED
    BY <1>1, <1>4, <1>6, <2>1, <2>2, <2>7
<1>7. CASE EmitGone(t)
  <2>1. /\ UNCHANGED <<live, byAddr>> /\ d \notin live
        /\ reported' = reported \cup {d} \/ reported' = reported
    BY <1>7 DEF EmitGone, Gone, At, tables, DirectoryInv, Ended, Ending
  <2>2. Placed'
    BY <1>0, <2>1 DEF DirectoryInv, Placed, Known
  <2>3. ASSUME reported' = reported \cup {d}
        PROVE  Directory!Tell(d) \/ UNCHANGED Directory!vars
    BY <1>0, <1>3, <2>1, <2>3, TellMoves
  <2>4. ASSUME reported' = reported
        PROVE  UNCHANGED Directory!vars
    <3>1. \A j \in Ids : Phase(j)' = Phase(j)
      BY <1>0, <1>3, <2>1, <2>4, PhaseKept DEF SameOpening, Unclaimed, Seated
    <3>2. Life' = Life
      BY <3>1 DEF Life
    <3> QED
      BY <1>0, <1>3, <2>1, <2>4, <3>2 DEF Directory!vars, SameOpening, Life, Predecessor
  <2>5. DirectoryInv'
    BY <1>1, <1>4, <1>7, <2>1, <2>2 DEF Ending
  <2> QED
    BY <2>1, <2>3, <2>4, <2>5
<1> QED
  BY <1>5, <1>6, <1>7

(* The windows of an eviction.                                             *)
LEMMA EvictionEnds ==
  ASSUME TableInv, DirectoryInv, EvictConn \/ EvictTrack \/ EvictRow \/ EvictEvent,
         NEW d, d = ops["receive"].old
  PROVE  /\ DirectoryInv'
         /\ Directory!End(d) \/ Directory!Tell(d) \/ UNCHANGED Directory!vars
<1> DEFINE r == ops["receive"]
<1>0. Types /\ r.step \in Evicts /\ "receive" \in Tasks /\ r \in Op
  BY DEF TableInv, Types, EvictConn, EvictTrack, EvictRow, EvictEvent, At, Evicts, Tasks
<1>1. d \in Known /\ nextId' = nextId /\ home' = home /\ byAddr' = byAddr /\ Made' = Made
  BY <1>0 DEF TableInv, Evicting, EvictConn, EvictTrack, EvictRow, EvictEvent, tables, Made
<1>2. PICK step \in {"evictTrack", "evictRow", "evictEvent", "announce"} :
        /\ ops' = [ops EXCEPT !["receive"].step = step]
        /\ step = "announce" => EvictEvent
  BY DEF EvictConn, EvictTrack, EvictRow, EvictEvent, Goto
<1>3. /\ ops'["receive"].step = step /\ ops'["receive"].old = d /\ ops'["receive"].id = r.id
      /\ \A u \in Tasks : u # "receive" => ops'[u] = ops[u]
  BY <1>0, <1>2 DEF Types, Op
<1>4. SameOpening
  BY <1>0, <1>2, <1>3 DEF SameOpening, Predecessor, Unclaimed, Seated, At, Seating, Evicts
<1>5. ASSUME live' \subseteq live, d \notin live', reported \subseteq reported', Placed',
             step = "announce" => d \in reported'
      PROVE  DirectoryInv'
  <2>1. step \notin Ending
    BY <1>2 DEF Ending
  <2>2. \A u \in Tasks : ops'[u].step \in Ending => ops'[u].id \notin live'
    BY <1>3, <1>5, <2>1 DEF DirectoryInv, Ended
  <2>3. Ended' /\ Succeeding'
    BY <1>3, <1>5, <2>2 DEF Ended, Succeeding, At
  <2> QED
    BY <1>5, <2>3 DEF DirectoryInv
<1>6. CASE EvictConn
  <2>1. live' = live \ {d} /\ reported' = reported /\ ~EvictEvent
    BY <1>6 DEF EvictConn, Removed, EvictEvent, At
  <2>2. Placed'
    BY <1>1, <2>1 DEF DirectoryInv, Placed
  <2>3. DirectoryInv'
    BY <1>2, <1>5, <2>1, <2>2
  <2> QED
    BY <1>1, <1>4, <2>1, <2>3, EndMoves
<1>7. CASE EvictTrack \/ EvictRow
  <2>1. live' = live /\ reported' = reported /\ ~EvictEvent /\ d \notin live
    BY <1>7 DEF EvictTrack, EvictRow, EvictEvent, At, DirectoryInv, Ended, Evicts
  <2>2. Placed'
    BY <1>1, <2>1 DEF DirectoryInv, Placed
  <2>3. DirectoryInv'
    BY <1>2, <1>5, <2>1, <2>2
  <2>4. live' = live \ {d}
    BY <2>1
  <2> QED
    BY <1>1, <1>4, <2>1, <2>3, <2>4, EndMoves
<1>8. CASE EvictEvent
  <2>1. live' = live /\ reported' = reported \cup {d} /\ d \notin live
    BY <1>8 DEF EvictEvent, Replaced, Gone, tables, At, DirectoryInv, Ended, Evicts
  <2>2. Placed'
    BY <1>1, <2>1 DEF DirectoryInv, Placed, Known
  <2>3. DirectoryInv'
    BY <1>5, <2>1, <2>2
  <2> QED
    BY <1>1, <1>4, <2>1, <2>3, TellMoves
<1> QED
  BY <1>6, <1>7, <1>8

LEMMA DirectoryStep ==
  ASSUME TableInv, DirectoryInv, TableInv', [Next]_vars
  PROVE  DirectoryInv' /\ [Directory!Next]_(Directory!vars)
<1>0. Known \subseteq Ids /\ live \subseteq Ids /\ Tasks = {"receive", "send", "game"}
  BY DEF DirectoryInv, Placed, Known, Tasks, TableInv, Types
<1>1. CASE Calm
  BY <1>1, CalmKeeps
<1>2. ASSUME NEW a \in Addrs, Register(a)
      PROVE  DirectoryInv' /\ [Directory!Next]_(Directory!vars)
  <2>1. nextId \in Ids
    BY <1>2, SessionAssumption DEF TableInv, Types, Register, Ids
  <2> QED
    BY <1>2, <2>1, RegisterOpens DEF Directory!Next
<1>3. CASE Claim \/ Announce
  <2>1. ops["receive"].id \in Ids
    BY <1>0, <1>3 DEF TableInv, Newcomer, Opening, Opens, Claim, Announce, At
  <2> QED
    BY <1>3, <2>1, ClaimTakes, AnnounceOpens DEF Directory!Next
<1>4. CASE EvictConn \/ EvictTrack \/ EvictRow \/ EvictEvent
  <2>1. ops["receive"].old \in Ids
    BY <1>0, <1>4 DEF TableInv, Evicting, Evicts, EvictConn, EvictTrack, EvictRow, EvictEvent, At
  <2> QED
    BY <1>4, <2>1, EvictionEnds DEF Directory!Next
<1>5. ASSUME NEW t \in Tasks, TakeDown(t)
      PROVE  DirectoryInv' /\ [Directory!Next]_(Directory!vars)
  <2>1. CASE RemoveTrack(t) \/ RemoveRow(t)
    BY <1>1, <2>1, RemoveCalm
  <2>2. CASE RemoveConn(t) \/ RemoveAddr(t) \/ EmitGone(t)
    <3>1. ops[t].id \in Ids
      BY <1>0, <2>2 DEF TableInv, Working, RemoveConn, RemoveAddr, EmitGone, At, Opens
    <3> QED
      BY <2>2, <3>1, RemovalEnds DEF Directory!Next
  <2> QED
    BY <1>5, <2>1, <2>2 DEF TakeDown
<1>6. CASE Receive
  BY <1>0, <1>1, <1>2, <1>3, <1>4, <1>5, <1>6, DatagramCalm DEF Receive
<1>7. CASE Send
  BY <1>0, <1>1, <1>5, <1>7, SweepCalm, PublishCalm DEF Send, Sweeping
<1>8. CASE Game
  BY <1>0, <1>1, <1>5, <1>8, SweepCalm, GameCalm DEF Game
<1>9. CASE \E i \in Ids : Silence(i) \/ Age(i)
  BY <1>1, <1>9, RestedCalm DEF Silence, Age, tables
<1>10. CASE UNCHANGED vars
  BY <1>1, <1>10, RestedCalm DEF vars, tables
<1> QED
  BY <1>6, <1>7, <1>8, <1>9, <1>10 DEF Next

(* The tables implement the directory of sessions, for any number of       *)
(* addresses, connections and slots and any length of the event queue:     *)
(* each window of the three tasks is a step of it or none                  *)
(* (admit_connection, claim_addr_and_evict_replaced_session,               *)
(* remove_connection, sweep_timeouts, disconnect_client).                  *)
THEOREM TheTablesAreADirectory == Spec => ImplementsDirectory
<1>1. TableInv /\ DirectoryInv /\ [Next]_vars => (TableInv /\ DirectoryInv)' /\ [Directory!Next]_(Directory!vars)
  BY TableStep, DirectoryStep
<1> QED
  BY TableInit, DirectoryInit, <1>1, PTL DEF Spec, ImplementsDirectory, Directory!Spec

-----------------------------------------------------------------------------

(* The datagrams of a way, and the positions of those in a set.            *)
Seen(way) == {way[k] : k \in DOMAIN way}
Places(way, S) == {k \in DOMAIN way : way[k] \in S}
Count(way, S) == Cardinality(Places(way, S))

LEMMA Joined ==
    ASSUME NEW M, NEW a \in Seq(M), NEW b \in Seq(M)
    PROVE  /\ a \o b \in Seq(M)
           /\ Len(a \o b) = Len(a) + Len(b)
           /\ \A j \in 1..(Len(a) + Len(b)) :
                  (a \o b)[j] = IF j <= Len(a) THEN a[j] ELSE b[j - Len(a)]
<1>1. a \o b \in Seq(M)
  OBVIOUS
<1>2. Len(a \o b) = Len(a) + Len(b)
  OBVIOUS
<1>3. \A j \in 1..(Len(a) + Len(b)) : (a \o b)[j] = IF j <= Len(a) THEN a[j] ELSE b[j - Len(a)]
  OBVIOUS
<1> QED BY <1>1, <1>2, <1>3

LEMMA WithoutOne ==
    ASSUME NEW M, NEW way \in Seq(M), NEW k \in DOMAIN way
    PROVE  /\ RemoveAt(way, k) \in Seq(M)
           /\ Len(RemoveAt(way, k)) = Len(way) - 1
           /\ \A j \in 1..(Len(way) - 1) :
                  RemoveAt(way, k)[j] = IF j < k THEN way[j] ELSE way[j + 1]
<1> DEFINE a == SubSeq(way, 1, k - 1)  b == SubSeq(way, k + 1, Len(way))
<1>1. k \in 1..Len(way) /\ Len(way) \in Nat
  OBVIOUS
<1>2. a \in Seq(M) /\ Len(a) = k - 1 /\ \A j \in 1..(k - 1) : a[j] = way[j]
  BY <1>1
<1>3. b \in Seq(M) /\ Len(b) = Len(way) - k /\ \A j \in 1..(Len(way) - k) : b[j] = way[k + j]
  BY <1>1
<1> HIDE DEF a, b
<1>4. a \o b \in Seq(M) /\ Len(a \o b) = Len(way) - 1
  <2>1. a \o b \in Seq(M)
    BY <1>2, <1>3, Joined
  <2>2. Len(a \o b) = Len(a) + Len(b)
    BY <1>2, <1>3, Joined
  <2> QED BY <1>1, <1>2, <1>3, <2>1, <2>2
<1>5. ASSUME NEW j \in 1..(Len(way) - 1)
      PROVE  (a \o b)[j] = IF j < k THEN way[j] ELSE way[j + 1]
  <2>1. (a \o b)[j] = IF j <= Len(a) THEN a[j] ELSE b[j - Len(a)]
    <3>1. j \in 1..(Len(a) + Len(b))
      BY <1>1, <1>2, <1>3
    <3> QED BY <1>2, <1>3, <3>1, Joined
  <2>2. CASE j < k
    BY <2>1, <2>2, <1>1, <1>2
  <2>3. CASE ~(j < k)
    <3>1. j - Len(a) = j - k + 1 /\ j - k + 1 \in 1..(Len(way) - k)
      BY <2>3, <1>1, <1>2
    <3>2. k + (j - k + 1) = j + 1 /\ ~(j <= Len(a))
      BY <2>3, <1>1, <1>2
    <3>3. b[j - k + 1] = way[k + (j - k + 1)]
      BY <3>1, <1>3
    <3> QED BY <2>1, <2>3, <3>1, <3>2, <3>3
  <2> QED BY <2>2, <2>3
<1>6. RemoveAt(way, k) = a \o b
  BY DEF RemoveAt, a, b
<1> QED BY <1>4, <1>5, <1>6

LEMMA SeenWithoutOne ==
    ASSUME NEW M, NEW way \in Seq(M), NEW k \in DOMAIN way
    PROVE  /\ Seen(RemoveAt(way, k)) \subseteq Seen(way)
           /\ Seen(way) \subseteq Seen(RemoveAt(way, k)) \cup {way[k]}
<1> DEFINE less == RemoveAt(way, k)
<1>1. /\ less \in Seq(M) /\ Len(less) = Len(way) - 1
      /\ \A j \in 1..(Len(way) - 1) : less[j] = IF j < k THEN way[j] ELSE way[j + 1]
  BY WithoutOne
<1> HIDE DEF less
<1>2. k \in 1..Len(way) /\ Len(way) \in Nat /\ DOMAIN less = 1..(Len(way) - 1)
  BY <1>1
<1>3. ASSUME NEW j \in DOMAIN less PROVE less[j] \in Seen(way)
  <2>1. j \in DOMAIN way /\ j + 1 \in DOMAIN way
    BY <1>2
  <2> QED BY <2>1, <1>1, <1>2 DEF Seen
<1>4. ASSUME NEW j \in DOMAIN way, j # k PROVE way[j] \in Seen(less)
  <2>1. CASE j < k
    BY <2>1, <1>1, <1>2 DEF Seen
  <2>2. CASE j > k
    <3>1. j - 1 \in DOMAIN less /\ less[j - 1] = way[j]
      BY <2>2, <1>1, <1>2
    <3> QED BY <3>1 DEF Seen
  <2> QED BY <1>4, <2>1, <2>2, <1>2
<1> QED BY <1>3, <1>4 DEF Seen, less

LEMMA SeenWithOne ==
    ASSUME NEW M, NEW way \in Seq(M), NEW m
    PROVE  Seen(Append(way, m)) = Seen(way) \cup {m}
<1>1. /\ DOMAIN Append(way, m) = 1..(Len(way) + 1) /\ Len(way) \in Nat /\ DOMAIN way = 1..Len(way)
      /\ \A j \in 1..Len(way) : Append(way, m)[j] = way[j]
      /\ Append(way, m)[Len(way) + 1] = m
  OBVIOUS
<1> DEFINE more == Append(way, m)
<1> HIDE DEF more
<1>2. ASSUME NEW j \in DOMAIN more PROVE more[j] \in Seen(way) \cup {m}
  <2>1. j \in 1..Len(way) \/ j = Len(way) + 1
    BY <1>1 DEF more
  <2> QED BY <2>1, <1>1 DEF more, Seen
<1>3. ASSUME NEW j \in DOMAIN way PROVE way[j] \in Seen(more)
  <2>1. j \in DOMAIN more /\ more[j] = way[j]
    BY <1>1 DEF more
  <2> QED BY <2>1 DEF Seen
<1>4. m \in Seen(more)
  <2>1. Len(way) + 1 \in DOMAIN more /\ more[Len(way) + 1] = m
    BY <1>1 DEF more
  <2> QED BY <2>1 DEF Seen
<1> QED BY <1>2, <1>3, <1>4 DEF Seen, more

LEMMA PlacesFinite ==
    ASSUME NEW M, NEW way \in Seq(M), NEW S
    PROVE  IsFiniteSet(Places(way, S)) /\ Count(way, S) \in Nat
<1>1. IsFiniteSet(1..Len(way))
  BY FS_Interval
<1>2. Places(way, S) \in SUBSET (1..Len(way))
  BY DEF Places
<1> QED BY <1>1, <1>2, FS_Subset, FS_CardinalityType DEF Count

LEMMA CountWithOne ==
    ASSUME NEW M, NEW way \in Seq(M), NEW S, NEW m
    PROVE  Count(Append(way, m), S) = IF m \in S THEN Count(way, S) + 1 ELSE Count(way, S)
<1> DEFINE more == Append(way, m)
<1>1. /\ DOMAIN more = 1..(Len(way) + 1) /\ Len(way) \in Nat /\ DOMAIN way = 1..Len(way)
      /\ \A j \in 1..Len(way) : more[j] = way[j]
      /\ more[Len(way) + 1] = m
  OBVIOUS
<1> HIDE DEF more
<1>2. Places(more, S) = IF m \in S THEN Places(way, S) \cup {Len(way) + 1} ELSE Places(way, S)
  <2>1. ASSUME NEW j PROVE j \in Places(more, S) <=> j \in Places(way, S) \/ (j = Len(way) + 1 /\ m \in S)
    <3>1. CASE j \in 1..Len(way)
      <4>1. j # Len(way) + 1 /\ j \in DOMAIN more /\ j \in DOMAIN way /\ more[j] = way[j]
        BY <3>1, <1>1
      <4> QED BY <4>1 DEF Places
    <3>2. CASE j = Len(way) + 1
      <4>1. j \in DOMAIN more /\ j \notin DOMAIN way /\ more[j] = m
        BY <3>2, <1>1
      <4> QED BY <4>1, <3>2 DEF Places
    <3>3. CASE j \notin 1..Len(way) /\ j # Len(way) + 1
      <4>1. j \notin DOMAIN more /\ j \notin DOMAIN way
        BY <3>3, <1>1
      <4> QED BY <4>1, <3>3 DEF Places
    <3> QED BY <3>1, <3>2, <3>3
  <2>2. CASE m \in S
    BY <2>1, <2>2
  <2>3. CASE m \notin S
    BY <2>1, <2>3
  <2> QED BY <2>2, <2>3
<1>3. Len(way) + 1 \notin Places(way, S)
  BY <1>1 DEF Places
<1>4. IsFiniteSet(Places(way, S))
  BY PlacesFinite
<1> QED BY <1>2, <1>3, <1>4, FS_AddElement DEF Count, more

LEMMA CountWithoutOne ==
    ASSUME NEW M, NEW way \in Seq(M), NEW S, NEW k \in DOMAIN way
    PROVE  Count(RemoveAt(way, k), S) = IF way[k] \in S THEN Count(way, S) - 1 ELSE Count(way, S)
<1> DEFINE less == RemoveAt(way, k)
<1>1. /\ less \in Seq(M) /\ Len(less) = Len(way) - 1
      /\ \A j \in 1..(Len(way) - 1) : less[j] = IF j < k THEN way[j] ELSE way[j + 1]
  BY WithoutOne
<1> HIDE DEF less
<1>2. k \in 1..Len(way) /\ Len(way) \in Nat /\ DOMAIN less = 1..(Len(way) - 1) /\ DOMAIN way = 1..Len(way)
  BY <1>1
<1> DEFINE P == Places(less, S)  Q == Places(way, S) \ {k}
           f == [j \in P |-> IF j < k THEN j ELSE j + 1]
<1>3. ASSUME NEW j \in P PROVE f[j] \in Q
  <2>1. j \in 1..(Len(way) - 1) /\ less[j] \in S
    BY <1>2 DEF Places
  <2>2. CASE j < k
    BY <2>1, <2>2, <1>1, <1>2 DEF Places
  <2>3. CASE ~(j < k)
    <3>1. j + 1 \in 1..Len(way) /\ j + 1 # k /\ way[j + 1] \in S
      BY <2>1, <2>3, <1>1, <1>2
    <3> QED BY <3>1, <2>3, <1>2 DEF Places
  <2> QED BY <2>2, <2>3
<1>4. \A i, j \in P : f[i] = f[j] => i = j
  <2>1. P \subseteq 1..(Len(way) - 1)
    BY <1>2 DEF Places
  <2> QED BY <2>1, <1>2
<1>5. ASSUME NEW q \in Q PROVE \E j \in P : f[j] = q
  <2>1. q \in 1..Len(way) /\ q # k /\ way[q] \in S
    BY <1>2 DEF Places
  <2>2. CASE q < k
    <3>1. q \in DOMAIN less /\ less[q] = way[q]
      BY <2>1, <2>2, <1>1, <1>2
    <3>2. q \in P
      BY <3>1, <2>1 DEF Places
    <3> QED BY <3>2, <2>2
  <2>3. CASE q > k
    <3>1. q - 1 \in DOMAIN less /\ less[q - 1] = way[q] /\ ~(q - 1 < k) /\ q - 1 + 1 = q
      BY <2>1, <2>3, <1>1, <1>2
    <3>2. q - 1 \in P
      BY <3>1, <2>1 DEF Places
    <3>3. f[q - 1] = q
      BY <3>1, <3>2
    <3> QED BY <3>2, <3>3
  <2> QED BY <2>1, <2>2, <2>3, <1>2
<1>6. f \in Bijection(P, Q)
  <2>1. f \in [P -> Q]
    BY <1>3
  <2> HIDE DEF P, Q, f
  <2>2. f \in Injection(P, Q)
    BY <2>1, <1>4 DEF Injection, IsInjective
  <2>3. f \in Surjection(P, Q)
    BY <2>1, <1>5 DEF Surjection
  <2> QED BY <2>2, <2>3 DEF Bijection
<1>7. ExistsBijection(P, Q)
  BY <1>6 DEF ExistsBijection
<1> HIDE DEF P, Q
<1>8. IsFiniteSet(P) /\ IsFiniteSet(Places(way, S))
  BY PlacesFinite, <1>1 DEF P
<1>9. Cardinality(P) = Cardinality(Q)
  BY <1>7, <1>8, FS_Bijection
<1>10. k \in Places(way, S) <=> way[k] \in S
  BY DEF Places
<1> QED BY <1>8, <1>9, <1>10, FS_RemoveElement DEF P, Q, Count, less

-----------------------------------------------------------------------------
(* What is under way, and what each end holds.                             *)

Upward == {m \in [kind : {"connect", "confirm"}, n : Nat, age : 0..net.max] :
               m.kind = "confirm" => m.n # 0}
Downward == {m \in [kind : {"challenge", "accept", "reject"}, n : Nat, age : 0..net.max] :
                 m.kind = "challenge" => m.n # 0}

OpeningTypes ==
    /\ net \in SettingType /\ trying \in BOOLEAN /\ waited \in Nat /\ due \in 0..Interval
    /\ failed \in {"no", "timeout", "refused"} /\ tokens \in 0..Full
    /\ nonces \in Nat /\ pending \in [nonce : 0..nonces, age : 0..TTL]
    /\ opened \in Seq((1..nonces)) /\ session = Len(opened) /\ mine \in 0..session
    /\ marked \in BOOLEAN /\ acked \in BOOLEAN /\ acks \subseteq 0..session
    /\ resends \in 0..MaxResends /\ since \in 0..Interval
    /\ faults \in 0..net.faults /\ starts \in 1..net.starts
    /\ up \in Seq(Upward) /\ down \in Seq(Downward)
    /\ \A m \in Seen(down) : m.kind = "accept" => m.n \in 1..session

(* A nonce that has opened a session is not pending any more.              *)
NoncesSpent ==
    /\ \A i \in DOMAIN opened : opened[i] # pending.nonce
    /\ \A i, j \in DOMAIN opened : opened[i] = opened[j] => i = j

LEMMA FullNat == Full \in Nat /\ Interval \in Nat \ {0} /\ TTL \in Nat \ {0}
                 /\ MaxResends \in Nat /\ Interval <= Full
<1>1. Burst \in Nat \ {0} /\ Interval \in Nat \ {0} /\ TTL \in Nat \ {0} /\ MaxResends \in Nat
  BY HandshakeAssumption
<1>2. \A b \in Nat \ {0}, i \in Nat \ {0} : b * i \in Nat /\ i <= b * i
  OBVIOUS
<1> QED BY <1>1, <1>2 DEF Full

LEMMA OpeningTypesInit == OpeningInit => OpeningTypes /\ NoncesSpent
<1> SUFFICES ASSUME OpeningInit PROVE OpeningTypes /\ NoncesSpent
  OBVIOUS
<1>1. net \in SettingType
  BY HandshakeAssumption DEF OpeningInit
<1>2. net.starts \in Nat \ {0} /\ net.faults \in Nat
  BY <1>1 DEF SettingType
<1>3. Seen(down) = {} /\ acks = {} /\ up \in Seq(Upward) /\ down \in Seq(Downward) /\ opened \in Seq((1..nonces))
      /\ DOMAIN opened = {} /\ Len(opened) = 0
  BY DEF OpeningInit, Seen
<1>4. pending \in [nonce : 0..nonces, age : 0..TTL]
  BY FullNat DEF OpeningInit, NoChallenge
<1>5. marked \in BOOLEAN /\ acked \in BOOLEAN /\ trying \in BOOLEAN
  BY DEF OpeningInit
<1> QED BY <1>1, <1>2, <1>3, <1>4, <1>5, FullNat DEF OpeningInit, OpeningTypes, NoncesSpent

(* A way in which every datagram is one tick older.                        *)
LEMMA OlderWay ==
    ASSUME NEW M, NEW N, NEW way \in Seq(M), \A k \in DOMAIN way : [way[k] EXCEPT !.age = @ + 1] \in N
    PROVE  Older(way) \in Seq(N)
BY DEF Older

LEMMA WiderSequence ==
    ASSUME NEW S, NEW T, S \subseteq T, NEW q \in Seq(S)
    PROVE  q \in Seq(T)
OBVIOUS

LEMMA OpeningTypesStep ==
    ASSUME OpeningTypes, NoncesSpent, [OpeningNext]_openingVars
    PROVE  OpeningTypes'
<1> USE FullNat
<1>0. /\ net.max \in Nat /\ net.faults \in Nat /\ net.starts \in Nat \ {0} /\ net.slots \in Nat
  BY DEF OpeningTypes, SettingType
<1>1. CASE Tick
  <2>0. /\ \A k \in DOMAIN up : up[k].age < net.max
        /\ \A k \in DOMAIN down : down[k].age < net.max
        /\ up' = Older(up) /\ down' = Older(down)
        /\ trying => due > 0
        /\ ResendOn => since < Interval
        /\ waited' = IF trying THEN waited + 1 ELSE waited
        /\ due' = IF trying THEN due - 1 ELSE due
        /\ since' = IF ResendOn THEN since + 1 ELSE since
        /\ tokens' = Refilled
        /\ trying' = trying
    BY <1>1 DEF Tick
  <2>1. net' = net /\ Upward' = Upward /\ Downward' = Downward
    BY <1>1 DEF Tick, Upward, Downward
  <2>2. ASSUME NEW k \in DOMAIN up PROVE [up[k] EXCEPT !.age = @ + 1] \in Upward
    <3>1. up[k] \in Upward /\ up[k].age < net.max
      BY <2>0 DEF OpeningTypes
    <3> QED BY <3>1, <1>0 DEF Upward
  <2>3. ASSUME NEW k \in DOMAIN down PROVE [down[k] EXCEPT !.age = @ + 1] \in Downward
    <3>1. down[k] \in Downward /\ down[k].age < net.max
      BY <2>0 DEF OpeningTypes
    <3> QED BY <3>1, <1>0 DEF Downward
  <2>4. up \in Seq(Upward) /\ down \in Seq(Downward)
    BY DEF OpeningTypes
  <2>5. up' \in Seq(Upward)
    BY <2>0, <2>2, <2>4, OlderWay
  <2>6. /\ down' \in Seq(Downward) /\ DOMAIN down' = DOMAIN down
        /\ \A k \in DOMAIN down : down'[k] = [down[k] EXCEPT !.age = @ + 1]
    <3>1. Older(down) \in Seq(Downward) /\ DOMAIN Older(down) = DOMAIN down
          /\ \A k \in DOMAIN down : Older(down)[k] = [down[k] EXCEPT !.age = @ + 1]
      <4>1. Older(down) \in Seq(Downward)
        BY <2>3, <2>4, OlderWay
      <4> QED BY <4>1 DEF Older
    <3> QED BY <2>0, <3>1
  <2>7. ASSUME NEW m \in Seen(down'), m.kind = "accept" PROVE m.n \in 1..session
    <3>1. PICK k \in DOMAIN down : m = [down[k] EXCEPT !.age = @ + 1]
      BY <2>6, <2>7 DEF Seen
    <3>2. down[k] \in Downward /\ down[k] \in Seen(down)
      BY <2>4 DEF Seen
    <3>3. m.kind = down[k].kind /\ m.n = down[k].n
      BY <3>1, <3>2 DEF Downward
    <3> QED BY <2>7, <3>2, <3>3 DEF OpeningTypes
  <2>8. /\ trying' = trying /\ waited' \in Nat /\ due' \in 0..Interval /\ since' \in 0..Interval
    <3>1. trying \in BOOLEAN /\ waited \in Nat /\ due \in 0..Interval /\ since \in 0..Interval
      BY DEF OpeningTypes
    <3>2. waited' \in Nat
      BY <2>0, <3>1
    <3>3. due' \in 0..Interval
      BY <2>0, <3>1
    <3>4. since' \in 0..Interval
      BY <2>0, <3>1
    <3> QED BY <2>0, <3>2, <3>3, <3>4
  <2>9. tokens' \in 0..Full
    <3>1. tokens \in 0..Full
      BY DEF OpeningTypes
    <3> QED BY <2>0, <3>1 DEF Refilled
  <2>10. pending' \in [nonce : 0..nonces, age : 0..TTL]
    <3>1. pending \in [nonce : 0..nonces, age : 0..TTL]
      BY DEF OpeningTypes
    <3>2. nonces \in Nat
      BY DEF OpeningTypes
    <3> QED BY <1>1, <3>1, <3>2 DEF Tick, NoChallenge
  <2> QED BY <1>1, <2>1, <2>5, <2>6, <2>7, <2>8, <2>9, <2>10 DEF Tick, OpeningTypes, Seen
<1>2. CASE Fault
  <2>1. net' = net /\ Upward' = Upward /\ Downward' = Downward /\ UNCHANGED <<client, server, acks, starts, opened>>
        /\ faults' \in 0..net.faults
    BY <1>2, <1>0 DEF Fault, Upward, Downward, OpeningTypes
  <2>2. ASSUME NEW M, NEW way \in Seq(M), NEW k \in Ready(way), NEW w \in Faulty(way, k)
        PROVE  w \in Seq(M) /\ Seen(w) \subseteq Seen(way)
    <3>1. k \in DOMAIN way /\ way[k] \in M /\ way[k] \in Seen(way)
      BY DEF Ready, Seen
    <3>2. RemoveAt(way, k) \in Seq(M) /\ Seen(RemoveAt(way, k)) \subseteq Seen(way)
      BY <3>1, WithoutOne, SeenWithoutOne
    <3>3. Append(way, way[k]) \in Seq(M) /\ Seen(Append(way, way[k])) = Seen(way) \cup {way[k]}
      BY <3>1, SeenWithOne
    <3>4. w = RemoveAt(way, k) \/ w = Append(way, way[k])
      BY DEF Faulty
    <3> QED BY <3>1, <3>2, <3>3, <3>4
  <2>3. up' \in Seq(Upward) /\ down' \in Seq(Downward) /\ Seen(down') \subseteq Seen(down)
    <3>1. up \in Seq(Upward) /\ down \in Seq(Downward)
      BY DEF OpeningTypes
    <3>2. CASE \E k \in Ready(up) : up' \in Faulty(up, k) /\ UNCHANGED down
      BY <3>1, <3>2, <2>2
    <3>3. CASE \E k \in Ready(down) : down' \in Faulty(down, k) /\ UNCHANGED up
      BY <3>1, <3>3, <2>2
    <3> QED BY <1>2, <3>2, <3>3 DEF Fault
  <2> QED BY <2>1, <2>3 DEF OpeningTypes, client, server, Seen
<1>3. CASE Retry
  <2>1. net' = net /\ Upward' = Upward /\ Downward' = Downward
    BY <1>3 DEF Retry, Upward, Downward
  <2>0. \/ trying' = FALSE /\ failed' = "timeout" /\ due' = due /\ up' = up
        \/ due' = Interval /\ up' = Append(up, Datagram("connect", 0)) /\ trying' = trying /\ failed' = failed
    BY <1>3 DEF Retry, RetryIn
  <2>2. up' \in Seq(Upward)
    <3>1. up \in Seq(Upward) /\ Datagram("connect", 0) \in Upward
      BY <1>0 DEF OpeningTypes, Upward, Datagram
    <3> HIDE DEF Datagram
    <3> QED BY <2>0, <3>1
  <2>3. due' \in 0..Interval /\ trying' \in BOOLEAN /\ failed' \in {"no", "timeout", "refused"}
    <3>1. due \in 0..Interval /\ trying \in BOOLEAN /\ failed \in {"no", "timeout", "refused"}
      BY DEF OpeningTypes
    <3>2. due' \in 0..Interval
      BY <2>0, <3>1
    <3>3. trying' \in BOOLEAN
      BY <2>0, <3>1, Zenon
    <3>4. failed' \in {"no", "timeout", "refused"}
      BY <2>0, <3>1
    <3> QED BY <3>2, <3>3, <3>4
  <2> QED BY <1>3, <2>1, <2>2, <2>3 DEF Retry, OpeningTypes, server, Seen
<1>4. CASE ClientReceive
  <2>1. PICK k \in Ready(down) :
            /\ down' = RemoveAt(down, k)
            /\ Answer(k) \/ TakeAccept(k) \/ TakeReject(k)
            /\ UNCHANGED <<net, server, faults, starts, opened>>
    BY <1>4 DEF ClientReceive
  <2>2. up \in Seq(Upward) /\ down \in Seq(Downward) /\ k \in DOMAIN down
    BY DEF Ready, OpeningTypes
  <2>3. down[k] \in Downward /\ down[k] \in Seen(down)
    BY <2>2 DEF Seen
  <2>4. net' = net /\ Upward' = Upward /\ Downward' = Downward
    BY <2>1 DEF Upward, Downward
  <2>5. down' \in Seq(Downward) /\ Seen(down') \subseteq Seen(down)
    BY <2>1, <2>2, WithoutOne, SeenWithoutOne
  <2>6. up' \in Seq(Upward)
    <3>1. CASE Answer(k)
      <4>1. Datagram("confirm", down[k].n) \in Upward
        BY <3>1, <2>3, <1>0 DEF Answer, Upward, Downward, Datagram
      <4> QED BY <3>1, <4>1, <2>2 DEF Answer
    <3>2. CASE TakeAccept(k) \/ TakeReject(k)
      BY <3>2, <2>2 DEF TakeAccept, TakeReject
    <3> QED BY <2>1, <3>1, <3>2
  <2>7. /\ trying' \in BOOLEAN /\ waited' \in Nat /\ due' \in 0..Interval
        /\ failed' \in {"no", "timeout", "refused"} /\ mine' \in 0..session
        /\ marked' \in BOOLEAN /\ acks' \subseteq 0..session
    <3>1. CASE Answer(k)
      BY <3>1 DEF Answer, client, OpeningTypes
    <3>2. CASE TakeAccept(k)
      <4>1. down[k].n \in 1..session /\ session \in Nat
        BY <3>2, <2>3 DEF TakeAccept, OpeningTypes
      <4>2. mine' = down[k].n /\ trying' = FALSE /\ UNCHANGED <<waited, due, failed>>
        BY <3>2 DEF TakeAccept
      <4>3. mine' \in 0..session /\ 0 \in 0..session /\ down[k].n \in 0..session
        BY <4>1, <4>2
      <4>4. marked' \in BOOLEAN /\ acks' \subseteq acks \cup {down[k].n, 0}
        BY <3>2 DEF TakeAccept, Echoes, NoEcho, OpeningTypes
      <4>5. acks' \subseteq 0..session
        BY <4>3, <4>4 DEF OpeningTypes
      <4> QED BY <4>2, <4>3, <4>4, <4>5 DEF OpeningTypes
    <3>3. CASE TakeReject(k)
      BY <3>3 DEF TakeReject, OpeningTypes
    <3> QED BY <2>1, <3>1, <3>2, <3>3
  <2> QED BY <2>1, <2>4, <2>5, <2>6, <2>7 DEF OpeningTypes, server, Seen
<1>5. CASE Restart
  <2>1. net' = net /\ Upward' = Upward /\ Downward' = Downward
    BY <1>5 DEF Restart, Upward, Downward
  <2>2. starts' \in 1..net.starts
    BY <1>5, <1>0 DEF Restart, OpeningTypes
  <2>3. session \in Nat
    BY DEF OpeningTypes
  <2>4. mine' = 0 /\ UNCHANGED <<session, acked, acks, resends, since, up, down>>
    BY <1>5 DEF Restart, server
  <2>5. trying' \in BOOLEAN /\ marked' \in BOOLEAN
    BY <1>5 DEF Restart
  <2> QED BY <1>5, <2>1, <2>2, <2>3, <2>4, <2>5 DEF Restart, OpeningTypes, server, Seen
<1>6. CASE ServerReceive
  <2>1. PICK k \in Ready(up) :
            /\ up' = RemoveAt(up, k)
            /\ Limited \/ Challenge(k) \/ Admit(k) \/ IgnoreConfirm(k)
            /\ UNCHANGED <<net, client, acks, faults, starts>>
    BY <1>6 DEF ServerReceive
  <2>2. up \in Seq(Upward) /\ down \in Seq(Downward) /\ k \in DOMAIN up
    BY DEF Ready, OpeningTypes
  <2>3. up[k] \in Upward
    BY <2>2
  <2>4. net' = net /\ Upward' = Upward /\ Downward' = Downward
    BY <2>1 DEF Upward, Downward
  <2>5. up' \in Seq(Upward)
    BY <2>1, <2>2, WithoutOne
  <2>6. CASE Limited
    BY <2>1, <2>4, <2>5, <2>6 DEF Limited, OpeningTypes, client, server, Seen
  <2>7. CASE IgnoreConfirm(k)
    <3>1. tokens' \in 0..Full /\ pending' \in [nonce : 0..nonces, age : 0..TTL]
      <4>1. tokens \in 0..Full /\ nonces \in Nat
        BY DEF OpeningTypes
      <4>2. tokens >= Interval /\ tokens' = tokens - Interval /\ pending' = [nonce |-> 0, age |-> 0]
        BY <2>7 DEF IgnoreConfirm, Left, Taken, NoChallenge
      <4>3. tokens' \in 0..Full
        BY <4>1, <4>2
      <4> QED BY <4>1, <4>2, <4>3
    <3> QED BY <2>1, <2>4, <2>5, <2>7, <3>1 DEF IgnoreConfirm, OpeningTypes, client, Seen
  <2>8. CASE Challenge(k)
    <3> DEFINE d == Datagram("challenge", nonces + 1)
    <3>0. nonces \in Nat
      BY DEF OpeningTypes
    <3>1. tokens' \in 0..Full /\ nonces' = nonces + 1 /\ pending' \in [nonce : 0..(nonces + 1), age : 0..TTL]
      <4>1. tokens \in 0..Full
        BY DEF OpeningTypes
      <4>2. /\ tokens >= Interval /\ tokens' = tokens - Interval /\ nonces' = nonces + 1
            /\ pending' = [nonce |-> nonces + 1, age |-> 0]
        BY <2>8 DEF Challenge, Left
      <4>3. tokens' \in 0..Full
        BY <4>1, <4>2
      <4> QED BY <3>0, <4>2, <4>3
    <3>2. d \in Downward /\ d.kind # "accept"
      BY <3>0, <1>0 DEF Downward, Datagram
    <3>3. down' = Append(down, d)
      BY <2>8 DEF Challenge
    <3> HIDE DEF d
    <3>4. down' \in Seq(Downward) /\ Seen(down') = Seen(down) \cup {d}
      BY <3>2, <3>3, <2>2, SeenWithOne
    <3>5. opened \in Seq((1..(nonces + 1))) /\ opened' = opened
      <4>1. 1..nonces \subseteq 1..(nonces + 1)
        BY <3>0
      <4>2. opened \in Seq((1..nonces))
        BY DEF OpeningTypes
      <4>3. opened' = opened
        BY <2>8 DEF Challenge
      <4>4. opened \in Seq((1..(nonces + 1)))
        <5> DEFINE S == 1..nonces  T == 1..(nonces + 1)
        <5>1. S \subseteq T /\ opened \in Seq(S)
          BY <4>1, <4>2
        <5> HIDE DEF S, T
        <5>2. opened \in Seq(T)
          BY <5>1, WiderSequence
        <5> QED BY <5>2 DEF T
      <4> QED BY <4>3, <4>4
    <3>6. UNCHANGED <<session, resends, since, acked>>
      BY <2>8 DEF Challenge
    <3>7. \A m \in Seen(down)' : m.kind = "accept" => m.n \in 1..session
      BY <3>4, <3>2 DEF OpeningTypes, Seen
    <3>8. (nonces + 1) \in Nat
      BY <3>0
    <3> QED BY <2>1, <2>4, <2>5, <3>1, <3>4, <3>5, <3>6, <3>7, <3>8 DEF OpeningTypes, client
  <2>9. CASE Admit(k)
    <3>1. tokens' \in 0..Full /\ pending' \in [nonce : 0..nonces, age : 0..TTL] /\ nonces' = nonces
          /\ nonces \in Nat
      BY <2>9 DEF Admit, Left, Taken, NoChallenge, OpeningTypes
    <3>2. CASE Slot >= net.slots
      <4> DEFINE d == Datagram("reject", 0)
      <4>1. d \in Downward /\ d.kind # "accept"
        BY <1>0 DEF Downward, Datagram
      <4>2. down' = Append(down, d) /\ UNCHANGED <<session, resends, since, acked, opened>>
        BY <2>9, <3>2 DEF Admit
      <4> HIDE DEF d
      <4>3. down' \in Seq(Downward) /\ Seen(down') = Seen(down) \cup {d}
        BY <4>1, <4>2, <2>2, SeenWithOne
      <4>4. \A m \in Seen(down)' : m.kind = "accept" => m.n \in 1..session
        BY <4>1, <4>3 DEF OpeningTypes, Seen
      <4> QED BY <2>1, <2>4, <2>5, <3>1, <4>2, <4>3, <4>4 DEF OpeningTypes, client
    <3>3. CASE ~(Slot >= net.slots)
      <4> DEFINE d == Datagram("accept", Len(opened) + 1)
      <4>1. opened \in Seq((1..nonces)) /\ Len(opened) \in Nat /\ session = Len(opened)
        BY DEF OpeningTypes
      <4>2. d \in Downward /\ d.n = session + 1
        BY <1>0, <4>1 DEF Downward, Datagram
      <4>3. /\ down' = Append(down, d) /\ opened' = Append(opened, up[k].n)
            /\ session' = Len(opened) + 1 /\ resends' = 0 /\ since' = 0 /\ acked' = FALSE
        BY <2>9, <3>3 DEF Admit
      <4> HIDE DEF d
      <4>4. down' \in Seq(Downward) /\ Seen(down') = Seen(down) \cup {d}
        BY <4>2, <4>3, <2>2, SeenWithOne
      <4>5. up[k].n \in 1..nonces
        <5>1. up[k].n = pending.nonce /\ up[k].n # 0
          BY <2>9, <2>3 DEF Admit, Matches, Upward
        <5>2. pending.nonce \in 0..nonces
          BY DEF OpeningTypes
        <5> QED BY <5>1, <5>2, <3>1
      <4>6. opened' \in Seq((1..nonces)) /\ Len(opened') = Len(opened) + 1
        BY <4>1, <4>3, <4>5
      <4>7. \A m \in Seen(down)' : m.kind = "accept" => m.n \in 1..session'
        <5>1. \A m \in Seen(down) : m.kind = "accept" => m.n \in 1..session
          BY DEF OpeningTypes
        <5>2. session' = session + 1 /\ session \in Nat
          BY <4>1, <4>3
        <5>3. 1..session \subseteq 1..session' /\ session + 1 \in 1..session'
          BY <5>2
        <5>4. Seen(down)' = Seen(down')
          BY DEF Seen
        <5> QED BY <5>1, <5>3, <5>4, <4>2, <4>4
      <4>8. mine' \in 0..session' /\ mine' = mine /\ acks' \subseteq 0..session'
        <5>1. mine \in 0..session /\ acks \subseteq 0..session
          BY DEF OpeningTypes
        <5>2. 0..session \subseteq 0..session'
          BY <4>1, <4>3
        <5>3. mine' = mine /\ acks' = acks
          BY <2>1 DEF client
        <5> QED BY <5>1, <5>2, <5>3
      <4>9. acked' \in BOOLEAN
        BY <4>3
      <4> QED BY <2>1, <2>4, <2>5, <3>1, <4>3, <4>4, <4>6, <4>7, <4>8, <4>9 DEF OpeningTypes, client
    <3> QED BY <3>2, <3>3
  <2> QED BY <2>1, <2>6, <2>7, <2>8, <2>9
<1>7. CASE ResendAccept
  <2> DEFINE d == Datagram("accept", session)
  <2>1. session \in 1..session /\ session \in Nat
    BY <1>7 DEF ResendAccept, ResendOn, OpeningTypes
  <2>2. d \in Downward /\ d.n = session
    BY <2>1, <1>0 DEF Downward, Datagram
  <2>3. down' = Append(down, d) /\ net' = net /\ Upward' = Upward /\ Downward' = Downward
    BY <1>7 DEF ResendAccept, LiveAccept, Upward, Downward
  <2> HIDE DEF d
  <2>4. down' \in Seq(Downward) /\ Seen(down') = Seen(down) \cup {d}
    BY <2>2, <2>3, SeenWithOne DEF OpeningTypes
  <2>5. resends' \in 0..MaxResends /\ since' \in 0..Interval
    BY <1>7 DEF ResendAccept, ResendOn, OpeningTypes
  <2>6. \A m \in Seen(down)' : m.kind = "accept" => m.n \in 1..session
    BY <2>1, <2>2, <2>4 DEF OpeningTypes, Seen
  <2> QED BY <1>7, <2>3, <2>4, <2>5, <2>6 DEF ResendAccept, OpeningTypes, client
<1>8. CASE UNCHANGED openingVars
  BY <1>8 DEF openingVars, client, server, OpeningTypes, Upward, Downward, Seen
<1>9. CASE TakeAck
  <2>1. since' \in 0..Interval /\ acked' \in BOOLEAN
    BY <1>9 DEF TakeAck
  <2> QED BY <1>9, <2>1 DEF TakeAck, OpeningTypes, client, Upward, Downward, Seen
<1> QED BY <1>1, <1>2, <1>3, <1>4, <1>5, <1>6, <1>7, <1>8, <1>9 DEF OpeningNext

LEMMA NoncesStep ==
    ASSUME OpeningTypes, NoncesSpent, [OpeningNext]_openingVars
    PROVE  NoncesSpent'
<1> USE FullNat
<1>0. /\ nonces \in Nat /\ opened \in Seq((1..nonces)) /\ pending.nonce \in 0..nonces
      /\ DOMAIN opened = 1..Len(opened) /\ Len(opened) \in Nat
      /\ \A i \in DOMAIN opened : opened[i] \in 1..nonces
  <2>1. nonces \in Nat /\ opened \in Seq((1..nonces)) /\ pending \in [nonce : 0..nonces, age : 0..TTL]
    BY DEF OpeningTypes
  <2>2. DOMAIN opened = 1..Len(opened) /\ Len(opened) \in Nat /\ \A i \in DOMAIN opened : opened[i] \in 1..nonces
    BY <2>1
  <2>3. pending.nonce \in 0..nonces
    BY <2>1
  <2> QED BY <2>1, <2>2, <2>3
<1>1. CASE opened' = opened /\ pending'.nonce \in {0, pending.nonce, nonces + 1}
  BY <1>0, <1>1 DEF NoncesSpent
<1>2. ASSUME NEW k \in DOMAIN up, Admit(k), opened' # opened PROVE NoncesSpent'
  <2>1. opened' = Append(opened, pending.nonce) /\ pending' = [nonce |-> 0, age |-> 0]
    BY <1>2 DEF Admit, Matches, Taken, NoChallenge
  <2>2. up[k] \in Upward /\ up[k].kind = "confirm" /\ up[k].n = pending.nonce
    BY <1>2 DEF Admit, Matches, OpeningTypes
  <2>3. pending.nonce \in 1..nonces
    BY <1>0, <2>2 DEF Upward
  <2> DEFINE c == pending.nonce  more == Append(opened, c)
  <2>4. /\ DOMAIN more = 1..(Len(opened) + 1) /\ more[Len(opened) + 1] = c
        /\ \A i \in 1..Len(opened) : more[i] = opened[i]
    BY <1>0
  <2>5. \A i \in DOMAIN opened : opened[i] # c
    BY DEF NoncesSpent
  <2>6. \A i, j \in DOMAIN opened : opened[i] = opened[j] => i = j
    BY DEF NoncesSpent
  <2> HIDE DEF more, c
  <2>7. \A i \in DOMAIN more : more[i] # 0
    <3>1. c # 0
      BY <2>3 DEF c
    <3> QED BY <1>0, <2>4, <3>1
  <2>8. \A i, j \in DOMAIN more : more[i] = more[j] => i = j
    BY <1>0, <2>4, <2>5, <2>6
  <2> QED BY <2>1, <2>7, <2>8 DEF NoncesSpent, more, c
<1>3. CASE Tick
  <2>1. opened' = opened /\ (pending' = NoChallenge \/ pending' = [pending EXCEPT !.age = @ + 1])
    BY <1>3 DEF Tick
  <2>2. pending \in [nonce : 0..nonces, age : 0..TTL]
    BY DEF OpeningTypes
  <2> QED BY <1>1, <2>1, <2>2 DEF NoChallenge
<1>4. CASE ServerReceive
  <2>1. PICK k \in Ready(up) : Limited \/ Challenge(k) \/ Admit(k) \/ IgnoreConfirm(k)
    BY <1>4 DEF ServerReceive
  <2>2. k \in DOMAIN up
    BY DEF Ready
  <2>3. CASE Limited
    BY <1>1, <2>3 DEF Limited, server
  <2>4. CASE Challenge(k)
    <3>1. opened' = opened /\ pending' = [nonce |-> nonces + 1, age |-> 0]
      BY <2>4 DEF Challenge
    <3> QED BY <1>1, <3>1
  <2>5. CASE IgnoreConfirm(k)
    BY <1>1, <2>5 DEF IgnoreConfirm, Taken, NoChallenge
  <2>6. CASE Admit(k)
    <3>1. pending' = [nonce |-> 0, age |-> 0]
      BY <2>6 DEF Admit, Taken, NoChallenge
    <3> QED BY <1>1, <1>2, <2>2, <2>6, <3>1
  <2> QED BY <2>1, <2>3, <2>4, <2>5, <2>6
<1>5. CASE Fault \/ Retry \/ ClientReceive \/ Restart \/ ResendAccept \/ TakeAck \/ UNCHANGED openingVars
  <2>1. UNCHANGED <<opened, pending>>
    BY <1>5 DEF Fault, Retry, ClientReceive, Restart, ResendAccept, TakeAck, openingVars, server
  <2> QED BY <1>1, <2>1
<1> QED BY <1>3, <1>4, <1>5 DEF OpeningNext

(* Nobody is refused who has a slot more than a leftover session holds.    *)
NoRefusal ==
    net.slots > 1 => failed # "refused" /\ \A m \in Seen(down) : m.kind # "reject"

LEMMA NoRefusalStep ==
    ASSUME OpeningTypes, NoRefusal, [OpeningNext]_openingVars
    PROVE  NoRefusal'
<1>0. net \in SettingType /\ net' = net /\ net.slots \in Nat
  <2>1. net' = net
    BY DEF OpeningNext, Tick, Fault, Retry, ClientReceive, Restart, ServerReceive, ResendAccept, TakeAck, openingVars
  <2> QED BY <2>1 DEF OpeningTypes, SettingType
<1> SUFFICES ASSUME net.slots > 1
             PROVE  failed' # "refused" /\ \A m \in Seen(down') : m.kind # "reject"
  BY <1>0 DEF NoRefusal, Seen
<1>1. failed # "refused" /\ \A m \in Seen(down) : m.kind # "reject"
  BY DEF NoRefusal
<1>2. up \in Seq(Upward) /\ down \in Seq(Downward)
  BY DEF OpeningTypes
<1>3. CASE Seen(down') \subseteq Seen(down) /\ failed' \in {"no", "timeout", failed}
  BY <1>1, <1>3
<1>4. ASSUME NEW d, down' = Append(down, d), d.kind # "reject", failed' = failed
      PROVE  failed' # "refused" /\ \A m \in Seen(down') : m.kind # "reject"
  <2>1. Seen(down') = Seen(down) \cup {d}
    BY <1>2, <1>4, SeenWithOne
  <2> QED BY <2>1, <1>1, <1>4
<1>5. CASE Tick
  <2>1. failed' = failed /\ down' = Older(down)
    BY <1>5 DEF Tick
  <2>2. ASSUME NEW m \in Seen(down') PROVE m.kind # "reject"
    <3>1. PICK k \in DOMAIN down : m = [down[k] EXCEPT !.age = @ + 1]
      BY <2>1, <2>2 DEF Seen, Older
    <3>2. down[k] \in Downward /\ down[k] \in Seen(down)
      BY <1>2 DEF Seen
    <3>3. m.kind = down[k].kind
      BY <3>1, <3>2 DEF Downward
    <3> QED BY <3>2, <3>3, <1>1
  <2> QED BY <1>1, <2>1, <2>2
<1>6. CASE Fault
  <2>1. failed' = failed
    BY <1>6 DEF Fault, client
  <2>2. CASE UNCHANGED down
    BY <1>3, <2>1, <2>2
  <2>3. CASE \E k \in Ready(down) : down' \in Faulty(down, k)
    <3>1. PICK k \in Ready(down) : down' \in Faulty(down, k)
      BY <2>3
    <3>2. k \in DOMAIN down /\ down[k] \in Seen(down)
      BY DEF Ready, Seen
    <3>3. CASE down' = RemoveAt(down, k)
      BY <1>2, <1>3, <2>1, <3>2, <3>3, SeenWithoutOne
    <3>4. CASE down' = Append(down, down[k])
      BY <1>1, <1>4, <2>1, <3>2, <3>4
    <3> QED BY <3>1, <3>3, <3>4 DEF Faulty
  <2> QED BY <1>6, <2>2, <2>3 DEF Fault
<1>7. CASE Retry
  BY <1>3, <1>7 DEF Retry
<1>8. CASE ClientReceive
  <2>1. PICK k \in Ready(down) :
            down' = RemoveAt(down, k) /\ (Answer(k) \/ TakeAccept(k) \/ TakeReject(k))
    BY <1>8 DEF ClientReceive
  <2>2. k \in DOMAIN down /\ down[k] \in Seen(down)
    BY DEF Ready, Seen
  <2>3. ~TakeReject(k)
    BY <2>2, <1>1 DEF TakeReject
  <2>4. failed' = failed
    BY <2>1, <2>3 DEF Answer, TakeAccept, client
  <2> QED BY <1>2, <1>3, <2>1, <2>2, <2>4, SeenWithoutOne
<1>9. CASE Restart
  BY <1>3, <1>9 DEF Restart
<1>10. CASE ServerReceive
  <2>1. PICK k \in Ready(up) : Limited \/ Challenge(k) \/ Admit(k) \/ IgnoreConfirm(k)
    BY <1>10 DEF ServerReceive
  <2>2. failed' = failed
    BY <1>10 DEF ServerReceive, client
  <2>3. CASE Limited \/ IgnoreConfirm(k)
    BY <1>3, <2>2, <2>3 DEF Limited, IgnoreConfirm
  <2>4. CASE Challenge(k)
    BY <1>4, <2>2, <2>4 DEF Challenge, Datagram
  <2>5. CASE Admit(k)
    <3>1. ~(Slot >= net.slots)
      BY <1>0 DEF Slot
    <3> QED BY <1>4, <2>2, <2>5, <3>1 DEF Admit, Datagram
  <2> QED BY <2>1, <2>3, <2>4, <2>5
<1>11. CASE ResendAccept
  <2>1. failed' = failed /\ \E i \in LiveAccept : down' = Append(down, Datagram("accept", i))
    BY <1>11 DEF ResendAccept, client
  <2> QED BY <2>1, <1>4 DEF Datagram
<1>12. CASE TakeAck \/ UNCHANGED openingVars
  BY <1>3, <1>12 DEF TakeAck, openingVars, client
<1> QED BY <1>5, <1>6, <1>7, <1>8, <1>9, <1>10, <1>11, <1>12 DEF OpeningNext

-----------------------------------------------------------------------------
(* On a network that is quicker than the retries and loses nothing, a      *)
(* start of the client has one exchange at a time.                         *)

Challenges == [kind : {"challenge"}, n : Nat, age : Nat]
Under == Len(up) + Count(down, Challenges)
Exchanges == Len(opened) + Under
Quick == net.faults = 0 /\ 4 * net.max < Interval

Fresh == due = 0 /\ waited = 0

(* The time since a datagram's Connect is at most this.                    *)
Reached(m) ==
    m.age + (IF m.kind = "connect" THEN 0
             ELSE IF m.kind = "challenge" THEN net.max
             ELSE IF m.kind = "confirm" THEN 2 * net.max ELSE 3 * net.max)

Young(m) == m.kind # "reject" /\ Interval - due <= Reached(m)

(* Every exchange under way is as young as the last Connect, and when each *)
(* start has had a session, the last Accept has yet to arrive.             *)
OneEach ==
    Quick =>
        /\ Exchanges <= starts
        /\ trying /\ Fresh => Exchanges < starts
        /\ trying /\ ~Fresh =>
               /\ \A m \in Seen(up) : Young(m)
               /\ \A m \in Seen(down) : m.kind = "challenge" => Young(m)
               /\ Exchanges = starts => \E m \in Seen(up) \cup Seen(down) : Young(m)

LEMMA OneEachStep ==
    ASSUME OpeningTypes, OneEach, [OpeningNext]_openingVars
    PROVE  OneEach'
<1>0. /\ net \in SettingType /\ net' = net /\ net.max \in Nat /\ net.slots \in Nat
      /\ Interval \in Nat \ {0}
  <2>1. net' = net
    BY DEF OpeningNext, Tick, Fault, Retry, ClientReceive, Restart, ServerReceive, ResendAccept, TakeAck, openingVars
  <2> QED BY <2>1, FullNat DEF OpeningTypes, SettingType
<1> SUFFICES ASSUME Quick
             PROVE  OneEach'
  BY <1>0 DEF OneEach, Quick
<1>1. /\ up \in Seq(Upward) /\ down \in Seq(Downward) /\ Len(up) \in Nat /\ Len(opened) \in Nat
      /\ Count(down, Challenges) \in Nat /\ Under \in Nat /\ Exchanges \in Nat /\ starts \in Nat
      /\ due \in 0..Interval /\ waited \in Nat
  <2>1. up \in Seq(Upward) /\ down \in Seq(Downward) /\ opened \in Seq((1..nonces)) /\ starts \in Nat
        /\ due \in 0..Interval /\ waited \in Nat
    BY <1>0 DEF OpeningTypes, SettingType
  <2>2. Len(up) \in Nat /\ Len(opened) \in Nat
    BY <2>1
  <2>3. Count(down, Challenges) \in Nat
    BY <2>1, PlacesFinite
  <2> QED BY <2>1, <2>2, <2>3 DEF Under, Exchanges
<1>2. /\ Exchanges <= starts
      /\ trying /\ Fresh => Exchanges < starts
      /\ trying /\ ~Fresh =>
             /\ \A m \in Seen(up) : Young(m)
             /\ \A m \in Seen(down) : m.kind = "challenge" => Young(m)
             /\ Exchanges = starts => \E m \in Seen(up) \cup Seen(down) : Young(m)
  BY DEF OneEach
<1>3. \A m \in Seen(up) \cup Seen(down) :
          /\ m \in Upward \cup Downward
          /\ m.kind # "reject" => Reached(m) \in Nat /\ Reached(m) <= 4 * net.max
  <2>1. ASSUME NEW m \in Upward \cup Downward
        PROVE  m.kind # "reject" => Reached(m) \in Nat /\ Reached(m) <= 4 * net.max
    <3>1. m.age \in 0..net.max
      BY <1>0 DEF Upward, Downward
    <3> QED BY <3>1, <1>0 DEF Reached
  <2>2. Seen(up) \subseteq Upward /\ Seen(down) \subseteq Downward
    BY <1>1 DEF Seen
  <2> QED BY <2>1, <2>2
<1>4. ASSUME due = 0 PROVE \A m \in Seen(up) \cup Seen(down) : ~Young(m)
  BY <1>0, <1>3, <1>4 DEF Young, Quick
<1>5. \A m \in Downward : m \in Challenges <=> m.kind = "challenge"
  <2>1. 0..net.max \subseteq Nat
    BY <1>0
  <2> QED BY <2>1 DEF Downward, Challenges
<1>6. CASE Tick
  <2>0. /\ up' = Older(up) /\ down' = Older(down) /\ opened' = opened /\ starts' = starts
        /\ trying' = trying
        /\ trying => due > 0
        /\ waited' = (IF trying THEN waited + 1 ELSE waited)
        /\ due' = (IF trying THEN due - 1 ELSE due)
    BY <1>6 DEF Tick
  <2>1. Len(up') = Len(up)
    BY <2>0, <1>1 DEF Older
  <2>2. Places(down', Challenges) = Places(down, Challenges)
    <3>1. ASSUME NEW k \in DOMAIN down
          PROVE  [down[k] EXCEPT !.age = @ + 1] \in Challenges <=> down[k] \in Challenges
      <4>1. down[k] \in Downward
        BY <1>1
      <4> QED BY <4>1, <1>0 DEF Downward, Challenges
    <3>2. DOMAIN down' = DOMAIN down /\ \A k \in DOMAIN down : down'[k] = [down[k] EXCEPT !.age = @ + 1]
      BY <2>0 DEF Older
    <3> QED BY <3>1, <3>2 DEF Places
  <2>3. Exchanges' = Exchanges
    BY <2>0, <2>1, <2>2 DEF Exchanges, Under, Count
  <2>4. ASSUME NEW way, way \in {up, down}, NEW m \in Seen(Older(way))
        PROVE  \E o \in Seen(way) : m.kind = o.kind /\ m.age = o.age + 1
    <3>1. PICK k \in DOMAIN way : m = [way[k] EXCEPT !.age = @ + 1]
      BY DEF Seen, Older
    <3>2. way[k] \in Upward \cup Downward /\ way[k] \in Seen(way)
      BY <1>1, <2>4 DEF Seen
    <3>3. m.kind = way[k].kind /\ m.age = way[k].age + 1
      BY <3>1, <3>2 DEF Upward, Downward
    <3> QED BY <3>2, <3>3
  <2>5. ASSUME NEW way, way \in {up, down}, NEW o \in Seen(way)
        PROVE  \E m \in Seen(Older(way)) : m.kind = o.kind /\ m.age = o.age + 1
    <3>1. PICK k \in DOMAIN way : o = way[k]
      BY DEF Seen
    <3>2. way[k] \in Upward \cup Downward
      BY <1>1, <2>5
    <3> DEFINE m == [way[k] EXCEPT !.age = @ + 1]
    <3>3. m.kind = o.kind /\ m.age = o.age + 1
      BY <3>1, <3>2 DEF Upward, Downward
    <3>4. m \in Seen(Older(way))
      BY DEF Seen, Older
    <3> QED BY <3>3, <3>4
  <2>6. ASSUME trying, NEW o, NEW m, o \in Seen(up) \cup Seen(down),
               m.kind = o.kind, m.age = o.age + 1, Young(o)
        PROVE  Young(m)'
    <3>1. o.age \in Nat
      BY <1>0, <1>3, <2>6 DEF Upward, Downward
    <3>2. due' = due - 1 /\ o.kind # "reject" /\ Interval - due <= Reached(o)
      BY <2>0, <2>6 DEF Young
    <3>3. m.kind # "reject"
      BY <2>6, <3>2
    <3>4. Interval - due' <= Reached(m)'
      <4>1. Reached(m)' = Reached(o) + 1
        BY <3>1, <2>6, <1>0 DEF Reached
      <4>2. Reached(o) \in Nat
        BY <1>3, <2>6, <3>2
      <4> QED BY <3>2, <4>1, <4>2, <1>0, <1>1
    <3> QED BY <3>3, <3>4 DEF Young
  <2>7. CASE ~trying
    <3>1. Exchanges' <= starts' /\ ~trying'
      BY <1>2, <2>0, <2>3, <2>7
    <3> QED BY <3>1 DEF OneEach
  <2>8. CASE trying
    <3>1. ~Fresh /\ ~Fresh'
      <4>1. due > 0 /\ waited' = waited + 1
        BY <2>0, <2>8
      <4> QED BY <4>1, <1>1 DEF Fresh
    <3>2. \A m \in Seen(up') : Young(m)'
      BY <1>2, <2>0, <2>4, <2>6, <2>8, <3>1
    <3>3. \A m \in Seen(down') : m.kind = "challenge" => Young(m)'
      BY <1>2, <2>0, <2>4, <2>6, <2>8, <3>1
    <3>4. Exchanges = starts => \E m \in Seen(up') \cup Seen(down') : Young(m)'
      <4>1. SUFFICES ASSUME Exchanges = starts PROVE \E m \in Seen(up') \cup Seen(down') : Young(m)'
        OBVIOUS
      <4>2. PICK o \in Seen(up) \cup Seen(down) : Young(o)
        BY <1>2, <2>8, <3>1, <4>1
      <4>3. PICK m \in Seen(up') \cup Seen(down') : m.kind = o.kind /\ m.age = o.age + 1
        BY <2>0, <2>5, <4>2
      <4> QED BY <2>6, <2>8, <4>2, <4>3
    <3> QED BY <1>2, <2>0, <2>3, <2>8, <3>1, <3>2, <3>3, <3>4 DEF OneEach, Seen
  <2> QED BY <2>7, <2>8
<1>7. ~Fault
  BY <1>0 DEF Fault, Quick, OpeningTypes
<1>8. CASE Retry
  <2>0. /\ trying /\ due = 0
        /\ UNCHANGED <<down, opened, starts, waited>>
        /\ \/ trying' = FALSE /\ up' = up
           \/ due' = Interval /\ up' = Append(up, Datagram("connect", 0))
    BY <1>8 DEF Retry, RetryIn, server
  <2>1. Exchanges < starts
    BY <1>2, <1>4, <2>0, <1>1
  <2>2. CASE trying' = FALSE /\ up' = up
    <3>1. Exchanges' = Exchanges
      BY <2>0, <2>2 DEF Exchanges, Under
    <3> QED BY <1>2, <2>0, <2>2, <3>1 DEF OneEach
  <2>3. CASE due' = Interval /\ up' = Append(up, Datagram("connect", 0))
    <3> DEFINE d == Datagram("connect", 0)
    <3>1. Len(up') = Len(up) + 1
      BY <2>3, <1>1
    <3>2. Exchanges' = Exchanges + 1
      BY <2>0, <3>1, <1>1 DEF Exchanges, Under
    <3>3. ~Fresh'
      BY <2>3, <1>0 DEF Fresh
    <3>4. Seen(up') = Seen(up) \cup {d}
      BY <2>3, <1>1, SeenWithOne
    <3>5. d.kind = "connect" /\ d.age = 0
      BY DEF Datagram
    <3> HIDE DEF d
    <3>6. ASSUME NEW m, m = d \/ m \in Seen(up) \cup Seen(down), m.kind # "reject" PROVE Young(m)'
      <4>1. m.age \in Nat
        BY <1>0, <1>3, <3>5, <3>6 DEF Upward, Downward
      <4> QED BY <4>1, <2>3, <3>6, <1>0 DEF Young, Reached
    <3>7. \A m \in Seen(up) : m.kind # "reject"
      <4>1. Seen(up) \subseteq Upward
        BY <1>1 DEF Seen
      <4> QED BY <4>1 DEF Upward
    <3>8. \A m \in Seen(up') : Young(m)'
      BY <3>4, <3>5, <3>6, <3>7
    <3>9. \A m \in Seen(down') : m.kind = "challenge" => Young(m)'
      BY <3>6, <2>0
    <3>10. Exchanges' <= starts'
      BY <2>0, <2>1, <3>2, <1>1
    <3>11. \E m \in Seen(up') : Young(m)'
      BY <3>8, <3>4
    <3> QED BY <3>3, <3>8, <3>9, <3>10, <3>11 DEF OneEach, Seen
  <2> QED BY <2>0, <2>2, <2>3
<1>9. ASSUME UNCHANGED <<due, waited, trying, starts>>, NEW e \in {0, 1}, Exchanges' = Exchanges - e,
             trying /\ ~Fresh =>
                 /\ \A m \in Seen(up') : Young(m)
                 /\ \A m \in Seen(down') : m.kind = "challenge" => Young(m),
             e = 0 => \A o \in Seen(up) \cup Seen(down) :
                         Young(o) => \E m \in Seen(up') \cup Seen(down') : Young(m)
      PROVE  OneEach'
  <2>1. \A m : Young(m)' <=> Young(m)
    BY <1>0, <1>9 DEF Young, Reached
  <2>2. Fresh' <=> Fresh
    BY <1>9 DEF Fresh
  <2>3. Exchanges' <= starts' /\ (trying' /\ Fresh' => Exchanges' < starts')
    BY <1>1, <1>2, <1>9, <2>2
  <2>4. ASSUME trying', ~Fresh'
        PROVE  /\ \A m \in Seen(up') : Young(m)'
               /\ \A m \in Seen(down') : m.kind = "challenge" => Young(m)'
    BY <1>9, <2>1, <2>2, <2>4
  <2>5. ASSUME trying', ~Fresh', Exchanges' = starts'
        PROVE  \E m \in Seen(up') \cup Seen(down') : Young(m)'
    <3>1. e = 0 /\ Exchanges = starts
      BY <1>1, <1>2, <1>9, <2>5
    <3>2. PICK o \in Seen(up) \cup Seen(down) : Young(o)
      BY <1>2, <1>9, <2>2, <2>5, <3>1
    <3> QED BY <1>9, <2>1, <3>1, <3>2
  <2> QED BY <2>3, <2>4, <2>5 DEF OneEach, Seen
<1>10. ASSUME ~trying', Exchanges' = Exchanges, starts' = starts PROVE OneEach'
  BY <1>2, <1>10 DEF OneEach
(* One datagram of a way becomes another one.                              *)
<1>11. ASSUME NEW o, NEW d, Young(o) => Young(d), d.kind # "reject",
              trying /\ ~Fresh => Young(o), UNCHANGED <<due, waited, trying, starts>>,
              Exchanges' = Exchanges,
              \A m \in Seen(up') \cup Seen(down') : m = d \/ m \in Seen(up) \cup Seen(down),
              \A m \in Seen(up') : m = d \/ m \in Seen(up),
              \A m \in Seen(down') : m = d \/ m \in Seen(down),
              d \in Seen(up') \cup Seen(down'),
              \A m \in Seen(up) \cup Seen(down) : m = o \/ m \in Seen(up') \cup Seen(down')
       PROVE  OneEach'
  <2>1. trying /\ ~Fresh =>
            /\ \A m \in Seen(up') : Young(m)
            /\ \A m \in Seen(down') : m.kind = "challenge" => Young(m)
    BY <1>2, <1>11
  <2>2. ASSUME NEW m \in Seen(up) \cup Seen(down), Young(m)
        PROVE  \E n \in Seen(up') \cup Seen(down') : Young(n)
    BY <1>11, <2>2
  <2>3. Exchanges' = Exchanges - 0
    BY <1>1, <1>11
  <2> QED BY <1>9, <1>11, <2>1, <2>2, <2>3
<1>12. CASE ClientReceive
  <2>1. PICK k \in Ready(down) :
            /\ down' = RemoveAt(down, k)
            /\ Answer(k) \/ TakeAccept(k) \/ TakeReject(k)
            /\ UNCHANGED <<net, server, faults, starts, opened>>
    BY <1>12 DEF ClientReceive
  <2>2. k \in DOMAIN down
    BY DEF Ready
  <2> DEFINE o == down[k]
  <2>3. o \in Downward /\ o \in Seen(down)
    BY <1>1, <2>2 DEF Seen
  <2>4. /\ Seen(down') \subseteq Seen(down) /\ Seen(down) \subseteq Seen(down') \cup {o}
        /\ Count(down', Challenges) = IF o \in Challenges THEN Count(down, Challenges) - 1
                                                         ELSE Count(down, Challenges)
    BY <1>1, <2>1, <2>2, SeenWithoutOne, CountWithoutOne
  <2>5. CASE Answer(k)
    <3> DEFINE d == Datagram("confirm", o.n)
    <3>1. o.kind = "challenge" /\ up' = Append(up, d) /\ UNCHANGED client
      BY <2>5 DEF Answer
    <3>2. d.kind = "confirm" /\ d.age = 0
      BY DEF Datagram
    <3> HIDE DEF d, o
    <3>3. Seen(up') = Seen(up) \cup {d} /\ Len(up') = Len(up) + 1
      BY <1>1, <3>1, SeenWithOne
    <3>4. Exchanges' = Exchanges
      BY <1>1, <1>5, <2>1, <2>3, <2>4, <3>1, <3>3 DEF Exchanges, Under
    <3>5. Young(o) => Young(d)
      <4>1. o.age \in 0..net.max
        BY <2>3 DEF Downward
      <4> QED BY <1>0, <1>1, <3>1, <3>2, <4>1 DEF Young, Reached
    <3>6. trying /\ ~Fresh => Young(o)
      BY <1>2, <2>3, <3>1
    <3>7. UNCHANGED <<due, waited, trying, starts>>
      BY <2>1, <3>1 DEF client
    <3> QED BY <1>11, <2>4, <3>2, <3>3, <3>4, <3>5, <3>6, <3>7
  <2>6. CASE TakeAccept(k) \/ TakeReject(k)
    <3>1. /\ o.kind \in {"accept", "reject"} /\ trying' = FALSE /\ up' = up
          /\ opened' = opened /\ starts' = starts
      BY <2>1, <2>6 DEF TakeAccept, TakeReject
    <3> HIDE DEF o
    <3>2. Exchanges' = Exchanges
      BY <1>5, <2>3, <2>4, <3>1 DEF Exchanges, Under
    <3> QED BY <1>10, <3>1, <3>2
  <2> QED BY <2>1, <2>5, <2>6
<1>13. CASE Restart
  <2>1. UNCHANGED <<up, down, opened>> /\ starts' = starts + 1 /\ due' = 0 /\ waited' = 0
    BY <1>13 DEF Restart
  <2>2. Exchanges' = Exchanges /\ Fresh'
    BY <2>1 DEF Exchanges, Under, Count, Places, Fresh
  <2>3. Exchanges' < starts'
    BY <1>1, <1>2, <2>1, <2>2
  <2> QED BY <1>1, <2>1, <2>2, <2>3 DEF OneEach
<1>14. CASE ServerReceive
  <2>1. PICK k \in Ready(up) :
            /\ up' = RemoveAt(up, k)
            /\ Limited \/ Challenge(k) \/ Admit(k) \/ IgnoreConfirm(k)
            /\ UNCHANGED <<net, client, acks, faults, starts>>
    BY <1>14 DEF ServerReceive
  <2>2. k \in DOMAIN up
    BY DEF Ready
  <2> DEFINE o == up[k]
  <2>3. o \in Upward /\ o \in Seen(up)
    BY <1>1, <2>2 DEF Seen
  <2>4. /\ Seen(up') \subseteq Seen(up) /\ Seen(up) \subseteq Seen(up') \cup {o}
        /\ Len(up') = Len(up) - 1
    BY <1>1, <2>1, <2>2, SeenWithoutOne, WithoutOne
  <2>5. UNCHANGED <<due, waited, trying, starts>>
    BY <2>1 DEF client
  <2> HIDE DEF o
  <2>6. ASSUME opened' = opened, NEW d, d.kind = "reject", down' = down \/ down' = Append(down, d)
        PROVE  OneEach'
    <3>1. Seen(down') \subseteq Seen(down) \cup {d} /\ Count(down', Challenges) = Count(down, Challenges)
      <4>1. CASE down' = down
        BY <4>1
      <4>2. CASE down' = Append(down, d)
        <5>1. d \notin Challenges
          BY <2>6 DEF Challenges
        <5> QED BY <1>1, <4>2, <5>1, SeenWithOne, CountWithOne
      <4> QED BY <2>6, <4>1, <4>2
    <3>2. Exchanges' = Exchanges - 1
      BY <1>1, <2>4, <2>6, <3>1 DEF Exchanges, Under
    <3>3. trying /\ ~Fresh =>
            /\ \A m \in Seen(up') : Young(m)
            /\ \A m \in Seen(down') : m.kind = "challenge" => Young(m)
      BY <1>2, <2>4, <2>6, <3>1
    <3> QED BY <1>9, <2>5, <3>2, <3>3
  <2>7. ASSUME NEW d, Young(o) => Young(d), d.kind # "reject", down' = Append(down, d), Exchanges' = Exchanges
        PROVE  OneEach'
    <3>1. Seen(down') = Seen(down) \cup {d}
      BY <1>1, <2>7, SeenWithOne
    <3>2. trying /\ ~Fresh => Young(o)
      BY <1>2, <2>3
    <3> QED BY <1>11, <2>4, <2>5, <2>7, <3>1, <3>2
  <2>8. CASE Limited \/ IgnoreConfirm(k)
    <3>1. opened' = opened /\ down' = down
      BY <2>8 DEF Limited, IgnoreConfirm
    <3> DEFINE d == Datagram("reject", 0)
    <3>2. d.kind = "reject"
      BY DEF Datagram
    <3> QED BY <2>6, <3>1, <3>2
  <2>9. CASE Challenge(k)
    <3> DEFINE d == Datagram("challenge", nonces + 1)
    <3>1. o.kind = "connect" /\ down' = Append(down, d) /\ opened' = opened
      BY <2>9 DEF Challenge, o
    <3>2. d.kind = "challenge" /\ d.age = 0 /\ d \in Challenges
      <4>1. nonces + 1 \in Nat
        BY DEF OpeningTypes
      <4> QED BY <4>1 DEF Datagram, Challenges
    <3> HIDE DEF d
    <3>3. Count(down', Challenges) = Count(down, Challenges) + 1
      BY <1>1, <3>1, <3>2, CountWithOne
    <3>4. Exchanges' = Exchanges
      BY <1>1, <2>4, <3>1, <3>3 DEF Exchanges, Under
    <3>5. Young(o) => Young(d)
      <4>1. o.age \in 0..net.max
        BY <2>3 DEF Upward
      <4> QED BY <1>0, <1>1, <3>1, <3>2, <4>1 DEF Young, Reached
    <3> QED BY <2>7, <3>1, <3>2, <3>4, <3>5
  <2>10. CASE Admit(k)
    <3>1. CASE Slot >= net.slots
      <4>1. opened' = opened /\ down' = Append(down, Datagram("reject", 0))
        BY <2>10, <3>1 DEF Admit
      <4> QED BY <2>6, <4>1 DEF Datagram
    <3>2. CASE ~(Slot >= net.slots)
      <4> DEFINE d == Datagram("accept", Len(opened) + 1)
      <4>1. o.kind = "confirm" /\ down' = Append(down, d) /\ opened' = Append(opened, o.n)
        BY <2>10, <3>2 DEF Admit, o
      <4>2. d.kind = "accept" /\ d.age = 0
        BY DEF Datagram
      <4> HIDE DEF d
      <4>3. Count(down', Challenges) = Count(down, Challenges)
        <5>1. d \notin Challenges
          BY <4>2 DEF Challenges
        <5> QED BY <1>1, <4>1, <5>1, CountWithOne
      <4>4. Len(opened') = Len(opened) + 1
        <5>1. opened \in Seq((1..nonces))
          BY DEF OpeningTypes
        <5>2. Len(Append(opened, o.n)) = Len(opened) + 1
          BY <5>1
        <5> QED BY <4>1, <5>2
      <4>5. Exchanges' = Exchanges
        <5>1. /\ Exchanges = Len(opened) + (Len(up) + Count(down, Challenges))
              /\ Exchanges' = Len(opened') + (Len(up') + Count(down', Challenges))
          BY DEF Exchanges, Under
        <5> QED BY <1>1, <2>4, <4>3, <4>4, <5>1
      <4>6. Young(o) => Young(d)
        <5>1. o.age \in 0..net.max
          BY <2>3 DEF Upward
        <5>2. Reached(o) = o.age + 2 * net.max /\ Reached(d) = 3 * net.max
          BY <1>0, <4>1, <4>2 DEF Reached
        <5> QED BY <1>0, <1>1, <4>2, <5>1, <5>2 DEF Young
      <4> QED BY <2>7, <4>1, <4>2, <4>5, <4>6
    <3> QED BY <3>1, <3>2
  <2> QED BY <2>1, <2>8, <2>9, <2>10
<1>15. CASE ResendAccept
  <2>1. PICK i : down' = Append(down, Datagram("accept", i))
    BY <1>15 DEF ResendAccept
  <2> DEFINE d == Datagram("accept", i)
  <2>2. d.kind = "accept" /\ down' = Append(down, d)
    BY <2>1 DEF Datagram
  <2>3. UNCHANGED <<due, waited, trying, starts, up, opened>>
    BY <1>15 DEF ResendAccept, client
  <2> HIDE DEF d
  <2>4. Seen(down') = Seen(down) \cup {d} /\ Count(down', Challenges) = Count(down, Challenges)
    <3>1. d \notin Challenges
      BY <2>2 DEF Challenges
    <3> QED BY <1>1, <2>2, <3>1, SeenWithOne, CountWithOne
  <2>5. Exchanges' = Exchanges - 0
    BY <1>1, <2>3, <2>4 DEF Exchanges, Under
  <2>6. trying /\ ~Fresh =>
            /\ \A m \in Seen(up') : Young(m)
            /\ \A m \in Seen(down') : m.kind = "challenge" => Young(m)
    BY <1>2, <2>2, <2>3, <2>4
  <2>7. \A o \in Seen(up) \cup Seen(down) : Young(o) => \E m \in Seen(up') \cup Seen(down') : Young(m)
    BY <2>3, <2>4
  <2> QED BY <1>9, <2>3, <2>5, <2>6, <2>7
<1>16. CASE TakeAck \/ UNCHANGED openingVars
  <2>1. UNCHANGED <<due, waited, trying, starts, up, down, opened>>
    BY <1>16 DEF TakeAck, openingVars, client
  <2>2. Exchanges' = Exchanges - 0
    BY <1>1, <2>1 DEF Exchanges, Under, Count, Places
  <2> QED BY <1>2, <1>9, <2>1, <2>2
<1> QED BY <1>6, <1>7, <1>8, <1>12, <1>13, <1>14, <1>15, <1>16 DEF OpeningNext

-----------------------------------------------------------------------------
(* The Accepts of an evicted session are gone before the live one sends    *)
(* its own again.                                                          *)

Accepts(n) == [kind : {"accept"}, n : {n}, age : Nat]

StaleIsOld ==
    /\ resends = 0 => \A m \in Seen(down) : m.kind = "accept" /\ m.n # session => m.age >= since
    /\ net.max < Interval /\ resends # 0 =>
           /\ \A m \in Seen(down) : m.kind = "accept" => m.n = session
           /\ mine \in {0, session} \/ Count(down, Accepts(session)) + faults >= resends

LEMMA StaleIsOldStep ==
    ASSUME OpeningTypes, NoncesSpent, StaleIsOld, [OpeningNext]_openingVars
    PROVE  StaleIsOld'
<1>0. /\ net \in SettingType /\ net' = net /\ net.max \in Nat /\ Interval \in Nat \ {0}
  <2>1. net' = net
    BY DEF OpeningNext, Tick, Fault, Retry, ClientReceive, Restart, ServerReceive, ResendAccept, TakeAck, openingVars
  <2> QED BY <2>1, FullNat DEF OpeningTypes, SettingType
<1> DEFINE C == Count(down, Accepts(session))
<1>1. /\ up \in Seq(Upward) /\ down \in Seq(Downward) /\ session \in Nat /\ C \in Nat
      /\ faults \in Nat /\ resends \in Nat /\ since \in 0..Interval /\ Seen(down) \subseteq Downward
  <2>1. up \in Seq(Upward) /\ down \in Seq(Downward) /\ faults \in Nat /\ resends \in Nat
        /\ since \in 0..Interval
    BY <1>0 DEF OpeningTypes, SettingType
  <2>2. opened \in Seq((1..nonces)) /\ session = Len(opened)
    BY DEF OpeningTypes
  <2>3. session \in Nat
    BY <2>2
  <2>4. C \in Nat
    BY <2>1, PlacesFinite
  <2>5. Seen(down) \subseteq Downward
    BY <2>1 DEF Seen
  <2> QED BY <2>1, <2>3, <2>4, <2>5
<1>2. \A m \in Downward : m \in Accepts(session) <=> m.kind = "accept" /\ m.n = session
  <2>1. 0..net.max \subseteq Nat
    BY <1>0
  <2> QED BY <2>1 DEF Downward, Accepts
<1> HIDE DEF C
<1> DEFINE D == Count(down', Accepts(session))
<1>t. /\ D \in Nat /\ faults' \in Nat /\ resends' \in Nat
  <2>1. OpeningTypes'
    BY OpeningTypesStep
  <2>2. down' \in Seq(Downward') /\ faults' \in Nat /\ resends' \in Nat
    BY <1>0, <2>1 DEF OpeningTypes, SettingType
  <2>3. D \in Nat
    BY <2>2, PlacesFinite
  <2> QED BY <2>2, <2>3
<1> HIDE DEF D
(* The session stays, and so many of its Accepts stay or a fault is spent. *)
<1>3. ASSUME UNCHANGED <<session, resends, since>>,
             \A m \in Seen(down') : m.kind = "accept" => m \in Seen(down),
             resends # 0 /\ net.max < Interval =>
                 mine' \in {0, session} \/ (mine' = mine /\ D + faults' >= C + faults)
      PROVE  StaleIsOld'
  <2>1. resends = 0 => \A m \in Seen(down') : m.kind = "accept" /\ m.n # session => m.age >= since
    BY <1>3 DEF StaleIsOld
  <2>2. ASSUME net.max < Interval, resends # 0
        PROVE  /\ \A m \in Seen(down') : m.kind = "accept" => m.n = session
               /\ mine' \in {0, session} \/ D + faults' >= resends
    <3>1. \A m \in Seen(down') : m.kind = "accept" => m.n = session
      BY <1>3, <2>2 DEF StaleIsOld
    <3>2. mine \in {0, session} \/ C + faults >= resends
      BY <2>2 DEF StaleIsOld, C
    <3>3. mine' \in {0, session} \/ D + faults' >= resends
      <4>1. mine' \in {0, session} \/ (mine' = mine /\ D + faults' >= C + faults)
        BY <1>3, <2>2
      <4>2. \A c, d, f, g, r \in Nat : c + f >= r /\ d + g >= c + f => d + g >= r
        OBVIOUS
      <4>3. C + faults >= resends /\ D + faults' >= C + faults => D + faults' >= resends
        BY <1>1, <1>t, <4>2
      <4> QED BY <3>2, <4>1, <4>3
    <3> QED BY <3>1, <3>3
  <2> QED BY <1>0, <1>3, <2>1, <2>2 DEF StaleIsOld, Seen, Count, Places, D
<1>4. CASE Tick
  <2>0. /\ down' = Older(down) /\ UNCHANGED <<session, resends, mine, faults>>
        /\ since' = IF ResendOn THEN since + 1 ELSE since
    BY <1>4 DEF Tick
  <2>1. ASSUME NEW k \in DOMAIN down
        PROVE  /\ down'[k].kind = down[k].kind /\ down'[k].n = down[k].n
               /\ down'[k].age = down[k].age + 1 /\ down[k].age \in Nat
               /\ down'[k] \in Accepts(session) <=> down[k] \in Accepts(session)
    <3>1. down[k] \in Downward /\ down'[k] = [down[k] EXCEPT !.age = @ + 1]
      BY <1>1, <2>0 DEF Older
    <3> QED BY <3>1, <1>0 DEF Downward, Accepts
  <2>2. DOMAIN down' = DOMAIN down
    BY <2>0 DEF Older
  <2>3. Places(down', Accepts(session)) = Places(down, Accepts(session))
    BY <2>1, <2>2 DEF Places
  <2>4. D = C
    BY <2>3 DEF D, C, Count
  <2>5. ASSUME NEW m \in Seen(down')
        PROVE  \E o \in Seen(down) : m.kind = o.kind /\ m.n = o.n /\ m.age = o.age + 1 /\ o.age \in Nat
    BY <2>1, <2>2 DEF Seen
  <2>6. ASSUME resends = 0, NEW m \in Seen(down'), m.kind = "accept", m.n # session PROVE m.age >= since'
    <3>1. PICK o \in Seen(down) : m.kind = o.kind /\ m.n = o.n /\ m.age = o.age + 1 /\ o.age \in Nat
      BY <2>5
    <3>2. o.age >= since
      BY <2>6, <3>1 DEF StaleIsOld
    <3> QED BY <1>1, <2>0, <3>1, <3>2
  <2>7. ASSUME net.max < Interval, resends # 0
        PROVE  /\ \A m \in Seen(down') : m.kind = "accept" => m.n = session
               /\ mine \in {0, session} \/ D + faults >= resends
    <3>1. \A m \in Seen(down') : m.kind = "accept" => m.n = session
      BY <2>5, <2>7 DEF StaleIsOld
    <3>2. mine \in {0, session} \/ D + faults >= resends
      BY <2>4, <2>7 DEF StaleIsOld, C
    <3> QED BY <3>1, <3>2
  <2> QED BY <1>0, <2>0, <2>6, <2>7 DEF StaleIsOld, Seen, Count, Places, D
<1>5. CASE Fault
  <2>0. UNCHANGED <<session, resends, since, mine>> /\ faults' = faults + 1
    BY <1>5 DEF Fault, client, server
  <2>1. CASE UNCHANGED down
    <3>1. D = C
      BY <2>1 DEF D, C, Count, Places
    <3> QED BY <1>1, <1>3, <2>0, <2>1, <3>1
  <2>2. CASE \E k \in Ready(down) : down' \in Faulty(down, k)
    <3>1. PICK k \in Ready(down) : down' \in Faulty(down, k)
      BY <2>2
    <3>2. k \in DOMAIN down /\ down[k] \in Seen(down)
      BY DEF Ready, Seen
    <3>3. CASE down' = RemoveAt(down, k)
      <4>1. Seen(down') \subseteq Seen(down)
        BY <1>1, <3>2, <3>3, SeenWithoutOne
      <4>2. D = C \/ D = C - 1
        BY <1>1, <3>2, <3>3, CountWithoutOne DEF D, C
      <4>3. D + faults' >= C + faults
        BY <1>1, <2>0, <4>2
      <4> QED BY <1>3, <2>0, <4>1, <4>3
    <3>4. CASE down' = Append(down, down[k])
      <4>1. Seen(down') = Seen(down) \cup {down[k]}
        BY <1>1, <3>4, SeenWithOne
      <4>2. D = C \/ D = C + 1
        BY <1>1, <3>4, CountWithOne DEF D, C
      <4>3. D + faults' >= C + faults
        BY <1>1, <2>0, <4>2
      <4> QED BY <1>3, <2>0, <3>2, <4>1, <4>3
    <3> QED BY <3>1, <3>3, <3>4 DEF Faulty
  <2> QED BY <1>5, <2>1, <2>2 DEF Fault
<1>6. CASE ClientReceive
  <2>1. PICK k \in Ready(down) :
            /\ down' = RemoveAt(down, k)
            /\ Answer(k) \/ TakeAccept(k) \/ TakeReject(k)
            /\ UNCHANGED <<net, server, faults, starts, opened>>
    BY <1>6 DEF ClientReceive
  <2>2. k \in DOMAIN down /\ down[k] \in Seen(down) /\ down[k] \in Downward
    BY <1>1 DEF Ready, Seen
  <2>3. Seen(down') \subseteq Seen(down)
    BY <1>1, <2>1, <2>2, SeenWithoutOne
  <2>4. UNCHANGED <<session, resends, since, faults>>
    BY <2>1 DEF server
  <2>5. CASE Answer(k) \/ TakeReject(k)
    <3>1. mine' = mine /\ down[k].kind # "accept"
      BY <2>5 DEF Answer, TakeReject, client
    <3>2. D = C
      BY <1>1, <1>2, <2>1, <2>2, <3>1, CountWithoutOne DEF D, C
    <3> QED BY <1>1, <1>3, <2>3, <2>4, <3>1, <3>2
  <2>6. CASE TakeAccept(k)
    <3>1. mine' = down[k].n /\ down[k].kind = "accept"
      BY <2>6 DEF TakeAccept
    <3>2. resends # 0 /\ net.max < Interval => mine' = session
      BY <2>2, <3>1 DEF StaleIsOld
    <3> QED BY <1>3, <2>3, <2>4, <3>2
  <2> QED BY <2>1, <2>5, <2>6
<1>7. CASE Restart
  <2>1. UNCHANGED <<session, resends, since, down>> /\ mine' = 0
    BY <1>7 DEF Restart, server
  <2> QED BY <1>3, <2>1
<1>8. ASSUME UNCHANGED <<session, resends, since, mine, faults>>, NEW d, d.kind # "accept",
             down' = down \/ down' = Append(down, d)
      PROVE  StaleIsOld'
  <2>1. D = C /\ \A m \in Seen(down') : m.kind = "accept" => m \in Seen(down)
    <3>1. CASE down' = down
      BY <3>1 DEF D, C, Count, Places
    <3>2. CASE down' = Append(down, d)
      <4>1. d \notin Accepts(session)
        BY <1>8 DEF Accepts
      <4> QED BY <1>1, <1>8, <3>2, <4>1, SeenWithOne, CountWithOne DEF D, C
    <3> QED BY <1>8, <3>1, <3>2
  <2> QED BY <1>1, <1>3, <1>8, <2>1
<1>9. CASE Retry \/ UNCHANGED openingVars
  <2> DEFINE d == Datagram("reject", 0)
  <2>1. UNCHANGED <<session, resends, since, mine, faults, down>>
    BY <1>9 DEF Retry, server, openingVars, client
  <2>2. d.kind # "accept"
    BY DEF Datagram
  <2> QED BY <1>8, <2>1, <2>2
<1>10. CASE ServerReceive
  <2>1. PICK k \in Ready(up) :
            /\ Limited \/ Challenge(k) \/ Admit(k) \/ IgnoreConfirm(k)
            /\ UNCHANGED <<net, client, acks, faults, starts>>
    BY <1>10 DEF ServerReceive
  <2>2. mine' = mine /\ faults' = faults
    BY <2>1 DEF client
  <2>3. CASE Limited \/ IgnoreConfirm(k)
    <3> DEFINE d == Datagram("reject", 0)
    <3>1. UNCHANGED <<session, resends, since, down>>
      BY <2>3 DEF Limited, IgnoreConfirm, server
    <3>2. d.kind # "accept"
      BY DEF Datagram
    <3> QED BY <1>8, <2>2, <3>1, <3>2
  <2>4. CASE Challenge(k)
    BY <1>8, <2>2, <2>4 DEF Challenge, Datagram
  <2>5. CASE Admit(k)
    <3>1. CASE Slot >= net.slots
      BY <1>8, <2>2, <2>5, <3>1 DEF Admit, Datagram
    <3>2. CASE ~(Slot >= net.slots)
      <4> DEFINE d == Datagram("accept", Len(opened) + 1)
      <4>1. /\ resends' = 0 /\ since' = 0 /\ session' = Len(opened) + 1
            /\ down' = Append(down, d)
        BY <2>5, <3>2 DEF Admit
      <4>2. d.n = session' /\ d.age = 0
        BY <4>1 DEF Datagram
      <4> HIDE DEF d
      <4>3. Seen(down') = Seen(down) \cup {d}
        BY <1>1, <4>1, SeenWithOne
      <4>4. \A m \in Seen(down') : m.age >= 0
        <5>1. \A m \in Downward : m.age >= 0
          BY <1>0 DEF Downward
        <5> QED BY <1>1, <4>2, <4>3, <5>1
      <4> QED BY <4>1, <4>4 DEF StaleIsOld, Seen
    <3> QED BY <3>1, <3>2
  <2> QED BY <2>1, <2>3, <2>4, <2>5
<1>11. CASE ResendAccept
  <2> DEFINE d == Datagram("accept", session)
  <2>1. /\ since = Interval /\ resends' = resends + 1 /\ down' = Append(down, d)
        /\ UNCHANGED <<session, mine, faults>>
    BY <1>11 DEF ResendAccept, LiveAccept, client
  <2>2. d.kind = "accept" /\ d.n = session /\ d \in Accepts(session)
    BY DEF Datagram, Accepts
  <2> HIDE DEF d
  <2>3. Seen(down') = Seen(down) \cup {d} /\ D = C + 1
    BY <1>1, <2>1, <2>2, SeenWithOne, CountWithOne DEF D, C
  <2>4. ASSUME net.max < Interval
        PROVE  /\ \A m \in Seen(down') : m.kind = "accept" => m.n = session
               /\ mine \in {0, session} \/ D + faults >= resends + 1
    <3>1. ASSUME NEW m \in Seen(down), m.kind = "accept" PROVE m.n = session
      <4>1. CASE resends = 0
        <5>1. m.age \in 0..net.max
          BY <1>1 DEF Downward
        <5>2. ~(m.age >= Interval)
          BY <1>0, <2>4, <5>1
        <5> QED BY <2>1, <3>1, <4>1, <5>2 DEF StaleIsOld
      <4>2. CASE resends # 0
        BY <2>4, <3>1, <4>2 DEF StaleIsOld
      <4> QED BY <4>1, <4>2
    <3>2. mine \in {0, session} \/ D + faults >= resends + 1
      <4>1. CASE resends = 0
        BY <1>1, <2>3, <4>1
      <4>2. CASE resends # 0
        <5>1. mine \in {0, session} \/ C + faults >= resends
          BY <2>4, <4>2 DEF StaleIsOld, C
        <5> QED BY <1>1, <2>3, <5>1
      <4> QED BY <4>1, <4>2
    <3> QED BY <2>2, <2>3, <3>1, <3>2
  <2>5. resends' # 0
    BY <1>1, <2>1
  <2> QED BY <1>0, <2>1, <2>4, <2>5 DEF StaleIsOld, Seen, Count, Places, D
(* The ack takes the entry's stamp with it, and touches no datagram.       *)
<1>12. CASE TakeAck
  <2>1. since' = 0 /\ UNCHANGED <<session, resends, mine, faults, down>>
    BY <1>12 DEF TakeAck, client
  <2>2. \A m \in Seen(down) : m.age >= 0
    <3>1. \A m \in Downward : m.age >= 0
      BY <1>0 DEF Downward
    <3> QED BY <1>1, <3>1
  <2> QED BY <1>0, <2>1, <2>2 DEF StaleIsOld, Seen, Count, Places
<1> QED BY <1>4, <1>5, <1>6, <1>7, <1>9, <1>10, <1>11, <1>12 DEF OpeningNext

-----------------------------------------------------------------------------
(* Where the network keeps order, the Accepts come in the order of their   *)
(* sessions, and none under way is older than one the client has held: so  *)
(* the session it has told the server of is the one it keeps.              *)
Sorted(way) ==
    \A j, k \in DOMAIN way :
        j < k /\ way[j].kind = "accept" /\ way[k].kind = "accept" => way[j].n <= way[k].n

Above(e, way) == \A m \in Seen(way) : m.kind = "accept" => e <= m.n

InOrder ==
    Orderly =>
        /\ Sorted(down)
        /\ \A e \in acks \cup {mine} : Above(e, down)
        /\ mine # 0 => \A e \in acks : e <= mine
        /\ acked => session \in acks
        /\ NoEcho \notin acks

LEMMA SortedHead ==
    ASSUME NEW M, NEW way \in Seq(M), 1 \in DOMAIN way, Sorted(way)
    PROVE  /\ Sorted(RemoveAt(way, 1))
           /\ way[1].kind = "accept" => Above(way[1].n, RemoveAt(way, 1))
<1> DEFINE less == RemoveAt(way, 1)
<1>1. less \in Seq(M) /\ Len(less) = Len(way) - 1 /\ \A j \in 1..(Len(way) - 1) : less[j] = way[j + 1]
  <2>1. /\ less \in Seq(M) /\ Len(less) = Len(way) - 1
        /\ \A j \in 1..(Len(way) - 1) : less[j] = IF j < 1 THEN way[j] ELSE way[j + 1]
    BY WithoutOne
  <2> HIDE DEF less
  <2> QED BY <2>1
<1> HIDE DEF less
<1>2. Len(way) \in Nat /\ DOMAIN way = 1..Len(way) /\ DOMAIN less = 1..(Len(way) - 1)
  BY <1>1
<1>3. \A j \in DOMAIN less : j \in Nat /\ j + 1 \in DOMAIN way /\ less[j] = way[j + 1] /\ 1 < j + 1
  BY <1>1, <1>2
<1>4. \A j, k \in Nat : j < k => j + 1 < k + 1
  OBVIOUS
<1>5. Sorted(less)
  BY <1>3, <1>4 DEF Sorted
<1>6. way[1].kind = "accept" => Above(way[1].n, less)
  BY <1>3 DEF Sorted, Above, Seen
<1> QED BY <1>5, <1>6 DEF less

LEMMA SortedMore ==
    ASSUME NEW M, NEW way \in Seq(M), Sorted(way), NEW d,
           d.kind = "accept" => \A m \in Seen(way) : m.kind = "accept" => m.n <= d.n
    PROVE  Sorted(Append(way, d))
<1> DEFINE more == Append(way, d)
<1>1. /\ DOMAIN more = 1..(Len(way) + 1) /\ Len(way) \in Nat /\ DOMAIN way = 1..Len(way)
      /\ \A j \in 1..Len(way) : more[j] = way[j]
      /\ more[Len(way) + 1] = d
  OBVIOUS
<1> HIDE DEF more
<1>2. ASSUME NEW j \in DOMAIN more, NEW k \in DOMAIN more, j < k,
             more[j].kind = "accept", more[k].kind = "accept"
      PROVE  more[j].n <= more[k].n
  <2>1. j \in DOMAIN way /\ more[j] = way[j]
    BY <1>1, <1>2
  <2>2. CASE k \in DOMAIN way
    <3>1. more[k] = way[k]
      BY <1>1, <2>2
    <3> QED BY <1>2, <2>1, <2>2, <3>1 DEF Sorted
  <2>3. CASE k \notin DOMAIN way
    <3>1. more[k] = d
      BY <1>1, <2>3
    <3> QED BY <1>2, <2>1, <3>1 DEF Seen
  <2> QED BY <2>2, <2>3
<1> QED BY <1>2 DEF Sorted, more

LEMMA InOrderStep ==
    ASSUME OpeningTypes, InOrder, [OpeningNext]_openingVars
    PROVE  InOrder'
<1>0. net' = net
  BY DEF OpeningNext, Tick, Fault, Retry, ClientReceive, Restart, ServerReceive, ResendAccept, TakeAck, openingVars
<1> SUFFICES ASSUME Orderly
             PROVE  /\ Sorted(down')
                    /\ \A e \in acks' \cup {mine'} : Above(e, down')
                    /\ mine' # 0 => \A e \in acks' : e <= mine'
                    /\ acked' => session' \in acks'
                    /\ NoEcho \notin acks'
  BY <1>0 DEF InOrder, Orderly, Sorted, Above, Seen
<1>1. /\ Sorted(down)
      /\ \A e \in acks \cup {mine} : Above(e, down)
      /\ mine # 0 => \A e \in acks : e <= mine
      /\ acked => session \in acks
      /\ NoEcho \notin acks
  BY DEF InOrder
<1>2. /\ down \in Seq(Downward) /\ session \in Nat /\ mine \in 0..session /\ acks \subseteq 0..session
      /\ \A m \in Seen(down) : m.kind = "accept" => m.n \in 1..session
  <2>1. opened \in Seq((1..nonces)) /\ session = Len(opened)
    BY DEF OpeningTypes
  <2>2. session \in Nat
    BY <2>1
  <2> QED BY <2>2 DEF OpeningTypes
(* No session is opened, and the client takes no other one.                *)
<1>3. ASSUME mine' \in {0, mine}, UNCHANGED <<acks, session>>, acked' => acked \/ session \in acks,
             Sorted(down'),
             \A m \in Seen(down') : m.kind = "accept" =>
                 m.n = session \/ \E o \in Seen(down) : o.kind = "accept" /\ o.n = m.n
      PROVE  /\ Sorted(down')
             /\ \A e \in acks' \cup {mine'} : Above(e, down')
             /\ mine' # 0 => \A e \in acks' : e <= mine'
             /\ acked' => session' \in acks'
             /\ NoEcho \notin acks'
  <2>1. ASSUME NEW e \in acks \cup {mine, 0}, NEW m \in Seen(down'), m.kind = "accept" PROVE e <= m.n
    <3>1. e \in 0..session
      BY <1>2
    <3>2. CASE m.n = session
      BY <1>2, <3>1, <3>2
    <3>3. CASE \E o \in Seen(down) : o.kind = "accept" /\ o.n = m.n
      <4>1. PICK o \in Seen(down) : o.kind = "accept" /\ o.n = m.n
        BY <3>3
      <4>2. o.n \in 1..session
        BY <1>2, <4>1
      <4>3. e = 0 \/ e <= o.n
        BY <1>1, <2>1, <4>1 DEF Above
      <4> QED BY <1>2, <4>1, <4>2, <4>3
    <3> QED BY <1>3, <2>1, <3>2, <3>3
  <2>2. \A e \in acks' \cup {mine'} : Above(e, down')
    BY <1>3, <2>1 DEF Above
  <2> QED BY <1>1, <1>3, <2>2
<1>4. CASE Tick
  <2>1. down' = Older(down) /\ UNCHANGED <<mine, acks, session, acked>>
    BY <1>4 DEF Tick
  <2>2. DOMAIN down' = DOMAIN down
        /\ \A k \in DOMAIN down : down'[k].kind = down[k].kind /\ down'[k].n = down[k].n
    <3>1. ASSUME NEW k \in DOMAIN down PROVE down'[k].kind = down[k].kind /\ down'[k].n = down[k].n
      <4>1. down[k] \in Downward /\ down'[k] = [down[k] EXCEPT !.age = @ + 1]
        BY <1>2, <2>1 DEF Older
      <4> QED BY <4>1 DEF Downward
    <3> QED BY <2>1, <3>1 DEF Older
  <2>3. Sorted(down')
    BY <1>1, <2>2 DEF Sorted
  <2>4. \A m \in Seen(down') : \E o \in Seen(down) : o.kind = m.kind /\ o.n = m.n
    BY <2>2 DEF Seen
  <2> QED BY <1>3, <2>1, <2>3, <2>4
(* The first datagram goes.                                                *)
<1>5. ASSUME NEW k \in Ready(down), down' = RemoveAt(down, k)
      PROVE  /\ k = 1 /\ 1 \in DOMAIN down /\ down[1] \in Seen(down) /\ Sorted(down')
             /\ Seen(down') \subseteq Seen(down)
             /\ down[1].kind = "accept" => Above(down[1].n, down')
  <2>1. k = 1 /\ 1 \in DOMAIN down
    BY DEF Ready, Orderly
  <2> QED BY <1>1, <1>2, <1>5, <2>1, SortedHead, SeenWithoutOne DEF Seen
<1>6. CASE Fault
  <2>1. UNCHANGED <<mine, acks, session, acked>>
    BY <1>6 DEF Fault, client, server
  <2>2. CASE UNCHANGED down
    BY <1>1, <1>3, <2>1, <2>2
  <2>3. CASE \E k \in Ready(down) : down' \in Faulty(down, k)
    <3>1. PICK k \in Ready(down) : down' = RemoveAt(down, k)
      BY <2>3 DEF Faulty, Orderly
    <3> QED BY <1>3, <1>5, <2>1, <3>1
  <2> QED BY <1>6, <2>2, <2>3 DEF Fault
<1>7. CASE ClientReceive
  <2>1. PICK k \in Ready(down) :
            /\ down' = RemoveAt(down, k)
            /\ Answer(k) \/ TakeAccept(k) \/ TakeReject(k)
            /\ UNCHANGED server
    BY <1>7 DEF ClientReceive
  <2>2. k = 1 /\ down[1] \in Seen(down) /\ Sorted(down') /\ Seen(down') \subseteq Seen(down)
        /\ (down[1].kind = "accept" => Above(down[1].n, down')) /\ UNCHANGED <<session, acked>>
    BY <1>5, <2>1 DEF server
  <2>3. CASE Answer(k) \/ TakeReject(k)
    BY <1>3, <2>2, <2>3 DEF Answer, TakeReject, client
  <2>4. CASE TakeAccept(k)
    <3> DEFINE n == down[1].n
    <3>1. down[1].kind = "accept" /\ mine' = n /\ n \in 1..session
          /\ acks' \subseteq acks \cup {n} /\ acks \subseteq acks'
      BY <1>2, <2>2, <2>4 DEF TakeAccept, Echoes, Orderly
    <3>2. \A e \in acks : e <= n
      BY <1>1, <2>2, <3>1 DEF Above
    <3>3. \A e \in acks : Above(e, down')
      BY <1>1, <2>2 DEF Above
    <3>4. n <= n /\ n # NoEcho
      BY <3>1, <1>2 DEF NoEcho
    <3> HIDE DEF n
    <3>5. Above(n, down')
      BY <2>2, <3>1 DEF n
    <3> QED BY <1>1, <2>2, <3>1, <3>2, <3>3, <3>4, <3>5
  <2> QED BY <2>1, <2>3, <2>4
<1>8. CASE Restart
  BY <1>1, <1>3, <1>8 DEF Restart, server
<1>9. CASE Retry \/ UNCHANGED openingVars
  BY <1>1, <1>3, <1>9 DEF Retry, openingVars, client, server
<1>10. CASE TakeAck
  <2>1. session \in acks
    BY <1>1, <1>10 DEF TakeAck, SessionGate
  <2> QED BY <1>1, <1>3, <1>10, <2>1 DEF TakeAck, client
(* A datagram that is no Accept, or an Accept of the newest session.       *)
<1>11. ASSUME NEW d, down' = Append(down, d), d.kind = "accept" => d.n \in Nat /\ session <= d.n
       PROVE  Sorted(down') /\ Seen(down') = Seen(down) \cup {d}
  <2>1. d.kind = "accept" => \A m \in Seen(down) : m.kind = "accept" => m.n <= d.n
    BY <1>2, <1>11
  <2> QED BY <1>1, <1>2, <1>11, <2>1, SortedMore, SeenWithOne
<1>12. CASE ServerReceive
  <2>1. PICK k \in Ready(up) :
            /\ Limited \/ Challenge(k) \/ Admit(k) \/ IgnoreConfirm(k)
            /\ UNCHANGED <<client, acks>>
    BY <1>12 DEF ServerReceive
  <2>2. mine' = mine /\ acks' = acks
    BY <2>1 DEF client
  <2>3. CASE Limited \/ IgnoreConfirm(k)
    <3>1. UNCHANGED <<session, acked, down>>
      BY <2>3 DEF Limited, IgnoreConfirm, server
    <3> QED BY <1>1, <1>3, <2>2, <3>1
  <2>4. ASSUME NEW d, d.kind # "accept", down' = Append(down, d), UNCHANGED <<session, acked>>
        PROVE  /\ Sorted(down')
               /\ \A e \in acks' \cup {mine'} : Above(e, down')
               /\ mine' # 0 => \A e \in acks' : e <= mine'
               /\ acked' => session' \in acks'
               /\ NoEcho \notin acks'
    <3>1. Sorted(down') /\ Seen(down') = Seen(down) \cup {d}
      BY <1>11, <2>4
    <3> QED BY <1>3, <2>2, <2>4, <3>1
  <2>5. CASE Challenge(k)
    BY <2>4, <2>5 DEF Challenge, Datagram
  <2>6. CASE Admit(k)
    <3>1. CASE Slot >= net.slots
      BY <2>4, <2>6, <3>1 DEF Admit, Datagram
    <3>2. CASE ~(Slot >= net.slots)
      <4> DEFINE d == Datagram("accept", session + 1)
      <4>1. down' = Append(down, d) /\ session' = session + 1 /\ acked' = FALSE
        BY <2>6, <3>2 DEF Admit, OpeningTypes
      <4>2. d.kind = "accept" /\ d.n = session + 1
        BY DEF Datagram
      <4> HIDE DEF d
      <4>3. Sorted(down') /\ Seen(down') = Seen(down) \cup {d}
        BY <1>2, <1>11, <4>1, <4>2
      <4>4. \A e \in acks \cup {mine} : e <= d.n
        BY <1>2, <4>2
      <4>5. \A e \in acks' \cup {mine'} : Above(e, down')
        BY <1>1, <2>2, <4>3, <4>4 DEF Above
      <4> QED BY <1>1, <2>2, <4>1, <4>3, <4>5
    <3> QED BY <3>1, <3>2
  <2> QED BY <2>1, <2>3, <2>5, <2>6
<1>13. CASE ResendAccept
  <2> DEFINE d == Datagram("accept", session)
  <2>1. down' = Append(down, d) /\ UNCHANGED <<mine, acks, session, acked>>
    BY <1>13 DEF ResendAccept, LiveAccept, client
  <2>2. d.kind = "accept" /\ d.n = session
    BY DEF Datagram
  <2> HIDE DEF d
  <2>3. Sorted(down') /\ Seen(down') = Seen(down) \cup {d}
    BY <1>2, <1>11, <2>1, <2>2
  <2> QED BY <1>3, <2>1, <2>2, <2>3
<1> QED BY <1>4, <1>6, <1>7, <1>8, <1>9, <1>10, <1>12, <1>13 DEF OpeningNext

-----------------------------------------------------------------------------
OpeningInv == OpeningTypes /\ NoncesSpent /\ NoRefusal /\ OneEach /\ StaleIsOld /\ InOrder

LEMMA OpeningInvInit == OpeningInit => OpeningInv
<1> SUFFICES ASSUME OpeningInit PROVE OpeningInv
  OBVIOUS
<1>1. OpeningTypes /\ NoncesSpent
  BY OpeningTypesInit
<1>2. Seen(down) = {} /\ Seen(up) = {} /\ Len(opened) = 0 /\ Len(up) = 0 /\ starts = 1
      /\ failed = "no" /\ resends = 0
  BY DEF OpeningInit, Seen
<1>3. Places(down, Challenges) = {}
  BY DEF OpeningInit, Places
<1>4. Exchanges = 0 /\ Fresh
  <2>1. due = 0 /\ waited = 0
    BY DEF OpeningInit
  <2> QED BY <1>2, <1>3, <2>1, FS_EmptySet DEF Exchanges, Under, Count, Fresh
<1>5. InOrder
  BY DEF OpeningInit, InOrder, Sorted, Above, Seen
<1> QED BY <1>1, <1>2, <1>4, <1>5 DEF OpeningInv, NoRefusal, OneEach, StaleIsOld

LEMMA OpeningInvAlways == OpeningSpec => []OpeningInv
<1>1. OpeningInv /\ [OpeningNext]_openingVars => OpeningInv'
  BY OpeningTypesStep, NoncesStep, NoRefusalStep, OneEachStep, StaleIsOldStep, InOrderStep DEF OpeningInv
<1> QED BY <1>1, OpeningInvInit, PTL DEF OpeningSpec

(* The bucket, the clocks and the numbers of an opening stay in bounds, and *)
(* a client never echoes a session that was not opened.                    *)
THEOREM OpeningTyped == OpeningSpec => []OpeningTypeOK
<1>1. OpeningInv => OpeningTypeOK
  BY DEF OpeningInv, OpeningTypes, OpeningTypeOK
<1> QED BY <1>1, OpeningInvAlways, PTL

(* A challenge opens one session and a start of the client, on a network   *)
(* quicker than its retries, has one; a client that is left with a session *)
(* is left with the one the server has, once its Accept was sent again     *)
(* more often than datagrams were lost or doubled, or when it was acked    *)
(* over a network that keeps order (server.rs admit_connection and         *)
(* session_gate, channel.rs handle_ack, client.rs handle_received_packet). *)
THEOREM SessionsAreMatched == OpeningSpec => []SessionsMatch
<1>1. OpeningInv => SessionsMatch
  <2> SUFFICES ASSUME OpeningInv PROVE SessionsMatch
    OBVIOUS
  <2>1. net.max \in Nat /\ net.faults \in Nat /\ Interval \in Nat \ {0} /\ MaxResends \in Nat
    BY FullNat DEF OpeningInv, OpeningTypes, SettingType
  <2>2. \A i, j \in DOMAIN opened : opened[i] = opened[j] => i = j
    BY DEF OpeningInv, NoncesSpent
  <2>3. ASSUME net.faults = 0, 4 * net.max < Interval PROVE Len(opened) <= starts
    <3>1. Exchanges <= starts
      BY <2>3 DEF OpeningInv, OneEach, Quick
    <3>2. Len(opened) \in Nat /\ Len(up) \in Nat /\ starts \in Nat
      <4>1. opened \in Seq((1..nonces)) /\ up \in Seq(Upward) /\ starts \in 1..net.starts
            /\ net.starts \in Nat
        BY DEF OpeningInv, OpeningTypes, SettingType
      <4> QED BY <4>1
    <3>3. Count(down, Challenges) \in Nat
      BY PlacesFinite DEF OpeningInv, OpeningTypes
    <3> QED BY <3>1, <3>2, <3>3 DEF Exchanges, Under
  <2>4. faults \in Nat /\ resends \in Nat /\ session \in Nat /\ mine \in 0..session
    <3>1. /\ faults \in 0..net.faults /\ resends \in 0..MaxResends /\ mine \in 0..session
          /\ opened \in Seq((1..nonces)) /\ session = Len(opened)
      BY DEF OpeningInv, OpeningTypes
    <3>2. session \in Nat
      BY <3>1
    <3> QED BY <2>1, <3>1, <3>2
  <2>5. ASSUME net.max < Interval, Quiet, mine # 0, resends > faults PROVE mine = session
    <3>1. down = << >> /\ resends # 0
      BY <2>4, <2>5 DEF Quiet
    <3>2. Places(down, Accepts(session)) = {}
      BY <3>1 DEF Places
    <3>3. Count(down, Accepts(session)) = 0
      BY <3>2, FS_EmptySet DEF Count
    <3>4. mine \in {0, session} \/ Count(down, Accepts(session)) + faults >= resends
      BY <2>5, <3>1 DEF OpeningInv, StaleIsOld
    <3> QED BY <2>4, <2>5, <3>3, <3>4
  <2>6. ASSUME acked, Orderly, mine # 0 PROVE mine = session
    <3>1. session <= mine
      BY <2>6 DEF OpeningInv, InOrder
    <3> QED BY <2>4, <3>1
  <2> QED BY <2>2, <2>3, <2>5, <2>6 DEF SessionsMatch, OneSessionPerChallenge, SessionsAgree
<1> QED BY <1>1, OpeningInvAlways, PTL

(* While others leave a slot more than the leftover session of its address *)
(* holds, a client is not refused (server.rs admit_connection).            *)
THEOREM LeftoverRefusesNobody == OpeningSpec => []LeftoverNeverRefuses
<1>1. OpeningInv => LeftoverNeverRefuses
  BY DEF OpeningInv, NoRefusal, LeftoverNeverRefuses
<1> QED BY <1>1, OpeningInvAlways, PTL

-----------------------------------------------------------------------------
(* A client that goes on asking gets in.                                   *)

(* What is under way comes from the last Connect.                          *)
Recent == /\ \A m \in Seen(up) : Young(m)
          /\ \A m \in Seen(down) : m.kind = "challenge" => Young(m)

(* The connect loop wakes at multiples of the interval.                    *)
Timely == \E j \in Nat : waited + due = j * Interval

(* Without a session: at most one exchange is under way and will succeed,  *)
(* each earlier one has cost a fault, and it finds a token.                *)
Spent == Interval - due
Asked == \E m \in Seen(up) : m.kind = "connect"
Claimed ==
    /\ pending.nonce # 0 /\ pending.age <= Spent
    /\ \E m \in Seen(up) \cup Seen(down) :
           m.kind \in {"challenge", "confirm"} /\ m.n = pending.nonce
Asking ==
    /\ Under <= 1 /\ (Under = 1 => Asked \/ Claimed)
    /\ waited + due <= (faults + Under) * Interval
    /\ tokens + net.max + Interval >= Full + Spent
    /\ Asked => tokens + net.max >= Full + Spent

(* With one: its Accept is under way, or was lost and will be sent again.  *)
Answered ==
    \/ /\ resends <= faults
       /\ \E m \in Seen(down) :
              /\ m.kind = "accept" /\ (m.age = since \/ resends = MaxResends)
              /\ waited <= faults * Interval + 3 * net.max + m.age
    \/ resends < faults /\ waited + Interval <= faults * Interval + 3 * net.max + since

(* A client that was never answered has told the server nothing.           *)
Untold == mine = 0 /\ ~marked /\ acks = {} /\ ~acked

Persisting ==
    Spared =>
        /\ failed # "timeout"
        /\ trying => /\ Timely /\ Recent /\ Untold
                     /\ session = 0 => Asking
                     /\ session # 0 => Answered

LEMMA SparedTypes ==
    ASSUME OpeningTypes, Spared
    PROVE  /\ net.max \in Nat /\ net.faults \in Nat /\ Interval \in Nat \ {0} /\ 4 * net.max < Interval
           /\ Timeout \in Nat /\ MaxResends \in Nat
           /\ up \in Seq(Upward) /\ down \in Seq(Downward)
           /\ Len(up) \in Nat /\ Count(down, Challenges) \in Nat /\ Under \in Nat
           /\ due \in 0..Interval /\ waited \in Nat /\ tokens \in Nat
           /\ faults \in Nat /\ faults <= net.faults /\ net.faults <= MaxResends
           /\ resends \in Nat /\ resends <= MaxResends /\ since \in 0..Interval
           /\ session \in Nat
<1>1. /\ net.max \in Nat /\ net.faults \in Nat /\ Interval \in Nat \ {0} /\ Timeout \in Nat /\ MaxResends \in Nat
  BY HandshakeAssumption DEF OpeningTypes, SettingType
<1>2. 4 * net.max < Interval /\ net.faults <= MaxResends
  BY DEF Spared
<1>3. /\ up \in Seq(Upward) /\ down \in Seq(Downward) /\ opened \in Seq((1..nonces)) /\ session = Len(opened)
      /\ due \in 0..Interval /\ waited \in Nat /\ tokens \in 0..Full
      /\ faults \in 0..net.faults /\ resends \in 0..MaxResends /\ since \in 0..Interval
  BY DEF OpeningTypes
<1>4. Len(up) \in Nat /\ session \in Nat
  BY <1>3
<1>5. Count(down, Challenges) \in Nat
  BY <1>3, PlacesFinite
<1>6. tokens \in Nat /\ faults \in Nat /\ faults <= net.faults /\ resends \in Nat /\ resends <= MaxResends
  BY <1>1, <1>3
<1> QED
  BY <1>1, <1>2, <1>3, <1>4, <1>5, <1>6 DEF Under

(* What a datagram under way is.                                           *)
LEMMA UnderWay ==
    ASSUME OpeningTypes, Spared
    PROVE  /\ \A m \in Seen(up) : m \in Upward /\ m.kind \in {"connect", "confirm"}
                                  /\ m.age \in Nat /\ m.age <= net.max
           /\ \A m \in Seen(down) : m \in Downward /\ m.kind \in {"challenge", "accept", "reject"}
                                    /\ m.age \in Nat /\ m.age <= net.max
                                    /\ (m \in Challenges <=> m.kind = "challenge")
<1>1. net.max \in Nat /\ Seen(up) \subseteq Upward /\ Seen(down) \subseteq Downward
  <2>1. net.max \in Nat /\ up \in Seq(Upward) /\ down \in Seq(Downward)
    BY SparedTypes
  <2> QED
    BY <2>1 DEF Seen
<1>2. \A m \in Upward : m.kind \in {"connect", "confirm"} /\ m.age \in Nat /\ m.age <= net.max
  BY <1>1 DEF Upward
<1>3. \A m \in Downward : /\ m.kind \in {"challenge", "accept", "reject"} /\ m.age \in Nat /\ m.age <= net.max
                          /\ (m \in Challenges <=> m.kind = "challenge")
  BY <1>1 DEF Downward, Challenges
<1> QED
  BY <1>1, <1>2, <1>3

(* Where nothing is under way nothing is seen, and where something is, it  *)
(* counts.                                                                 *)
LEMMA UnderSees ==
    ASSUME OpeningTypes, Spared
    PROVE  /\ Under = 0 => Seen(up) = {} /\ \A m \in Seen(down) : m.kind # "challenge"
           /\ \A m \in Seen(up) : Len(up) >= 1 /\ (Len(up) = 1 => Seen(up) = {m})
           /\ \A m \in Seen(down) : m.kind = "challenge" => Count(down, Challenges) >= 1
<1>1. Len(up) \in Nat /\ Count(down, Challenges) \in Nat /\ up \in Seq(Upward) /\ down \in Seq(Downward)
  BY SparedTypes
<1>2. \A m \in Seen(up) : Len(up) >= 1 /\ (Len(up) = 1 => Seen(up) = {m})
  BY <1>1 DEF Seen
<1>3. ASSUME NEW m \in Seen(down), m.kind = "challenge" PROVE Count(down, Challenges) >= 1
  <2>1. m \in Challenges
    BY <1>3, UnderWay
  <2>2. Places(down, Challenges) # {}
    BY <2>1 DEF Seen, Places
  <2>3. Count(down, Challenges) # 0
    BY <1>1, <2>2, PlacesFinite, FS_EmptySet DEF Count
  <2> QED
    BY <1>1, <2>3
<1>4. ASSUME Under = 0 PROVE Seen(up) = {} /\ \A m \in Seen(down) : m.kind # "challenge"
  <2>1. Len(up) = 0 /\ Count(down, Challenges) = 0
    BY <1>1, <1>4 DEF Under
  <2> QED
    BY <1>2, <1>3, <2>1
<1> QED
  BY <1>2, <1>3, <1>4

(* A tick makes a way older.                                               *)
LEMMA AgedWay ==
    ASSUME NEW way \in Seq(Upward) \cup Seq(Downward), net.max \in Nat
    PROVE  /\ \A m \in Seen(Older(way)) : \E o \in Seen(way) :
                  m.kind = o.kind /\ m.n = o.n /\ m.age = o.age + 1
           /\ \A o \in Seen(way) : \E m \in Seen(Older(way)) :
                  m.kind = o.kind /\ m.n = o.n /\ m.age = o.age + 1
           /\ Len(Older(way)) = Len(way)
           /\ Count(Older(way), Challenges) = Count(way, Challenges)
<1>1. \A k \in DOMAIN way : way[k] \in Upward \cup Downward
  OBVIOUS
<1>2. ASSUME NEW k \in DOMAIN way
      PROVE  LET m == Older(way)[k] IN
             /\ m.kind = way[k].kind /\ m.n = way[k].n /\ m.age = way[k].age + 1
             /\ m \in Challenges <=> way[k] \in Challenges
  <2>1. Older(way)[k] = [way[k] EXCEPT !.age = @ + 1]
    BY DEF Older
  <2>2. way[k] \in Upward \cup Downward
    BY <1>1
  <2> QED
    BY <2>1, <2>2 DEF Upward, Downward, Challenges
<1>3. DOMAIN Older(way) = DOMAIN way
  BY DEF Older
<1>4. Len(Older(way)) = Len(way)
  BY DEF Older
<1>5. Places(Older(way), Challenges) = Places(way, Challenges)
  BY <1>2, <1>3 DEF Places
<1> QED
  BY <1>2, <1>3, <1>4, <1>5 DEF Seen, Count

-----------------------------------------------------------------------------
LEMMA SparedStays ==
    ASSUME OpeningTypes, [OpeningNext]_openingVars
    PROVE  net' = net /\ (Spared' <=> Spared)
<1>1. net' = net
  BY DEF OpeningNext, Tick, Fault, Retry, ClientReceive, Restart, ServerReceive, ResendAccept, TakeAck, openingVars
<1> QED
  BY <1>1 DEF Spared

(* A datagram that another one answers is as young.                        *)
(* And it goes on saying nothing while it asks.                            *)
LEMMA UntoldStep ==
    ASSUME OpeningTypes, Spared, trying, Untold, [OpeningNext]_openingVars, trying'
    PROVE  Untold'
<1>1. ~Restart /\ ~TakeAck
  BY SparedTypes DEF Restart, TakeAck, SessionGate, OpeningTypes, Spared, Untold
<1>2. mine' = mine /\ marked' = marked /\ acks' = acks
  <2>1. CASE ClientReceive
    BY <2>1 DEF ClientReceive, Answer, TakeAccept, TakeReject, client
  <2>2. CASE Tick \/ Fault \/ Retry \/ ServerReceive \/ ResendAccept \/ UNCHANGED openingVars
    BY <2>2 DEF Tick, Fault, Retry, ServerReceive, ResendAccept, openingVars, client
  <2> QED
    BY <1>1, <2>1, <2>2 DEF OpeningNext
<1>3. acked' = acked \/ acked' = FALSE
  <2>1. CASE ServerReceive
    BY <2>1 DEF ServerReceive, Limited, Challenge, Admit, IgnoreConfirm, server
  <2>2. CASE Tick \/ Fault \/ Retry \/ ClientReceive \/ ResendAccept \/ UNCHANGED openingVars
    BY <2>2 DEF Tick, Fault, Retry, ClientReceive, ResendAccept, openingVars, server
  <2> QED
    BY <1>1, <2>1, <2>2 DEF OpeningNext
<1> QED
  BY <1>2, <1>3 DEF Untold

LEMMA AnswersAreYoung ==
    ASSUME OpeningTypes, Spared, NEW o \in Seen(up) \cup Seen(down), Young(o), NEW d, d.age = 0,
           \/ o.kind = "challenge" /\ d.kind = "confirm"
           \/ o.kind = "connect" /\ d.kind = "challenge"
    PROVE  Young(d)
<1>1. o.age \in Nat /\ o.age <= net.max /\ net.max \in Nat /\ due \in 0..Interval /\ Interval \in Nat
  BY UnderWay, SparedTypes
<1> QED
  BY <1>1 DEF Young, Reached

LEMMA RecentStep ==
    ASSUME OpeningTypes, Spared, trying, Recent, [OpeningNext]_openingVars, trying'
    PROVE  Recent'
<1>0. /\ net' = net /\ net.max \in Nat /\ Interval \in Nat \ {0} /\ due \in 0..Interval
      /\ up \in Seq(Upward) /\ down \in Seq(Downward)
  BY SparedStays, SparedTypes
<1>1. \A m \in Seen(up) \cup Seen(down) : m.age \in Nat /\ m.age <= net.max
  BY UnderWay
<1>2. ~Restart
  BY SparedTypes DEF Restart, OpeningTypes, Spared
<1>3. ASSUME due' = due,
             \A m \in Seen(up') : m \in Seen(up) \/ Young(m),
             \A m \in Seen(down') : m \in Seen(down) \/ m.kind # "challenge" \/ Young(m)
      PROVE  Recent'
  <2>1. \A m : Young(m)' <=> Young(m)
    BY <1>0, <1>3 DEF Young, Reached
  <2>2. \A m \in Seen(up') : Young(m)'
    BY <1>3, <2>1 DEF Recent
  <2>3. \A m \in Seen(down') : m.kind = "challenge" => Young(m)'
    BY <1>3, <2>1 DEF Recent
  <2> QED
    BY <2>2, <2>3 DEF Recent, Seen
<1>4. CASE Tick
  <2>1. up' = Older(up) /\ down' = Older(down) /\ due' = due - 1 /\ due > 0
    BY <1>4 DEF Tick
  <2>2. ASSUME NEW o \in Seen(up) \cup Seen(down), Young(o),
               NEW m, m.kind = o.kind, m.age = o.age + 1
        PROVE  Young(m)'
    <3>1. o.age \in Nat /\ o.kind # "reject" /\ Interval - due <= Reached(o)
      BY <1>1, <2>2 DEF Young
    <3>2. Reached(o) \in Nat
      BY <1>0, <3>1 DEF Reached
    <3>3. Reached(m)' = Reached(o) + 1
      <4>1. net'.max = net.max /\ net.max \in Nat /\ o.age \in Nat /\ m.kind = o.kind /\ m.age = o.age + 1
        BY <1>0, <2>2, <3>1
      <4> QED
        BY <4>1 DEF Reached
    <3>4. Interval - due' <= Reached(m)'
      BY <1>0, <2>1, <3>1, <3>2, <3>3
    <3> QED
      BY <2>2, <3>1, <3>4 DEF Young
  <2>3. \A m \in Seen(up') : Young(m)'
    <3>1. \A m \in Seen(up') : \E o \in Seen(up) : m.kind = o.kind /\ m.age = o.age + 1
      BY <1>0, <2>1, AgedWay
    <3> QED
      BY <2>2, <3>1 DEF Recent
  <2>4. \A m \in Seen(down') : m.kind = "challenge" => Young(m)'
    <3>1. \A m \in Seen(down') : \E o \in Seen(down) : m.kind = o.kind /\ m.age = o.age + 1
      BY <1>0, <2>1, AgedWay
    <3> QED
      BY <2>2, <3>1 DEF Recent
  <2> QED
    BY <2>3, <2>4 DEF Recent, Seen
<1>5. CASE Fault
  <2>1. /\ due' = due
        /\ \/ \E k \in Ready(up) : up' \in Faulty(up, k) /\ UNCHANGED down
           \/ \E k \in Ready(down) : down' \in Faulty(down, k) /\ UNCHANGED up
    BY <1>5 DEF Fault, client
  <2>2. ASSUME NEW M, NEW way \in Seq(M), NEW k \in Ready(way), NEW less \in Faulty(way, k)
        PROVE  Seen(less) \subseteq Seen(way)
    <3>1. k \in DOMAIN way /\ less = RemoveAt(way, k)
      BY <2>2 DEF Ready, Faulty, Spared
    <3> QED
      BY <3>1, SeenWithoutOne
  <2>3. Seen(up') \subseteq Seen(up) /\ Seen(down') \subseteq Seen(down)
    BY <1>0, <2>1, <2>2
  <2> QED
    BY <1>3, <2>1, <2>3
<1>6. CASE Retry
  <2> DEFINE d == Datagram("connect", 0)
  <2>1. due' = Interval /\ up' = Append(up, d) /\ down' = down
    BY <1>6 DEF Retry, RetryIn
  <2>2. d.kind = "connect" /\ d.age = 0
    BY DEF Datagram
  <2> HIDE DEF d
  <2>3. Seen(up') = Seen(up) \cup {d}
    BY <1>0, <2>1, SeenWithOne
  <2>4. ASSUME NEW m, m.age \in Nat, m.kind # "reject" PROVE Young(m)'
    <3>1. Reached(m)' >= 0
      BY <1>0, <2>4 DEF Reached
    <3> QED
      BY <1>0, <2>1, <2>4, <3>1 DEF Young
  <2>5. \A m \in Seen(up') : Young(m)'
    BY <1>1, <2>2, <2>3, <2>4 DEF Recent, Young
  <2>6. \A m \in Seen(down') : m.kind = "challenge" => Young(m)'
    BY <1>1, <2>1, <2>4
  <2> QED
    BY <2>5, <2>6 DEF Recent, Seen
<1>7. CASE ClientReceive
  <2>1. PICK k \in Ready(down) :
            down' = RemoveAt(down, k) /\ (Answer(k) \/ TakeAccept(k) \/ TakeReject(k))
    BY <1>7 DEF ClientReceive
  <2>2. Answer(k)
    BY <2>1 DEF TakeAccept, TakeReject
  <2> DEFINE o == down[k]
             d == Datagram("confirm", o.n)
  <2>3. o \in Seen(down) /\ k \in DOMAIN down
    BY DEF Ready, Seen
  <2>4. d.kind = "confirm" /\ d.age = 0
    BY DEF Datagram
  <2>5. o.kind = "challenge" /\ up' = Append(up, d) /\ due' = due
    BY <2>2 DEF Answer, client
  <2> HIDE DEF d, o
  <2>6. Seen(up') = Seen(up) \cup {d} /\ Seen(down') \subseteq Seen(down)
    BY <1>0, <2>1, <2>3, <2>5, SeenWithOne, SeenWithoutOne
  <2>7. Young(d)
    BY <2>3, <2>4, <2>5, AnswersAreYoung DEF Recent
  <2> QED
    BY <1>3, <2>5, <2>6, <2>7
<1>8. CASE ServerReceive
  <2>1. PICK k \in Ready(up) :
            /\ up' = RemoveAt(up, k)
            /\ Limited \/ Challenge(k) \/ Admit(k) \/ IgnoreConfirm(k)
            /\ UNCHANGED client
    BY <1>8 DEF ServerReceive
  <2>2. k \in DOMAIN up /\ up[k] \in Seen(up)
    BY DEF Ready, Seen
  <2>3. due' = due /\ Seen(up') \subseteq Seen(up)
    BY <1>0, <2>1, <2>2, SeenWithoutOne DEF client
  <2>4. ASSUME NEW d, d.kind # "challenge" \/ Young(d), down' = down \/ down' = Append(down, d)
        PROVE  Recent'
    <3>1. Seen(down') \subseteq Seen(down) \cup {d}
      BY <1>0, <2>4, SeenWithOne
    <3> QED
      BY <1>3, <2>3, <2>4, <3>1
  <2>5. CASE Limited \/ IgnoreConfirm(k)
    <3>1. down' = down
      BY <2>5 DEF Limited, IgnoreConfirm
    <3> QED
      BY <1>3, <2>3, <3>1
  <2>6. CASE Challenge(k)
    <3> DEFINE d == Datagram("challenge", nonces + 1)
    <3>1. up[k].kind = "connect" /\ down' = Append(down, d)
      BY <2>6 DEF Challenge
    <3>2. d.kind = "challenge" /\ d.age = 0
      BY DEF Datagram
    <3> HIDE DEF d
    <3>3. Young(d)
      BY <2>2, <3>1, <3>2, AnswersAreYoung DEF Recent
    <3> QED
      BY <2>4, <3>1, <3>3
  <2>7. CASE Admit(k)
    <3>1. PICK d : d.kind # "challenge" /\ down' = Append(down, d)
      BY <2>7 DEF Admit, Datagram
    <3> QED
      BY <2>4, <3>1
  <2> QED
    BY <2>1, <2>5, <2>6, <2>7
<1>9. CASE ResendAccept
  <2>1. PICK i : down' = Append(down, Datagram("accept", i))
    BY <1>9 DEF ResendAccept
  <2>2. due' = due /\ up' = up
    BY <1>9 DEF ResendAccept, client
  <2>3. Seen(down') = Seen(down) \cup {Datagram("accept", i)} /\ Datagram("accept", i).kind # "challenge"
    BY <1>0, <2>1, SeenWithOne DEF Datagram
  <2> QED
    BY <1>3, <2>2, <2>3
<1>10. CASE TakeAck \/ UNCHANGED openingVars
  <2>1. due' = due /\ up' = up /\ down' = down
    BY <1>10 DEF TakeAck, openingVars, client
  <2> QED
    BY <1>3, <2>1
<1> QED
  BY <1>2, <1>4, <1>5, <1>6, <1>7, <1>8, <1>9, <1>10 DEF OpeningNext

-----------------------------------------------------------------------------
LEMMA Rounds ==
    ASSUME NEW j \in Nat, NEW f \in Nat, NEW i \in Nat \ {0}, j * i < (f + 1) * i
    PROVE  j <= f
<1>1. j >= f + 1 => j * i >= (f + 1) * i
  OBVIOUS
<1> QED
  BY <1>1

LEMMA Products ==
    ASSUME NEW f \in Nat, NEW i \in Nat
    PROVE  /\ f * i \in Nat /\ (f + 1) * i = f * i + i /\ (f + 2) * i = f * i + 2 * i
           /\ \A g \in Nat : f <= g => f * i <= g * i
OBVIOUS

LEMMA NothingIsYoung ==
    ASSUME OpeningTypes, Spared, Recent, due = 0
    PROVE  Seen(up) = {} /\ (\A m \in Seen(down) : m.kind # "challenge") /\ Under = 0
<1>0. net.max \in Nat /\ Interval \in Nat \ {0} /\ 4 * net.max < Interval
  BY SparedTypes
<1>1. ASSUME NEW m \in Seen(up) \cup Seen(down) PROVE ~Young(m)
  <2>1. m.age \in Nat /\ m.age <= net.max
    BY UnderWay
  <2>2. m.kind # "reject" => Reached(m) <= 4 * net.max
    BY <1>0, <2>1 DEF Reached
  <2>3. m.kind # "reject" => Reached(m) \in Nat
    BY <1>0, <2>1 DEF Reached
  <2> QED
    BY <1>0, <2>2, <2>3 DEF Young
<1>2. Seen(up) = {} /\ \A m \in Seen(down) : m.kind # "challenge"
  BY <1>1 DEF Recent
<1>3. Len(up) = 0
  <2>1. up \in Seq(Upward) /\ Len(up) \in Nat
    BY SparedTypes
  <2>2. Len(up) >= 1 => up[1] \in Seen(up)
    BY <2>1 DEF Seen
  <2> QED
    BY <1>2, <2>1, <2>2
<1>4. Places(down, Challenges) = {}
  BY <1>2, UnderWay DEF Places, Seen
<1>5. Count(down, Challenges) = 0
  BY <1>4, FS_EmptySet DEF Count
<1> QED
  BY <1>2, <1>3, <1>5 DEF Under

(* An answered client has not waited much longer than its faults explain.  *)
LEMMA AnsweredEarly ==
    ASSUME OpeningTypes, Spared, Answered
    PROVE  waited < (faults + 1) * Interval
<1>0. /\ net.max \in Nat /\ Interval \in Nat \ {0} /\ 4 * net.max < Interval
      /\ waited \in Nat /\ faults \in Nat /\ since \in 0..Interval
  BY SparedTypes
<1> DEFINE F == faults * Interval
<1>1. F \in Nat /\ (faults + 1) * Interval = F + Interval
  BY <1>0, Products
<1>2. CASE resends < faults /\ waited + Interval <= F + 3 * net.max + since
  <2> HIDE DEF F
  <2>1. since <= Interval /\ since \in Nat
    BY <1>0
  <2> QED
    BY <1>0, <1>1, <1>2, <2>1
<1>3. CASE \E m \in Seen(down) : waited <= F + 3 * net.max + m.age
  <2>1. PICK m \in Seen(down) : waited <= F + 3 * net.max + m.age
    BY <1>3
  <2>2. m.age \in Nat /\ m.age <= net.max
    BY UnderWay
  <2> HIDE DEF F
  <2> QED
    BY <1>0, <1>1, <2>1, <2>2
<1> QED
  BY <1>2, <1>3 DEF Answered

(* When the connect loop wakes, the timeout has not passed.                *)
LEMMA WakesInTime ==
    ASSUME OpeningTypes, Spared, Timely, Recent, session = 0 => Asking, session # 0 => Answered, due = 0
    PROVE  waited <= faults * Interval /\ waited <= Timeout
<1>0. /\ Interval \in Nat \ {0} /\ waited \in Nat /\ faults \in Nat /\ net.faults \in Nat
      /\ faults <= net.faults /\ Timeout \in Nat
  BY SparedTypes
<1>1. waited <= faults * Interval
  <2>1. CASE session = 0
    <3>1. Under = 0 /\ waited + due <= (faults + Under) * Interval
      BY <2>1, NothingIsYoung DEF Asking
    <3>2. faults + Under = faults /\ waited + due = waited
      BY <1>0, <3>1
    <3> QED
      BY <3>1, <3>2
  <2>2. CASE session # 0
    <3>1. PICK j \in Nat : waited = j * Interval
      BY <1>0 DEF Timely
    <3>2. j * Interval < (faults + 1) * Interval
      BY <2>2, <3>1, AnsweredEarly
    <3>3. j <= faults
      BY <1>0, <3>2, Rounds
    <3> QED
      BY <1>0, <3>1, <3>3, Products
  <2> QED
    BY <2>1, <2>2
<1>2. faults * Interval <= net.faults * Interval /\ faults * Interval \in Nat /\ net.faults * Interval \in Nat
  BY <1>0, Products
<1>3. net.faults * Interval <= Timeout
  BY DEF Spared
<1> HIDE DEF Spared
<1> QED
  BY <1>0, <1>1, <1>2, <1>3

LEMMA TimelyStep ==
    ASSUME OpeningTypes, Spared, trying, Timely, [OpeningNext]_openingVars, trying'
    PROVE  Timely'
<1>0. Interval \in Nat \ {0} /\ waited \in Nat /\ due \in 0..Interval
  BY SparedTypes
<1>1. PICK j \in Nat : waited + due = j * Interval
  BY DEF Timely
<1>2. ~Restart
  BY SparedTypes DEF Restart, OpeningTypes, Spared
<1>3. CASE Tick
  <2>1. waited' = waited + 1 /\ due' = due - 1
    BY <1>3 DEF Tick
  <2> QED
    BY <1>0, <1>1, <2>1 DEF Timely
<1>4. CASE Retry
  <2>1. waited' = waited /\ due' = Interval /\ due = 0
    BY <1>4 DEF Retry, RetryIn
  <2>2. waited' + due' = (j + 1) * Interval
    BY <1>0, <1>1, <2>1, Products
  <2> QED
    BY <2>2 DEF Timely
<1>5. CASE UNCHANGED <<waited, due>>
  BY <1>1, <1>5 DEF Timely
<1>6. CASE ClientReceive
  BY <1>5, <1>6 DEF ClientReceive, Answer, TakeAccept, TakeReject, client
<1>7. CASE Fault \/ ServerReceive \/ ResendAccept \/ TakeAck \/ UNCHANGED openingVars
  BY <1>5, <1>7 DEF Fault, ServerReceive, ResendAccept, TakeAck, openingVars, client
<1> QED
  BY <1>2, <1>3, <1>4, <1>6, <1>7 DEF OpeningNext

-----------------------------------------------------------------------------
LEMMA AskingTick ==
    ASSUME OpeningTypes, Spared, Interval <= TTL, trying, Recent, Asking, Tick
    PROVE  Asking' /\ session' = session
<1>0. /\ net' = net /\ net.max \in Nat /\ Interval \in Nat \ {0} /\ TTL \in Nat /\ Full \in Nat
      /\ due \in 0..Interval /\ waited \in Nat /\ tokens \in 0..Full
      /\ up \in Seq(Upward) /\ down \in Seq(Downward)
  BY SparedTypes, FullNat DEF Tick, OpeningTypes
<1>1. /\ up' = Older(up) /\ down' = Older(down) /\ due > 0
      /\ waited' = waited + 1 /\ due' = due - 1 /\ faults' = faults /\ session' = session
      /\ tokens' = IF tokens < Full THEN tokens + 1 ELSE tokens
      /\ pending' = IF pending.nonce = 0 \/ pending.age >= TTL THEN NoChallenge
                    ELSE [pending EXCEPT !.age = @ + 1]
      /\ \A k \in DOMAIN up : up[k].age < net.max
  BY DEF Tick, Refilled
<1>2. Spent' = Spent + 1 /\ Spent \in Nat /\ Spent + 1 <= Interval
  BY <1>0, <1>1 DEF Spent
<1>3. Under' = Under
  BY <1>0, <1>1, AgedWay DEF Under
<1>4. waited' + due' <= (faults' + Under') * Interval
  BY <1>0, <1>1, <1>3 DEF Asking
<1>5. Asked' <=> Asked
  <2>1. \A m \in Seen(up') : \E o \in Seen(up) : m.kind = o.kind
    BY <1>0, <1>1, AgedWay
  <2>2. \A o \in Seen(up) : \E m \in Seen(up') : m.kind = o.kind
    BY <1>0, <1>1, AgedWay
  <2> QED
    BY <2>1, <2>2 DEF Asked, Seen
<1>6. tokens' + net'.max + Interval >= Full + Spent'
  <2>1. tokens + net.max + Interval >= Full + Spent
    BY DEF Asking
  <2>2. /\ tokens \in 0..Full /\ Full \in Nat /\ net.max \in Nat /\ Interval \in Nat /\ net'.max = net.max
        /\ tokens' = IF tokens < Full THEN tokens + 1 ELSE tokens
    BY <1>0, <1>1
  <2> QED
    BY <1>2, <2>1, <2>2
<1>7. Asked' => tokens' + net'.max >= Full + Spent'
  <2>1. SUFFICES ASSUME Asked' PROVE tokens' + net'.max >= Full + Spent'
    OBVIOUS
  <2>2. tokens + net.max >= Full + Spent
    BY <1>5, <2>1 DEF Asking
  <2>3. PICK m \in Seen(up) : m.kind = "connect"
    BY <1>5, <2>1 DEF Asked
  <2>4. m.age < net.max /\ m.age \in Nat
    BY <1>1, <2>3, UnderWay DEF Seen
  <2>5. Spent <= m.age
    BY <1>0, <2>3, <2>4 DEF Recent, Young, Reached, Spent
  <2>6. /\ tokens \in 0..Full /\ Full \in Nat /\ net.max \in Nat /\ net'.max = net.max
        /\ tokens' = IF tokens < Full THEN tokens + 1 ELSE tokens
    BY <1>0, <1>1
  <2> QED
    BY <1>2, <2>2, <2>4, <2>5, <2>6
<1>8. Claimed => Claimed'
  <2>1. SUFFICES ASSUME Claimed PROVE Claimed'
    OBVIOUS
  <2>2. pending.nonce # 0 /\ pending.age <= Spent
    BY <2>1 DEF Claimed
  <2>3. pending \in [nonce : 0..nonces, age : 0..TTL] /\ pending.age \in Nat
    BY <1>0 DEF OpeningTypes
  <2>4. ~(pending.age >= TTL)
    BY <1>0, <1>2, <2>2, <2>3
  <2>5. pending' = [pending EXCEPT !.age = @ + 1]
    BY <1>1, <2>2, <2>4
  <2>6. pending'.nonce = pending.nonce /\ pending'.age = pending.age + 1
    BY <2>3, <2>5
  <2>7. pending'.age <= Spent'
    BY <1>2, <2>2, <2>3, <2>6
  <2>8. PICK o \in Seen(up) \cup Seen(down) :
            o.kind \in {"challenge", "confirm"} /\ o.n = pending.nonce
    BY <2>1 DEF Claimed
  <2>9. \E m \in Seen(up') \cup Seen(down') : m.kind = o.kind /\ m.n = o.n
    BY <1>0, <1>1, <2>8, AgedWay
  <2> QED
    BY <2>2, <2>6, <2>7, <2>8, <2>9 DEF Claimed, Seen
<1> QED
  BY <1>1, <1>3, <1>4, <1>5, <1>6, <1>7, <1>8 DEF Asking

(* One exchange at most, so it is the one that was asked or claimed.       *)
LEMMA TheExchange ==
    ASSUME OpeningTypes, Spared, Asking, NEW k \in DOMAIN up
    PROVE  /\ Under = 1 /\ Len(up) = 1 /\ Seen(up) = {up[k]} /\ Count(down, Challenges) = 0
           /\ \A m \in Seen(down) : m.kind # "challenge"
           /\ up[k].kind = "confirm" => up[k].n = pending.nonce
<1>0. Len(up) \in Nat /\ Count(down, Challenges) \in Nat /\ Under <= 1 /\ (Under = 1 => Asked \/ Claimed)
  BY SparedTypes DEF Asking
<1>1. up[k] \in Seen(up)
  BY DEF Seen
<1>2. Len(up) >= 1 /\ (Len(up) = 1 => Seen(up) = {up[k]})
  BY <1>1, UnderSees
<1>3. Len(up) = 1 /\ Count(down, Challenges) = 0 /\ Under = 1
  BY <1>0, <1>2 DEF Under
<1>4. \A m \in Seen(down) : m.kind # "challenge"
  BY <1>3, UnderSees
<1>5. ASSUME up[k].kind = "confirm" PROVE up[k].n = pending.nonce
  <2>1. ~Asked
    BY <1>2, <1>3, <1>5 DEF Asked
  <2>2. PICK m \in Seen(up) \cup Seen(down) :
            m.kind \in {"challenge", "confirm"} /\ m.n = pending.nonce
    BY <1>0, <1>3, <2>1 DEF Claimed
  <2>3. m \notin Seen(down)
    BY <1>4, <2>2, UnderWay
  <2> QED
    BY <1>2, <1>3, <2>2, <2>3
<1> QED
  BY <1>2, <1>3, <1>4, <1>5

LEMMA AskingFault ==
    ASSUME OpeningTypes, Spared, Asking, Fault
    PROVE  Asking' /\ session' = session
<1>0. /\ net.max \in Nat /\ Interval \in Nat \ {0} /\ waited \in Nat /\ tokens \in Nat /\ due \in 0..Interval
      /\ up \in Seq(Upward) /\ down \in Seq(Downward) /\ faults \in Nat /\ Full \in Nat
      /\ Len(up) \in Nat /\ Count(down, Challenges) \in Nat
  BY SparedTypes, FullNat
<1>1. /\ UNCHANGED <<net, waited, due, tokens, pending, session>> /\ faults' = faults + 1
      /\ \/ (\E k \in DOMAIN up : up' = RemoveAt(up, k)) /\ down' = down
         \/ (\E k \in DOMAIN down : down' = RemoveAt(down, k)) /\ up' = up
  <2>1. UNCHANGED <<net, waited, due, tokens, pending, session>> /\ faults' = faults + 1
    BY DEF Fault, client, server
  <2>2. \A way, k : Faulty(way, k) = {RemoveAt(way, k)}
    BY DEF Faulty, Spared
  <2>3. \A way : Ready(way) \subseteq DOMAIN way
    BY DEF Ready
  <2>4. \/ \E k \in Ready(up) : up' \in Faulty(up, k) /\ UNCHANGED down
        \/ \E k \in Ready(down) : down' \in Faulty(down, k) /\ UNCHANGED up
    BY DEF Fault
  <2> QED
    BY <2>1, <2>2, <2>3, <2>4
<1>2. /\ Seen(up') \subseteq Seen(up)
      /\ \/ Under' = Under - 1 /\ Under >= 1
         \/ Under' = Under /\ Seen(up') = Seen(up)
            /\ \A m \in Seen(down) : m.kind = "challenge" => m \in Seen(down')
  <2>1. ASSUME NEW k \in DOMAIN up, up' = RemoveAt(up, k), down' = down
        PROVE  Seen(up') \subseteq Seen(up) /\ Under' = Under - 1 /\ Under >= 1
    <3>1. Len(up') = Len(up) - 1 /\ Seen(up') \subseteq Seen(up) /\ Len(up) >= 1
      BY <1>0, <2>1, WithoutOne, SeenWithoutOne
    <3>2. Count(down', Challenges) = Count(down, Challenges)
      BY <2>1
    <3> QED
      BY <1>0, <3>1, <3>2 DEF Under
  <2>2. ASSUME NEW k \in DOMAIN down, down' = RemoveAt(down, k), up' = up
        PROVE  /\ Seen(up') = Seen(up)
               /\ \/ Under' = Under - 1 /\ Under >= 1
                  \/ Under' = Under /\ \A m \in Seen(down) : m.kind = "challenge" => m \in Seen(down')
    <3>0. down[k] \in Seen(down)
      BY DEF Seen
    <3>1. Seen(down) \subseteq Seen(down') \cup {down[k]} /\ down[k] \in Seen(down)
      BY <1>0, <2>2, <3>0, SeenWithoutOne
    <3>2. Count(down', Challenges) = IF down[k] \in Challenges THEN Count(down, Challenges) - 1
                                                              ELSE Count(down, Challenges)
      BY <1>0, <2>2, CountWithoutOne
    <3>3. down[k] \in Challenges <=> down[k].kind = "challenge"
      BY <3>1, UnderWay
    <3>4. Len(up') = Len(up) /\ Seen(up') = Seen(up)
      BY <2>2
    <3>5. down[k] \in Challenges => Under' = Under - 1 /\ Under >= 1
      BY <1>0, <3>1, <3>2, <3>3, <3>4, UnderSees DEF Under
    <3>6. down[k] \notin Challenges => Under' = Under
      BY <1>0, <3>2, <3>4 DEF Under
    <3> QED
      BY <3>1, <3>3, <3>4, <3>5, <3>6
  <2> QED
    BY <1>1, <2>1, <2>2
<1>3. Under \in 0..1 /\ (Under = 1 => Asked \/ Claimed) /\ waited + due <= (faults + Under) * Interval
  BY <1>0 DEF Asking, Under
<1>4. Asked' => Asked
  BY <1>2 DEF Asked, Seen
<1>5. tokens' + net'.max + Interval >= Full + Spent' /\ (Asked' => tokens' + net'.max >= Full + Spent')
  <2>1. Spent' = Spent
    BY <1>1 DEF Spent
  <2> QED
    BY <1>1, <1>4, <2>1 DEF Asking
<1>6. CASE Under' = Under - 1 /\ Under >= 1
  <2>1. Under = 1 /\ Under' = 0
    BY <1>3, <1>6
  <2>2. faults' + Under' = faults + Under
    BY <1>0, <1>1, <2>1
  <2>3. waited' + due' <= (faults' + Under') * Interval
    BY <1>1, <1>3, <2>2
  <2> QED
    BY <1>1, <1>5, <2>1, <2>3 DEF Asking
<1>7. CASE Under' = Under /\ Seen(up') = Seen(up)
           /\ \A m \in Seen(down) : m.kind = "challenge" => m \in Seen(down')
  <2>1. waited' + due' <= (faults' + Under') * Interval
    <3>1. (faults + Under) * Interval <= (faults + Under + 1) * Interval /\ (faults + Under) * Interval \in Nat
          /\ (faults + Under + 1) * Interval \in Nat
      BY <1>0, <1>3, Products
    <3>2. faults' + Under' = faults + Under + 1
      BY <1>0, <1>1, <1>3, <1>7
    <3> QED
      BY <1>0, <1>1, <1>3, <3>1, <3>2
  <2>2. Asked => Asked'
    BY <1>7 DEF Asked, Seen
  <2>3. Claimed => Claimed'
    <3>1. SUFFICES ASSUME Claimed PROVE Claimed'
      OBVIOUS
    <3>2. PICK m \in Seen(up) \cup Seen(down) :
              m.kind \in {"challenge", "confirm"} /\ m.n = pending.nonce
      BY <3>1 DEF Claimed
    <3>3. m \in Seen(up') \cup Seen(down')
      BY <1>7, <3>2, UnderWay
    <3>4. Spent' = Spent
      BY <1>1 DEF Spent
    <3> QED
      BY <1>1, <3>1, <3>2, <3>3, <3>4 DEF Claimed, Seen
  <2> QED
    BY <1>1, <1>3, <1>5, <1>7, <2>1, <2>2, <2>3 DEF Asking
<1> QED
  BY <1>2, <1>6, <1>7

LEMMA AskingRetry ==
    ASSUME OpeningTypes, Spared, Recent, Asking, Retry, trying'
    PROVE  Asking' /\ session' = session
<1> DEFINE d == Datagram("connect", 0)
<1>0. /\ net.max \in Nat /\ Interval \in Nat \ {0} /\ waited \in Nat /\ tokens \in Nat /\ Full \in Nat
      /\ faults \in Nat /\ up \in Seq(Upward) /\ Len(up) \in Nat /\ Count(down, Challenges) \in Nat
  BY SparedTypes, FullNat
<1>1. /\ due = 0 /\ due' = Interval /\ up' = Append(up, d)
      /\ UNCHANGED <<net, waited, tokens, session, down, faults>>
  BY DEF Retry, RetryIn, server
<1>2. d.kind = "connect"
  BY DEF Datagram
<1> HIDE DEF d
<1>3. Under = 0
  BY <1>1, NothingIsYoung
<1>4. Under' = 1
  <2>1. Len(up') = Len(up) + 1
    BY <1>0, <1>1
  <2>2. Count(down', Challenges) = Count(down, Challenges)
    BY <1>1
  <2> QED
    BY <1>0, <1>3, <2>1, <2>2 DEF Under
<1>5. Asked'
  <2>1. d \in Seen(up')
    BY <1>0, <1>1, SeenWithOne
  <2> QED
    BY <1>2, <2>1 DEF Asked, Seen
<1>6. waited' + due' <= (faults' + Under') * Interval
  <2>1. waited <= faults * Interval
    <3>1. waited + due <= (faults + Under) * Interval
      BY DEF Asking
    <3>2. waited + due = waited /\ faults + Under = faults
      BY <1>0, <1>1, <1>3
    <3> QED
      BY <3>1, <3>2
  <2>2. (faults + 1) * Interval = faults * Interval + Interval /\ faults * Interval \in Nat
    BY <1>0, Products
  <2>3. waited + Interval <= (faults + 1) * Interval
    BY <1>0, <2>1, <2>2
  <2> QED
    BY <1>1, <1>4, <2>3
<1>7. tokens' + net'.max >= Full + Spent' /\ tokens' + net'.max + Interval >= Full + Spent'
  <2>1. Spent = Interval /\ Spent' = 0
    BY <1>0, <1>1 DEF Spent
  <2>2. tokens + net.max + Interval >= Full + Interval
    BY <2>1 DEF Asking
  <2>3. tokens' = tokens /\ net'.max = net.max
    BY <1>1
  <2> QED
    BY <1>0, <2>1, <2>2, <2>3
<1> QED
  BY <1>1, <1>4, <1>5, <1>6, <1>7 DEF Asking

LEMMA AskingClient ==
    ASSUME OpeningTypes, Spared, Asking, ClientReceive, trying'
    PROVE  Asking' /\ session' = session
<1>0. /\ up \in Seq(Upward) /\ down \in Seq(Downward) /\ Len(up) \in Nat /\ Count(down, Challenges) \in Nat
  BY SparedTypes
<1>1. PICK k \in Ready(down) :
          /\ down' = RemoveAt(down, k)
          /\ Answer(k) \/ TakeAccept(k) \/ TakeReject(k)
          /\ UNCHANGED <<net, server, faults, starts, opened>>
  BY DEF ClientReceive
<1> DEFINE o == down[k]
           d == Datagram("confirm", o.n)
<1>2. /\ o.kind = "challenge" /\ up' = Append(up, d)
      /\ UNCHANGED <<net, waited, due, tokens, pending, session, faults>>
  BY <1>1 DEF Answer, TakeAccept, TakeReject, client, server
<1>3. k \in DOMAIN down /\ o \in Seen(down)
  BY DEF Ready, Seen
<1>4. d.kind = "confirm" /\ d.n = o.n
  BY DEF Datagram
<1> HIDE DEF o, d
<1>5. /\ Seen(up') = Seen(up) \cup {d} /\ Len(up') = Len(up) + 1
      /\ Seen(down') \subseteq Seen(down) /\ Seen(down) \subseteq Seen(down') \cup {o}
  BY <1>0, <1>1, <1>2, <1>3, SeenWithOne, SeenWithoutOne DEF o
<1>6. Under' = Under
  <2>1. o \in Challenges
    BY <1>2, <1>3, UnderWay
  <2>2. Count(down', Challenges) = Count(down, Challenges) - 1
    BY <1>0, <1>1, <1>3, <2>1, CountWithoutOne DEF o
  <2> QED
    BY <1>0, <1>5, <2>2 DEF Under
<1>7. Asked' <=> Asked
  BY <1>4, <1>5 DEF Asked, Seen
<1>8. Spent' = Spent
  BY <1>2 DEF Spent
<1>9. Claimed => Claimed'
  <2>1. SUFFICES ASSUME Claimed PROVE Claimed'
    OBVIOUS
  <2>2. PICK m \in Seen(up) \cup Seen(down) :
            m.kind \in {"challenge", "confirm"} /\ m.n = pending.nonce
    BY <2>1 DEF Claimed
  <2>3. \E n \in Seen(up') \cup Seen(down') :
            n.kind \in {"challenge", "confirm"} /\ n.n = pending.nonce
    <3>1. CASE m = o
      BY <1>4, <1>5, <2>2, <3>1
    <3>2. CASE m # o
      BY <1>5, <2>2, <3>2
    <3> QED
      BY <3>1, <3>2
  <2> QED
    BY <1>2, <1>8, <2>1, <2>3 DEF Claimed, Seen
<1> QED
  BY <1>2, <1>6, <1>7, <1>8, <1>9 DEF Asking

LEMMA AskingServer ==
    ASSUME OpeningTypes, Spared, Burst >= 3, Recent, Asking, session = 0, ServerReceive
    PROVE  IF session' = 0 THEN Asking' ELSE Answered'
<1>0. /\ net.max \in Nat /\ Interval \in Nat \ {0} /\ waited \in Nat /\ tokens \in Nat /\ Full \in Nat
      /\ faults \in Nat /\ up \in Seq(Upward) /\ down \in Seq(Downward) /\ Len(up) \in Nat
      /\ Count(down, Challenges) \in Nat /\ due \in 0..Interval /\ 4 * net.max < Interval
  BY SparedTypes, FullNat
<1>1. PICK k \in Ready(up) :
          /\ up' = RemoveAt(up, k)
          /\ Limited \/ Challenge(k) \/ Admit(k) \/ IgnoreConfirm(k)
          /\ UNCHANGED <<net, client, acks, faults, starts>>
  BY DEF ServerReceive
<1> DEFINE o == up[k]
<1>2. k \in DOMAIN up /\ o \in Seen(up)
  BY DEF Ready, Seen
<1> HIDE DEF o
<1>3. /\ Under = 1 /\ Len(up) = 1 /\ Seen(up) = {o} /\ Count(down, Challenges) = 0
      /\ o.kind = "confirm" => o.n = pending.nonce
  BY <1>2, TheExchange DEF o
<1>4. UNCHANGED <<net, waited, due, faults>>
  BY <1>1 DEF client
<1>5. up' \in Seq(Upward) /\ Len(up') = Len(up) - 1
  BY <1>0, <1>1, <1>2, WithoutOne
<1>6. Len(up') = 0 /\ Seen(up') = {}
  <2>1. Len(up') = 0
    BY <1>3, <1>5
  <2> QED
    BY <1>5, <2>1 DEF Seen
<1>7. Spent' = Spent /\ Spent \in Nat
  BY <1>0, <1>4 DEF Spent
<1>8. tokens >= Interval
  <2>1. Full >= 3 * Interval
    <3>1. Burst \in Nat
      BY HandshakeAssumption
    <3>2. \A b, i \in Nat : b >= 3 => b * i >= 3 * i
      OBVIOUS
    <3> QED
      BY <1>0, <3>1, <3>2 DEF Full
  <2>2. tokens + net.max + Interval >= Full + Spent
    BY DEF Asking
  <2> QED
    BY <1>0, <1>7, <2>1, <2>2
<1>9. waited + due <= (faults + 1) * Interval
  BY <1>3 DEF Asking
<1>10. CASE Challenge(k)
  <2> DEFINE d == Datagram("challenge", nonces + 1)
  <2>1. /\ o.kind = "connect" /\ tokens' = tokens - Interval /\ down' = Append(down, d)
        /\ pending' = [nonce |-> nonces + 1, age |-> 0] /\ session' = session
    BY <1>10 DEF Challenge, Left, o
  <2>2. nonces \in Nat
    BY DEF OpeningTypes
  <2>3. d.kind = "challenge" /\ d.n = nonces + 1 /\ d \in Challenges
    BY <2>2 DEF Datagram, Challenges
  <2> HIDE DEF d
  <2>4. Count(down', Challenges) = 1 /\ d \in Seen(down')
    BY <1>0, <1>3, <2>1, <2>3, CountWithOne, SeenWithOne
  <2>5. Under' = 1
    BY <1>6, <2>4 DEF Under
  <2>6. Claimed'
    <3>1. pending'.nonce = nonces + 1 /\ nonces + 1 # 0 /\ pending'.age <= Spent'
      BY <1>7, <2>1, <2>2
    <3> QED
      BY <2>3, <2>4, <3>1 DEF Claimed, Seen
  <2>7. ~Asked'
    BY <1>6 DEF Asked, Seen
  <2>8. tokens' + net'.max + Interval >= Full + Spent'
    <3>1. Asked
      BY <1>2, <2>1 DEF Asked
    <3>2. tokens + net.max >= Full + Spent
      BY <3>1 DEF Asking
    <3> QED
      BY <1>0, <1>4, <1>7, <2>1, <3>2
  <2>9. waited' + due' <= (faults' + Under') * Interval
    BY <1>4, <1>9, <2>5
  <2>10. Asking'
    BY <2>5, <2>6, <2>7, <2>8, <2>9 DEF Asking
  <2> QED
    BY <2>1, <2>10
<1>11. CASE Admit(k)
  <2> DEFINE d == Datagram("accept", Len(opened) + 1)
  <2>1. o.kind = "confirm"
    BY <1>11 DEF Admit, o
  <2>2. ~(Slot >= net.slots)
    <3>1. net.slots \in Nat /\ net.slots > 0 /\ Slot = 0
      BY DEF Spared, Slot, OpeningTypes, SettingType
    <3> QED
      BY <3>1
  <2>3. resends' = 0 /\ since' = 0 /\ down' = Append(down, d) /\ session' = Len(opened) + 1
    BY <1>11, <2>2 DEF Admit
  <2>4. d.kind = "accept" /\ d.age = 0
    BY DEF Datagram
  <2> HIDE DEF d
  <2>5. d \in Seen(down')
    BY <1>0, <2>3, SeenWithOne
  <2>6. waited <= faults * Interval + 3 * net.max
    <3>1. o.age \in Nat /\ o.age <= net.max
      BY <1>2, UnderWay
    <3>2. Interval - due <= o.age + 2 * net.max
      BY <1>2, <2>1 DEF Recent, Young, Reached
    <3>3. (faults + 1) * Interval = faults * Interval + Interval /\ faults * Interval \in Nat
      BY <1>0, Products
    <3>4. \A w, u, i, x, f, a \in Nat :
              w + u <= f + i /\ i - u <= a + 2 * x /\ a <= x => w <= f + 3 * x
      OBVIOUS
    <3>5. waited + due <= faults * Interval + Interval
      BY <1>9, <3>3
    <3>6. waited \in Nat /\ due \in Nat /\ Interval \in Nat /\ net.max \in Nat
      BY <1>0
    <3> QED
      BY <3>1, <3>2, <3>3, <3>4, <3>5, <3>6
  <2>7. waited' <= faults' * Interval + 3 * net'.max + d.age
    BY <1>0, <1>4, <2>4, <2>6
  <2>8. Answered'
    <3>1. d.age = since' /\ resends' <= faults'
      BY <1>0, <1>4, <2>3, <2>4
    <3> QED
      BY <2>4, <2>5, <2>7, <3>1 DEF Answered, Seen
  <2>9. session' # 0
    <3>1. opened \in Seq((1..nonces))
      BY DEF OpeningTypes
    <3>2. Len(opened) \in Nat
      BY <3>1
    <3> QED
      BY <2>3, <3>2
  <2> QED
    BY <2>8, <2>9
<1>12. ~Limited
  BY <1>0, <1>8 DEF Limited
<1>13. ~IgnoreConfirm(k)
  BY <1>3 DEF IgnoreConfirm, Matches, o
<1> QED
  BY <1>1, <1>10, <1>11, <1>12, <1>13

-----------------------------------------------------------------------------
LEMMA AnsweredTick ==
    ASSUME OpeningTypes, Spared, Untold, Answered, session # 0, trying, Tick
    PROVE  Answered' /\ session' = session
<1>0. /\ net' = net /\ net.max \in Nat /\ Interval \in Nat \ {0} /\ waited \in Nat /\ faults \in Nat
      /\ resends \in Nat /\ since \in Nat /\ down \in Seq(Downward) /\ MaxResends \in Nat
      /\ faults <= MaxResends /\ resends <= MaxResends /\ faults * Interval \in Nat
  <2>1. net' = net
    BY DEF Tick
  <2>2. /\ net.max \in Nat /\ Interval \in Nat \ {0} /\ waited \in Nat /\ faults \in Nat
        /\ resends \in Nat /\ since \in 0..Interval /\ down \in Seq(Downward) /\ MaxResends \in Nat
        /\ faults <= net.faults /\ net.faults <= MaxResends /\ net.faults \in Nat /\ resends <= MaxResends
    BY SparedTypes
  <2>3. faults <= MaxResends /\ since \in Nat
    BY <2>2
  <2>4. faults * Interval \in Nat
    BY <2>2, Products
  <2> QED
    BY <2>1, <2>2, <2>3, <2>4
<1>1. /\ down' = Older(down) /\ waited' = waited + 1
      /\ UNCHANGED <<net, session, resends, faults>>
      /\ since' = IF resends < MaxResends THEN since + 1 ELSE since
  BY DEF Tick, ResendOn, Untold
<1> DEFINE F == faults * Interval + 3 * net.max
<1>2. F \in Nat /\ F' = F
  BY <1>0, <1>1
<1> HIDE DEF F
<1>3. ASSUME resends <= faults, NEW o \in Seen(down), o.kind = "accept",
             o.age = since \/ resends = MaxResends, waited <= F + o.age
      PROVE  Answered'
  <2>1. PICK m \in Seen(down') : m.kind = o.kind /\ m.age = o.age + 1
    BY <1>0, <1>1, AgedWay
  <2>2. m.age = since' \/ resends' = MaxResends
    BY <1>0, <1>1, <1>3, <2>1
  <2>3. o.age \in Nat
    BY UnderWay
  <2>4. waited' <= F' + m.age
    BY <1>0, <1>1, <1>2, <1>3, <2>1, <2>3
  <2>5. resends' <= faults' /\ m.kind = "accept"
    BY <1>1, <1>3, <2>1
  <2> QED
    BY <2>1, <2>2, <2>4, <2>5 DEF Answered, Seen, F
<1>4. ASSUME resends < faults, waited + Interval <= F + since
      PROVE  Answered'
  <2>1. since' = since + 1
    BY <1>0, <1>1, <1>4
  <2>2. waited' + Interval <= F' + since' /\ resends' < faults'
    BY <1>0, <1>1, <1>2, <1>4, <2>1
  <2> QED
    BY <2>2 DEF Answered, F
<1> QED
  BY <1>1, <1>3, <1>4 DEF Answered, F

LEMMA AnsweredFault ==
    ASSUME OpeningTypes, Spared, Answered, session # 0, Fault
    PROVE  Answered' /\ session' = session
<1>0. /\ net.max \in Nat /\ Interval \in Nat \ {0} /\ waited \in Nat /\ faults \in Nat
      /\ resends \in Nat /\ since \in Nat /\ net.faults \in Nat /\ MaxResends \in Nat
      /\ net.faults <= MaxResends
  BY SparedTypes
<1>1. UNCHANGED <<net, waited, session, resends, since>> /\ faults' = faults + 1 /\ faults < net.faults
  BY DEF Fault, client, server
<1>2. (faults + 1) * Interval = faults * Interval + Interval /\ faults * Interval \in Nat
  BY <1>0, Products
<1>3. resends < faults + 1 /\ waited <= faults * Interval + 3 * net.max + since
  <2>1. CASE resends < faults /\ waited + Interval <= faults * Interval + 3 * net.max + since
    BY <1>0, <1>2, <2>1
  <2>2. ASSUME resends <= faults, NEW m \in Seen(down), m.age = since \/ resends = MaxResends,
               waited <= faults * Interval + 3 * net.max + m.age
        PROVE  resends < faults + 1 /\ waited <= faults * Interval + 3 * net.max + since
    <3>1. m.age = since
      BY <1>0, <1>1, <2>2
    <3> QED
      BY <1>0, <2>2, <3>1
  <2> QED
    BY <2>1, <2>2 DEF Answered
<1>4. resends' < faults' /\ waited' + Interval <= faults' * Interval + 3 * net'.max + since'
  <2>1. waited + Interval <= (faults + 1) * Interval + 3 * net.max + since
    BY <1>0, <1>2, <1>3
  <2> QED
    BY <1>1, <1>3, <2>1
<1> QED
  BY <1>1, <1>4 DEF Answered

(* Nothing but a tick or a fault disturbs the Accept under way.            *)
LEMMA AnsweredKept ==
    ASSUME Answered, UNCHANGED <<net, waited, resends, since, faults>>,
           \A m \in Seen(down) : m.kind = "accept" => m \in Seen(down')
    PROVE  Answered'
<1>1. CASE resends < faults /\ waited + Interval <= faults * Interval + 3 * net.max + since
  BY <1>1 DEF Answered
<1>2. ASSUME resends <= faults, NEW m \in Seen(down), m.kind = "accept",
             m.age = since \/ resends = MaxResends,
             waited <= faults * Interval + 3 * net.max + m.age
      PROVE  Answered'
  <2>1. m \in Seen(down')
    BY <1>2
  <2>2. /\ resends' <= faults' /\ (m.age = since' \/ resends' = MaxResends)
        /\ waited' <= faults' * Interval + 3 * net'.max + m.age
    BY <1>2
  <2> QED
    BY <1>2, <2>1, <2>2 DEF Answered, Seen
<1> QED
  BY <1>1, <1>2 DEF Answered

(* A new Accept takes the place of the one that was under way.             *)
LEMMA AnsweredAnew ==
    ASSUME Spared, OpeningTypes, NEW d, d.kind = "accept", d.age = 0, down' = Append(down, d),
           resends' \in Nat, resends' <= faults, since' = 0, UNCHANGED <<net, waited, faults>>,
           waited <= faults * Interval + 3 * net.max
    PROVE  Answered'
<1>1. d \in Seen(down')
  BY SparedTypes, SeenWithOne
<1>2. net.max \in Nat /\ Interval \in Nat /\ faults \in Nat /\ waited \in Nat
  BY SparedTypes
<1>3. waited <= faults * Interval + 3 * net.max + d.age
  BY <1>2
<1>4. waited' <= faults' * Interval + 3 * net'.max + d.age /\ resends' <= faults' /\ d.age = since'
  BY <1>3
<1> QED
  BY <1>1, <1>4 DEF Answered, Seen

LEMMA AnsweredServer ==
    ASSUME OpeningTypes, Spared, Timely, Recent, Answered, session # 0, ServerReceive
    PROVE  Answered' /\ session' # 0
<1>0. /\ net.max \in Nat /\ Interval \in Nat \ {0} /\ waited \in Nat /\ faults \in Nat
      /\ due \in 0..Interval /\ up \in Seq(Upward) /\ down \in Seq(Downward)
  BY SparedTypes
<1>1. PICK k \in Ready(up) :
          /\ Limited \/ Challenge(k) \/ Admit(k) \/ IgnoreConfirm(k)
          /\ UNCHANGED <<net, client, acks, faults, starts>>
  BY DEF ServerReceive
<1>2. k \in DOMAIN up /\ up[k] \in Seen(up)
  BY DEF Ready, Seen
<1>3. UNCHANGED <<net, waited, faults>>
  BY <1>1 DEF client
<1>4. CASE UNCHANGED <<session, resends, since>> /\ (down' = down \/ \E d : down' = Append(down, d))
  <2>1. Seen(down) \subseteq Seen(down')
    BY <1>0, <1>4, SeenWithOne
  <2> QED
    BY <1>3, <1>4, <2>1, AnsweredKept
<1>5. CASE Admit(k) /\ ~(Slot >= net.slots)
  <2> DEFINE d == Datagram("accept", Len(opened) + 1)
  <2>1. /\ up[k].kind = "confirm" /\ resends' = 0 /\ since' = 0 /\ down' = Append(down, d)
        /\ session' = Len(opened) + 1
    BY <1>5 DEF Admit
  <2>2. d.kind = "accept" /\ d.age = 0
    BY DEF Datagram
  <2> HIDE DEF d
  <2>3. Interval - due <= 3 * net.max
    <3>1. up[k].age \in Nat /\ up[k].age <= net.max
      BY <1>2, UnderWay
    <3>2. Interval - due <= up[k].age + 2 * net.max
      BY <1>2, <2>1 DEF Recent, Young, Reached
    <3> QED
      BY <1>0, <3>1, <3>2
  <2>4. waited <= faults * Interval + 3 * net.max
    <3>1. PICK j \in Nat : waited + due = j * Interval
      BY DEF Timely
    <3>2. waited < (faults + 1) * Interval
      BY AnsweredEarly
    <3>3. /\ (faults + 1) * Interval = faults * Interval + Interval
          /\ (faults + 2) * Interval = faults * Interval + 2 * Interval
          /\ faults * Interval \in Nat
      BY <1>0, Products
    <3>4. j * Interval < (faults + 2) * Interval
      BY <1>0, <3>1, <3>2, <3>3
    <3>5. faults + 1 \in Nat /\ (faults + 1) + 1 = faults + 2
      BY <1>0
    <3>6. j <= faults + 1
      BY <1>0, <3>4, <3>5, Rounds
    <3>7. j * Interval <= (faults + 1) * Interval /\ j * Interval \in Nat
      BY <1>0, <3>5, <3>6, Products
    <3>8. /\ waited \in Nat /\ due \in Nat /\ Interval \in Nat /\ net.max \in Nat
          /\ waited + due <= faults * Interval + Interval
      BY <1>0, <3>1, <3>3, <3>7
    <3>9. \A w, u, i, x, f \in Nat : w + u <= f + i /\ i - u <= 3 * x => w <= f + 3 * x
      OBVIOUS
    <3> QED
      BY <2>3, <3>3, <3>8, <3>9
  <2>5. Answered'
    BY <1>0, <1>3, <2>1, <2>2, <2>4, AnsweredAnew
  <2>6. opened \in Seq((1..nonces))
    BY DEF OpeningTypes
  <2>7. Len(opened) \in Nat
    BY <2>6
  <2> QED
    BY <2>1, <2>5, <2>7
<1>6. CASE Limited \/ IgnoreConfirm(k)
  BY <1>4, <1>6 DEF Limited, IgnoreConfirm, server
<1>7. CASE Challenge(k) \/ (Admit(k) /\ Slot >= net.slots)
  BY <1>4, <1>7 DEF Challenge, Admit
<1> QED
  BY <1>1, <1>5, <1>6, <1>7

LEMMA AnsweredResend ==
    ASSUME OpeningTypes, Spared, Answered, session # 0, ResendAccept
    PROVE  Answered' /\ session' = session
<1>0. /\ net.max \in Nat /\ Interval \in Nat \ {0} /\ waited \in Nat /\ faults \in Nat
      /\ resends \in Nat /\ MaxResends \in Nat /\ 4 * net.max < Interval
  BY SparedTypes
<1>1. PICK i : down' = Append(down, Datagram("accept", i))
  BY DEF ResendAccept
<1>2. /\ since = Interval /\ resends < MaxResends /\ resends' = resends + 1 /\ since' = 0
      /\ UNCHANGED <<net, waited, faults, session>>
  BY DEF ResendAccept, ResendOn, client
<1>3. \A m \in Seen(down) : m.age # since
  BY <1>0, <1>2, UnderWay
<1>4. resends < faults /\ waited + Interval <= faults * Interval + 3 * net.max + since
  BY <1>0, <1>2, <1>3 DEF Answered
<1>5. waited <= faults * Interval + 3 * net.max
  BY <1>0, <1>2, <1>4, Products
<1> DEFINE d == Datagram("accept", i)
<1>6. d.kind = "accept" /\ d.age = 0
  BY DEF Datagram
<1> HIDE DEF d
<1> QED
  BY <1>0, <1>1, <1>2, <1>4, <1>5, <1>6, AnsweredAnew DEF d

-----------------------------------------------------------------------------
LEMMA PersistingInit == OpeningInit => Persisting
<1> SUFFICES ASSUME OpeningInit, Spared
             PROVE  Timely /\ Recent /\ Untold /\ (session = 0 => Asking) /\ session = 0 /\ failed # "timeout"
  BY DEF Persisting
<1>1. /\ waited = 0 /\ due = 0 /\ tokens = Full /\ faults = 0 /\ session = 0 /\ failed = "no"
      /\ Seen(up) = {} /\ Seen(down) = {} /\ Len(up) = 0
  BY DEF OpeningInit, Seen
<1>2. Interval \in Nat /\ Full \in Nat /\ net.max \in Nat
  BY FullNat, HandshakeAssumption DEF OpeningInit, SettingType
<1>3. Under = 0
  <2>1. Places(down, Challenges) = {}
    BY DEF OpeningInit, Places
  <2>2. Count(down, Challenges) = 0
    BY <2>1, FS_EmptySet DEF Count
  <2> QED
    BY <1>1, <2>2 DEF Under
<1>4. waited + due = 0 * Interval /\ waited + due <= (faults + Under) * Interval
  BY <1>1, <1>2, <1>3
<1>5. Timely /\ Recent
  BY <1>1, <1>4 DEF Timely, Recent
<1>6. tokens + net.max + Interval >= Full + Spent /\ ~Asked
  BY <1>1, <1>2 DEF Spent, Asked
<1>7. Untold
  BY DEF OpeningInit, Untold
<1> QED
  BY <1>1, <1>3, <1>4, <1>5, <1>6, <1>7 DEF Asking

LEMMA PersistingStep ==
    ASSUME Burst >= 3, Interval <= TTL, OpeningTypes, Persisting, [OpeningNext]_openingVars
    PROVE  Persisting'
<1> SUFFICES ASSUME Spared PROVE Persisting'
  BY SparedStays DEF Persisting
<1>1. failed # "timeout" /\ ~Restart
  BY SparedTypes DEF Persisting, Restart, OpeningTypes, Spared
<1>2. CASE ~trying
  <2>1. ~Retry
    BY <1>2 DEF Retry
  <2>2. CASE UNCHANGED <<trying, failed>>
    BY <1>1, <1>2, <2>2 DEF Persisting
  <2>3. CASE ClientReceive
    <3>1. ~trying' /\ failed' \in {failed, "refused"}
      BY <1>2, <2>3 DEF ClientReceive, Answer, TakeAccept, TakeReject, client
    <3> QED
      BY <1>1, <3>1 DEF Persisting
  <2>4. CASE Tick \/ Fault \/ ServerReceive \/ ResendAccept \/ TakeAck \/ UNCHANGED openingVars
    BY <2>2, <2>4 DEF Tick, Fault, ServerReceive, ResendAccept, TakeAck, openingVars, client
  <2> QED
    BY <1>1, <2>1, <2>3, <2>4 DEF OpeningNext
<1>3. CASE trying
  <2>0. Timely /\ Recent /\ Untold /\ (session = 0 => Asking) /\ (session # 0 => Answered)
    BY <1>3 DEF Persisting
  <2>1. failed' # "timeout"
    <3>1. CASE Retry
      <4>1. due = 0 /\ (waited > Timeout \/ failed' = failed)
        BY <3>1 DEF Retry
      <4>2. waited <= Timeout /\ waited \in Nat /\ Timeout \in Nat
        BY <2>0, <4>1, WakesInTime, SparedTypes
      <4> QED
        BY <1>1, <4>1, <4>2
    <3>2. CASE ClientReceive
      <4>1. failed' \in {failed, "refused"}
        BY <3>2 DEF ClientReceive, Answer, TakeAccept, TakeReject, client
      <4> QED
        BY <1>1, <4>1
    <3>3. CASE Tick \/ Fault \/ ServerReceive \/ ResendAccept \/ TakeAck \/ UNCHANGED openingVars
      BY <1>1, <3>3 DEF Tick, Fault, ServerReceive, ResendAccept, TakeAck, openingVars, client
    <3> QED
      BY <1>1, <3>1, <3>2, <3>3 DEF OpeningNext
  <2>2. ASSUME trying' PROVE Timely' /\ Recent' /\ Untold'
    BY <1>3, <2>0, <2>2, TimelyStep, RecentStep, UntoldStep
  <2>3. ASSUME trying', session = 0
        PROVE  IF session' = 0 THEN Asking' ELSE Answered'
    <3>1. CASE Tick
      BY <1>3, <2>0, <2>3, <3>1, AskingTick
    <3>2. CASE Fault
      BY <2>0, <2>3, <3>2, AskingFault
    <3>3. CASE Retry
      BY <2>0, <2>3, <3>3, AskingRetry
    <3>4. CASE ClientReceive
      BY <2>0, <2>3, <3>4, AskingClient
    <3>5. CASE ServerReceive
      BY <2>0, <2>3, <3>5, AskingServer
    <3>6. ~ResendAccept
      BY <2>3 DEF ResendAccept, ResendOn
    <3>7. ~TakeAck
      BY <2>3 DEF TakeAck
    <3>8. CASE UNCHANGED openingVars
      <4>1. Asking' <=> Asking
        BY <3>8 DEF openingVars, client, server, Asking, Asked, Claimed, Spent, Under, Count, Places, Seen
      <4>2. session' = session
        BY <3>8 DEF openingVars, server
      <4> QED
        BY <2>0, <2>3, <4>1, <4>2
    <3> QED
      BY <1>1, <3>1, <3>2, <3>3, <3>4, <3>5, <3>6, <3>7, <3>8 DEF OpeningNext
  <2>4. ASSUME trying', session # 0
        PROVE  Answered' /\ session' # 0
    <3>1. CASE Tick
      BY <1>3, <2>0, <2>4, <3>1, AnsweredTick
    <3>2. CASE Fault
      BY <2>0, <2>4, <3>2, AnsweredFault
    <3>3. CASE ServerReceive
      BY <2>0, <2>4, <3>3, AnsweredServer
    <3>4. CASE ResendAccept
      BY <2>0, <2>4, <3>4, AnsweredResend
    <3>5. CASE Retry \/ UNCHANGED openingVars
      <4>1. UNCHANGED <<net, waited, resends, since, faults, session, down>>
        BY <3>5 DEF Retry, openingVars, client, server
      <4> QED
        BY <2>0, <2>4, <4>1, AnsweredKept
    <3>6. CASE ClientReceive
      <4>1. PICK k \in Ready(down) :
                /\ down' = RemoveAt(down, k)
                /\ Answer(k) \/ TakeAccept(k) \/ TakeReject(k)
                /\ UNCHANGED <<net, server, faults, starts, opened>>
        BY <3>6 DEF ClientReceive
      <4>2. k \in DOMAIN down /\ down[k].kind = "challenge"
            /\ UNCHANGED <<net, waited, resends, since, faults, session>>
        BY <2>4, <4>1 DEF Answer, TakeAccept, TakeReject, client, server, Ready
      <4>3. Seen(down) \subseteq Seen(down') \cup {down[k]}
        BY <4>1, <4>2, SparedTypes, SeenWithoutOne
      <4>4. \A m \in Seen(down) : m.kind = "accept" => m \in Seen(down')
        BY <4>2, <4>3
      <4> QED
        BY <2>0, <2>4, <4>2, <4>4, AnsweredKept
    <3>7. ~TakeAck
      BY <2>0 DEF TakeAck, SessionGate, Untold
    <3> QED
      BY <1>1, <3>1, <3>2, <3>3, <3>4, <3>5, <3>6, <3>7 DEF OpeningNext
  <2> QED
    BY <2>1, <2>2, <2>3, <2>4 DEF Persisting
<1> QED
  BY <1>2, <1>3

(* A client alone on its address has its session before it gives up, when  *)
(* no more is lost than the retries make up for; and where others leave a  *)
(* second slot no client is refused (client.rs send_connect_request,       *)
(* server.rs check_connect_rate and admit_connection).                     *)
THEOREM ClientsGetIn ==
    ASSUME Burst >= 3, Interval <= TTL
    PROVE  OpeningSpec => []GetsIn
<1>1. Persisting /\ OpeningTypes /\ [OpeningNext]_openingVars => Persisting'
  BY PersistingStep
<1>2. OpeningInv => OpeningTypes
  BY DEF OpeningInv
<1>3. Persisting => ConnectsInTime
  BY DEF Persisting, ConnectsInTime
<1> QED
  BY <1>1, <1>2, <1>3, PersistingInit, OpeningInvAlways, LeftoverRefusesNobody, PTL DEF OpeningSpec, GetsIn
=============================================================================
