-------------------------- MODULE ControlDoorProofs --------------------------
(***************************************************************************)
(* The safety properties of ControlDoor for any number of operators,       *)
(* players, delays, thresholds, orders and lives of the process.  Each     *)
(* property is inductive beside the types of the state it speaks of.       *)
(***************************************************************************)
EXTENDS ControlDoor, TLAPS

Orders == Requests \cup [do : {"none"}] \cup [do : {"reload"}, rules : {0, 1}]
Places == {"free", "mutate", "save", "write", "read", "send", "journal"}

(* What the properties need of the types.                                  *)
Typed ==
    /\ door \in [Doors -> [at : Places, order : Orders]]
    /\ disk \in {0, 1}
    /\ stopping \in [delay : Nat, left : Nat, fired : SUBSET Thresholds, on : BOOLEAN]
    /\ queue \in Seq(Orders)
    /\ file.whole => file = Whole(file.list)

(* Where a task stands after its step.                                     *)
LEMMA DoorMoves ==
    ASSUME Typed, NEW d \in Doors, NEW place \in Places
    PROVE  /\ Moves(d, place) => /\ door' \in [Doors -> [at : Places, order : Orders]]
                                 /\ door'[d].at = place
                                 /\ \A e \in Doors \ {d} : door'[e] = door[e]
           /\ Answers(d) => /\ door' \in [Doors -> [at : Places, order : Orders]]
                            /\ door'[d].at = "free"
                            /\ \A e \in Doors \ {d} : door'[e] = door[e]
<1>1. ASSUME Moves(d, place)
      PROVE  /\ door' \in [Doors -> [at : Places, order : Orders]]
             /\ door'[d].at = place
             /\ \A e \in Doors \ {d} : door'[e] = door[e]
  BY <1>1 DEF Typed, Moves
<1>2. Free \in [at : Places, order : Orders] /\ Free.at = "free"
  BY DEF Free, Places, Orders
<1>3. ASSUME Answers(d)
      PROVE  /\ door' \in [Doors -> [at : Places, order : Orders]]
             /\ door'[d].at = "free"
             /\ \A e \in Doors \ {d} : door'[e] = door[e]
  BY <1>2, <1>3 DEF Typed, Answers
<1> QED BY <1>1, <1>3

(* The step of a task keeps the types.                                     *)
LEMMA DoorTyped ==
    ASSUME Typed, NEW d \in Doors, Door(d)
    PROVE  Typed'
<1> USE DEF Typed
<1>1. CASE MutateList(d)
  BY <1>1, DoorMoves DEF MutateList, loop, Places
<1>2. CASE BeginSave(d)
  <2>1. ~Torn.whole
    BY DEF Torn
  <2>2. door' \in [Doors -> [at : Places, order : Orders]]
    BY <1>2, DoorMoves DEF BeginSave, SaveFails, Places
  <2> QED BY <1>2, <2>1, <2>2 DEF BeginSave, SaveFails, loop
<1>3. CASE EndSave(d)
  <2>1. Whole(Whole(bans).list) = Whole(bans)
    BY DEF Whole
  <2>2. door' \in [Doors -> [at : Places, order : Orders]]
    BY <1>3, DoorMoves DEF EndSave, SaveFails, Places
  <2> QED BY <1>3, <2>1, <2>2 DEF EndSave, SaveFails, Written, loop
<1>4. CASE ReadConfig(d)
  <2>1. [at |-> "send", order |-> [do |-> "reload", rules |-> disk]] \in [at : Places, order : Orders]
    BY DEF Places, Orders
  <2>2. door' \in [Doors -> [at : Places, order : Orders]]
    BY <1>4, <2>1, DoorMoves DEF ReadConfig, Places
  <2> QED BY <1>4, <2>2 DEF ReadConfig, loop, list
<1>5. CASE SendOrder(d)
  <2>1. door[d].order \in Orders
    OBVIOUS
  <2>2. door' \in [Doors -> [at : Places, order : Orders]]
    BY <1>5, DoorMoves DEF SendOrder, Places
  <2>3. queue' \in Seq(Orders)
    BY <1>5, <2>1 DEF SendOrder
  <2> QED BY <1>5, <2>2, <2>3 DEF SendOrder, loop, list
<1>6. CASE Journal(d)
  BY <1>6, DoorMoves DEF Journal, loop, list, Places
<1> QED BY <1>1, <1>2, <1>3, <1>4, <1>5, <1>6 DEF Door

LEMMA InitTyped == Init => Typed
<1>1. Free \in [at : Places, order : Orders]
  BY DEF Free, Places, Orders
<1>2. Never \in [delay : Nat, left : Nat, fired : SUBSET Thresholds, on : BOOLEAN]
  BY DEF Never
<1>3. Whole({}) = Whole(Whole({}).list)
  BY DEF Whole
<1> QED BY <1>1, <1>2, <1>3 DEF Init, Typed

LEMMA NextTyped == Typed /\ [Next]_vars => Typed'
<1> SUFFICES ASSUME Typed, [Next]_vars PROVE Typed'
  OBVIOUS
<1> USE DEF Typed
<1>1. ASSUME NEW d \in Doors, Door(d) PROVE Typed'
  BY <1>1, DoorTyped
<1>2. ASSUME NEW d \in Doors, NEW request \in Requests, Ask(d, request) PROVE Typed'
  <2>1. [at |-> FirstStep(request), order |-> request] \in [at : Places, order : Orders]
    BY DEF FirstStep, Places, Orders
  <2> QED BY <1>2, <2>1 DEF Ask, loop, list
<1>3. CASE TakeOrder
  <2>1. Head(queue) \in Orders /\ queue' \in Seq(Orders)
    BY <1>3 DEF TakeOrder
  <2>2. stopping' \in [delay : Nat, left : Nat, fired : SUBSET Thresholds, on : BOOLEAN]
    <3>1. CASE stopping.on
      BY <1>3, <3>1 DEF TakeOrder
    <3>2. CASE ~stopping.on /\ Head(queue).do = "stop"
      <4>1. Head(queue).delay \in Nat
        BY <2>1, <3>2, DoorAssumption DEF Orders, Requests, Stops, Bans, Kicks
      <4>2. Obey(Head(queue))
        BY <1>3, <3>2 DEF TakeOrder
      <4>3. \/ stopping' = stopping
            \/ stopping' = [delay |-> Head(queue).delay, left |-> Head(queue).delay, fired |-> {}, on |-> TRUE]
        BY <3>2, <4>2 DEF Obey
      <4>4. ASSUME NEW n \in Nat
            PROVE  [delay |-> n, left |-> n, fired |-> {}, on |-> TRUE]
                      \in [delay : Nat, left : Nat, fired : SUBSET Thresholds, on : BOOLEAN]
        OBVIOUS
      <4> QED BY <4>1, <4>3, <4>4
    <3>3. CASE ~stopping.on /\ Head(queue).do # "stop"
      BY <1>3, <3>3 DEF TakeOrder, Obey
    <3> QED BY <3>1, <3>2, <3>3
  <2> QED BY <1>3, <2>1, <2>2 DEF TakeOrder, list
<1>4. CASE Iterate
  BY <1>4 DEF Iterate, Crossed, list
<1>5. CASE ShutdownSignal
  BY <1>5 DEF ShutdownSignal, list
<1>6. CASE Second
  BY <1>6 DEF Second, list
<1>7. CASE EditConfig
  BY <1>7 DEF EditConfig, loop, list
<1>8. CASE Restart
  <2>1. Free \in [at : Places, order : Orders]
    BY DEF Free, Places, Orders
  <2>2. Never \in [delay : Nat, left : Nat, fired : SUBSET Thresholds, on : BOOLEAN]
    BY DEF Never
  <2> QED BY <1>8, <2>1, <2>2 DEF Restart
<1>9. CASE MainReturns
  BY <1>9 DEF MainReturns, list
<1>10. CASE UNCHANGED vars
  BY <1>10 DEF vars, loop, list
<1> QED BY <1>1, <1>2, <1>3, <1>4, <1>5, <1>6, <1>7, <1>8, <1>9, <1>10 DEF Next

-----------------------------------------------------------------------------
(* A step of a task either leaves it saving, or refused, or leaves the     *)
(* file alone and the list too, or has just written it.                    *)
LEMMA DoorKeepsFile ==
    ASSUME Typed, FileHoldsTheList, NEW d \in Doors, Door(d)
    PROVE  FileHoldsTheList'
<1>1. life' = life
  BY DEF Door, MutateList, BeginSave, EndSave, ReadConfig, SendOrder, Journal, loop
<1>2. CASE MutateList(d)
  <2>1. CASE Moves(d, "save")
    <3>1. door'[d].at = "save"
      BY <2>1, DoorMoves DEF Places
    <3> QED BY <3>1 DEF FileHoldsTheList, Saving
  <2>2. CASE Answers(d) /\ door[d].order.target \notin bans /\ bans' = bans \ {door[d].order.target}
    <3>1. bans' = bans /\ file' = file /\ failed' = failed /\ door[d].at = "mutate"
      BY <1>2, <2>2 DEF MutateList, At
    <3>2. Saving' <=> Saving
      BY <2>2, <3>1, DoorMoves DEF Saving, Places
    <3> QED BY <1>1, <3>1, <3>2 DEF FileHoldsTheList
  <2> QED BY <1>2, <2>1, <2>2 DEF MutateList
<1>3. CASE BeginSave(d)
  <2>1. CASE Moves(d, "write")
    <3>1. door'[d].at = "write"
      BY <2>1, DoorMoves DEF Places
    <3> QED BY <3>1 DEF FileHoldsTheList, Saving
  <2>2. CASE SaveFails(d)
    BY <2>2 DEF SaveFails, FileHoldsTheList
  <2> QED BY <1>3, <2>1, <2>2 DEF BeginSave
<1>4. CASE EndSave(d)
  BY <1>4 DEF EndSave, SaveFails, FileHoldsTheList, Written
<1>5. CASE ReadConfig(d) \/ SendOrder(d) \/ Journal(d)
  <2>1. bans' = bans /\ file' = file /\ failed' = failed
    BY <1>5 DEF ReadConfig, SendOrder, Journal, list
  <2>2. door[d].at \in {"read", "send", "journal"}
    BY <1>5 DEF ReadConfig, SendOrder, Journal, At
  <2>3. door'[d].at \in {"free", "send", "journal"} /\ \A e \in Doors \ {d} : door'[e] = door[e]
    <3>1. CASE ReadConfig(d)
      BY <3>1, DoorMoves DEF ReadConfig, Typed, Places
    <3>2. CASE SendOrder(d) \/ Journal(d)
      BY <3>2, DoorMoves DEF SendOrder, Journal, Places
    <3> QED BY <1>5, <3>1, <3>2
  <2>4. Saving' <=> Saving
    BY <2>2, <2>3 DEF Saving
  <2> QED BY <1>1, <2>1, <2>4 DEF FileHoldsTheList
<1> QED BY <1>2, <1>3, <1>4, <1>5 DEF Door

LEMMA NextFile == Typed /\ FileHoldsTheList /\ [Next]_vars => FileHoldsTheList'
<1> SUFFICES ASSUME Typed, FileHoldsTheList, [Next]_vars PROVE FileHoldsTheList'
  OBVIOUS
<1>1. ASSUME NEW d \in Doors, Door(d) PROVE FileHoldsTheList'
  BY <1>1, DoorKeepsFile
<1>2. ASSUME NEW d \in Doors, NEW request \in Requests, Ask(d, request) PROVE FileHoldsTheList'
  <2>1. FirstStep(request) \notin {"save", "write"}
    BY DEF FirstStep
  <2>2. Saving' <=> Saving
    BY <1>2, <2>1 DEF Ask, At, Saving, Typed
  <2> QED BY <1>2, <2>2 DEF Ask, FileHoldsTheList, loop, list
<1>3. CASE TakeOrder
  BY <1>3 DEF TakeOrder, FileHoldsTheList, Saving, list
<1>4. CASE Iterate \/ ShutdownSignal \/ MainReturns
  <2>1. life # "unreadable"
    BY <1>4 DEF Iterate, ShutdownSignal, MainReturns, Up, LoopEnded, Endings
  <2> QED BY <1>4, <2>1 DEF Iterate, ShutdownSignal, MainReturns, FileHoldsTheList, Saving, list
<1>5. CASE Second
  BY <1>5 DEF Second, FileHoldsTheList, Saving, list
<1>6. CASE EditConfig
  BY <1>6 DEF EditConfig, FileHoldsTheList, Saving, loop, list
<1>7. CASE Restart
  BY <1>7 DEF Restart, FileHoldsTheList, Typed
<1>8. CASE UNCHANGED vars
  BY <1>8 DEF vars, FileHoldsTheList, Saving, loop, list
<1> QED BY <1>1, <1>2, <1>3, <1>4, <1>5, <1>6, <1>7, <1>8 DEF Next

(* However many operators change the list at once, the file holds it when  *)
(* nobody is saving and the last save did not fail.                        *)
THEOREM FileHolds == Spec => []FileHoldsTheList
<1>1. Init => FileHoldsTheList
  BY DEF Init, FileHoldsTheList
<1> QED BY <1>1, InitTyped, NextTyped, NextFile, PTL DEF Spec

-----------------------------------------------------------------------------
LEMMA NextWarned == Typed /\ WarnedBeforeTheEnd /\ [Next]_vars => WarnedBeforeTheEnd'
<1> SUFFICES ASSUME Typed, WarnedBeforeTheEnd, [Next]_vars, life' = "deadline"
             PROVE  {t \in Thresholds : t <= stopping'.delay} \subseteq stopping'.fired
  BY DEF WarnedBeforeTheEnd
<1>1. CASE Iterate
  <2>1. stopping.on /\ ~atOnce /\ stopping.left = 0
    BY <1>1 DEF Iterate, Ends, Up
  <2>2. stopping' = [stopping EXCEPT !.fired = @ \cup Crossed]
    BY <1>1, <2>1 DEF Iterate
  <2>3. stopping'.delay = stopping.delay /\ stopping'.fired = stopping.fired \cup Crossed
    BY <2>2 DEF Typed
  <2>4. {t \in Thresholds : t <= stopping.delay} \subseteq Crossed
    <3>1. ASSUME NEW t \in Thresholds PROVE stopping.left <= t
      BY <2>1, DoorAssumption
    <3> QED BY <3>1 DEF Crossed
  <2> QED BY <2>3, <2>4
<1>2. CASE UNCHANGED <<life, stopping>>
  BY <1>2 DEF WarnedBeforeTheEnd
<1>3. \/ Iterate
      \/ UNCHANGED <<life, stopping>>
      \/ life' # "deadline"
  <2>1. ASSUME NEW d \in Doors, Door(d) PROVE UNCHANGED <<life, stopping>>
    BY <2>1 DEF Door, MutateList, BeginSave, EndSave, ReadConfig, SendOrder, Journal, loop
  <2>2. ASSUME NEW d \in Doors, NEW request \in Requests, Ask(d, request) PROVE UNCHANGED <<life, stopping>>
    BY <2>2 DEF Ask, loop
  <2>3. CASE TakeOrder
    BY <2>3 DEF TakeOrder, Up
  <2>4. CASE ShutdownSignal
    BY <2>4 DEF ShutdownSignal
  <2>5. CASE Second
    BY <2>5 DEF Second, Up
  <2>6. CASE EditConfig
    BY <2>6 DEF EditConfig, loop
  <2>7. CASE Restart
    BY <2>7 DEF Restart
  <2>8. CASE MainReturns
    BY <2>8 DEF MainReturns
  <2>9. CASE UNCHANGED vars
    BY <2>9 DEF vars, loop
  <2> QED BY <2>1, <2>2, <2>3, <2>4, <2>5, <2>6, <2>7, <2>8, <2>9 DEF Next
<1> QED BY <1>1, <1>2, <1>3

(* Whatever holds an iteration up, a server that ends by its deadline has  *)
(* announced every threshold its delay reached.                            *)
THEOREM WarnedFirst == Spec => []WarnedBeforeTheEnd
<1>1. Init => WarnedBeforeTheEnd
  BY DEF Init, WarnedBeforeTheEnd
<1> QED BY <1>1, InitTyped, NextTyped, NextWarned, PTL DEF Spec
==============================================================================
