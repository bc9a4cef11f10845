---------------------------- MODULE ControlDoor -----------------------------
(***************************************************************************)
(* The operator's side of the server: the tasks of server/control that     *)
(* answer a connection each, the bounded queue of orders, and the game     *)
(* loop of main.rs as far as it serves that queue and stops.  The ban list *)
(* and its file are shared by the tasks under one read-write lock.         *)
(***************************************************************************)
EXTENDS Naturals, Sequences

CONSTANTS
    Doors,          \* operator connections
    Peers,          \* players: <<host, port>>, as their sockets have it
    Targets,        \* what an operator may ban: <<host, port>>, port 0 for a bare host
    Delays,         \* delay_s of the stop command, in seconds; 0 means now
    Thresholds,     \* STOP_THRESHOLDS
    QueueCap,       \* QUEUE_CAP
    MaxOrders,      \* bound: changes an operator asks for
    MaxRuns         \* bound: lives of the server process

Stops == [do : {"stop"}, delay : Delays]
Bans == [do : {"ban", "unban"}, target : Targets]
Kicks == [do : {"kick"}, player : Peers]
Requests == Stops \cup Bans \cup Kicks \cup [do : {"reload"}]

Never == [delay |-> 0, left |-> 0, fired |-> {}, on |-> FALSE]  \* stopping is None
Whole(list) == [whole |-> TRUE, list |-> list]
Torn == [whole |-> FALSE, list |-> {}]                          \* a file cut short

ASSUME DoorAssumption ==
    /\ Thresholds \subseteq Nat /\ Delays \subseteq Nat
    /\ QueueCap \in Nat /\ MaxOrders \in Nat /\ MaxRuns \in Nat \ {0}

VARIABLES
    life,       \* the process: "serves", its loop has ended by "signal", "empty", ..., "gone"
    runs,       \* how often it was started
    word,       \* the state word of the status snapshot
    door,       \* each task: where it is in its command, and the command
    asked,      \* how many changes were asked for
    queue,      \* control_tx
    stopping,   \* StopState
    atOnce,     \* stop_at_once of this iteration
    players,    \* who plays
    kicked,     \* who was thrown out since the loop last took the network's events
    rules,      \* the vote_kick section the loop runs on
    disk,       \* the same section in the config file
    bans, file, \* the ban list in memory and on disk
    failed      \* history: the last save failed

loop == <<life, runs, word, stopping, atOnce, players, kicked, rules>>
list == <<bans, file, failed>>
vars == <<loop, door, asked, queue, disk, list>>

Free == [at |-> "free", order |-> [do |-> "none"]]

Init ==
    /\ life = "serves" /\ runs = 1 /\ word = "running"
    /\ door = [d \in Doors |-> Free] /\ asked = 0 /\ queue = << >>
    /\ stopping = Never /\ atOnce = FALSE /\ players = {} /\ kicked = {}
    /\ rules = 0 /\ disk = 0
    /\ bans = {} /\ file = Whole({}) /\ failed = FALSE

Up == life = "serves"      \* the loop runs
Closed == life = "gone"    \* main has returned, and dropped the receiving end

-----------------------------------------------------------------------------
(* A task of the door.  A step is what it does without giving up the lock  *)
(* it holds or awaiting; the answer and the journal are the last one.      *)

At(d, place) == door[d].at = place
Moves(d, place) == door' = [door EXCEPT ![d].at = place]
Answers(d) == door' = [door EXCEPT ![d] = Free]

FirstStep(request) ==
    CASE request.do \in {"ban", "unban"} -> "mutate"
      [] request.do = "reload" -> "read"
      [] OTHER -> "send"

(* gate_state, read from the snapshot: no order while the loop stops.  The *)
(* gate on a kick's target reads a list up to a second old, so that any    *)
(* player may be named.                                                    *)
Ask(d, request) ==
    /\ At(d, "free") /\ asked < MaxOrders /\ word = "running" /\ ~Closed
    /\ asked' = asked + 1
    /\ door' = [door EXCEPT ![d] = [at |-> FirstStep(request), order |-> request]]
    /\ UNCHANGED <<loop, queue, disk, list>>

(* The file is written under a read lock, the list changed under the       *)
(* write lock: nobody changes what somebody is writing.                    *)
Unlocked == \A d \in Doors : door[d].at # "write"

MutateList(d) ==
    /\ At(d, "mutate") /\ Unlocked
    /\ LET target == door[d].order.target
       IN  IF door[d].order.do = "ban"
           THEN bans' = bans \cup {target} /\ Moves(d, "save")
           ELSE /\ bans' = bans \ {target}
                /\ IF target \in bans THEN Moves(d, "save") ELSE Answers(d)
    /\ UNCHANGED <<loop, asked, queue, disk, file, failed>>

(* std::fs::write cuts the file to nothing and then fills it; either may   *)
(* fail, and then the request is refused with the list changed.            *)
SaveFails(d) == failed' = TRUE /\ Answers(d) /\ UNCHANGED file

BeginSave(d) ==
    /\ At(d, "save")
    /\ \/ file' = Torn /\ Moves(d, "write") /\ UNCHANGED failed
       \/ SaveFails(d)
    /\ UNCHANGED <<loop, asked, queue, disk, bans>>

OwnChange(d) == IF door[d].order.do = "ban" THEN {door[d].order.target} ELSE {}  \* mutant: the request, not the list
Written(d) == bans

EndSave(d) ==
    /\ At(d, "write")
    /\ \/ file' = Whole(Written(d)) /\ failed' = FALSE /\ Moves(d, "send")
       \/ SaveFails(d)
    /\ UNCHANGED <<loop, asked, queue, disk, bans>>

(* reload: the whole file, against the arrangement that runs.              *)
ReadConfig(d) ==
    /\ At(d, "read")
    /\ IF disk = rules
       THEN Answers(d)
       ELSE door' = [door EXCEPT ![d] = [at |-> "send", order |-> [do |-> "reload", rules |-> disk]]]
    /\ UNCHANGED <<loop, asked, queue, disk, list>>

(* The queue is bounded and a send waits for room.  Its receiving end is a *)
(* local of main: after the loop has ended an order still finds room, and  *)
(* is answered "queued", or waits.  Only with the end of main is it        *)
(* refused, or dropped with its task.                                      *)
SendOrder(d) ==
    /\ At(d, "send")
    /\ \/ /\ ~Closed /\ Len(queue) < QueueCap
          /\ queue' = Append(queue, door[d].order)
          /\ Moves(d, "journal")
       \/ Closed /\ Answers(d) /\ UNCHANGED queue
    /\ UNCHANGED <<loop, asked, disk, list>>

Journal(d) ==
    /\ At(d, "journal")
    /\ Answers(d)
    /\ UNCHANGED <<loop, asked, queue, disk, list>>

Door(d) ==
    \/ MutateList(d) \/ BeginSave(d) \/ EndSave(d)
    \/ ReadConfig(d) \/ SendOrder(d) \/ Journal(d)

-----------------------------------------------------------------------------
(* The game loop: the drain of the orders at the start of an iteration.    *)
(* A ban or unban order changes nothing here: the door changed the list.   *)
(* A kick removes the connection; the player goes with the network's event *)
(* later in this iteration, after the stop's own look at who plays.        *)

Obey(order) ==
    CASE order.do = "stop" ->
           /\ word' = "stopping"
           /\ IF players = {} \/ order.delay = 0
              THEN atOnce' = TRUE /\ UNCHANGED stopping
              ELSE /\ stopping' = [delay |-> order.delay, left |-> order.delay,
                                   fired |-> {}, on |-> TRUE]
                   /\ UNCHANGED atOnce
           /\ UNCHANGED <<rules, kicked>>
      [] order.do = "reload" ->
           rules' = order.rules /\ UNCHANGED <<word, stopping, atOnce, kicked>>
      [] order.do = "kick" ->
           kicked' = kicked \cup ({order.player} \cap players) /\ UNCHANGED <<word, stopping, atOnce, rules>>
      [] OTHER -> UNCHANGED <<word, stopping, atOnce, rules, kicked>>

TakeOrder ==
    /\ Up /\ queue # << >>
    /\ queue' = Tail(queue)
    /\ IF stopping.on  \* a stop is already running: ignored
       THEN UNCHANGED <<word, stopping, atOnce, rules, kicked>>
       ELSE Obey(Head(queue))
    /\ UNCHANGED <<life, runs, players, door, asked, disk, list>>

(* The checks after the drain.  The thresholds announce before the         *)
(* deadline is looked at.                                                  *)
OnTheDot == {t \in Thresholds : t <= stopping.delay /\ stopping.left = t}  \* mutant: only the second itself
Crossed == {t \in Thresholds : t <= stopping.delay /\ stopping.left <= t}

ByAnnouncement == IF atOnce THEN "at once" ELSE "serves"  \* mutant: the deadline announces and ends nothing
Ends ==
    IF atOnce THEN "at once"
    ELSE IF ~stopping.on THEN "serves"
    ELSE IF players = {} THEN "empty"
    ELSE IF stopping.left = 0 THEN "deadline"
    ELSE "serves"

(* Then the events of the tick: players leave, others come, and a ban is   *)
(* looked up by the text of the whole socket address.                      *)
IsBanned(peer) == peer \in bans

Iterate ==
    /\ Up /\ queue = << >>
    /\ life' = Ends
    /\ stopping' = IF atOnce \/ ~stopping.on THEN stopping
                   ELSE [stopping EXCEPT !.fired = @ \cup Crossed]
    /\ \/ /\ life' = "serves" /\ kicked' = {}
          /\ \E leavers \in SUBSET players, comers \in SUBSET (Peers \ players) :
                players' = (players \ (leavers \cup kicked)) \cup {peer \in comers : ~IsBanned(peer)}
       \/ life' # "serves" /\ UNCHANGED <<players, kicked>>
    /\ UNCHANGED <<runs, word, atOnce, rules, door, asked, queue, disk, list>>

ShutdownSignal ==
    /\ Up
    /\ life' = "signal"
    /\ UNCHANGED <<runs, word, stopping, atOnce, players, kicked, rules, door, asked, queue, disk, list>>

(* After the loop main gives the farewells their window and returns,       *)
(* whatever the doors are doing.                                           *)
Endings == {"signal", "at once", "empty", "deadline"}
JoinsTheDoors == life \in Endings /\ \A d \in Doors : At(d, "free")  \* mutant: the doors first
LoopEnded == life \in Endings

MainReturns ==
    /\ LoopEnded
    /\ life' = "gone"
    /\ UNCHANGED <<runs, word, stopping, atOnce, players, kicked, rules, door, asked, queue, disk, list>>

-----------------------------------------------------------------------------
(* The clock, the operator's editor, and the end of a process: whatever    *)
(* was in memory is gone, and a ban list cut short refuses the next start. *)

Second ==
    /\ Up /\ stopping.left > 0
    /\ stopping' = [stopping EXCEPT !.left = @ - 1]
    /\ UNCHANGED <<life, runs, word, atOnce, players, kicked, rules, door, asked, queue, disk, list>>

EditConfig ==
    /\ disk' = 1 - disk
    /\ UNCHANGED <<loop, door, asked, queue, list>>

Restart ==
    /\ runs < MaxRuns
    /\ runs' = runs + 1
    /\ door' = [d \in Doors |-> Free] /\ queue' = << >>
    /\ stopping' = Never /\ atOnce' = FALSE /\ players' = {} /\ kicked' = {}
    /\ rules' = disk
    /\ IF ~file.whole
       THEN life' = "unreadable" /\ word' = "starting" /\ UNCHANGED <<bans, failed>>
       ELSE life' = "serves" /\ word' = "running" /\ bans' = file.list /\ failed' = FALSE
    /\ UNCHANGED <<asked, disk, file>>

Next ==
    \/ \E d \in Doors : Door(d) \/ \E request \in Requests : Ask(d, request)
    \/ TakeOrder \/ Iterate \/ ShutdownSignal \/ MainReturns
    \/ Second \/ EditConfig \/ Restart

Spec == Init /\ [][Next]_vars

(* Tasks run, the loop iterates whatever the senders do, time passes, and  *)
(* main, which waits for nothing but its farewell window, returns.         *)
FairSpec ==
    /\ Spec
    /\ \A d \in Doors : WF_vars(MutateList(d) \/ BeginSave(d) \/ EndSave(d) \/ ReadConfig(d) \/ Journal(d))
    /\ \A d \in Doors : SF_vars(MutateList(d)) /\ SF_vars(SendOrder(d))
    /\ WF_vars(TakeOrder) /\ SF_vars(Iterate) /\ WF_vars(Second) /\ WF_vars(MainReturns)

-----------------------------------------------------------------------------
(* When no task is saving the list and the last save did not fail, the     *)
(* file is whole and holds the list: operators never overwrite each        *)
(* other's bans, and a restart knows every ban that was answered with      *)
(* "queued" (control/server.rs, Ban and Unban; BanList::load).             *)
Saving == \E d \in Doors : door[d].at \in {"save", "write"}
FileHoldsTheList == ~Saving /\ ~failed /\ life # "unreadable" => file = Whole(bans)

(* A server that stops by its deadline announced every threshold the delay *)
(* reached, however long an iteration was held up (STOP_THRESHOLDS).       *)
WarnedBeforeTheEnd ==
    life = "deadline" => {t \in Thresholds : t <= stopping.delay} \subseteq stopping.fired

(* A stop that was taken ends the server, whoever comes, goes or orders.   *)
StopEnds == stopping.on ~> ~Up \/ ~stopping.on

(* No command waits for ever: it is answered as long as the loop serves,   *)
(* however full the queue is and whatever the other operators do to the    *)
(* ban list, and one that the end of the loop leaves waiting for room is   *)
(* released with main (control/server.rs mutating_answer; main.rs, the     *)
(* receiver and the end of main).                                          *)
NoCommandHangs == \A d \in Doors : door[d].at # "free" ~> door[d].at = "free"

(* main.rs at the admission: "refuse a banned address before the player is *)
(* admitted -- the ban survives restarts, so a reconnect after a ban is    *)
(* still refused".                                                         *)
BannedStaysOut ==
    [][\A peer \in players' \ players : \A target \in bans : target[1] # peer[1]]_vars
=============================================================================
