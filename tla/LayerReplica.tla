---------------------------- MODULE LayerReplica -----------------------------
(***************************************************************************)
(* What replication promises of one layer of the world to one client,      *)
(* without bases, deltas, reports or resyncs: the client shows the layer   *)
(* as it once was, in the frame it merges into and in the map the game     *)
(* reads alike, passes over what it likes but never goes back, and the     *)
(* server knows of what is shown at most what was, and never less than     *)
(* before.  LayerSync implements this contract for each of its layers.     *)
(***************************************************************************)
EXTENDS Integers, Sequences

CONSTANT Blank  \* what is shown before the first state arrives

VARIABLES
    history,      \* the layer at every tick so far
    clock,        \* the tick the client shows, 0 before the first
    frame, seen,  \* what it shows, in the frame and in the map
    known         \* the newest tick the server knows to have been shown

vars == <<history, clock, frame, seen, known>>

Init ==
    /\ Len(history) = 1
    /\ clock = 0 /\ frame = Blank /\ seen = Blank
    /\ known = 0

(* The world goes on; its past is not written again.                       *)
Publish ==
    /\ Len(history') = Len(history) + 1
    /\ SubSeq(history', 1, Len(history)) = history
    /\ UNCHANGED <<clock, frame, seen, known>>

Show(t) ==
    /\ clock < t
    /\ clock' = t /\ frame' = history[t] /\ seen' = history[t]
    /\ UNCHANGED <<history, known>>

Learn(t) ==
    /\ known < t
    /\ known' = t
    /\ UNCHANGED <<history, clock, frame, seen>>

Next ==
    \/ Publish
    \/ \E t \in 1..Len(history) : Show(t)
    \/ \E t \in 1..clock : Learn(t)

Spec == Init /\ [][Next]_vars
=============================================================================
