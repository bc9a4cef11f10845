----------------------------- MODULE MCInterest -----------------------------
(***************************************************************************)
(* Interest management for TLC: the spatial index alone (SpatialGrid), and *)
(* the loop, the manager and the publish pass (Interest): one player among *)
(* two ships and a shell, and two players at anchor who wait for the one   *)
(* admission of a pass, in a queue of one place or of two.  setting,       *)
(* chosen initially, says which of the four a behaviour is of; the other   *)
(* module stays in its initial state.                                      *)
(***************************************************************************)
EXTENDS Interest, SpatialGrid

VARIABLE setting

Short == INSTANCE Interest WITH
    Clients <- {"c1", "c2"}, NShips <- 1, Shells <- {}, MaxChanges <- 0

Long == INSTANCE Interest WITH
    Clients <- {"c1", "c2"}, NShips <- 1, Shells <- {}, MaxChanges <- 0, QueueCap <- 2

MCInit ==
    /\ GridInit
    /\ \/ setting \in {"index", "sea"} /\ Init
       \/ setting \in {"short", "long"} /\ Short!Init

MCNext ==
    /\ UNCHANGED setting
    /\ \/ setting = "index" /\ GridNext /\ UNCHANGED vars
       \/ setting = "sea" /\ Next /\ UNCHANGED gridVars
       \/ setting = "short" /\ Short!Next /\ UNCHANGED gridVars
       \/ setting = "long" /\ Long!Next /\ UNCHANGED gridVars

LineLoop == /\ setting \in {"short", "long"} /\ Short!Loop
            /\ UNCHANGED <<setting, gridVars>>
LineRound == /\ \/ setting = "short" /\ Short!Round
                \/ setting = "long" /\ Long!Round
             /\ UNCHANGED <<setting, gridVars>>

MCSpec == MCInit /\ [][MCNext]_<<setting, gridVars, vars>> /\ WF_vars(LineLoop) /\ WF_vars(LineRound)

-----------------------------------------------------------------------------
(* A registered player of a live connection gets its first full, though a  *)
(* pass admits one and the queue may be full, or hold an id that is gone   *)
(* (FirstFullQueue, №710).  The fairness is that of the game loop and of   *)
(* the publish pass, as in Interest.                                       *)
EveryoneIsServed == setting \in {"short", "long"} => Short!Served
=============================================================================
