----------------------------- MODULE MCSessions -----------------------------
(***************************************************************************)
(* Sessions for TLC, from the first Connect to the last table entry: the   *)
(* opening of a session on one of six networks (Handshake), or the tables *)
(* and their three tasks (SessionTable).  subject, chosen initially, says  *)
(* which of the two a behaviour is of; the other stays in its initial      *)
(* state.                                                                  *)
(***************************************************************************)
EXTENDS Handshake, SessionTable

VARIABLE subject

(* Two round trips fit into a retry interval and every datagram arrives.   *)
Prompt == [min |-> 0, max |-> 1, reorder |-> FALSE, duplicate |-> FALSE, asks |-> FALSE,
           slots |-> 2, faults |-> 0, starts |-> 1]

(* Two losses, and one free slot.                                          *)
Lossy == [Prompt EXCEPT !.slots = 1, !.faults = 2]

(* Two clients use the port in turn, and a datagram is lost.               *)
Handover == [Prompt EXCEPT !.faults = 1, !.starts = 2]

(* The same, where it may arrive twice instead.                            *)
Successors == [Handover EXCEPT !.duplicate = TRUE]

(* Datagrams overtake each other, one is lost or duplicated, and the       *)
(* client asks for resyncs.                                                *)
Jumbled == [Prompt EXCEPT !.max = 2, !.reorder = TRUE, !.duplicate = TRUE, !.asks = TRUE,
                          !.faults = 1]

(* Three clients use the port in turn, and datagrams overtake each other.  *)
Hurried == [Prompt EXCEPT !.reorder = TRUE, !.starts = 3]

Served == {Prompt, Hurried, Lossy, Handover, Successors, Jumbled}

(* A round trip of four ticks: not served, see the README.                 *)
Far == [Prompt EXCEPT !.min = 2, !.max = 2]

MCInit ==
    /\ Init /\ OpeningInit
    /\ subject \in {"tables", "opening"} /\ (subject = "tables" => net = Prompt)

MCNext ==
    /\ UNCHANGED subject
    /\ \/ subject = "opening" /\ OpeningNext /\ UNCHANGED vars
       \/ subject = "tables" /\ Next /\ UNCHANGED openingVars

(* The fairness is that of the tables' tasks.                              *)
MCSpec == MCInit /\ [][MCNext]_<<subject, vars, openingVars>> /\ Fairness

=============================================================================
