--------------------------- MODULE CommandDelivery ---------------------------
(***************************************************************************)
(* What the reliable transport promises about commands, without sequence   *)
(* numbers, acks or retransmits: a command that was issued is executed at  *)
(* most once, possibly never, and its sender closes its books on it once,  *)
(* whether or not it was executed.  ReliableLink implements this contract  *)
(* as long as no gap of the receiver is forgotten.                         *)
(***************************************************************************)
EXTENDS Naturals

CONSTANT Commands

VARIABLES
    issued,   \* commands handed to the transport
    runs,     \* how many times each was executed
    closed    \* commands the sender no longer tracks

vars == <<issued, runs, closed>>

Init ==
    /\ issued = {}
    /\ runs = [c \in Commands |-> 0]
    /\ closed = {}

Issue(c) ==
    /\ c \notin issued
    /\ issued' = issued \cup {c}
    /\ UNCHANGED runs

Execute(c) ==
    /\ c \in issued
    /\ runs[c] = 0
    /\ runs' = [runs EXCEPT ![c] = 1]
    /\ UNCHANGED <<issued, closed>>

Close(S) ==
    /\ S \subseteq issued \ closed
    /\ closed' = closed \cup S

(* One step of the sender issues at most one command and closes any        *)
(* number: registering an entry in a full ledger evicts the oldest.        *)
Next ==
    \/ \E c \in Commands : Issue(c) /\ Close(closed' \ closed)
    \/ \E c \in Commands : Execute(c)
    \/ Close(closed' \ closed) /\ UNCHANGED <<issued, runs>>

Spec == Init /\ [][Next]_vars
=============================================================================
