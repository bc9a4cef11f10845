-------------------------- MODULE SessionDirectory ---------------------------
(***************************************************************************)
(* What the session tables promise together, without locks, windows and    *)
(* tasks: every session goes through one life, in one direction and told   *)
(* of once it is over; sessions open one at a time and never more than the *)
(* server has room for; an address goes to the session that opens at it,   *)
(* whose predecessor's end is told before it is announced; and an address  *)
(* is forgotten only after a session of it has ended.  What it does not    *)
(* promise is that the session forgotten is the one that has ended.        *)
(***************************************************************************)
EXTENDS Naturals, FiniteSets

CONSTANTS Addrs, Ids, Capacity

VARIABLES
    home,      \* the address each session is for
    phase,     \* how far each session is in its life
    owner,     \* the session an address leads to, 0 for none
    replaced   \* the session whose address the one that opens has taken

vars == <<home, phase, owner, replaced>>

InRoom == {i \in Ids : phase[i] \in {"registered", "seated", "open"}}

Moves(i, from, to) == phase[i] = from /\ phase' = [phase EXCEPT ![i] = to]

Init ==
    /\ home \in [Ids -> Addrs]
    /\ phase = [i \in Ids |-> "none"]
    /\ owner = [a \in Addrs |-> 0]
    /\ replaced = 0

(* Sessions are numbered as they open.                                     *)
Open(i) ==
    /\ \A j \in Ids : phase[j] \notin {"registered", "seated"}
    /\ \A j \in Ids : j < i => phase[j] # "none"
    /\ Cardinality(InRoom) < Capacity
    /\ Moves(i, "none", "registered")
    /\ UNCHANGED <<home, owner, replaced>>

TakeAddress(i) ==
    /\ Moves(i, "registered", "seated")
    /\ owner' = [owner EXCEPT ![home[i]] = i]
    /\ replaced' = owner[home[i]]
    /\ UNCHANGED home

Announce(i) ==
    /\ replaced # 0 => phase[replaced] = "told"
    /\ Moves(i, "seated", "open")
    /\ replaced' = 0
    /\ UNCHANGED <<home, owner>>

End(i) ==
    /\ Moves(i, "open", "ended")
    /\ UNCHANGED <<home, owner, replaced>>

Tell(i) ==
    /\ Moves(i, "ended", "told")
    /\ UNCHANGED <<home, owner, replaced>>

Forget(i) ==
    /\ phase[i] \in {"ended", "told"}
    /\ owner' = [owner EXCEPT ![home[i]] = 0]
    /\ UNCHANGED <<home, phase, replaced>>

Next ==
    \E i \in Ids :
        \/ Open(i) \/ TakeAddress(i) \/ Announce(i)
        \/ End(i) \/ Tell(i) \/ Forget(i)

Spec == Init /\ [][Next]_vars
=============================================================================
