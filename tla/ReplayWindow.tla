---------------------------- MODULE ReplayWindow ----------------------------
(***************************************************************************)
(* The sliding window a receiver keeps per sender, net/auth.rs             *)
(* ReplayWindow, under one sender that numbers its datagrams 1, 2, ... and *)
(* a network that loses, delays, reorders and repeats them as it likes.    *)
(*                                                                         *)
(* The 64-bit mask is the set of its bits: b is in seen when the number    *)
(* highest - b was accepted.                                               *)
(***************************************************************************)
EXTENDS Naturals

CONSTANTS
    Width,     \* bits of the mask (64)
    MaxNumber  \* bound: numbers the sender uses (2^64 - 1)

ASSUME WindowAssumption == Width \in Nat \ {0} /\ MaxNumber \in Nat

Numbers == 1..MaxNumber

VARIABLES
    sent,    \* the last number the sender used
    window,  \* ReplayWindow
    copies   \* history: how often each number was accepted

windowVars == <<sent, window, copies>>

Empty == [highest |-> 0, seen |-> {}]

-----------------------------------------------------------------------------
(* ReplayWindow::accept: the verdict and the window after it.              *)

Fresh(w, s) == s > w.highest
WideUnseen(w, s) == w.highest - s <= Width /\ w.highest - s \notin w.seen  \* mutant: off by one
Unseen(w, s) == w.highest - s < Width /\ w.highest - s \notin w.seen
Accepts(w, s) == s # 0 /\ (Fresh(w, s) \/ Unseen(w, s))

StillSeen(w, s) == w.seen  \* mutant: the mask is not shifted
Shifted(w, s) == {c \in 0..(Width - 1) : \E b \in w.seen : c = b + (s - w.highest)}

After(w, s) ==
    IF Fresh(w, s)
    THEN [highest |-> s, seen |-> Shifted(w, s) \cup {0}]
    ELSE [w EXCEPT !.seen = @ \cup {w.highest - s}]

-----------------------------------------------------------------------------
WindowInit == sent = 0 /\ window = Empty /\ copies = [s \in Numbers |-> 0]

Send ==
    /\ sent < MaxNumber
    /\ sent' = sent + 1
    /\ UNCHANGED <<window, copies>>

(* Any datagram that was ever sent arrives, for the first time or again.   *)
Arrive(s) ==
    /\ s <= sent
    /\ IF Accepts(window, s)
       THEN /\ window' = After(window, s)
            /\ copies' = [copies EXCEPT ![s] = @ + 1]
       ELSE UNCHANGED <<window, copies>>
    /\ UNCHANGED sent

WindowNext == Send \/ \E s \in Numbers : Arrive(s)

WindowSpec == WindowInit /\ [][WindowNext]_windowVars

-----------------------------------------------------------------------------
(* Properties.                                                             *)

WindowTypeOK ==
    /\ sent \in 0..MaxNumber
    /\ window \in [highest : 0..sent, seen : SUBSET (0..(Width - 1))]
    /\ copies \in [Numbers -> Nat]

(* No datagram is applied twice, however long a copy was under way.        *)
AcceptedOnce == \A s \in Numbers : copies[s] <= 1

(* A datagram that was not applied yet and is fewer than Width numbers     *)
(* behind the newest one is never refused: reordering costs nothing.       *)
FreshLands ==
    \A s \in Numbers : copies[s] = 0 /\ window.highest < s + Width => Accepts(window, s)

(* The mask says exactly which of the last Width numbers were accepted,    *)
(* and nothing above the highest was.                                      *)
WindowExact ==
    /\ \A b \in window.seen : b < window.highest
    /\ \A s \in Numbers :
          /\ copies[s] # 0 => s <= window.highest
          /\ s <= window.highest /\ window.highest - s < Width
                => (window.highest - s \in window.seen <=> copies[s] # 0)
=============================================================================
