---------------------------- MODULE MCMatchLoop -----------------------------
(***************************************************************************)
(* Four small instances of MatchLoop in one run, told apart by the posts   *)
(* of their ships: the configuration's, with two posts and an address of   *)
(* the ban list; the same with a post less and a longer queue; one where   *)
(* nobody is banned, so that three players vote over a longer queue; and   *)
(* one where a kick takes all three of them, so that a vote stays open     *)
(* over a second ballot and over several ticks.                            *)
(***************************************************************************)
EXTENDS MatchLoop

Long == INSTANCE MatchLoop WITH Posts <- {1}, MaxQueue <- 2
Full == INSTANCE MatchLoop WITH Posts <- {}, MaxQueue <- 2, Banned <- {}
Torn == INSTANCE MatchLoop WITH Posts <- {2}, Banned <- {}, MinVotes <- 3, Window <- 2

ShipsHave(posts) == DOMAIN seat = Hulls \X posts

MCInit == Init \/ Long!Init \/ Full!Init \/ Torn!Init
MCNext == \/ ShipsHave(Posts) /\ Next
          \/ ShipsHave({1}) /\ Long!Next
          \/ ShipsHave({}) /\ Full!Next
          \/ ShipsHave({2}) /\ Torn!Next

(* As FairSpec; Tick is the same action in all four.                       *)
MCDrain == \/ ShipsHave(Posts) /\ Drain
           \/ ShipsHave({1}) /\ Long!Drain
           \/ ShipsHave({}) /\ Full!Drain
           \/ ShipsHave({2}) /\ Torn!Drain
MCSpec ==
    /\ MCInit /\ [][MCNext]_vars
    /\ WF_vars(MCDrain) /\ SF_vars(MCDrain /\ queue' = << >>) /\ SF_vars(Tick)
=============================================================================
