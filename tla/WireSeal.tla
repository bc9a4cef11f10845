------------------------------ MODULE WireSeal ------------------------------
(***************************************************************************)
(* The numbers of the authentication block between one client address and  *)
(* a server that has a token (net/auth.rs, and its users in net/server.rs  *)
(* and net/client.rs).                                                     *)
(*                                                                         *)
(*   client -> server   numbered by the client process, one window per     *)
(*                      address in the receive loop                        *)
(*   server -> client   numbered by the address's out_seq before there is  *)
(*                      a connection and by the connection's wire_seq      *)
(*                      after, one window in the client                    *)
(*                                                                         *)
(* Of ReplayWindow's variables, window is the server's of the address      *)
(* (peer_replay), and sent and copies are histories of all the processes   *)
(* that used the address: the highest number one of them used, and how     *)
(* often the window let each number pass.                                  *)
(***************************************************************************)
EXTENDS ReplayWindow, Sequences, SequencesExt

CONSTANTS
    MaxInputs,     \* bound: datagrams of one client process
    BoundKinds,    \* what a connection sends after its Accept
    MaxConnSeq,    \* bound: datagrams of a connection
    MaxUnbound,    \* bound: challenges and rejects sent
    MaxRuns,       \* bound: client processes that use the address in turn
    MaxConns,      \* bound: connections made for the address
    MaxInFlight    \* bound: datagrams under way in each direction

ASSUME SealAssumption ==
    /\ {MaxInputs, MaxUnbound, MaxConns, MaxInFlight} \subseteq Nat
    /\ {MaxConnSeq, MaxRuns} \subseteq Nat \ {0}
    /\ MaxInputs <= MaxNumber
    /\ "input" \notin BoundKinds

VARIABLES
    ordered,                \* the network keeps the order, loses and repeats nothing
    run, clientSeq,         \* the client process and its wire_seq
    clientWindow,           \* server_replay
    outSeq, conn, connSeq,  \* WireAuth.out_seq; the connection, its wire_seq
    sealedUp, sealedDown,   \* datagrams under way
    applied,                \* history: datagrams that passed a window
    again                   \* history: one passed twice

counters == <<run, clientSeq, outSeq, conn, connSeq>>
sealVars == <<ordered, counters, clientWindow, sealedUp, sealedDown, applied, again>>

(* A datagram: what it carries, the counter that numbered it, the number.  *)
Datagram(kind, from, seq) == [kind |-> kind, from |-> from, seq |-> seq]

SealInit ==
    /\ WindowInit
    /\ ordered \in BOOLEAN
    /\ run = 1 /\ clientSeq = 0 /\ outSeq = 0 /\ conn = 0 /\ connSeq = 0
    /\ clientWindow = Empty
    /\ sealedUp = << >> /\ sealedDown = << >>
    /\ applied = {} /\ again = FALSE

-----------------------------------------------------------------------------
(* Senders: the counter is advanced and then used, so it starts at 1.      *)

NextNumber(n) == n + 1

ClientSend ==
    /\ clientSeq < MaxInputs /\ Len(sealedUp) < MaxInFlight
    /\ clientSeq' = clientSeq + 1
    /\ sent' = IF clientSeq = sent THEN sent + 1 ELSE sent
    /\ sealedUp' = Append(sealedUp, Datagram("input", run, NextNumber(clientSeq)))
    /\ UNCHANGED <<ordered, run, outSeq, conn, connSeq>>
    /\ UNCHANGED <<window, copies, clientWindow, sealedDown, applied, again>>

SendUnbound ==
    /\ outSeq < MaxUnbound /\ Len(sealedDown) < MaxInFlight
    /\ outSeq' = outSeq + 1
    /\ sealedDown' = Append(sealedDown, Datagram("challenge", 0, outSeq + 1))
    /\ UNCHANGED <<ordered, run, clientSeq, conn, connSeq>>
    /\ UNCHANGED <<windowVars, clientWindow, sealedUp, applied, again>>

(* A connection counts from its own start; every transmission, a repeated  *)
(* Accept as well, is sealed anew.                                         *)
SealedOnce == 1  \* mutant: a retransmission keeps its number
ConnNumber == connSeq + 1

Admit ==
    /\ conn < MaxConns /\ outSeq > 0 /\ Len(sealedDown) < MaxInFlight
    /\ conn' = conn + 1 /\ connSeq' = 1
    /\ sealedDown' = Append(sealedDown, Datagram("accept", conn + 1, 1))
    /\ UNCHANGED <<ordered, run, clientSeq, outSeq>>
    /\ UNCHANGED <<windowVars, clientWindow, sealedUp, applied, again>>

SendBound ==
    /\ conn > 0 /\ connSeq < MaxConnSeq /\ Len(sealedDown) < MaxInFlight
    /\ connSeq' = connSeq + 1
    /\ \E kind \in BoundKinds : sealedDown' = Append(sealedDown, Datagram(kind, conn, ConnNumber))
    /\ UNCHANGED <<ordered, run, clientSeq, outSeq, conn>>
    /\ UNCHANGED <<windowVars, clientWindow, sealedUp, applied, again>>

-----------------------------------------------------------------------------
(* Receivers.                                                              *)

Ready(net) == IF ordered THEN {k \in DOMAIN net : k = 1} ELSE DOMAIN net
Left(net, k) == IF ordered THEN {RemoveAt(net, k)} ELSE {net, RemoveAt(net, k)}

LastOnly(w, s) == [highest |-> s, seen |-> {0}]  \* mutant: only the last number is remembered
Unshifted(w, s) == [highest |-> s, seen |-> w.seen \cup {w.highest - s}]  \* mutant: the mask is not shifted
AfterAccept(w, s) == After(w, s)

(* The window decides before anything of the packet is read.               *)
Passed(d) ==
    /\ applied' = applied \cup {d}
    /\ again' = (again \/ d \in applied)

Dropped == UNCHANGED <<applied, again>>

ServerReceive ==
    \E k \in Ready(sealedUp) :
        LET d == sealedUp[k]
        IN  /\ sealedUp' \in Left(sealedUp, k)
            /\ IF Accepts(window, d.seq)
               THEN /\ window' = AfterAccept(window, d.seq)
                    /\ copies' = [copies EXCEPT ![d.seq] = @ + 1]
                    /\ Passed(d)
               ELSE UNCHANGED <<window, copies>> /\ Dropped
            /\ UNCHANGED <<ordered, counters, sent, clientWindow, sealedDown>>

ClientReceive ==
    \E k \in Ready(sealedDown) :
        LET d == sealedDown[k]
        IN  /\ sealedDown' \in Left(sealedDown, k)
            /\ IF Accepts(clientWindow, d.seq)
               THEN clientWindow' = AfterAccept(clientWindow, d.seq) /\ Passed(d)
               ELSE UNCHANGED clientWindow /\ Dropped
            /\ UNCHANGED <<ordered, counters, windowVars, sealedUp>>

LoseSealed ==
    /\ ~ordered
    /\ \/ \E k \in DOMAIN sealedUp : sealedUp' = RemoveAt(sealedUp, k) /\ UNCHANGED sealedDown
       \/ \E k \in DOMAIN sealedDown : sealedDown' = RemoveAt(sealedDown, k) /\ UNCHANGED sealedUp
    /\ UNCHANGED <<ordered, counters, windowVars, clientWindow, applied, again>>

(* The client dies and another process binds the port: its counter and its *)
(* window start anew, the server's window of the address does not.         *)
Rebind ==
    /\ run < MaxRuns
    /\ run' = run + 1 /\ clientSeq' = 0 /\ clientWindow' = Empty
    /\ applied' = {d \in applied : d.kind = "input"}
    /\ UNCHANGED <<ordered, outSeq, conn, connSeq, windowVars, sealedUp, sealedDown, again>>

SealNext ==
    \/ ClientSend \/ SendUnbound \/ Admit \/ SendBound
    \/ ServerReceive \/ ClientReceive \/ LoseSealed \/ Rebind

(* The send loop runs and retransmits, the receive loop runs.              *)
SealFairness ==
    /\ WF_<<windowVars, sealVars>>(SendBound) /\ WF_<<windowVars, sealVars>>(ClientReceive)

SealSpec == SealInit /\ [][SealNext]_<<windowVars, sealVars>>

-----------------------------------------------------------------------------
(* Properties.                                                             *)

SealTypeOK ==
    /\ ordered \in BOOLEAN /\ run \in 1..MaxRuns
    /\ clientSeq \in 0..sent /\ sent \in 0..MaxInputs
    /\ outSeq \in 0..MaxUnbound /\ conn \in 0..MaxConns /\ connSeq \in 0..MaxConnSeq
    /\ clientWindow \in [highest : Nat, seen : SUBSET (0..(Width - 1))]
    /\ sealedUp \in Seq([kind : {"input"}, from : Nat, seq : 1..sent])
    /\ sealedDown \in Seq([kind : BoundKinds \cup {"challenge", "accept"}, from : Nat, seq : Nat \ {0}])

(* No number passes the server's window of an address twice, and no        *)
(* process takes the same datagram twice, although two counters of the     *)
(* server and two processes of the client share a window (auth.rs accept). *)
NothingTwice == AcceptedOnce /\ ~again

(* The server's window of an address is the window of ReplayWindow,        *)
(* whichever processes use the address.                                    *)
ImplementsReplayWindow == WindowSpec

(* A connection's Accept reaches the client on a network that loses        *)
(* nothing, though its first number was used up by a challenge.            *)
AcceptGetsThrough ==
    ordered /\ conn > 0 ~> run > 1 \/ \E d \in applied : d.kind = "accept"
=============================================================================
