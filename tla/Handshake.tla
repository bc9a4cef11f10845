----------------------------- MODULE Handshake -----------------------------
(***************************************************************************)
(* Opening a session from one address, in real time.                       *)
(*                                                                         *)
(*   client   net/client.rs  send_connect_request, handle_received_packet  *)
(*   server   net/server.rs  check_connect_rate, handle_received_packet,   *)
(*                           admit_connection                              *)
(*                                                                         *)
(* Connect, Challenge, Confirm, Accept.  One tick of the model is          *)
(* CONNECT_RETRY_INTERVAL / Interval; a datagram is under way for as long  *)
(* as the setting says.  Tokens are counted in units of 1 / Interval, so   *)
(* the bucket gains one unit a tick (4 tokens and 4 retries a second).     *)
(***************************************************************************)
EXTENDS Naturals, SequencesExt

CONSTANTS
    Interval,            \* ticks between two Connects (250 ms)
    Timeout,             \* ticks until the client gives up (5 s)
    TTL,                 \* ticks a challenge is honoured (8 s)
    Burst,               \* tokens of a full bucket (4)
    MaxResends,          \* bound: times the ledger sends an Accept again
    Settings             \* networks and loads a behaviour may have

(* min and max are the ticks a datagram is under way; reorder says that    *)
(* datagrams overtake each other, duplicate that they arrive twice; slots  *)
(* are those of max_connections other addresses leave; asks says that the  *)
(* client sends datagrams that echo no session (ResyncRequest).  Two       *)
(* bounds: faults (datagrams of an opening lost or duplicated), starts     *)
(* (clients that use the address).                                         *)
SettingType == [min : Nat, max : Nat, reorder : BOOLEAN, duplicate : BOOLEAN, asks : BOOLEAN,
                slots : Nat, faults : Nat, starts : Nat \ {0}]

ASSUME HandshakeAssumption ==
    /\ {Interval, Timeout, TTL, Burst} \subseteq Nat \ {0} /\ MaxResends \in Nat
    /\ Settings \subseteq SettingType /\ \A n \in Settings : n.min <= n.max

VARIABLES
    net,        \* the setting of this behaviour
    trying,     \* client: connect_attempt is set
    waited,     \* client: ticks since connect()
    due,        \* client: ticks until the connect loop wakes
    mine,       \* client: the session it echoes; 0: none, and no Connection
    marked,     \* client: its contiguous mark covers the Accept's number
    failed,     \* client: why the attempt ended without a session
    tokens,     \* server: the address's bucket
    pending,    \* server: the pending challenge, [nonce, age]; nonce 0: none
    nonces,     \* server: challenges minted so far
    session,    \* server: the connection of the address; 0: none
    resends,    \* server: times the Accept of that connection was sent again
    since,      \* server: ticks since its ledger last sent the Accept
    acked,      \* server: the client's ack has retired the Accept
    up, down,   \* datagrams under way
    acks,       \* acks of the Accept under way, by the session they echo
    faults, starts,
    opened      \* history: the nonce each session was opened for

client == <<trying, waited, due, mine, marked, failed>>
server == <<tokens, pending, nonces, session, resends, since, acked>>
openingVars == <<net, client, server, up, down, acks, faults, starts, opened>>

NoChallenge == [nonce |-> 0, age |-> 0]
Datagram(kind, n) == [kind |-> kind, n |-> n, age |-> 0]
Full == Burst * Interval

OpeningInit ==
    /\ net \in Settings
    /\ trying = TRUE /\ waited = 0 /\ due = 0 /\ mine = 0 /\ marked = FALSE /\ failed = "no"
    /\ tokens = Full /\ pending = NoChallenge /\ nonces = 0
    /\ session = 0 /\ resends = 0 /\ since = 0 /\ acked = FALSE
    /\ up = << >> /\ down = << >> /\ acks = {} /\ faults = 0 /\ starts = 1
    /\ opened = << >>

-----------------------------------------------------------------------------
(* The network and the clock: a datagram is never later than net.max, the  *)
(* connect loop wakes on time and the ledger retransmits on time           *)
(* (RETRANSMIT_TIMEOUT_MS is 250 as well).                                 *)

Ready(way) == {k \in DOMAIN way : way[k].age >= net.min /\ (net.reorder \/ k = 1)}
Older(way) == [k \in DOMAIN way |-> [way[k] EXCEPT !.age = @ + 1]]

Unbounded == tokens + 1  \* mutant: no .min(CONNECT_BURST)
Refilled == IF tokens < Full THEN tokens + 1 ELSE tokens

(* The ledger holds the Accept until it is acked or was sent often enough. *)
ResendOn == session # 0 /\ ~acked /\ resends < MaxResends

Tick ==
    /\ \A k \in DOMAIN up : up[k].age < net.max
    /\ \A k \in DOMAIN down : down[k].age < net.max
    /\ trying => due > 0
    /\ ResendOn => since < Interval
    /\ trying \/ ResendOn \/ up # << >> \/ down # << >> \/ tokens < Full
    /\ up' = Older(up) /\ down' = Older(down)
    /\ waited' = IF trying THEN waited + 1 ELSE waited
    /\ due' = IF trying THEN due - 1 ELSE due
    /\ since' = IF ResendOn THEN since + 1 ELSE since
    /\ tokens' = Refilled
    /\ pending' = IF pending.nonce = 0 \/ pending.age >= TTL THEN NoChallenge
                  ELSE [pending EXCEPT !.age = @ + 1]
    /\ UNCHANGED <<net, trying, mine, marked, failed, nonces, session, resends, acked, acks,
                   faults, starts, opened>>

(* A fault loses a datagram or delivers another copy of it.                *)
Faulty(way, k) ==
    {RemoveAt(way, k)} \cup IF net.duplicate THEN {Append(way, way[k])} ELSE {}

Fault ==
    /\ faults < net.faults
    /\ faults' = faults + 1
    /\ \/ \E k \in Ready(up) : up' \in Faulty(up, k) /\ UNCHANGED down
       \/ \E k \in Ready(down) : down' \in Faulty(down, k) /\ UNCHANGED up
    /\ UNCHANGED <<net, client, server, acks, starts, opened>>

-----------------------------------------------------------------------------
(* The client.                                                             *)

(* The connect loop: give up, or send the Connect once more.               *)
Once == Timeout + 1  \* mutant: a Connect is sent once
RetryIn == Interval

Retry ==
    /\ trying /\ due = 0
    /\ IF waited > Timeout
       THEN /\ trying' = FALSE /\ failed' = "timeout"
            /\ UNCHANGED <<due, up>>
       ELSE /\ due' = RetryIn /\ up' = Append(up, Datagram("connect", 0))
            /\ UNCHANGED <<trying, failed>>
    /\ UNCHANGED <<net, waited, mine, marked, server, down, acks, faults, starts, opened>>

(* A challenge is answered whoever asked for it, trying or not.            *)
Answer(k) ==
    /\ down[k].kind = "challenge"
    /\ up' = Append(up, Datagram("confirm", down[k].n))
    /\ UNCHANGED <<client, acks>>

(* An Accept is taken whatever the client holds; a second one as well.  It *)
(* is tracked from then on: the Connection there is outlives its session.  *)
(* Whatever a marked client sends, thirty times a second, acks the Accept; *)
(* it echoes the session held, or none.                                    *)
NoEcho == 0
Echoes(n) == {n} \cup IF net.asks THEN {NoEcho} ELSE {}

TakeAccept(k) ==
    /\ down[k].kind = "accept"
    /\ mine' = down[k].n /\ trying' = FALSE
    /\ marked' = (marked \/ mine # 0)
    /\ acks' = acks \cup IF marked' THEN Echoes(down[k].n) ELSE {}
    /\ UNCHANGED <<waited, due, failed, up>>

TakeReject(k) ==
    /\ down[k].kind = "reject"
    /\ trying' = FALSE /\ failed' = "refused"
    /\ UNCHANGED <<waited, due, mine, marked, up, acks>>

ClientReceive ==
    \E k \in Ready(down) :
        /\ down' = RemoveAt(down, k)
        /\ Answer(k) \/ TakeAccept(k) \/ TakeReject(k)
        /\ UNCHANGED <<net, server, faults, starts, opened>>

(* The process dies and another one binds the same port.                   *)
Restart ==
    /\ starts < net.starts
    /\ starts' = starts + 1
    /\ trying' = TRUE /\ waited' = 0 /\ due' = 0 /\ mine' = 0 /\ marked' = FALSE
    /\ failed' = "no"
    /\ UNCHANGED <<net, server, up, down, acks, faults, opened>>

-----------------------------------------------------------------------------
(* The server.  Connects and Confirms of an address share its bucket.      *)

Left == tokens - Interval

Limited ==
    /\ tokens < Interval
    /\ UNCHANGED <<server, down, opened>>

(* The latest Connect replaces the pending claim.                          *)
Challenge(k) ==
    /\ up[k].kind = "connect" /\ tokens >= Interval
    /\ tokens' = Left
    /\ nonces' = nonces + 1
    /\ pending' = [nonce |-> nonces + 1, age |-> 0]
    /\ down' = Append(down, Datagram("challenge", nonces + 1))
    /\ UNCHANGED <<session, resends, since, acked, opened>>

(* A Confirm takes the pending claim before it is compared with it.        *)
Kept == pending  \* mutant: the claim stays for the next Confirm
Taken == NoChallenge

Matches(k) == pending.nonce = up[k].n

EverySession == Len(opened)  \* mutant: evicted sessions keep their slot
Slot == IF session = 0 THEN 0 ELSE 1

Admit(k) ==
    /\ up[k].kind = "confirm" /\ tokens >= Interval /\ Matches(k)
    /\ tokens' = Left /\ pending' = Taken
    /\ IF Slot >= net.slots
       THEN /\ down' = Append(down, Datagram("reject", 0))
            /\ UNCHANGED <<session, resends, since, acked, opened>>
       ELSE /\ opened' = Append(opened, up[k].n)
            /\ session' = Len(opened) + 1 /\ resends' = 0 /\ since' = 0 /\ acked' = FALSE
            /\ down' = Append(down, Datagram("accept", Len(opened) + 1))
    /\ UNCHANGED nonces

IgnoreConfirm(k) ==
    /\ up[k].kind = "confirm" /\ tokens >= Interval /\ ~Matches(k)
    /\ tokens' = Left /\ pending' = Taken
    /\ UNCHANGED <<nonces, session, resends, since, acked, down, opened>>

ServerReceive ==
    \E k \in Ready(up) :
        /\ up' = RemoveAt(up, k)
        /\ Limited \/ Challenge(k) \/ Admit(k) \/ IgnoreConfirm(k)
        /\ UNCHANGED <<net, client, acks, faults, starts>>

(* The ledger of the live connection; an evicted one has none.             *)
AnyAccept == DOMAIN opened  \* mutant: evicted connections retransmit as well
LiveAccept == {session}

ResendAccept ==
    /\ ResendOn /\ since = Interval
    /\ resends' = resends + 1 /\ since' = 0
    /\ \E i \in LiveAccept : down' = Append(down, Datagram("accept", i))
    /\ UNCHANGED <<net, client, tokens, pending, nonces, session, acked, up, acks, faults, starts, opened>>

(* An ack retires the Accept if its datagram echoes the live session or    *)
(* is of a kind that echoes none.  It may be lost and may come at any time.*)
AnyEcho == acks  \* mutant: no session gate
SessionGate == acks \cap {session, NoEcho}

TakeAck ==
    /\ session # 0 /\ ~acked /\ SessionGate # {}
    /\ acked' = TRUE /\ since' = 0
    /\ UNCHANGED <<net, client, tokens, pending, nonces, session, resends, up, down, acks,
                   faults, starts, opened>>

OpeningNext ==
    \/ Tick \/ Fault \/ Retry \/ ClientReceive \/ Restart
    \/ ServerReceive \/ ResendAccept \/ TakeAck

OpeningSpec == OpeningInit /\ [][OpeningNext]_openingVars

-----------------------------------------------------------------------------
(* Properties.                                                             *)

OpeningTypeOK ==
    /\ trying \in BOOLEAN /\ waited \in Nat /\ due \in 0..Interval
    /\ failed \in {"no", "timeout", "refused"}
    /\ tokens \in 0..Full
    /\ pending \in [nonce : 0..nonces, age : 0..TTL]
    /\ session = Len(opened) /\ mine \in 0..session /\ marked \in BOOLEAN
    /\ acked \in BOOLEAN /\ acks \subseteq 0..session
    /\ resends \in 0..MaxResends /\ since \in 0..Interval /\ faults \in 0..net.faults /\ starts \in 1..net.starts

(* A challenge opens at most one session, whatever is lost, late or sent   *)
(* again; and, as "registration is keyed by addr, so re-sending is         *)
(* idempotent" (server.rs 1494), the retries of one connect() open one     *)
(* session, as long as nothing is lost or doubled on the way and the four  *)
(* datagrams of an opening take less than a retry interval.                *)
OneSessionPerChallenge ==
    /\ \A i, j \in DOMAIN opened : opened[i] = opened[j] => i = j
    /\ net.faults = 0 /\ 4 * net.max < Interval => Len(opened) <= starts

(* When everything has arrived and the ledger is empty, a client that has  *)
(* a session has the one the server knows, and not one the server has      *)
(* evicted, if a datagram is under way for less than a resend waits and    *)
(*   - the live Accept was sent again more often than datagrams were lost  *)
(*     or doubled, in whatever order the Accepts came and whatever was     *)
(*     acked; or                                                           *)
(*   - the Accept was acked, the network keeps order and doubles nothing   *)
(*     and every ack echoes its session.                                   *)
(* An Accept acked before it was sent again leaves the ends apart when one *)
(* of an evicted session, overtaken by it, comes after the ack.            *)
Quiet == ~trying /\ up = << >> /\ down = << >> /\ ~ResendOn
Orderly == ~net.reorder /\ ~net.duplicate /\ ~net.asks
SessionsAgree ==
    net.max < Interval =>
        (Quiet /\ mine # 0 /\ (resends > faults \/ (acked /\ Orderly)) => mine = session)

(* A challenge opens one session, and a client that holds a session holds  *)
(* the one the server has for it.                                          *)
SessionsMatch == OneSessionPerChallenge /\ SessionsAgree

(* A client alone on its address gets its session before it gives up: if  *)
(* the four datagrams of an opening take less than a retry interval, each  *)
(* lost one costs one more try, and as many tries fit into the timeout.    *)
Spared ==
    /\ net.starts = 1 /\ ~net.duplicate /\ net.slots > 0 /\ 4 * net.max < Interval
    /\ net.faults <= MaxResends /\ net.faults * Interval <= Timeout
ConnectsInTime == Spared => failed # "timeout"

(* "The honest listener answered this address's challenge, so it owns the  *)
(* address now" (server.rs 1755): while others leave a slot more than the  *)
(* leftover session of its own address holds, a client is not refused.     *)
LeftoverNeverRefuses == net.slots > 1 => failed # "refused"

(* A client gets in while its retries last, whatever another session has   *)
(* left behind at its address.                                             *)
GetsIn == ConnectsInTime /\ LeftoverNeverRefuses
=============================================================================
