---------------------------- MODULE ReliableLink ----------------------------
(***************************************************************************)
(* One direction of the game's reliable transport: an endpoint that sends  *)
(* (the client's commands, or the server's command acks) and the endpoint  *)
(* that receives, with the acknowledgement headers that travel back.       *)
(*                                                                         *)
(*   sender    net/channel.rs    the ledger of unacknowledged datagrams    *)
(*             net/connection.rs next_sequence, record_remote, note_send_ack*)
(*   receiver  net/connection.rs track_received_reliable, ack_info,        *)
(*                               send_heartbeat_ack                        *)
(*                                                                         *)
(* A datagram is its sequence number, and kind[s] says what it carries; it *)
(* stays in flight until the network loses it, so it may arrive late, out  *)
(* of order and more than once.  Sequence numbers do not wrap here.        *)
(***************************************************************************)
EXTENDS Naturals, FiniteSets

CONSTANTS
    Traffic,     \* what the sender sends: some of the Kinds below
    MaxSeq,      \* bound: datagrams the sender numbers in one behaviour
    Window,      \* SACK bits in a header (32 in the code)
    GapCap,      \* SACK_TRACKED_GAPS (256)
    LedgerCap,   \* send_buffer_size of the reliable channel (1000)
    MaxRetries,  \* RETRANSMIT_MAX_RETRIES (10)
    MaxPerPass,  \* RETRANSMIT_MAX_PER_PASS (16)
    MaxUp,       \* bound: datagrams in flight towards the receiver
    MaxDown,     \* bound: ack headers in flight towards the sender
    ToServer     \* TRUE: client to server, FALSE: server to client

ASSUME LinkAssumption ==
    /\ {MaxSeq, Window, GapCap, LedgerCap, MaxRetries, MaxPerPass} \subseteq Nat \ {0}
    /\ {MaxUp, MaxDown} \subseteq Nat \ {0}
    /\ ToServer \in BOOLEAN
    /\ Traffic \subseteq {"command", "heartbeat", "heartbeatAck", "state"}

Seqs == 1..MaxSeq

(* "command" and "heartbeat" enter the ledger; a "heartbeatAck" has a      *)
(* reliable sequence but no ledger entry; "state" is unreliable traffic.   *)
Kinds == {"none", "command", "heartbeat", "heartbeatAck", "state"}
Ledgered == {"command", "heartbeat"}

EveryChannel == Kinds \ {"none"}  \* mutant: unreliable traffic raises the mark (bug 167)
Reliable == Ledgered \cup {"heartbeatAck"}

Fates == {"none", "pending", "acked", "lost", "evicted"}

VARIABLES
    nextSeq,     \* local_sequence
    kind,        \* what each sequence number carried
    fate,        \* the ledger: "pending" entries are in it
    retries,     \* retry_count of each entry
    remoteAck,   \* newest ack field accepted from the peer
    remoteBits,  \* the bitfield that came with it
    hcr,         \* reliable_hcr: the contiguous mark
    gaps,        \* reliable_gaps: out-of-order sequences above the mark
    up,          \* datagrams in flight to the receiver
    down,        \* ack headers in flight to the sender
    received,    \* history: reliable sequences that reached the receiver
    executed,    \* history: commands handed to the game layer
    repeated,    \* history: commands handed to it more than once
    forgotten    \* history: gaps dropped by the GapCap bound

senderVars == <<nextSeq, kind, fate, retries, remoteAck, remoteBits>>
receiverVars == <<hcr, gaps, received, executed, repeated, forgotten>>
vars == <<senderVars, receiverVars, up, down>>

ledger == {s \in Seqs : fate[s] = "pending"}

Header == [ack : 0..MaxSeq, bits : SUBSET (0..(Window - 1))]

TypeOK ==
    /\ nextSeq \in 0..MaxSeq
    /\ kind \in [Seqs -> Kinds]
    /\ fate \in [Seqs -> Fates]
    /\ retries \in [Seqs -> 0..MaxRetries]
    /\ remoteAck \in 0..MaxSeq
    /\ remoteBits \subseteq 0..(Window - 1)
    /\ hcr \in 0..MaxSeq
    /\ gaps \subseteq Seqs
    /\ up \subseteq Seqs
    /\ down \subseteq Header
    /\ received \subseteq Seqs /\ executed \subseteq Seqs
    /\ repeated \subseteq Seqs /\ forgotten \subseteq Seqs

Init ==
    /\ nextSeq = 0
    /\ kind = [s \in Seqs |-> "none"]
    /\ fate = [s \in Seqs |-> "none"]
    /\ retries = [s \in Seqs |-> 0]
    /\ remoteAck = 0 /\ remoteBits = {}
    /\ hcr = 0 /\ gaps = {}
    /\ up = {} /\ down = {}
    /\ received = {} /\ executed = {} /\ repeated = {} /\ forgotten = {}

-----------------------------------------------------------------------------
(* The sender.                                                             *)

Oldest(S) == {s \in S : \A t \in S : s <= t}
Newest(S) == {s \in S : \A t \in S : t <= s}

(* next_sequence: every datagram takes the next number, reliable or not.   *)
Number(k) ==
    /\ nextSeq < MaxSeq
    /\ Cardinality(up) < MaxUp
    /\ nextSeq' = nextSeq + 1
    /\ kind' = [kind EXCEPT ![nextSeq + 1] = k]
    /\ up' = up \cup {nextSeq + 1}

(* register_sent: at the cap, the oldest entry makes room.                 *)
Registered(f, s) ==
    LET evicted == IF Cardinality(ledger) >= LedgerCap THEN Oldest(ledger) ELSE {}
    IN  [x \in Seqs |-> IF x = s THEN "pending" ELSE IF x \in evicted THEN "evicted" ELSE f[x]]

SendLedgered ==
    \E k \in Ledgered \cap Traffic :
        /\ Number(k)
        /\ fate' = Registered(fate, nextSeq + 1)
        /\ UNCHANGED <<retries, remoteAck, remoteBits, receiverVars, down>>

SendUnledgered ==
    \E k \in Traffic \ Ledgered :
        /\ Number(k)
        /\ UNCHANGED <<fate, retries, remoteAck, remoteBits, receiverVars, down>>

(* collect_retransmits: `due` are the entries untouched for the timeout.   *)
(* The pass walks the ledger in order and stops after MaxPerPass resends;  *)
(* an entry out of retries is dropped as lost.                             *)
Served(due) ==
    {s \in due : Cardinality({t \in due : t < s /\ retries[t] < MaxRetries}) < MaxPerPass}

UnbudgetedPass(due) ==  \* mutant: the pass does not count its retries
    /\ fate' = [s \in Seqs |-> IF s \in Served(due) /\ retries[s] = MaxRetries
                               THEN "lost" ELSE fate[s]]
    /\ up' = up \cup Served(due)
    /\ UNCHANGED <<nextSeq, kind, retries, remoteAck, remoteBits, receiverVars, down>>

RetransmitPass(due) ==
    LET resent == {s \in Served(due) : retries[s] < MaxRetries}
        spent  == Served(due) \ resent
    IN  /\ fate' = [s \in Seqs |-> IF s \in spent THEN "lost" ELSE fate[s]]
        /\ retries' = [s \in Seqs |-> IF s \in resent THEN retries[s] + 1 ELSE retries[s]]
        /\ up' = up \cup resent
        /\ UNCHANGED <<nextSeq, kind, remoteAck, remoteBits, receiverVars, down>>

Retransmit == \E due \in (SUBSET ledger) \ {{}} : RetransmitPass(due)

(* record_remote / handle_packet: only a strictly newer ack replaces the   *)
(* stored pair; note_send_ack then runs the stored pair over the ledger,   *)
(* handle_ack testing bit (seq - ack) & 31 with no upper bound on seq.     *)
CoveredOffByOne(s, ack, bits) ==  \* mutant: bit n read as ack + n + 1
    s <= ack \/ (s - ack - 1) % Window \in bits

Covered(s, ack, bits) ==
    \/ s <= ack
    \/ (s - ack) % Window \in bits

ReceiveAck(d) ==
    /\ d \in down
    /\ IF d.ack > remoteAck
       THEN remoteAck' = d.ack /\ remoteBits' = d.bits
       ELSE UNCHANGED <<remoteAck, remoteBits>>
    /\ fate' = [s \in Seqs |->
                   IF s \in ledger /\ remoteAck' # 0 /\ Covered(s, remoteAck', remoteBits')
                   THEN "acked" ELSE fate[s]]
    /\ UNCHANGED <<nextSeq, kind, retries, receiverVars, up, down>>

-----------------------------------------------------------------------------
(* The receiver.                                                           *)

IsAboveMark(s) == s > hcr  \* mutant: gap membership not consulted
IsNew(s) == s > hcr /\ s \notin gaps

(* Advancing the mark over g: the contiguous run above hcr is consumed.    *)
JumpTo(k, g) == k \in g /\ k + 1 \notin g /\ hcr' = k  \* mutant: the mark jumps over holes

AdvanceTo(k, g) ==
    /\ (hcr + 1)..k \subseteq g
    /\ k + 1 \notin g
    /\ hcr' = k

(* while gaps.len() > SACK_TRACKED_GAPS the furthest gap is forgotten.     *)
Excess(g) == IF Cardinality(g) > GapCap THEN Newest(g) ELSE {}

(* track_received_reliable, which answers New or Duplicate.                *)
Track(s) ==
    IF kind[s] \in Reliable /\ IsNew(s)
    THEN \E k \in hcr..MaxSeq :
            LET left == (gaps \cup {s}) \ (1..k)
            IN  /\ AdvanceTo(k, gaps \cup {s})
                /\ gaps' = left \ Excess(left)
                /\ forgotten' = forgotten \cup Excess(left)
                /\ received' = received \cup {s}
    ELSE UNCHANGED <<hcr, gaps, forgotten, received>>

(* A command is executed when its datagram is New; the server's event      *)
(* queue is bounded, and when it is full the command is dropped instead.   *)
Execute(s) ==
    IF kind[s] = "command" /\ IsNew(s)
    THEN \/ /\ executed' = executed \cup {s}
            /\ repeated' = repeated \cup ({s} \cap executed)
         \/ ToServer /\ UNCHANGED <<executed, repeated>>
    ELSE UNCHANGED <<executed, repeated>>

(* ack_info: the mark, and bit rel & 31 for every gap at rel in 1..32.     *)
SackBits(h, g) == {n % Window : n \in {n \in 1..Window : h + n \in g}}

LatestInfo(h, g) ==  \* mutant: the latest sequence seen, not the contiguous mark (bug 167)
    [ack |-> CHOOSE n \in g \cup {h} : \A m \in g \cup {h} : m <= n, bits |-> {}]
AckInfo(h, g) == [ack |-> h, bits |-> SackBits(h, g)]

(* Every heartbeat is answered, duplicates too.  The client answers with   *)
(* its ack_info, the server (send_heartbeat_ack) with the heartbeat's own  *)
(* sequence in the ack field.                                              *)
HeartbeatReply(s) ==
    [ack |-> IF ToServer THEN s ELSE hcr', bits |-> SackBits(hcr', gaps')]

Receive(s) ==
    /\ s \in up
    /\ Track(s)
    /\ Execute(s)
    /\ IF kind[s] = "heartbeat"
       THEN /\ Cardinality(down) < MaxDown
            /\ down' = down \cup {HeartbeatReply(s)}
       ELSE UNCHANGED down
    /\ UNCHANGED <<senderVars, up>>

(* Any datagram the receiver sends carries its ack_info.                   *)
SendAck ==
    /\ Cardinality(down) < MaxDown
    /\ down' = down \cup {AckInfo(hcr, gaps)}
    /\ UNCHANGED <<senderVars, receiverVars, up>>

-----------------------------------------------------------------------------
(* The network.                                                            *)

LoseUp == \E s \in up : up' = up \ {s} /\ UNCHANGED <<senderVars, receiverVars, down>>
LoseDown == \E d \in down : down' = down \ {d} /\ UNCHANGED <<senderVars, receiverVars, up>>

Next ==
    \/ SendLedgered
    \/ SendUnledgered
    \/ Retransmit
    \/ \E d \in down : ReceiveAck(d)
    \/ \E s \in up : Receive(s)
    \/ SendAck
    \/ LoseUp
    \/ LoseDown

(* A pass runs every round of the send loop (about 30 per second) and an   *)
(* entry comes due 250 ms after it was last touched, so every entry left   *)
(* in the ledger is served again and again.                                *)
Fairness ==
    \A s \in Seqs : WF_vars(\E due \in SUBSET ledger : s \in Served(due) /\ RetransmitPass(due))

Spec == Init /\ [][Next]_vars
FairSpec == Spec /\ Fairness

-----------------------------------------------------------------------------
(* Properties.                                                             *)

(* The contiguous mark and the gap set never claim a reliable datagram     *)
(* that did not arrive: "<= hcr really means delivered" (connection.rs     *)
(* 1088), whatever was lost, duplicated or reordered on the way.           *)
MarkSound == 1..hcr \subseteq received /\ gaps \subseteq received

(* track_received_reliable is the duplicate gate of the retransmit layer:  *)
(* a command is executed twice only if its gap was forgotten in between.   *)
AtMostOnce == repeated \subseteq forgotten

(* Reliable and unreliable traffic share one numbering (next_sequence) and *)
(* the mark only moves over reliable numbers, so it never gets past the    *)
(* first unreliable one: from there on acks live in the SACK window alone. *)
MarkStopsAtUnreliable == \A s \in Seqs : kind[s] = "state" => hcr < s

(* What may be read off the mark, both ways: all below it arrived, and it  *)
(* says nothing of what follows an unreliable datagram.                    *)
MarkIsTruthful == MarkSound /\ MarkStopsAtUnreliable

(* An ack header in flight describes datagrams that arrived: everything up *)
(* to the ack, and ack + n for each bit n of the window (bit 0 is n = 32). *)
(* Not so for a server's HeartbeatAck, which is not an ack_info.           *)
HeadersSound ==
    \A d \in down :
        /\ 1..d.ack \subseteq received
        /\ \A n \in 1..Window : n % Window \in d.bits => d.ack + n \in received

(* An entry that handle_ack retires was delivered, if its sequence is      *)
(* inside the window of the ack that retires it.                           *)
RetireOnlyDelivered ==
    [][\A s \in Seqs : fate[s] = "pending" /\ fate'[s] = "acked"
          => s \in received \/ s > remoteAck' + Window]_vars

(* The same without the window: what channel.rs and connection.rs say an   *)
(* ack means ("until the peer confirms delivery").                         *)
AckedMeansDelivered == \A s \in Seqs : fate[s] = "acked" => s \in received

(* Every entry leaves the ledger, acked or given up, whatever the network  *)
(* does: the retry budget bounds a retransmit storm.                       *)
LedgerDrains == \A s \in Seqs : fate[s] = "pending" ~> fate[s] # "pending"

-----------------------------------------------------------------------------
(* Refinement: the contract of CommandDelivery, read off the link's state. *)

commandsIssued == {s \in Seqs : kind[s] = "command"}
commandRuns == [s \in Seqs |-> IF s \in repeated THEN 2 ELSE IF s \in executed THEN 1 ELSE 0]
commandsClosed == {s \in commandsIssued : fate[s] \notin {"none", "pending"}}

Delivery == INSTANCE CommandDelivery WITH
    Commands <- Seqs, issued <- commandsIssued, runs <- commandRuns, closed <- commandsClosed

(* In a session too short for a gap to be forgotten, the link implements   *)
(* the at-most-once contract.                                              *)
ImplementsDelivery == Delivery!Spec
=============================================================================
