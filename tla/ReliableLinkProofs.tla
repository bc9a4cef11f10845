------------------------- MODULE ReliableLinkProofs -------------------------
(***************************************************************************)
(* What holds of ReliableLink for every window, cap, budget and bound.     *)
(***************************************************************************)
EXTENDS ReliableLink, FiniteSetTheorems, TLAPS

(* Only reliable datagrams that were numbered are received.                *)
ReceivedKinds == \A s \in received : s <= nextSeq /\ kind[s] \in Reliable

(* Nothing beyond the counter has been given a kind, or is in flight.      *)
Numbered ==
    /\ \A s \in Seqs : s > nextSeq => kind[s] = "none"
    /\ \A s \in up : s <= nextSeq

(* So have only numbered datagrams an entry in the ledger's books.         *)
EntriesNumbered == \A s \in Seqs : fate[s] # "none" => s <= nextSeq

(* What the duplicate gate remembers: an executed command is covered by    *)
(* the mark, or sits in the gap set, or was forgotten.                     *)
ExecutedRemembered == \A s \in executed : s <= hcr \/ s \in gaps \/ s \in forgotten

IInv ==
    /\ TypeOK
    /\ MarkSound
    /\ ReceivedKinds
    /\ Numbered
    /\ EntriesNumbered
    /\ ExecutedRemembered
    /\ AtMostOnce

-----------------------------------------------------------------------------
(* The remainder by Window is a bijection from 1..Window to the bits.      *)
LEMMA WindowMod ==
    ASSUME NEW n \in 1..Window, NEW m \in 1..Window, n % Window = m % Window
    PROVE  n = m
<1>1. Window \in Nat \ {0}
  BY LinkAssumption
<1>2. \A k \in 0..(Window - 1) : k % Window = k
  BY <1>1, SMT
<1>3. Window % Window = 0
  BY <1>1, SMT
<1>4. QED
  BY <1>1, <1>2, <1>3, SMT

(* A sequence inside the window of an ack has a position in it.            *)
LEMMA InWindow ==
    ASSUME NEW a \in Nat, NEW w \in Nat, NEW s \in Nat, s > a, s <= a + w
    PROVE  \E n \in 1..w : n = s - a /\ s = a + n
<1> DEFINE n == s - a
<1>1. n \in 1..w /\ s = a + n
  OBVIOUS
<1>2. QED
  BY <1>1

(* The SACK bits of a header fit the bitfield.                             *)
LEMMA SackBitsType ==
    ASSUME NEW h, NEW g
    PROVE  SackBits(h, g) \subseteq 0..(Window - 1)
<1>1. Window \in Nat \ {0}
  BY LinkAssumption
<1>2. \A n \in 1..Window : n % Window \in 0..(Window - 1)
  BY <1>1, SMT
<1>3. QED
  BY <1>2 DEF SackBits

-----------------------------------------------------------------------------
LEMMA InitIInv == Init => IInv
BY LinkAssumption DEF Init, IInv, TypeOK, MarkSound, ReceivedKinds, Numbered, EntriesNumbered,
   ExecutedRemembered, AtMostOnce, Seqs, Kinds, Fates

(* Numbering a datagram keeps the facts about the counter and the kinds.   *)
LEMMA NumberStep ==
    ASSUME IInv, NEW k \in Kinds, Number(k), UNCHANGED receiverVars
    PROVE  /\ nextSeq' \in 0..MaxSeq /\ kind' \in [Seqs -> Kinds] /\ up' \subseteq Seqs
           /\ MarkSound' /\ ReceivedKinds' /\ Numbered' /\ ExecutedRemembered' /\ AtMostOnce'
<1> USE DEF IInv, TypeOK, Number, Seqs
<1>1. MaxSeq \in Nat /\ nextSeq + 1 \in Seqs /\ nextSeq' = nextSeq + 1
  BY LinkAssumption
<1>2. nextSeq' \in 0..MaxSeq /\ kind' \in [Seqs -> Kinds] /\ up' \subseteq Seqs
  BY <1>1
<1>3. UNCHANGED <<hcr, gaps, received, executed, repeated, forgotten>>
  BY DEF receiverVars
<1>4. MarkSound' /\ ExecutedRemembered' /\ AtMostOnce'
  BY <1>3 DEF MarkSound, ExecutedRemembered, AtMostOnce
<1>5. ReceivedKinds'
  BY <1>1, <1>3 DEF ReceivedKinds
<1>6. Numbered'
  BY <1>1 DEF Numbered
<1>7. QED
  BY <1>2, <1>4, <1>5, <1>6

(* A step of the sender or the network that only touches the ledger, the   *)
(* stored ack or the headers leaves the receiver's facts alone.            *)
LEMMA ReceiverUntouched ==
    ASSUME IInv, UNCHANGED <<nextSeq, kind, receiverVars>>,
           up' \subseteq Seqs, \A s \in up' : s <= nextSeq
    PROVE  MarkSound' /\ ReceivedKinds' /\ Numbered' /\ ExecutedRemembered' /\ AtMostOnce'
BY DEF IInv, MarkSound, ReceivedKinds, Numbered, ExecutedRemembered, AtMostOnce, receiverVars

(* Receiving: the mark advances over received datagrams only, and a        *)
(* command that is executed again had been forgotten.                      *)
LEMMA ReceiveStep ==
    ASSUME IInv, NEW s \in up, Receive(s)
    PROVE  /\ hcr' \in 0..MaxSeq /\ gaps' \subseteq Seqs
           /\ received' \subseteq Seqs /\ executed' \subseteq Seqs
           /\ repeated' \subseteq Seqs /\ forgotten' \subseteq Seqs
           /\ hcr <= hcr' /\ received \subseteq received'
           /\ MarkSound' /\ ReceivedKinds' /\ Numbered' /\ ExecutedRemembered' /\ AtMostOnce'
<1> USE DEF IInv, TypeOK, Seqs
<1>1. /\ MaxSeq \in Nat /\ s \in Seqs /\ s <= nextSeq
      /\ UNCHANGED <<nextSeq, kind, fate, retries, remoteAck, remoteBits, up>>
  BY LinkAssumption DEF Receive, senderVars, Numbered
<1>2. CASE kind[s] \in Reliable /\ IsNew(s)
  <2>1. PICK k \in hcr..MaxSeq :
           LET left == (gaps \cup {s}) \ (1..k)
           IN  /\ AdvanceTo(k, gaps \cup {s})
               /\ gaps' = left \ Excess(left)
               /\ forgotten' = forgotten \cup Excess(left)
               /\ received' = received \cup {s}
    BY <1>2 DEF Receive, Track
  <2> DEFINE left == (gaps \cup {s}) \ (1..k)
  <2>2. /\ hcr' = k /\ k \in hcr..MaxSeq /\ (hcr + 1)..k \subseteq gaps \cup {s}
        /\ gaps' = left \ Excess(left)
        /\ forgotten' = forgotten \cup Excess(left)
        /\ received' = received \cup {s}
    BY <2>1 DEF AdvanceTo
  <2>3. Excess(left) \subseteq left
    BY DEF Excess, Newest
  <2>4. s \notin executed \/ s \in forgotten
    BY <1>1, <1>2 DEF IsNew, ExecutedRemembered
  <2>5. executed' \subseteq executed \cup {s} /\ repeated' \subseteq repeated \cup ({s} \cap executed)
    BY DEF Receive, Execute
  <2> HIDE DEF left
  <2>6. left \subseteq gaps \cup {s} /\ \A t \in gaps \cup {s} : t \in 1..k \/ t \in left
    BY DEF left
  <2>7. /\ hcr' \in 0..MaxSeq /\ hcr <= hcr'
        /\ gaps' \subseteq Seqs /\ forgotten' \subseteq Seqs
        /\ received' \subseteq Seqs /\ received \subseteq received'
        /\ executed' \subseteq Seqs /\ repeated' \subseteq Seqs
    <3>1. hcr' \in 0..MaxSeq /\ hcr <= hcr'
      BY <1>1, <2>2
    <3>2. gaps' \subseteq Seqs /\ forgotten' \subseteq Seqs
      BY <1>1, <2>2, <2>3, <2>6
    <3>3. QED
      BY <1>1, <2>2, <2>5, <3>1, <3>2
  <2>8. MarkSound'
    <3>1. gaps' \subseteq received'
      BY <2>2, <2>6 DEF MarkSound
    <3>2. ASSUME NEW n \in 1..k PROVE n \in received'
      <4>1. n \in 1..hcr \/ n \in (hcr + 1)..k
        BY <2>2
      <4>2. QED
        BY <4>1, <2>2 DEF MarkSound
    <3>3. QED
      BY <3>1, <3>2, <2>2 DEF MarkSound
  <2>9. ReceivedKinds' /\ Numbered'
    BY <1>1, <1>2, <2>2 DEF ReceivedKinds, Numbered
  <2>10. ExecutedRemembered'
    <3>1. ASSUME NEW t \in executed' PROVE t \in 1..k \/ t \in gaps' \/ t \in forgotten'
      BY <1>1, <2>2, <2>5, <2>6 DEF ExecutedRemembered
    <3>2. QED
      BY <3>1, <2>2 DEF ExecutedRemembered
  <2>11. AtMostOnce'
    BY <2>2, <2>4, <2>5 DEF AtMostOnce
  <2>12. QED
    BY <2>7, <2>8, <2>9, <2>10, <2>11
<1>3. CASE ~(kind[s] \in Reliable /\ IsNew(s))
  <2>1. UNCHANGED <<hcr, gaps, received, executed, repeated, forgotten>>
    BY <1>3 DEF Receive, Track, Execute, Reliable, Ledgered
  <2>2. QED
    BY <1>1, <2>1 DEF MarkSound, ReceivedKinds, Numbered, ExecutedRemembered, AtMostOnce
<1>4. QED
  BY <1>2, <1>3

-----------------------------------------------------------------------------
(* The invariant is inductive: one step per action.                        *)
LEMMA NextIInv == IInv /\ [Next]_vars => IInv'
<1> SUFFICES ASSUME IInv, [Next]_vars PROVE IInv'
  OBVIOUS
<1> USE DEF IInv
<1>0. MaxSeq \in Nat /\ Window \in Nat \ {0} /\ MaxRetries \in Nat
  BY LinkAssumption
<1>1. CASE SendLedgered
  <2>1. PICK k \in Ledgered : Number(k) /\ fate' = Registered(fate, nextSeq + 1)
                              /\ UNCHANGED <<retries, remoteAck, remoteBits, receiverVars, down>>
    BY <1>1 DEF SendLedgered
  <2>2. fate' \in [Seqs -> Fates]
    BY <2>1 DEF Registered, TypeOK, Fates
  <2>3. EntriesNumbered'
    BY <1>0, <2>1 DEF EntriesNumbered, Registered, Oldest, ledger, Number, TypeOK, Seqs
  <2>4. QED
    BY <2>1, <2>2, <2>3, NumberStep DEF TypeOK, receiverVars, Ledgered, Kinds
<1>2. CASE SendUnledgered
  <2>1. PICK k \in Kinds : Number(k)
                           /\ UNCHANGED <<fate, retries, remoteAck, remoteBits, receiverVars, down>>
    BY <1>2, LinkAssumption DEF SendUnledgered, Kinds
  <2>2. EntriesNumbered'
    BY <1>0, <2>1 DEF EntriesNumbered, Number, TypeOK, Seqs
  <2>3. QED
    BY <2>1, <2>2, NumberStep DEF TypeOK, receiverVars
<1>3. CASE Retransmit
  <2>1. PICK due \in SUBSET ledger : RetransmitPass(due)
    BY <1>3 DEF Retransmit
  <2> DEFINE resent == {s \in Served(due) : retries[s] < MaxRetries}
             spent == Served(due) \ resent
  <2>2. /\ fate' = [s \in Seqs |-> IF s \in spent THEN "lost" ELSE fate[s]]
        /\ retries' = [s \in Seqs |-> IF s \in resent THEN retries[s] + 1 ELSE retries[s]]
        /\ up' = up \cup resent
        /\ UNCHANGED <<nextSeq, kind, remoteAck, remoteBits, receiverVars, down>>
    BY <2>1 DEF RetransmitPass
  <2>3. resent \subseteq ledger
    BY DEF Served
  <2>4. \A s \in resent : s \in Seqs /\ s <= nextSeq
    BY <2>3 DEF ledger, EntriesNumbered
  <2>5. fate' \in [Seqs -> Fates]
    BY <2>2 DEF TypeOK, Fates
  <2>6. retries' \in [Seqs -> 0..MaxRetries]
    BY <1>0, <2>2 DEF TypeOK
  <2> HIDE DEF resent, spent
  <2>7. EntriesNumbered'
    BY <2>2, <2>3 DEF EntriesNumbered, spent, Served, ledger, TypeOK
  <2>8. QED
    BY <2>2, <2>4, <2>5, <2>6, <2>7, ReceiverUntouched DEF TypeOK, Numbered, receiverVars
<1>4. ASSUME NEW d \in down, ReceiveAck(d) PROVE IInv'
  <2>1. /\ remoteAck' \in 0..MaxSeq /\ remoteBits' \subseteq 0..(Window - 1)
        /\ UNCHANGED <<nextSeq, kind, retries, receiverVars, up, down>>
    BY <1>4 DEF ReceiveAck, TypeOK, Header
  <2>2. fate' \in [Seqs -> Fates] /\ EntriesNumbered'
    BY <1>4 DEF ReceiveAck, ledger, TypeOK, Fates, EntriesNumbered
  <2>3. QED
    BY <2>1, <2>2, ReceiverUntouched DEF TypeOK, Numbered, receiverVars
<1>5. ASSUME NEW s \in up, Receive(s) PROVE IInv'
  <2>1. down' \subseteq Header
    <3>1. CASE kind[s] = "heartbeat"
      <4>1. s \in 0..MaxSeq
        BY <1>0, <1>5 DEF TypeOK, Seqs
      <4>0. hcr' \in 0..MaxSeq
        BY <1>5, ReceiveStep
      <4>2. HeartbeatReply(s) \in Header
        BY <4>0, <4>1, SackBitsType, LinkAssumption DEF HeartbeatReply, Header
      <4>3. QED
        BY <3>1, <4>2, <1>5 DEF Receive, TypeOK
    <3>2. CASE kind[s] # "heartbeat"
      BY <3>2, <1>5 DEF Receive, TypeOK
    <3>3. QED
      BY <3>1, <3>2
  <2>2. UNCHANGED <<nextSeq, kind, fate, retries, remoteAck, remoteBits, up>>
    BY <1>5 DEF Receive, senderVars
  <2>3. QED
    BY <1>5, <2>1, <2>2, ReceiveStep DEF TypeOK, EntriesNumbered
<1>6. CASE SendAck
  <2>1. AckInfo(hcr, gaps) \in Header
    BY SackBitsType DEF AckInfo, Header, TypeOK
  <2>2. /\ UNCHANGED <<nextSeq, kind, fate, retries, remoteAck, remoteBits, receiverVars, up>>
        /\ down' \subseteq Header
    BY <1>6, <2>1 DEF SendAck, senderVars, TypeOK
  <2>3. QED
    BY <2>2, ReceiverUntouched DEF TypeOK, EntriesNumbered, Numbered, receiverVars
<1>7. CASE LoseUp
  <2>1. /\ UNCHANGED <<nextSeq, kind, fate, retries, remoteAck, remoteBits, receiverVars, down>>
        /\ up' \subseteq up
    BY <1>7 DEF LoseUp, senderVars
  <2>2. QED
    BY <2>1, ReceiverUntouched DEF TypeOK, EntriesNumbered, Numbered, receiverVars
<1>8. CASE LoseDown
  <2>1. /\ UNCHANGED <<nextSeq, kind, fate, retries, remoteAck, remoteBits, receiverVars, up>>
        /\ down' \subseteq down
    BY <1>8 DEF LoseDown, senderVars
  <2>2. QED
    BY <2>1, ReceiverUntouched DEF TypeOK, EntriesNumbered, Numbered, receiverVars
<1>9. CASE UNCHANGED vars
  BY <1>9, ReceiverUntouched
     DEF vars, senderVars, receiverVars, TypeOK, EntriesNumbered, Numbered
<1>10. QED
  BY <1>1, <1>2, <1>3, <1>4, <1>5, <1>6, <1>7, <1>8, <1>9 DEF Next

-----------------------------------------------------------------------------
THEOREM Invariance == Spec => []IInv
<1>1. Init => IInv
  BY InitIInv
<1>2. IInv /\ [Next]_vars => IInv'
  BY NextIInv
<1>3. QED
  BY <1>1, <1>2, PTL DEF Spec

(* Type correctness of the link.                                           *)
THEOREM TypeCorrect == Spec => []TypeOK
<1>1. IInv => TypeOK
  BY DEF IInv
<1>2. QED
  BY <1>1, Invariance, PTL

(* "<= hcr really means delivered" (connection.rs 1088), for every    *)
(* loss, duplication and reordering and every size of the gap set.         *)
THEOREM MarkIsSound == Spec => []MarkSound
<1>1. IInv => MarkSound
  BY DEF IInv
<1>2. QED
  BY <1>1, Invariance, PTL

(* Retransmits execute a command at most once, forgotten gaps apart.       *)
THEOREM CommandsRunAtMostOnce == Spec => []AtMostOnce
<1>1. IInv => AtMostOnce
  BY DEF IInv
<1>2. QED
  BY <1>1, Invariance, PTL

(* The shared numbering: no mark ever passes an unreliable datagram.       *)
THEOREM MarkStalls == Spec => []MarkStopsAtUnreliable
<1>1. IInv => MarkStopsAtUnreliable
  <2>1. SUFFICES ASSUME IInv, NEW s \in Seqs, kind[s] = "state" PROVE hcr < s
    BY DEF MarkStopsAtUnreliable
  <2>2. s \notin received
    BY <2>1 DEF IInv, ReceivedKinds, Reliable, Ledgered
  <2>3. MaxSeq \in Nat
    BY LinkAssumption
  <2>4. QED
    BY <2>1, <2>2, <2>3 DEF IInv, MarkSound, TypeOK, Seqs
<1>2. QED
  BY <1>1, Invariance, PTL

(* Both together: below the mark everything arrived and nothing was        *)
(* unreliable (track_received_reliable).                                   *)
THEOREM MarkTruthful == Spec => []MarkIsTruthful
<1>1. MarkSound /\ MarkStopsAtUnreliable => MarkIsTruthful
  BY DEF MarkIsTruthful
<1>2. QED
  BY <1>1, MarkIsSound, MarkStalls, PTL

-----------------------------------------------------------------------------
(* Headers: with a receiver that answers heartbeats with its ack_info (the *)
(* client), every header in flight describes delivered datagrams.          *)
HeadersInv == ~ToServer => HeadersSound

LEMMA AckInfoSound ==
    ASSUME IInv, NEW n \in 1..Window, n % Window \in SackBits(hcr, gaps)
    PROVE  hcr + n \in received
<1>1. PICK m \in 1..Window : hcr + m \in gaps /\ n % Window = m % Window
  BY DEF SackBits
<1>2. n = m
  BY <1>1, WindowMod
<1>3. QED
  BY <1>1, <1>2 DEF IInv, MarkSound

LEMMA HeadersKept ==
    ASSUME HeadersSound, received \subseteq received', NEW d \in down
    PROVE  /\ 1..d.ack \subseteq received'
           /\ \A n \in 1..Window : n % Window \in d.bits => d.ack + n \in received'
BY DEF HeadersSound

LEMMA NextHeaders == IInv /\ HeadersInv /\ [Next]_vars => HeadersInv'
<1> SUFFICES ASSUME IInv, HeadersInv, [Next]_vars, ~ToServer PROVE HeadersSound'
  BY DEF HeadersInv
<1>1. HeadersSound
  BY DEF HeadersInv
<1>2. IInv'
  BY NextIInv
<1>3. CASE SendAck
  <2>1. received' = received /\ down' = down \cup {AckInfo(hcr, gaps)}
    BY <1>3 DEF SendAck, receiverVars
  <2>2. 1..hcr \subseteq received
    BY DEF IInv, MarkSound
  <2>3. QED
    BY <1>1, <2>1, <2>2, AckInfoSound, HeadersKept DEF HeadersSound, AckInfo
<1>4. ASSUME NEW s \in up, Receive(s) PROVE HeadersSound'
  <2>1. received \subseteq received'
    BY <1>4, ReceiveStep
  <2>2. down' \subseteq down \cup {[ack |-> hcr', bits |-> SackBits(hcr', gaps')]}
    BY <1>4 DEF Receive, HeartbeatReply
  <2>3. 1..hcr' \subseteq received'
    BY <1>2 DEF IInv, MarkSound
  <2>4. ASSUME NEW n \in 1..Window, n % Window \in SackBits(hcr', gaps')
        PROVE  hcr' + n \in received'
    <3>1. PICK m \in 1..Window : hcr' + m \in gaps' /\ n % Window = m % Window
      BY <2>4 DEF SackBits
    <3>2. n = m
      BY <3>1, WindowMod
    <3>3. QED
      BY <1>2, <3>1, <3>2 DEF IInv, MarkSound
  <2>5. QED
    BY <1>1, <2>1, <2>2, <2>3, <2>4, HeadersKept DEF HeadersSound
<1>5. CASE SendLedgered \/ SendUnledgered \/ Retransmit \/ LoseUp \/ LoseDown \/ UNCHANGED vars
  <2>1. received' = received /\ down' \subseteq down
    BY <1>5 DEF SendLedgered, SendUnledgered, Retransmit, RetransmitPass, LoseUp, LoseDown,
                vars, receiverVars
  <2>2. QED
    BY <1>1, <2>1, HeadersKept DEF HeadersSound
<1>6. ASSUME NEW d \in down, ReceiveAck(d) PROVE HeadersSound'
  <2>1. received' = received /\ down' = down
    BY <1>6 DEF ReceiveAck, receiverVars
  <2>2. QED
    BY <1>1, <2>1, HeadersKept DEF HeadersSound
<1>7. QED
  BY <1>3, <1>4, <1>5, <1>6 DEF Next

(* ack_info is truthful, bit for bit, for every window size: the modulus   *)
(* in the bit layout never makes a header claim an undelivered datagram    *)
(* inside the window.                                                      *)
THEOREM HeadersAreSound ==
    ASSUME ~ToServer
    PROVE  Spec => []HeadersSound
<1>1. Init => HeadersInv
  BY DEF Init, HeadersInv, HeadersSound
<1>2. IInv /\ HeadersInv /\ [Next]_vars => HeadersInv'
  BY NextHeaders
<1>3. HeadersInv => HeadersSound
  BY DEF HeadersInv
<1>4. QED
  BY <1>1, <1>2, <1>3, Invariance, PTL DEF Spec

-----------------------------------------------------------------------------
(* The pair the sender stored is one it received, so it is sound too, and  *)
(* handle_ack retires with it only what was delivered, up to the window.   *)
StoredSound ==
    /\ 1..remoteAck \subseteq received
    /\ \A n \in 1..Window : n % Window \in remoteBits => remoteAck + n \in received

LEMMA StoredStep ==
    ASSUME IInv, HeadersSound, StoredSound, [Next]_vars
    PROVE  StoredSound' /\ received \subseteq received'
<1>1. ASSUME NEW d \in down, ReceiveAck(d) PROVE StoredSound' /\ received \subseteq received'
  <2>1. /\ received' = received
        /\ \/ remoteAck' = d.ack /\ remoteBits' = d.bits
           \/ remoteAck' = remoteAck /\ remoteBits' = remoteBits
    BY <1>1 DEF ReceiveAck, receiverVars
  <2>2. QED
    BY <2>1 DEF StoredSound, HeadersSound
<1>2. ASSUME NEW s \in up, Receive(s) PROVE StoredSound' /\ received \subseteq received'
  <2>1. received \subseteq received' /\ UNCHANGED <<remoteAck, remoteBits>>
    BY <1>2, ReceiveStep DEF Receive, senderVars
  <2>2. QED
    BY <2>1 DEF StoredSound
<1>3. CASE SendLedgered \/ SendUnledgered \/ Retransmit \/ SendAck \/ LoseUp \/ LoseDown
           \/ UNCHANGED vars
  <2>1. UNCHANGED <<received, remoteAck, remoteBits>>
    BY <1>3 DEF SendLedgered, SendUnledgered, Retransmit, RetransmitPass, SendAck, LoseUp, LoseDown,
                vars, senderVars, receiverVars
  <2>2. QED
    BY <2>1 DEF StoredSound
<1>4. QED
  BY <1>1, <1>2, <1>3 DEF Next

RetireStep ==
    \A s \in Seqs : fate[s] = "pending" /\ fate'[s] = "acked"
        => s \in received \/ s > remoteAck' + Window

LEMMA RetireLemma ==
    ASSUME IInv, HeadersSound, StoredSound, [Next]_vars
    PROVE  [RetireStep]_vars
<1>1. SUFFICES ASSUME NEW s \in Seqs, fate[s] = "pending", fate'[s] = "acked",
                      s <= remoteAck' + Window
               PROVE  s \in received
  <2>0. IInv'
    BY NextIInv
  <2>1. remoteAck' \in Nat /\ Window \in Nat
    BY <2>0, LinkAssumption DEF IInv, TypeOK
  <2>2. \A t \in Seqs : t \in Nat
    BY LinkAssumption DEF Seqs
  <2>3. QED
    BY <2>1, <2>2 DEF RetireStep
<1>2. ASSUME NEW d \in down, ReceiveAck(d) PROVE s \in received
  <2>1. Covered(s, remoteAck', remoteBits') /\ received' = received
    BY <1>1, <1>2 DEF ReceiveAck, receiverVars, IInv, TypeOK
  <2>2. StoredSound' /\ IInv'
    BY StoredStep, NextIInv
  <2>3. CASE s <= remoteAck'
    BY <2>1, <2>2, <2>3 DEF StoredSound, IInv, TypeOK, Seqs
  <2>4. CASE s > remoteAck' /\ (s - remoteAck') % Window \in remoteBits'
    <3>1. PICK n \in 1..Window : n = s - remoteAck' /\ s = remoteAck' + n
      <4>1. s \in Nat /\ remoteAck' \in Nat /\ Window \in Nat
        BY <2>2, LinkAssumption DEF IInv, TypeOK, Seqs
      <4>0. s > remoteAck' /\ s <= remoteAck' + Window
        BY <2>4, <1>1
      <4>2. QED
        BY <4>0, <4>1, InWindow
    <3>2. QED
      BY <2>1, <2>2, <2>4, <3>1 DEF StoredSound
  <2>5. QED
    <3>1. s \in Nat /\ remoteAck' \in Nat
      BY <2>2, LinkAssumption DEF IInv, TypeOK, Seqs
    <3>2. QED
      BY <2>1, <2>3, <2>4, <3>1 DEF Covered
<1>3. CASE SendLedgered
  BY <1>1, <1>3 DEF SendLedgered, Registered, Seqs
<1>4. CASE Retransmit
  BY <1>1, <1>4 DEF Retransmit, RetransmitPass
<1>5. ASSUME NEW r \in up, Receive(r) PROVE s \in received
  BY <1>1, <1>5 DEF Receive, senderVars
<1>6. CASE SendUnledgered \/ SendAck \/ LoseUp \/ LoseDown \/ UNCHANGED vars
  BY <1>1, <1>6 DEF SendUnledgered, SendAck, LoseUp, LoseDown, vars, senderVars
<1>7. QED
  BY <1>2, <1>3, <1>4, <1>5, <1>6 DEF Next

(* An ack retires a delivered datagram, or one beyond its window: the one  *)
(* way left to lose an undelivered command is the missing bound in         *)
(* handle_ack.                                                             *)
THEOREM AcksRetireDelivered ==
    ASSUME ~ToServer
    PROVE  Spec => RetireOnlyDelivered
<1>1. Init => StoredSound
  BY DEF Init, StoredSound
<1>2. IInv /\ HeadersSound /\ StoredSound /\ [Next]_vars => StoredSound'
  BY StoredStep
<1>3. IInv /\ HeadersSound /\ StoredSound /\ [Next]_vars => [RetireStep]_vars
  BY RetireLemma
<1>4. Spec => [][RetireStep]_vars
  BY <1>1, <1>2, <1>3, Invariance, HeadersAreSound, PTL DEF Spec
<1>5. QED
  BY <1>4 DEF RetireOnlyDelivered, RetireStep

-----------------------------------------------------------------------------
(* The at-most-once contract, for a session shorter than the gap set.      *)

NoneForgotten == forgotten = {}

LEMMA NothingForgotten ==
    ASSUME GapCap >= MaxSeq, IInv, NoneForgotten, [Next]_vars
    PROVE  NoneForgotten'
<1> USE DEF NoneForgotten
<1>1. ASSUME NEW s \in up, Receive(s) PROVE forgotten' = {}
  <2>1. ASSUME NEW g \in SUBSET Seqs PROVE Excess(g) = {}
    <3>0. MaxSeq \in Nat \ {0}
      BY LinkAssumption
    <3>1. IsFiniteSet(Seqs) /\ Cardinality(Seqs) = MaxSeq
      BY <3>0, FS_Interval DEF Seqs
    <3>2. Cardinality(g) <= MaxSeq /\ Cardinality(g) \in Nat
      BY <3>1, FS_Subset, FS_CardinalityType
    <3>3. ~(Cardinality(g) > GapCap)
      BY <3>2, LinkAssumption
    <3>4. QED
      BY <3>3 DEF Excess
  <2>2. \A k : (gaps \cup {s}) \ (1..k) \in SUBSET Seqs
    BY DEF IInv, TypeOK
  <2>3. QED
    BY <1>1, <2>1, <2>2 DEF Receive, Track
<1>2. ASSUME NEW d \in down, ReceiveAck(d) PROVE forgotten' = {}
  BY <1>2 DEF ReceiveAck, receiverVars
<1>3. QED
  BY <1>1, <1>2 DEF Next, SendLedgered, SendUnledgered, Retransmit, RetransmitPass, SendAck,
     LoseUp, LoseDown, vars, receiverVars

(* A step that leaves the kinds and the receiver alone, and reopens no     *)
(* entry, closes some commands or stutters.                                *)
LEMMA ClosingStep ==
    ASSUME UNCHANGED <<kind, executed, repeated>>,
           \A s \in Seqs : fate[s] \notin {"none", "pending"} => fate'[s] = fate[s]
    PROVE  [Delivery!Next]_(Delivery!vars)
<1>1. UNCHANGED <<commandsIssued, commandRuns>>
  BY DEF commandsIssued, commandRuns
<1>2. Delivery!Close(commandsClosed' \ commandsClosed)
  BY <1>1 DEF Delivery!Close, commandsClosed, commandsIssued
<1>3. QED
  BY <1>1, <1>2 DEF Delivery!Next

LEMMA RefinementStep ==
    ASSUME IInv, IInv', NoneForgotten, NoneForgotten', [Next]_vars
    PROVE  [Delivery!Next]_(Delivery!vars)
<1> USE DEF Seqs
<1>0. MaxSeq \in Nat /\ nextSeq \in 0..MaxSeq /\ repeated = {} /\ repeated' = {}
  <2>1. repeated \subseteq forgotten /\ repeated' \subseteq forgotten'
    BY DEF IInv, AtMostOnce
  <2>2. QED
    BY <2>1, LinkAssumption DEF IInv, TypeOK, NoneForgotten
<1>1. CASE SendLedgered
  <2>1. PICK k \in Ledgered : Number(k) /\ fate' = Registered(fate, nextSeq + 1)
                              /\ UNCHANGED <<executed, repeated>>
    BY <1>1 DEF SendLedgered, receiverVars
  <2> DEFINE c == nextSeq + 1
  <2>2. c \in Seqs /\ kind[c] = "none" /\ fate[c] = "none"
    BY <1>0, <2>1 DEF Number, IInv, Numbered, EntriesNumbered, TypeOK, Fates
  <2>3. UNCHANGED commandRuns
    BY <2>1 DEF commandRuns
  <2>4. kind' = [kind EXCEPT ![c] = k] /\ kind \in [Seqs -> Kinds]
    BY <2>1 DEF Number, IInv, TypeOK
  <2>5. \A s \in Seqs \ {c} : /\ kind'[s] = kind[s]
                              /\ fate[s] \notin {"none", "pending"} => fate'[s] = fate[s]
    BY <2>1, <2>4 DEF Registered, ledger, Oldest
  <2>6. fate'[c] = "pending"
    BY <2>1, <2>2 DEF Registered
  <2> HIDE DEF c
  <2>10. kind'[c] = k
    BY <2>2, <2>4
  <2>7. CASE k = "command"
    <3>1. commandsIssued' = commandsIssued \cup {c} /\ c \notin commandsIssued
      BY <2>2, <2>5, <2>10, <2>7 DEF commandsIssued
    <3>2. commandsClosed \subseteq commandsClosed' /\ commandsClosed' \subseteq commandsIssued
      <4>1. \A s \in commandsIssued : s \in Seqs
        BY DEF commandsIssued
      <4>2. QED
        BY <2>2, <2>5, <2>6, <3>1, <4>1 DEF commandsClosed
    <3>3. QED
      BY <2>2, <2>3, <3>1, <3>2 DEF Delivery!Next, Delivery!Issue, Delivery!Close, commandsClosed
  <2>8. CASE k = "heartbeat"
    <3>1. commandsIssued' = commandsIssued
      BY <2>2, <2>5, <2>10, <2>8 DEF commandsIssued
    <3>2. commandsClosed \subseteq commandsClosed' /\ commandsClosed' \subseteq commandsIssued
      <4>1. \A s \in commandsIssued : s \in Seqs
        BY DEF commandsIssued
      <4>2. QED
        BY <2>2, <2>5, <3>1, <4>1 DEF commandsClosed
    <3>3. QED
      BY <2>3, <3>1, <3>2 DEF Delivery!Next, Delivery!Close
  <2>9. QED
    BY <2>1, <2>7, <2>8 DEF Ledgered
<1>2. CASE SendUnledgered
  <2>1. PICK k \in Traffic \ Ledgered : Number(k) /\ UNCHANGED <<fate, executed, repeated>>
    BY <1>2 DEF SendUnledgered, receiverVars
  <2>2. kind \in [Seqs -> Kinds] /\ kind[nextSeq + 1] = "none" /\ k # "command"
    BY <1>0, <2>1 DEF IInv, TypeOK, Number, Numbered, Ledgered
  <2>3. UNCHANGED <<commandsIssued, commandRuns>>
    BY <2>1, <2>2 DEF commandsIssued, commandRuns, Number
  <2>4. UNCHANGED commandsClosed
    BY <2>1, <2>3 DEF commandsClosed
  <2>5. QED
    BY <2>3, <2>4 DEF Delivery!vars
<1>3. CASE Retransmit
  <2>1. UNCHANGED <<kind, executed, repeated>>
    BY <1>3 DEF Retransmit, RetransmitPass, receiverVars
  <2>2. \A s \in Seqs : fate[s] \notin {"none", "pending"} => fate'[s] = fate[s]
    BY <1>3 DEF Retransmit, RetransmitPass, Served, ledger
  <2>3. QED
    BY <2>1, <2>2, ClosingStep
<1>4. ASSUME NEW d \in down, ReceiveAck(d) PROVE [Delivery!Next]_(Delivery!vars)
  <2>1. UNCHANGED <<kind, executed, repeated>>
    BY <1>4 DEF ReceiveAck, receiverVars
  <2>2. \A s \in Seqs : fate[s] \notin {"none", "pending"} => fate'[s] = fate[s]
    BY <1>4 DEF ReceiveAck, ledger
  <2>3. QED
    BY <2>1, <2>2, ClosingStep
<1>5. ASSUME NEW s \in up, Receive(s) PROVE [Delivery!Next]_(Delivery!vars)
  <2>1. UNCHANGED <<kind, fate>> /\ s \in Seqs
    BY <1>5 DEF Receive, senderVars, IInv, TypeOK
  <2>2. CASE kind[s] = "command" /\ IsNew(s) /\ executed' # executed
    <3>1. executed' = executed \cup {s} /\ repeated' = {} /\ repeated = {} /\ s \notin executed
      BY <1>0, <1>5, <2>2 DEF Receive, Execute
    <3>2. /\ UNCHANGED <<commandsIssued, commandsClosed>>
          /\ s \in commandsIssued
          /\ commandRuns[s] = 0
          /\ commandRuns' = [commandRuns EXCEPT ![s] = 1]
      BY <2>1, <2>2, <3>1 DEF commandsIssued, commandsClosed, commandRuns
    <3>3. QED
      BY <2>1, <3>2 DEF Delivery!Next, Delivery!Execute
  <2>3. CASE ~(kind[s] = "command" /\ IsNew(s) /\ executed' # executed)
    <3>1. UNCHANGED <<executed, repeated>>
      BY <1>0, <1>5, <2>3 DEF Receive, Execute
    <3>2. QED
      BY <2>1, <3>1, ClosingStep
  <2>4. QED
    BY <2>2, <2>3
<1>6. CASE SendAck \/ LoseUp \/ LoseDown \/ UNCHANGED vars
  <2>1. UNCHANGED <<kind, fate, executed, repeated>>
    BY <1>6 DEF SendAck, LoseUp, LoseDown, vars, senderVars, receiverVars
  <2>2. QED
    BY <2>1, ClosingStep
<1>7. QED
  BY <1>1, <1>2, <1>3, <1>4, <1>5, <1>6 DEF Next

(* With room for every gap, the link implements the contract that a        *)
(* command runs at most once and is given up once: what retransmits may    *)
(* never break (connection.rs 1092-1096).                                  *)
THEOREM LinkImplementsDelivery ==
    ASSUME GapCap >= MaxSeq
    PROVE  Spec => ImplementsDelivery
<1>1. Init => Delivery!Init /\ NoneForgotten
  BY DEF Init, NoneForgotten, Delivery!Init, commandsIssued, commandRuns, commandsClosed, Seqs
<1>2. GapCap >= MaxSeq
  OBVIOUS
<1>3. IInv /\ NoneForgotten /\ [Next]_vars => NoneForgotten'
  BY <1>2, NothingForgotten
<1>4. IInv /\ IInv' /\ NoneForgotten /\ NoneForgotten' /\ [Next]_vars
        => [Delivery!Next]_(Delivery!vars)
  BY RefinementStep
<1>5. Spec => Delivery!Spec
  <2>1. Spec => []NoneForgotten
    BY <1>1, <1>3, Invariance, PTL DEF Spec
  <2>2. Spec => [][Delivery!Next]_(Delivery!vars)
    BY <2>1, <1>4, Invariance, PTL DEF Spec
  <2>3. QED
    BY <1>1, <2>2, PTL DEF Spec, Delivery!Spec
<1>6. QED
  BY <1>5 DEF ImplementsDelivery
=============================================================================
