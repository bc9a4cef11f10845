--------------------------- MODULE TransportProofs ---------------------------
(***************************************************************************)
(* The proofs about the transport below the ledger: the replay window for  *)
(* every width and every sequence, the sealed traffic that keeps two such  *)
(* windows, and the assembler of fragments.                                *)
(***************************************************************************)
EXTENDS WireSeal, FragmentAssembler, FiniteSetTheorems, TLAPS

-----------------------------------------------------------------------------
(* ReplayWindow.  The inductive invariant is the type and WindowExact with *)
(* AcceptedOnce; FreshLands follows from the type and WindowExact in every *)
(* single state.                                                           *)

IInv == WindowTypeOK /\ WindowExact /\ AcceptedOnce

(* Shifting keeps the bits that still fit, at their new place.             *)
LEMMA ShiftedBit ==
    ASSUME NEW w \in [highest : Nat, seen : SUBSET (0..(Width - 1))],
           NEW s \in Nat, NEW r \in Nat, s > w.highest,
           r <= s, s - r < Width
    PROVE  (s - r) \in Shifted(w, s) <=> (r <= w.highest /\ (w.highest - r) \in w.seen)
<1>1. (s - r) \in 0..(Width - 1)
  BY WindowAssumption
<1>2. ASSUME NEW b \in w.seen PROVE b \in Nat /\ (s - r = b + (s - w.highest) <=> w.highest - r = b)
  <2>1. b \in 0..(Width - 1) /\ w.highest \in Nat
    OBVIOUS
  <2> QED BY <2>1, WindowAssumption
<1>3. ASSUME r <= w.highest, (w.highest - r) \in w.seen PROVE (s - r) \in Shifted(w, s)
  BY <1>1, <1>2, <1>3 DEF Shifted
<1>4. ASSUME (s - r) \in Shifted(w, s) PROVE r <= w.highest /\ (w.highest - r) \in w.seen
  <2>1. PICK b \in w.seen : s - r = b + (s - w.highest)
    BY <1>4 DEF Shifted
  <2>2. w.highest - r = b /\ b \in Nat /\ w.highest \in Nat
    BY <2>1, <1>2
  <2> QED BY <2>1, <2>2
<1> QED BY <1>3, <1>4

(* The mask after an accepted number: its old content and that number.     *)
LEMMA AfterBits ==
    ASSUME NEW w \in [highest : Nat, seen : SUBSET (0..(Width - 1))],
           NEW s \in Nat, Accepts(w, s)
    PROVE  /\ After(w, s) \in [highest : Nat, seen : SUBSET (0..(Width - 1))]
           /\ After(w, s).highest = IF Fresh(w, s) THEN s ELSE w.highest
           /\ \A r \in Nat :
                 r <= After(w, s).highest /\ After(w, s).highest - r < Width =>
                   ((After(w, s).highest - r) \in After(w, s).seen
                      <=> r = s \/ (r <= w.highest /\ (w.highest - r) \in w.seen))
<1>1. CASE Fresh(w, s)
  <2>1. After(w, s) = [highest |-> s, seen |-> Shifted(w, s) \cup {0}]
    BY <1>1 DEF After
  <2>2. Shifted(w, s) \cup {0} \in SUBSET (0..(Width - 1))
    BY WindowAssumption DEF Shifted
  <2>3. ASSUME NEW r \in Nat, r <= s, s - r < Width
        PROVE  (s - r) \in Shifted(w, s) \cup {0} <=> r = s \/ (r <= w.highest /\ (w.highest - r) \in w.seen)
    <3>1. (s - r) \in Shifted(w, s) <=> r <= w.highest /\ (w.highest - r) \in w.seen
      BY <1>1, <2>3, ShiftedBit DEF Fresh
    <3>2. s - r = 0 <=> r = s
      BY <2>3
    <3> QED BY <3>1, <3>2
  <2> QED BY <1>1, <2>1, <2>2, <2>3
<1>2. CASE ~Fresh(w, s)
  <2>1. After(w, s) = [w EXCEPT !.seen = @ \cup {w.highest - s}]
    BY <1>2 DEF After
  <2>2. s <= w.highest /\ (w.highest - s) \in 0..(Width - 1) /\ w.highest \in Nat
    BY <1>2, WindowAssumption DEF Accepts, Fresh, Unseen
  <2>3. ASSUME NEW r \in Nat, r <= w.highest
        PROVE  (w.highest - r) \in w.seen \cup {w.highest - s} <=> r = s \/ (w.highest - r) \in w.seen
    <3>1. w.highest - r = w.highest - s <=> r = s
      BY <2>2
    <3> QED BY <3>1
  <2> QED BY <1>2, <2>1, <2>2, <2>3
<1> QED BY <1>1, <1>2

LEMMA InitIInv == WindowInit => IInv
BY WindowAssumption DEF WindowInit, IInv, WindowTypeOK, WindowExact, AcceptedOnce, Empty, Numbers

(* An accepted number has not been accepted before.                        *)
LEMMA AcceptedIsNew ==
    ASSUME IInv, NEW s \in Numbers, Accepts(window, s)
    PROVE  copies[s] = 0
<1>1. s \in Nat /\ window.highest \in Nat /\ copies[s] \in Nat
  BY WindowAssumption DEF IInv, WindowTypeOK, Numbers
<1>2. CASE Fresh(window, s)
  BY <1>1, <1>2 DEF IInv, WindowExact, Fresh
<1>3. CASE ~Fresh(window, s)
  BY <1>1, <1>3 DEF IInv, WindowExact, Accepts, Fresh, Unseen
<1> QED BY <1>2, <1>3

LEMMA ArriveIInv ==
    ASSUME IInv, NEW s \in Numbers, Arrive(s), Accepts(window, s)
    PROVE  IInv'
<1> DEFINE w == window
           n == After(window, s)
<1>1. w \in [highest : Nat, seen : SUBSET (0..(Width - 1))] /\ s \in Nat /\ s # 0 /\ s <= sent /\ sent \in 0..MaxNumber
      /\ w.highest <= sent
  BY WindowAssumption DEF IInv, WindowTypeOK, Numbers, Arrive
<1>2. window' = n /\ copies' = [copies EXCEPT ![s] = @ + 1] /\ sent' = sent
  BY DEF Arrive
<1>3. /\ n \in [highest : Nat, seen : SUBSET (0..(Width - 1))]
      /\ n.highest = IF Fresh(w, s) THEN s ELSE w.highest
      /\ \A r \in Nat : r <= n.highest /\ n.highest - r < Width =>
            ((n.highest - r) \in n.seen <=> r = s \/ (r <= w.highest /\ (w.highest - r) \in w.seen))
  BY <1>1, AfterBits
<1>4. s <= n.highest /\ w.highest <= n.highest /\ n.highest <= sent
  BY <1>1, <1>3 DEF Fresh
<1>5. copies \in [Numbers -> Nat] /\ copies[s] = 0 /\ \A r \in Numbers : copies'[r] = IF r = s THEN 1 ELSE copies[r]
  BY <1>2, AcceptedIsNew DEF IInv, WindowTypeOK
<1>6. WindowTypeOK'
  BY <1>1, <1>2, <1>3, <1>4, <1>5 DEF IInv, WindowTypeOK
<1>7. AcceptedOnce'
  BY <1>5 DEF IInv, AcceptedOnce
<1>8. ASSUME NEW b \in n.seen PROVE b < n.highest
  <2>1. CASE Fresh(w, s)
    <3>1. b = 0 \/ \E c \in w.seen : b = c + (s - w.highest)
      BY <2>1 DEF After, Shifted
    <3>2. \A c \in w.seen : c < w.highest /\ c \in Nat
      BY <1>1 DEF IInv, WindowExact
    <3> QED BY <3>1, <3>2, <2>1, <1>1, <1>3 DEF Fresh
  <2>2. CASE ~Fresh(w, s)
    <3>1. b \in w.seen \/ b = w.highest - s
      BY <2>2, <1>1 DEF After
    <3> QED BY <3>1, <2>2, <1>1, <1>3 DEF IInv, WindowExact, Fresh
  <2> QED BY <2>1, <2>2
<1>9. ASSUME NEW r \in Numbers PROVE copies'[r] # 0 => r <= n.highest
  <2>1. copies[r] # 0 => r <= w.highest
    BY DEF IInv, WindowExact
  <2>2. r \in Nat /\ w.highest \in Nat /\ n.highest \in Nat
    BY <1>1, <1>3, WindowAssumption DEF Numbers
  <2> QED BY <1>4, <1>5, <2>1, <2>2
<1>10. ASSUME NEW r \in Numbers, r <= n.highest, n.highest - r < Width
       PROVE  (n.highest - r) \in n.seen <=> copies'[r] # 0
  <2>1. r \in Nat /\ r # 0
    BY WindowAssumption DEF Numbers
  <2>2. (n.highest - r) \in n.seen <=> r = s \/ (r <= w.highest /\ (w.highest - r) \in w.seen)
    BY <1>3, <1>10, <2>1
  <2>3. ASSUME r # s PROVE (r <= w.highest /\ (w.highest - r) \in w.seen) <=> copies[r] # 0
    <3>1. w.highest - r < Width
      BY <1>1, <1>3, <1>4, <1>10, <2>1, WindowAssumption
    <3>2. copies[r] # 0 => r <= w.highest
      BY DEF IInv, WindowExact
    <3>3. r <= w.highest => ((w.highest - r) \in w.seen <=> copies[r] # 0)
      BY <3>1 DEF IInv, WindowExact
    <3> QED BY <3>2, <3>3
  <2> QED BY <1>5, <2>2, <2>3
<1>11. WindowExact'
  BY <1>2, <1>8, <1>9, <1>10 DEF WindowExact
<1> QED BY <1>6, <1>7, <1>11 DEF IInv

LEMMA NextIInv == IInv /\ [WindowNext]_windowVars => IInv'
<1> SUFFICES ASSUME IInv, [WindowNext]_windowVars PROVE IInv'
  OBVIOUS
<1>1. CASE Send
  BY <1>1, WindowAssumption DEF Send, IInv, WindowTypeOK, WindowExact, AcceptedOnce
<1>2. ASSUME NEW s \in Numbers, Arrive(s), Accepts(window, s) PROVE IInv'
  BY <1>2, ArriveIInv
<1>3. ASSUME NEW s \in Numbers, Arrive(s), ~Accepts(window, s) PROVE IInv'
  BY <1>3 DEF Arrive, IInv, WindowTypeOK, WindowExact, AcceptedOnce
<1>4. CASE UNCHANGED windowVars
  BY <1>4 DEF windowVars, IInv, WindowTypeOK, WindowExact, AcceptedOnce
<1> QED BY <1>1, <1>2, <1>3, <1>4 DEF WindowNext

LEMMA IInvHolds == WindowSpec => []IInv
BY InitIInv, NextIInv, PTL DEF WindowSpec

(* The receiver's window and the sender's counter keep their types.        *)
THEOREM TypeCorrect == WindowSpec => []WindowTypeOK
<1>1. IInv => WindowTypeOK
  BY DEF IInv
<1> QED BY <1>1, IInvHolds, PTL

(* No datagram is applied twice, whatever the width of the window.         *)
THEOREM AppliedAtMostOnce == WindowSpec => []AcceptedOnce
<1>1. IInv => AcceptedOnce
  BY DEF IInv
<1> QED BY <1>1, IInvHolds, PTL

(* The mask is exact for every number it still covers.                     *)
THEOREM MaskIsExact == WindowSpec => []WindowExact
<1>1. IInv => WindowExact
  BY DEF IInv
<1> QED BY <1>1, IInvHolds, PTL

(* Nothing new within the window is ever refused.                          *)
THEOREM NothingFreshRefused == WindowSpec => []FreshLands
<1>1. IInv => FreshLands
  <2> SUFFICES ASSUME IInv, NEW s \in Numbers, copies[s] = 0, window.highest < s + Width
               PROVE  Accepts(window, s)
    BY DEF FreshLands
  <2>1. s \in Nat /\ s # 0 /\ window.highest \in Nat
    BY WindowAssumption DEF IInv, WindowTypeOK, Numbers
  <2>2. CASE s > window.highest
    BY <2>1, <2>2 DEF Accepts, Fresh
  <2>3. CASE s <= window.highest
    <3>1. window.highest - s < Width
      BY <2>1, <2>3, WindowAssumption
    <3>2. window.highest - s \notin window.seen
      BY <2>3, <3>1 DEF IInv, WindowExact
    <3> QED BY <2>1, <3>1, <3>2 DEF Accepts, Unseen
  <2> QED BY <2>1, <2>2, <2>3
<1> QED BY <1>1, IInvHolds, PTL

-----------------------------------------------------------------------------
(* WireSeal.  The server's window is ReplayWindow's, so its invariant is   *)
(* there already; what the processes took is told apart by their windows.  *)

UpDatagrams == [kind : {"input"}, from : Nat, seq : 1..sent]
DownDatagrams == [kind : BoundKinds \cup {"challenge", "accept"}, from : Nat, seq : Nat \ {0}]

(* A datagram that passed was counted by the server's window, or would be  *)
(* refused by the client's.                                                *)
TakenIsKnown ==
    /\ \A d \in applied : d.seq \in Nat
    /\ \A d \in applied : d.kind = "input" => d.seq \in Numbers /\ copies[d.seq] # 0
    /\ \A d \in applied : d.kind # "input" => ~Accepts(clientWindow, d.seq)

SealInv == IInv /\ SealTypeOK /\ TakenIsKnown /\ ~again

(* What a window refuses it goes on refusing, and so it does what it took. *)
LEMMA RefusedStays ==
    ASSUME NEW w \in [highest : Nat, seen : SUBSET (0..(Width - 1))],
           NEW s \in Nat, Accepts(w, s), NEW r \in Nat, r = s \/ ~Accepts(w, r)
    PROVE  ~Accepts(After(w, s), r)
<1> DEFINE n == After(w, s)
<1>1. /\ n \in [highest : Nat, seen : SUBSET (0..(Width - 1))]
      /\ n.highest = IF Fresh(w, s) THEN s ELSE w.highest
      /\ r <= n.highest /\ n.highest - r < Width =>
            ((n.highest - r) \in n.seen <=> r = s \/ (r <= w.highest /\ (w.highest - r) \in w.seen))
  BY AfterBits
<1>2. w.highest \in Nat /\ n.highest \in Nat
  BY <1>1
<1>3. s <= n.highest /\ w.highest <= n.highest
  BY <1>1, <1>2 DEF Fresh
<1>4. CASE r = s
  BY <1>1, <1>3, <1>4 DEF Accepts, Fresh, Unseen
<1>5. CASE ~Accepts(w, r) /\ r # 0
  <2>1. r <= w.highest /\ (w.highest - r < Width => (w.highest - r) \in w.seen)
    BY <1>2, <1>5 DEF Accepts, Fresh, Unseen
  <2>2. r <= n.highest
    BY <1>2, <1>3, <2>1
  <2>3. n.highest - r < Width => w.highest - r < Width
    BY <1>2, <1>3, <2>1, WindowAssumption
  <2>4. n.highest - r < Width => (n.highest - r) \in n.seen
    BY <1>1, <2>1, <2>2, <2>3
  <2> QED BY <1>2, <2>2, <2>4 DEF Accepts, Fresh, Unseen
<1>6. CASE r = 0
  BY <1>6 DEF Accepts
<1> QED BY <1>4, <1>5, <1>6

LEMMA RemovedStaysTyped ==
    ASSUME NEW S, NEW q \in Seq(S), NEW k \in DOMAIN q
    PROVE  RemoveAt(q, k) \in Seq(S)
<1>1. k \in 1..Len(q) /\ Len(q) \in Nat
  OBVIOUS
<1>2. SubSeq(q, 1, k - 1) \in Seq(S) /\ SubSeq(q, k + 1, Len(q)) \in Seq(S)
  BY <1>1
<1> QED BY <1>2 DEF RemoveAt

LEMMA WidenedStaysTyped ==
    ASSUME NEW S, NEW T, S \subseteq T, NEW q \in Seq(S)
    PROVE  q \in Seq(T)
OBVIOUS

LEMMA InitSealInv == SealInit => SealInv
<1> SUFFICES ASSUME SealInit PROVE SealInv
  OBVIOUS
<1>1. IInv
  BY InitIInv DEF SealInit
<1>2. Empty \in [highest : Nat, seen : SUBSET (0..(Width - 1))]
  BY DEF Empty
<1>3. SealTypeOK
  BY <1>2, SealAssumption DEF SealInit, WindowInit, SealTypeOK
<1> QED BY <1>1, <1>3 DEF SealInit, SealInv, TakenIsKnown

LEMMA Bounds ==
    /\ MaxInputs \in Nat /\ MaxNumber \in Nat /\ MaxInputs <= MaxNumber
    /\ MaxConnSeq \in Nat \ {0} /\ MaxUnbound \in Nat /\ MaxConns \in Nat
<1>1. MaxInputs \in Nat /\ MaxUnbound \in Nat /\ MaxConns \in Nat
  BY SealAssumption
<1>2. MaxConnSeq \in Nat \ {0}
  BY SealAssumption
<1> QED BY <1>1, <1>2, SealAssumption, WindowAssumption

(* Every step of the sealed traffic is one of the window's, or leaves it.  *)
LEMMA SealStepIsWindowStep ==
    ASSUME SealInv, [SealNext]_<<windowVars, sealVars>>
    PROVE  [WindowNext]_windowVars
<1>1. CASE ClientSend
  <2>1. CASE clientSeq = sent
    <3>1. sent < MaxNumber
      BY <1>1, <2>1, Bounds DEF ClientSend, SealInv, SealTypeOK
    <3>2. sent' = sent + 1 /\ UNCHANGED <<window, copies>>
      BY <1>1, <2>1 DEF ClientSend
    <3> QED BY <3>1, <3>2 DEF WindowNext, Send
  <2>2. CASE clientSeq # sent
    BY <1>1, <2>2 DEF ClientSend, windowVars
  <2> QED BY <2>1, <2>2
<1>2. CASE ServerReceive
  <2>1. PICK k \in Ready(sealedUp) :
           /\ IF Accepts(window, sealedUp[k].seq)
              THEN /\ window' = AfterAccept(window, sealedUp[k].seq)
                   /\ copies' = [copies EXCEPT ![sealedUp[k].seq] = @ + 1]
              ELSE UNCHANGED <<window, copies>>
           /\ UNCHANGED sent
    BY <1>2 DEF ServerReceive
  <2>2. sealedUp[k].seq \in 1..sent /\ sent \in 0..MaxInputs
    <3>1. k \in 1..Len(sealedUp)
      BY DEF Ready, SealInv, SealTypeOK
    <3>2. sealedUp \in Seq(UpDatagrams) /\ sent \in 0..MaxInputs
      BY DEF SealInv, SealTypeOK, UpDatagrams
    <3>3. sealedUp[k] \in UpDatagrams
      BY <3>1, <3>2
    <3> QED BY <3>2, <3>3 DEF UpDatagrams
  <2>3. sealedUp[k].seq \in Numbers /\ sealedUp[k].seq <= sent
    BY <2>2, Bounds DEF Numbers
  <2>4. Arrive(sealedUp[k].seq)
    BY <2>1, <2>3 DEF Arrive, AfterAccept
  <2> QED BY <2>3, <2>4 DEF WindowNext
<1>3. CASE SendUnbound \/ Admit \/ SendBound \/ ClientReceive \/ LoseSealed \/ Rebind
  BY <1>3 DEF SendUnbound, Admit, SendBound, ClientReceive, LoseSealed, Rebind, windowVars
<1>4. CASE UNCHANGED <<windowVars, sealVars>>
  BY <1>4
<1> QED BY <1>1, <1>2, <1>3, <1>4 DEF SealNext

(* The senders: a datagram joins those under way, under a new number.      *)
LEMMA SendersSealInv ==
    ASSUME SealInv, IInv', ClientSend \/ SendUnbound \/ Admit \/ SendBound
    PROVE  SealInv'
<1>1. TakenIsKnown' /\ ~again'
  BY DEF SealInv, TakenIsKnown, ClientSend, SendUnbound, Admit, SendBound, windowVars
<1>2. CASE ClientSend
  <2>1. sent' \in 0..MaxInputs /\ clientSeq' \in 0..sent' /\ sent <= sent'
    BY <1>2, SealAssumption DEF ClientSend, SealInv, SealTypeOK
  <2>2. Datagram("input", run, NextNumber(clientSeq)) \in UpDatagrams'
    BY <1>2, <2>1, SealAssumption DEF Datagram, NextNumber, UpDatagrams, ClientSend, SealInv, SealTypeOK
  <2>3. UpDatagrams \subseteq UpDatagrams'
    <3>1. sent \in Nat /\ sent' \in Nat
      BY <2>1, SealAssumption DEF SealInv, SealTypeOK
    <3>2. 1..sent \subseteq 1..sent'
      BY <2>1, <3>1
    <3> QED BY <3>2 DEF UpDatagrams
  <2>4. sealedUp \in Seq(UpDatagrams')
    BY <2>3, WidenedStaysTyped DEF SealInv, SealTypeOK, UpDatagrams
  <2>5. sealedUp' \in Seq(UpDatagrams')
    BY <1>2, <2>2, <2>4 DEF ClientSend
  <2> QED BY <1>1, <1>2, <2>1, <2>5 DEF SealInv, SealTypeOK, ClientSend, UpDatagrams
<1>3. CASE SendUnbound \/ Admit \/ SendBound
  <2>1. /\ outSeq' \in 0..MaxUnbound /\ conn' \in 0..MaxConns /\ connSeq' \in 0..MaxConnSeq
    <3>1. outSeq \in 0..MaxUnbound /\ conn \in 0..MaxConns /\ connSeq \in 0..MaxConnSeq
      BY DEF SealInv, SealTypeOK
    <3>2. \/ outSeq < MaxUnbound /\ outSeq' = outSeq + 1 /\ UNCHANGED <<conn, connSeq>>
          \/ conn < MaxConns /\ conn' = conn + 1 /\ connSeq' = 1 /\ UNCHANGED outSeq
          \/ connSeq < MaxConnSeq /\ connSeq' = connSeq + 1 /\ UNCHANGED <<outSeq, conn>>
      BY <1>3 DEF SendUnbound, Admit, SendBound
    <3> QED BY <3>1, <3>2, Bounds
  <2>2. \E d \in DownDatagrams : sealedDown' = Append(sealedDown, d)
    <3>1. CASE SendUnbound
      <4>1. Datagram("challenge", 0, outSeq + 1) \in DownDatagrams
        BY SealAssumption DEF Datagram, DownDatagrams, SealInv, SealTypeOK
      <4> QED BY <3>1, <4>1 DEF SendUnbound
    <3>2. CASE Admit
      <4>1. Datagram("accept", conn + 1, 1) \in DownDatagrams
        BY SealAssumption DEF Datagram, DownDatagrams, SealInv, SealTypeOK
      <4> QED BY <3>2, <4>1 DEF Admit
    <3>3. CASE SendBound
      <4>1. \A b \in BoundKinds : Datagram(b, conn, ConnNumber) \in DownDatagrams
        BY SealAssumption DEF Datagram, ConnNumber, DownDatagrams, SealInv, SealTypeOK
      <4> QED BY <3>3, <4>1 DEF SendBound
    <3> QED BY <1>3, <3>1, <3>2, <3>3
  <2>3. sealedDown' \in Seq(DownDatagrams)
    BY <2>2 DEF SealInv, SealTypeOK, DownDatagrams
  <2> QED BY <1>1, <1>3, <2>1, <2>3 DEF SealInv, SealTypeOK, DownDatagrams, SendUnbound, Admit, SendBound, windowVars
<1> QED BY <1>2, <1>3

(* The network's way with a direction keeps the types of what is left.     *)
LEMMA LeftIsTyped ==
    ASSUME NEW S, NEW q \in Seq(S), NEW k \in Ready(q), NEW r \in Left(q, k)
    PROVE  r \in Seq(S) /\ q[k] \in S
<1>1. k \in DOMAIN q
  BY DEF Ready
<1> QED BY <1>1, RemovedStaysTyped DEF Left

LEMMA ServerReceiveSealInv ==
    ASSUME SealInv, IInv', ServerReceive
    PROVE  SealInv'
<1>1. PICK k \in Ready(sealedUp) :
         /\ sealedUp' \in Left(sealedUp, k)
         /\ IF Accepts(window, sealedUp[k].seq)
            THEN /\ copies' = [copies EXCEPT ![sealedUp[k].seq] = @ + 1]
                 /\ Passed(sealedUp[k])
            ELSE UNCHANGED copies /\ Dropped
         /\ UNCHANGED <<ordered, counters, sent, clientWindow, sealedDown>>
  BY DEF ServerReceive
<1> DEFINE d == sealedUp[k]
<1>2. d \in UpDatagrams /\ sealedUp' \in Seq(UpDatagrams)
  <2>1. sealedUp \in Seq(UpDatagrams)
    BY DEF SealInv, SealTypeOK, UpDatagrams
  <2> QED BY <1>1, <2>1, LeftIsTyped
<1>3. d.kind = "input" /\ d.seq \in Nat /\ d.seq \in Numbers
  <2>1. d.kind = "input" /\ d.seq \in 1..sent
    BY <1>2 DEF UpDatagrams
  <2>2. sent \in 0..MaxInputs
    BY DEF SealInv, SealTypeOK
  <2> QED BY <2>1, <2>2, Bounds DEF Numbers
<1>4. SealTypeOK'
  BY <1>1, <1>2 DEF SealInv, SealTypeOK, UpDatagrams, counters
<1>5. CASE Accepts(window, d.seq)
  <2>1. applied' = applied \cup {d} /\ again' = (again \/ d \in applied)
    BY <1>1, <1>5 DEF Passed
  <2>2. copies[d.seq] = 0
    BY <1>3, <1>5, AcceptedIsNew DEF SealInv
  <2>3. d \notin applied
    BY <1>3, <2>2 DEF SealInv, TakenIsKnown
  <2>4. copies \in [Numbers -> Nat]
    BY DEF SealInv, IInv, WindowTypeOK
  <2>5. \A n \in Numbers : copies'[n] = IF n = d.seq THEN copies[n] + 1 ELSE copies[n]
    BY <1>1, <1>5, <2>4
  <2>6. \A n \in Numbers : n = d.seq \/ copies[n] # 0 => copies'[n] # 0
    BY <2>4, <2>5
  <2>7. TakenIsKnown'
    BY <1>1, <1>3, <2>1, <2>6 DEF SealInv, TakenIsKnown
  <2> QED BY <1>4, <2>1, <2>3, <2>7 DEF SealInv
<1>6. CASE ~Accepts(window, d.seq)
  BY <1>1, <1>4, <1>6 DEF SealInv, TakenIsKnown, Dropped
<1> QED BY <1>5, <1>6

LEMMA ClientReceiveSealInv ==
    ASSUME SealInv, IInv', ClientReceive
    PROVE  SealInv'
<1>1. PICK k \in Ready(sealedDown) :
         /\ sealedDown' \in Left(sealedDown, k)
         /\ IF Accepts(clientWindow, sealedDown[k].seq)
            THEN clientWindow' = After(clientWindow, sealedDown[k].seq) /\ Passed(sealedDown[k])
            ELSE UNCHANGED clientWindow /\ Dropped
         /\ UNCHANGED <<ordered, counters, windowVars, sealedUp>>
  BY DEF ClientReceive, AfterAccept
<1> DEFINE d == sealedDown[k]
<1>2. d \in DownDatagrams /\ sealedDown' \in Seq(DownDatagrams)
  <2>1. sealedDown \in Seq(DownDatagrams)
    BY DEF SealInv, SealTypeOK, DownDatagrams
  <2> QED BY <1>1, <2>1, LeftIsTyped
<1>3. d.kind # "input" /\ d.seq \in Nat
  BY <1>2, SealAssumption DEF DownDatagrams
<1>4. clientWindow \in [highest : Nat, seen : SUBSET (0..(Width - 1))]
  BY DEF SealInv, SealTypeOK
<1>5. CASE Accepts(clientWindow, d.seq)
  <2>1. applied' = applied \cup {d} /\ again' = (again \/ d \in applied)
    BY <1>1, <1>5 DEF Passed
  <2>2. clientWindow' = After(clientWindow, d.seq)
    BY <1>1, <1>5
  <2>3. clientWindow' \in [highest : Nat, seen : SUBSET (0..(Width - 1))]
    BY <1>3, <1>4, <1>5, <2>2, AfterBits
  <2>4. d \notin applied
    BY <1>3, <1>5 DEF SealInv, TakenIsKnown
  <2>5. \A n \in Nat : n = d.seq \/ ~Accepts(clientWindow, n) => ~Accepts(clientWindow', n)
    BY <1>3, <1>4, <1>5, <2>2, RefusedStays
  <2>6. SealTypeOK'
    BY <1>1, <1>2, <2>3 DEF SealInv, SealTypeOK, DownDatagrams, counters, windowVars
  <2>7. TakenIsKnown'
    BY <1>1, <1>3, <2>1, <2>5 DEF SealInv, TakenIsKnown, windowVars
  <2> QED BY <2>1, <2>4, <2>6, <2>7 DEF SealInv
<1>6. CASE ~Accepts(clientWindow, d.seq)
  <2>1. UNCHANGED <<clientWindow, applied, again>>
    BY <1>1, <1>6 DEF Dropped
  <2>2. SealTypeOK'
    BY <1>1, <1>2, <2>1 DEF SealInv, SealTypeOK, DownDatagrams, counters, windowVars
  <2> QED BY <1>1, <2>1, <2>2 DEF SealInv, TakenIsKnown, windowVars
<1> QED BY <1>5, <1>6

LEMMA NetworkAndRebindSealInv ==
    ASSUME SealInv, IInv', LoseSealed \/ Rebind
    PROVE  SealInv'
<1>1. CASE LoseSealed
  <2>1. sealedUp' \in Seq(UpDatagrams) /\ sealedDown' \in Seq(DownDatagrams)
    BY <1>1, RemovedStaysTyped DEF LoseSealed, SealInv, SealTypeOK, UpDatagrams, DownDatagrams
  <2> QED BY <1>1, <2>1 DEF LoseSealed, SealInv, SealTypeOK, TakenIsKnown, UpDatagrams, DownDatagrams, counters, windowVars
<1>2. CASE Rebind
  <2>1. clientWindow' \in [highest : Nat, seen : SUBSET (0..(Width - 1))]
    BY <1>2 DEF Rebind, Empty
  <2>2. SealTypeOK'
    BY <1>2, <2>1, SealAssumption DEF Rebind, SealInv, SealTypeOK, windowVars
  <2>3. TakenIsKnown' /\ ~again'
    BY <1>2 DEF Rebind, SealInv, TakenIsKnown, windowVars
  <2> QED BY <2>2, <2>3 DEF SealInv
<1> QED BY <1>1, <1>2

LEMMA NextSealInv == SealInv /\ [SealNext]_<<windowVars, sealVars>> => SealInv'
<1> SUFFICES ASSUME SealInv, [SealNext]_<<windowVars, sealVars>> PROVE SealInv'
  OBVIOUS
<1>1. IInv'
  BY SealStepIsWindowStep, NextIInv DEF SealInv
<1>2. CASE UNCHANGED <<windowVars, sealVars>>
  BY <1>1, <1>2 DEF SealInv, SealTypeOK, TakenIsKnown, windowVars, sealVars, counters
<1> QED BY <1>1, <1>2, SendersSealInv, ServerReceiveSealInv, ClientReceiveSealInv,
           NetworkAndRebindSealInv DEF SealNext

LEMMA SealInvHolds == SealSpec => []SealInv
BY InitSealInv, NextSealInv, PTL DEF SealSpec

(* The datagrams under way, the counters and the client's window keep      *)
(* their types.                                                            *)
THEOREM SealTypesCorrect == SealSpec => []SealTypeOK
<1>1. SealInv => SealTypeOK
  BY DEF SealInv
<1> QED BY <1>1, SealInvHolds, PTL

(* No process takes a datagram twice and no number passes the server's     *)
(* window of an address twice, for every width and any processes in turn.  *)
THEOREM NothingTakenTwice == SealSpec => []NothingTwice
<1>1. SealInv => NothingTwice
  BY DEF SealInv, IInv, NothingTwice
<1> QED BY <1>1, SealInvHolds, PTL

(* Every step of the sealed traffic is one of ReplayWindow's or leaves its *)
(* variables alone.                                                        *)
THEOREM SealImplementsWindow == SealSpec => ImplementsReplayWindow
<1>1. SealInit => WindowInit
  BY DEF SealInit
<1>2. SealInv /\ [SealNext]_<<windowVars, sealVars>> => [WindowNext]_windowVars
  BY SealStepIsWindowStep
<1> QED BY <1>1, <1>2, SealInvHolds, PTL DEF SealSpec, ImplementsReplayWindow, WindowSpec

-----------------------------------------------------------------------------
(* FragmentAssembler: the byte budget.                                     *)

(* What is left of the groups when some are dropped.                       *)
PartOf(held) ==
    /\ DOMAIN held \subseteq DOMAIN groups
    /\ \A k \in DOMAIN held : held[k] = groups[k]

GroupShape(g) ==
    /\ g = [size |-> g.size, chunks |-> g.chunks, age |-> g.age]
    /\ IsFiniteSet(DOMAIN g.chunks) /\ DOMAIN g.chunks # {}

(* Every group holds something, and the counter is what they hold.         *)
BudgetInv ==
    /\ \A k \in DOMAIN groups : GroupShape(groups[k])
    /\ IsFiniteSet(Chunks(groups))
    /\ BudgetKept

LEMMA WithoutPart ==
    ASSUME NEW held, PartOf(held), NEW keys
    PROVE  PartOf(Without(held, keys))
BY DEF PartOf, Without, Restrict

(* Dropping groups takes their chunks, all of them and no others, off the  *)
(* counter.                                                                *)
LEMMA KeptCounts ==
    ASSUME BudgetInv, NEW held, PartOf(held)
    PROVE  /\ IsFiniteSet(Chunks(held)) /\ Kept(held) = Bytes(held)
           /\ Bytes(held) \in Nat /\ Bytes(held) <= MaxBuffered
<1> DEFINE rest == Restrict(groups, DOMAIN groups \ DOMAIN held)
<1>1. Chunks(groups) = Chunks(held) \cup Chunks(rest)
  <2>1. ASSUME NEW p \in Chunks(groups) PROVE p \in Chunks(held) \cup Chunks(rest)
    <3>0. PICK k \in DOMAIN groups : \E i \in DOMAIN groups[k].chunks : p = <<k, i>>
      BY <2>1 DEF Chunks
    <3>1. PICK i \in DOMAIN groups[k].chunks : p = <<k, i>>
      BY <3>0
    <3>2. CASE k \in DOMAIN held
      BY <3>1, <3>2 DEF Chunks, PartOf
    <3>3. CASE k \notin DOMAIN held
      <4>1. k \in DOMAIN rest /\ rest[k] = groups[k]
        BY <3>3 DEF Restrict
      <4> HIDE DEF rest
      <4> QED BY <3>1, <4>1 DEF Chunks
    <3> QED BY <3>2, <3>3
  <2>2. Chunks(held) \subseteq Chunks(groups)
    BY DEF Chunks, PartOf
  <2>3. Chunks(rest) \subseteq Chunks(groups)
    BY DEF Chunks, Restrict
  <2> QED BY <2>1, <2>2, <2>3
<1>2. Chunks(held) \cap Chunks(rest) = {}
  BY DEF Chunks, Restrict
<1>3. IsFiniteSet(Chunks(held)) /\ IsFiniteSet(Chunks(rest))
  BY <1>1, FS_Subset DEF BudgetInv
<1>4. Cardinality(Chunks(groups)) = Cardinality(Chunks(held)) + Cardinality(Chunks(rest))
  <2>1. Cardinality(Chunks(held) \cap Chunks(rest)) = 0
    BY <1>2, FS_EmptySet
  <2>2. /\ Cardinality(Chunks(held)) \in Nat /\ Cardinality(Chunks(rest)) \in Nat
    BY <1>3, FS_CardinalityType
  <2>3. Cardinality(Chunks(held) \cup Chunks(rest)) =
           Cardinality(Chunks(held)) + Cardinality(Chunks(rest)) - Cardinality(Chunks(held) \cap Chunks(rest))
    BY <1>3, FS_Union
  <2> QED BY <1>1, <2>1, <2>2, <2>3
<1>5. Cardinality(Chunks(held)) \in Nat /\ Cardinality(Chunks(rest)) \in Nat
  BY <1>3, FS_CardinalityType
<1>6. buffered = Bytes(held) + Bytes(rest) /\ buffered <= MaxBuffered
  BY <1>4 DEF BudgetInv, BudgetKept, Bytes
<1>7. MaxBuffered \in Nat
  BY FragmentAssumption
<1>8. Kept(held) = IF Bytes(rest) < buffered THEN buffered - Bytes(rest) ELSE 0
  BY DEF Kept
<1> HIDE DEF rest
<1> QED BY <1>3, <1>5, <1>6, <1>7, <1>8 DEF Bytes

(* Evicting one group makes room for a chunk, for no group is empty.       *)
LEMMA RoomIsMade ==
    ASSUME BudgetInv, NEW held, PartOf(held), NEW rest \in RoomFor(held)
    PROVE  PartOf(rest) /\ Bytes(rest) < MaxBuffered
<1>1. CASE Kept(held) < MaxBuffered
  BY <1>1, KeptCounts DEF RoomFor
<1>2. CASE ~(Kept(held) < MaxBuffered)
  <2>1. PICK k \in DOMAIN held : rest = Without(held, {k})
    BY <1>2 DEF RoomFor, Stalest
  <2>2. PICK i : i \in DOMAIN held[k].chunks
    BY <2>1 DEF PartOf, BudgetInv, GroupShape
  <2>3. <<k, i>> \in Chunks(held)
    BY <2>2 DEF Chunks
  <2>4. Chunks(rest) \subseteq Chunks(held) \ {<<k, i>>}
    BY <2>1 DEF Chunks, Without, Restrict
  <2>5. /\ IsFiniteSet(Chunks(held)) /\ Bytes(held) \in Nat /\ Bytes(held) <= MaxBuffered
    BY KeptCounts
  <2>6. /\ IsFiniteSet(Chunks(held) \ {<<k, i>>})
        /\ Cardinality(Chunks(held) \ {<<k, i>>}) = Bytes(held) - 1
    BY <2>3, <2>5, FS_RemoveElement DEF Bytes
  <2>7. Cardinality(Chunks(rest)) <= Cardinality(Chunks(held) \ {<<k, i>>})
    BY <2>4, <2>6, FS_Subset
  <2>8. PartOf(rest)
    BY <2>1, WithoutPart
  <2>9. Bytes(rest) \in Nat
    BY <2>8, KeptCounts
  <2>10. MaxBuffered \in Nat
    BY FragmentAssumption
  <2> QED BY <2>5, <2>6, <2>7, <2>8, <2>9, <2>10 DEF Bytes
<1> QED BY <1>1, <1>2

(* A chunk is stored at most once, and only stored ones are added.         *)
LEMMA StoredShape ==
    ASSUME NEW g, g = [size |-> g.size, chunks |-> g.chunks, age |-> g.age],
           IsFiniteSet(DOMAIN g.chunks), NEW f
    PROVE  LET s == Stored(g, f)
           IN  /\ s = [size |-> s.size, chunks |-> s.chunks, age |-> s.age]
               /\ IsFiniteSet(DOMAIN s.chunks)
               /\ \/ s = g
                  \/ /\ f.index \notin DOMAIN g.chunks
                     /\ DOMAIN s.chunks = DOMAIN g.chunks \cup {f.index}
                     /\ Received(s) = Received(g) + 1
<1>1. CASE f.index \in DOMAIN g.chunks \/ g.size # f.msg.size
  BY <1>1 DEF Stored
<1>2. CASE ~(f.index \in DOMAIN g.chunks \/ g.size # f.msg.size)
  <2> DEFINE c == [i \in DOMAIN g.chunks \cup {f.index} |-> IF i = f.index THEN f.msg ELSE g.chunks[i]]
  <2>1. Stored(g, f) = [size |-> g.size, chunks |-> c, age |-> 0]
    BY <1>2 DEF Stored
  <2>2. DOMAIN c = DOMAIN g.chunks \cup {f.index}
    OBVIOUS
  <2>3. IsFiniteSet(DOMAIN c) /\ Cardinality(DOMAIN c) = Cardinality(DOMAIN g.chunks) + 1
    BY <1>2, <2>2, FS_AddElement
  <2> HIDE DEF c
  <2> QED BY <1>2, <2>1, <2>2, <2>3 DEF Received
<1> QED BY <1>1, <1>2

(* A chunk that is taken is counted; a message that is complete goes with  *)
(* all that was counted for it.                                            *)
LEMMA TakeKeepsBudget ==
    ASSUME BudgetInv, NEW rest, PartOf(rest), Bytes(rest) < MaxBuffered,
           NEW f \in wire, Take(rest, f)
    PROVE  BudgetInv'
<1> DEFINE key == Key(f.msg)
           before == IF key \in DOMAIN rest THEN rest[key] ELSE NoGroup(f.msg.size)
           group == Stored(before, f)
<1>1. /\ before = [size |-> before.size, chunks |-> before.chunks, age |-> before.age]
      /\ IsFiniteSet(DOMAIN before.chunks)
      /\ key \notin DOMAIN rest => before = NoGroup(f.msg.size)
  <2>1. CASE key \in DOMAIN rest
    BY <2>1 DEF PartOf, BudgetInv, GroupShape
  <2>2. CASE key \notin DOMAIN rest
    BY <2>2, FS_EmptySet DEF NoGroup
  <2> QED BY <2>1, <2>2
<1>2. /\ group = [size |-> group.size, chunks |-> group.chunks, age |-> group.age]
      /\ IsFiniteSet(DOMAIN group.chunks)
      /\ \/ group = before
         \/ /\ f.index \notin DOMAIN before.chunks
            /\ DOMAIN group.chunks = DOMAIN before.chunks \cup {f.index}
            /\ Received(group) = Received(before) + 1
  <2> HIDE DEF before
  <2> QED BY <1>1, StoredShape
<1>3. DOMAIN group.chunks # {}
  <2>1. CASE key \in DOMAIN rest
    <3>1. DOMAIN before.chunks # {}
      BY <2>1 DEF PartOf, BudgetInv, GroupShape
    <3> QED BY <1>2, <3>1
  <2>2. CASE key \notin DOMAIN rest
    <3>1. before = NoGroup(f.msg.size)
      BY <2>2
    <3>2. f.index \in DOMAIN group.chunks
      BY <3>1 DEF Stored, NoGroup
    <3> QED BY <3>2
  <2> QED BY <2>1, <2>2
<1>4. CASE Complete(group)
  <2>1. groups' = Without(rest, {key}) /\ buffered' = Kept(groups')
    BY <1>4 DEF Take, Deliver
  <2>2. PartOf(Without(rest, {key}))
    BY WithoutPart
  <2>3. /\ IsFiniteSet(Chunks(groups')) /\ Kept(groups') = Bytes(groups') /\ Bytes(groups') <= MaxBuffered
    BY <2>1, <2>2, KeptCounts
  <2>4. \A k \in DOMAIN groups' : GroupShape(groups'[k])
    BY <2>1, <2>2 DEF PartOf, BudgetInv
  <2> QED BY <2>1, <2>3, <2>4 DEF BudgetInv, BudgetKept, Bytes, Chunks, GroupShape
<1>5. CASE ~Complete(group)
  <2>1. /\ groups' = [k \in DOMAIN rest \cup {key} |-> IF k = key THEN group ELSE rest[k]]
        /\ buffered' = Kept(rest) + (Received(group) - Received(before))
    BY <1>5 DEF Take
  <2> HIDE DEF group, before
  <2>2. \A k \in DOMAIN groups' : GroupShape(groups'[k])
    BY <1>2, <1>3, <2>1 DEF PartOf, BudgetInv, GroupShape
  <2>3. Received(before) \in Nat
    BY <1>1, FS_CardinalityType DEF Received
  <2>4. Kept(rest) = Bytes(rest) /\ Bytes(rest) \in Nat /\ IsFiniteSet(Chunks(rest)) /\ MaxBuffered \in Nat
    BY KeptCounts, FragmentAssumption
  <2>5. key \in DOMAIN rest => before = rest[key]
    BY DEF before
  <2>6. key \notin DOMAIN rest => DOMAIN before.chunks = {}
    BY <1>1 DEF NoGroup
  <2>7. CASE group = before
    <3>1. Chunks(groups') = Chunks(rest)
      <4>1. key \in DOMAIN rest
        BY <1>3, <2>6, <2>7
      <4> QED BY <2>1, <2>5, <2>7, <4>1 DEF Chunks
    <3>2. buffered' = Bytes(rest)
      BY <2>1, <2>3, <2>4, <2>7
    <3>3. IsFiniteSet(Chunks(groups')) /\ buffered' = Bytes(groups') /\ buffered' <= MaxBuffered
      BY <2>4, <3>1, <3>2 DEF Bytes
    <3> QED BY <2>2, <3>3 DEF BudgetInv, BudgetKept, Bytes, Chunks, GroupShape
  <2>8. CASE /\ f.index \notin DOMAIN before.chunks
             /\ DOMAIN group.chunks = DOMAIN before.chunks \cup {f.index}
             /\ Received(group) = Received(before) + 1
    <3>1. Chunks(groups') = Chunks(rest) \cup {<<key, f.index>>}
      <4>1. ASSUME NEW p \in Chunks(groups') PROVE p \in Chunks(rest) \cup {<<key, f.index>>}
        <5>0. PICK k \in DOMAIN groups' : \E i \in DOMAIN groups'[k].chunks : p = <<k, i>>
          BY <4>1 DEF Chunks
        <5>1. PICK i \in DOMAIN groups'[k].chunks : p = <<k, i>>
          BY <5>0
        <5>2. CASE k = key
          BY <2>1, <2>5, <2>6, <2>8, <5>1, <5>2 DEF Chunks
        <5>3. CASE k # key
          BY <2>1, <5>1, <5>3 DEF Chunks
        <5> QED BY <5>2, <5>3
      <4>2. ASSUME NEW p \in Chunks(rest) PROVE p \in Chunks(groups')
        <5>0. PICK k \in DOMAIN rest : \E i \in DOMAIN rest[k].chunks : p = <<k, i>>
          BY <4>2 DEF Chunks
        <5>1. PICK i \in DOMAIN rest[k].chunks : p = <<k, i>>
          BY <5>0
        <5>2. k \in DOMAIN groups' /\ i \in DOMAIN groups'[k].chunks
          BY <2>1, <2>5, <2>8, <5>1
        <5> QED BY <5>1, <5>2 DEF Chunks
      <4>3. <<key, f.index>> \in Chunks(groups')
        <5>1. key \in DOMAIN groups' /\ f.index \in DOMAIN groups'[key].chunks
          BY <2>1, <2>8
        <5> QED BY <5>1 DEF Chunks
      <4> QED BY <4>1, <4>2, <4>3
    <3>2. <<key, f.index>> \notin Chunks(rest)
      BY <2>5, <2>8 DEF Chunks
    <3>3. IsFiniteSet(Chunks(groups')) /\ Bytes(groups') = Bytes(rest) + 1
      <4> DEFINE S == Chunks(rest)
                 x == <<key, f.index>>
      <4>1. IsFiniteSet(S) /\ x \notin S
        BY <2>4, <3>2
      <4> HIDE DEF S, x
      <4>2. IsFiniteSet(S \cup {x}) /\ Cardinality(S \cup {x}) = Cardinality(S) + 1
        BY <4>1, FS_AddElement
      <4> QED BY <3>1, <4>2 DEF S, x, Bytes
    <3>4. buffered' = Bytes(rest) + 1
      BY <2>1, <2>3, <2>4, <2>8
    <3>5. buffered' = Bytes(groups') /\ buffered' <= MaxBuffered
      BY <2>4, <3>3, <3>4
    <3> QED BY <2>2, <3>3, <3>5 DEF BudgetInv, BudgetKept, Bytes, Chunks, GroupShape
  <2> QED BY <1>2, <2>7, <2>8
<1> QED BY <1>4, <1>5

LEMMA NextBudgetInv == BudgetInv /\ [ChunkNext]_chunkVars => BudgetInv'
<1> SUFFICES ASSUME BudgetInv, [ChunkNext]_chunkVars PROVE BudgetInv'
  OBVIOUS
<1>1. ASSUME NEW f \in wire, ArriveChunk(f) PROVE BudgetInv'
  <2>1. PICK held \in Swept(groups) :
           \/ Refuse(held)
           \/ \E rest \in RoomFor(Without(held, Superseded(held, f.msg.type, f.msg.id))) : Take(rest, f)
    BY <1>1 DEF ArriveChunk, Push
  <2>2. PartOf(groups)
    BY DEF PartOf
  <2>3. PartOf(held)
    BY <2>1, <2>2, WithoutPart DEF Swept
  <2>4. CASE Refuse(held)
    <3>1. groups' = held /\ buffered' = Kept(held)
      BY <2>4 DEF Refuse
    <3>2. IsFiniteSet(Chunks(held)) /\ Kept(held) = Bytes(held) /\ Bytes(held) <= MaxBuffered
      BY <2>3, KeptCounts
    <3>3. \A k \in DOMAIN held : GroupShape(held[k])
      BY <2>3 DEF PartOf, BudgetInv
    <3> QED BY <3>1, <3>2, <3>3 DEF BudgetInv, BudgetKept, Bytes, Chunks, GroupShape
  <2>5. ASSUME NEW rest \in RoomFor(Without(held, Superseded(held, f.msg.type, f.msg.id))), Take(rest, f)
        PROVE  BudgetInv'
    <3>1. PartOf(rest) /\ Bytes(rest) < MaxBuffered
      BY <2>3, WithoutPart, RoomIsMade
    <3> QED BY <2>5, <3>1, TakeKeepsBudget
  <2> QED BY <2>1, <2>4, <2>5
<1>2. CASE Tick
  <2>1. DOMAIN groups' = DOMAIN groups /\ buffered' = buffered
    BY <1>2 DEF Tick
  <2>2. \A k \in DOMAIN groups : GroupShape(groups'[k]) /\ groups'[k].chunks = groups[k].chunks
    <3> SUFFICES ASSUME NEW k \in DOMAIN groups
                 PROVE  GroupShape(groups'[k]) /\ groups'[k].chunks = groups[k].chunks
      OBVIOUS
    <3>1. groups'[k] = [groups[k] EXCEPT !.age = Smaller(@ + 1, Ttl)]
      BY <1>2 DEF Tick
    <3>2. GroupShape(groups[k])
      BY DEF BudgetInv
    <3> QED BY <3>1, <3>2 DEF GroupShape
  <2>3. Chunks(groups') = Chunks(groups)
    BY <2>1, <2>2 DEF Chunks
  <2> QED BY <2>1, <2>2, <2>3 DEF BudgetInv, BudgetKept, Bytes, Chunks, GroupShape
<1>3. CASE UNCHANGED <<groups, buffered>>
  BY <1>3 DEF BudgetInv, BudgetKept, Bytes, Chunks, GroupShape
<1>4. CASE SpendNumber \/ NewSession \/ UNCHANGED chunkVars
  BY <1>3, <1>4 DEF SpendNumber, NewSession, chunkVars, assembler
<1>5. ASSUME NEW t \in Types, NEW n \in Sizes, SendMessage(t, n) PROVE BudgetInv'
  BY <1>3, <1>5 DEF SendMessage, assembler
<1>6. ASSUME NEW f \in wire, LoseChunk(f) PROVE BudgetInv'
  BY <1>3, <1>6 DEF LoseChunk, assembler
<1> QED BY <1>1, <1>2, <1>4, <1>5, <1>6 DEF ChunkNext

LEMMA InitBudgetInv == ChunkInit => BudgetInv
<1> SUFFICES ASSUME ChunkInit PROVE BudgetInv
  OBVIOUS
<1>1. DOMAIN groups = {} /\ buffered = 0
  BY DEF ChunkInit
<1>2. Chunks(groups) = {}
  BY <1>1 DEF Chunks
<1> QED BY <1>1, <1>2, FS_EmptySet, FragmentAssumption DEF BudgetInv, BudgetKept, Bytes

(* The assembler's counter is, to the chunk, what its groups hold, and it  *)
(* never exceeds the budget, whatever is dropped, expired or completed.    *)
THEOREM BudgetIsKept == ChunkSpec => []BudgetKept
<1>1. BudgetInv => BudgetKept
  BY DEF BudgetInv
<1> QED BY <1>1, InitBudgetInv, NextBudgetInv, PTL DEF ChunkSpec

-----------------------------------------------------------------------------
(* FragmentAssembler: the numbers.  Half of them are ahead of any number   *)
(* and half behind, so what is known of a mark is how far the sender is    *)
(* ahead of it.                                                            *)

Ids == 1..(Modulus - 1)

Fragments == [msg : [session : Nat, type : Types, id : Ids, size : Sizes], index : Nat]

ChunkTypes ==
    /\ session \in Nat \ {0} /\ nextId \in 0..(Modulus - 1)
    /\ wire \subseteq Fragments
    /\ seen \in [Types -> SUBSET Ids]
    /\ completed \in [Types -> SUBSET (0..(Modulus - 1))]
    /\ \A t \in Types : \A c, d \in completed[t] : c = d
    /\ spent \in [Types -> 0..MaxJump]
    /\ since \in [Types -> 0..Half]

(* The mark m is k numbers behind n; one more if zero was skipped between. *)
Behind(n, m, k) == IF m <= n THEN n - m = k ELSE n + Modulus - m \in {k, k + 1}

MarksTracked ==
    \A t \in Types :
        /\ spent[t] < MaxJump => \A s \in seen[t] : Behind(nextId, s, spent[t])
        /\ since[t] < Half => \A c \in completed[t] \ {0} : Behind(nextId, c, since[t])

LEMMA HalfIsHalf ==
    /\ Modulus \in Nat /\ Half \in Nat /\ Modulus = 2 * Half /\ MaxJump \in Nat \ {0}
    /\ MaxJump < Half /\ MaxLag \in Nat /\ MaxLag + 1 < Half
<1>1. Modulus \in Nat /\ MaxJump \in Nat \ {0} /\ MaxLag \in Nat
  BY FragmentAssumption
<1>2. Half \in Nat
  BY <1>1 DEF Half
<1> QED BY <1>1, <1>2, FragmentAssumption DEF Half

LEMMA NumberAfterIs ==
    ASSUME NEW n \in 0..(Modulus - 1)
    PROVE  /\ NumberAfter(n) = IF n = Modulus - 1 THEN 1 ELSE n + 1
           /\ NumberAfter(n) \in Ids
<1>1. Modulus \in Nat /\ Modulus > 2
  BY HalfIsHalf
<1>2. CASE n = Modulus - 1
  <2>1. n + 1 = Modulus
    BY <1>1, <1>2
  <2>2. Modulus % Modulus = 0
    BY <1>1
  <2> QED BY <1>1, <1>2, <2>1, <2>2 DEF NumberAfter, Ids
<1>3. CASE n # Modulus - 1
  <2>1. n + 1 \in 0..(Modulus - 1) /\ n + 1 # 0
    BY <1>1, <1>3
  <2>2. (n + 1) % Modulus = n + 1
    BY <1>1, <2>1
  <2> QED BY <1>1, <1>3, <2>1, <2>2 DEF NumberAfter, Ids
<1> QED BY <1>2, <1>3

LEMMA DistanceIs ==
    ASSUME NEW a \in 0..(Modulus - 1), NEW b \in 0..(Modulus - 1)
    PROVE  /\ Distance(a, b) = IF b <= a THEN a - b ELSE a + Modulus - b
           /\ Distance(a, b) \in 0..(Modulus - 1)
<1>1. Modulus \in Nat /\ Modulus > 2
  BY HalfIsHalf
<1>2. CASE b <= a
  <2>1. a - b \in 0..(Modulus - 1) /\ a + Modulus - b = (a - b) + Modulus
    BY <1>1, <1>2
  <2>2. \A d \in 0..(Modulus - 1) : (d + Modulus) % Modulus = d
    BY <1>1
  <2> QED BY <1>2, <2>1, <2>2 DEF Distance
<1>3. CASE b > a
  <2>1. a + Modulus - b \in 0..(Modulus - 1)
    BY <1>1, <1>3
  <2>2. \A d \in 0..(Modulus - 1) : d % Modulus = d
    BY <1>1
  <2> QED BY <1>3, <2>1, <2>2 DEF Distance
<1> QED BY <1>2, <1>3

(* A number later the mark is one number further behind.                   *)
LEMMA BehindGrows ==
    ASSUME NEW n \in 0..(Modulus - 1), NEW m \in Ids, NEW k \in Nat,
           k + 1 < Half, Behind(n, m, k)
    PROVE  Behind(NumberAfter(n), m, k + 1)
BY HalfIsHalf, NumberAfterIs DEF Behind, Ids

(* The distance to a number is how far it is behind.                       *)
LEMMA DistanceIsBehind ==
    ASSUME NEW n \in 0..(Modulus - 1), NEW m \in 0..(Modulus - 1)
    PROVE  Behind(n, m, Distance(n, m))
BY DistanceIs, HalfIsHalf DEF Behind

(* A mark that is less than half the numbers behind is older than what is  *)
(* sent next, by at most two more.                                         *)
LEMMA NextIsNewer ==
    ASSUME NEW n \in 0..(Modulus - 1), NEW m \in Ids, NEW k \in Nat,
           k + 2 < Half \/ k + 2 <= MaxJump, Behind(n, m, k)
    PROVE  /\ Newer(NumberAfter(n), m) /\ ~Newer(m, NumberAfter(n))
           /\ Distance(NumberAfter(n), m) <= k + 2
<1> DEFINE x == NumberAfter(n)
<1>1. x \in Ids /\ x = IF n = Modulus - 1 THEN 1 ELSE n + 1
  BY NumberAfterIs
<1>2. x \in 0..(Modulus - 1) /\ m \in 0..(Modulus - 1) /\ m # 0
  BY <1>1, HalfIsHalf DEF Ids
<1> HIDE DEF x
<1>3. /\ Distance(x, m) = IF m <= x THEN x - m ELSE x + Modulus - m
      /\ Distance(m, x) = IF x <= m THEN m - x ELSE m + Modulus - x
  BY <1>2, DistanceIs
<1>4. k + 2 < Half
  BY HalfIsHalf
<1>5. x # m /\ Distance(x, m) <= k + 2 /\ Distance(m, x) >= Half
  BY <1>1, <1>2, <1>3, <1>4, HalfIsHalf DEF Behind
<1>6. Distance(x, m) < Half /\ Distance(m, x) \in Nat /\ Half \in Nat
  BY <1>2, <1>4, <1>5, DistanceIs, HalfIsHalf
<1> QED BY <1>5, <1>6 DEF Newer, x

LEMMA SpentSinceIs ==
    ASSUME ChunkTypes, NEW msg \in [session : Nat, type : Types, id : Ids, size : Sizes], NEW cap \in Nat
    PROVE  /\ SpentSince(msg, cap) \in 0..cap
           /\ SpentSince(msg, cap) < cap => Behind(nextId, msg.id, SpentSince(msg, cap))
<1>1. nextId \in 0..(Modulus - 1) /\ msg.id \in 0..(Modulus - 1)
  BY HalfIsHalf DEF ChunkTypes, Ids
<1>2. Distance(nextId, msg.id) \in Nat /\ Behind(nextId, msg.id, Distance(nextId, msg.id))
  <2>1. Behind(nextId, msg.id, Distance(nextId, msg.id))
    BY <1>1, DistanceIsBehind
  <2>2. Distance(nextId, msg.id) \in 0..(Modulus - 1)
    BY <1>1, DistanceIs
  <2> QED BY <2>1, <2>2, HalfIsHalf
<1>3. SpentSince(msg, cap) = IF msg.session = session
                             THEN IF Distance(nextId, msg.id) < cap THEN Distance(nextId, msg.id) ELSE cap
                             ELSE cap
  BY DEF SpentSince, Smaller
<1> QED BY <1>2, <1>3

LEMMA CompletedMarkIs ==
    ASSUME ChunkTypes, NEW t \in Types, NEW id \in Ids, Admissible(t, id)
    PROVE  /\ CompletedMark(t, id) \subseteq {0, id}
           /\ completed[t] # {} => CompletedMark(t, id) \subseteq {id}
           /\ completed[t] # {} \/ ~Newer(id, 0) \/ CompletedMark(t, id) \subseteq {id}
           /\ CompletedMark(t, id) # {}
           /\ \A c, d \in CompletedMark(t, id) : c = d
BY DEF CompletedMark, Admissible, ChunkTypes

(* What an arrival does to the numbers: nothing, or the marks of one type  *)
(* move to the fragment's.                                                 *)
LEMMA ArrivalMoves ==
    ASSUME ChunkTypes, NEW f \in wire, ArriveChunk(f)
    PROVE  /\ UNCHANGED <<session, nextId>> /\ wire' \subseteq wire
           /\ \/ UNCHANGED <<seen, completed, marks>> /\ out' = {}
              \/ /\ Admissible(f.msg.type, f.msg.id)
                 /\ seen' = [seen EXCEPT ![f.msg.type] = {f.msg.id}]
                 /\ spent' = [spent EXCEPT ![f.msg.type] = SpentSince(f.msg, MaxJump)]
                 /\ \/ UNCHANGED <<completed, since>> /\ out' = {}
                    \/ /\ completed' = [completed EXCEPT ![f.msg.type] = CompletedMark(f.msg.type, f.msg.id)]
                       /\ since' = [since EXCEPT ![f.msg.type] = SpentSince(f.msg, Half)]
<1>1. PICK held \in Swept(groups) :
         \/ Refuse(held)
         \/ /\ Admissible(f.msg.type, f.msg.id)
            /\ \E rest \in RoomFor(Without(held, Superseded(held, f.msg.type, f.msg.id))) : Take(rest, f)
            /\ seen' = [seen EXCEPT ![f.msg.type] = {f.msg.id}]
            /\ spent' = [spent EXCEPT ![f.msg.type] = SpentSince(f.msg, MaxJump)]
  BY DEF ArriveChunk, Push
<1>2. UNCHANGED <<session, nextId>> /\ wire' \subseteq wire
  BY DEF ArriveChunk, sender
<1>3. CASE Refuse(held)
  BY <1>2, <1>3 DEF Refuse
<1>4. ASSUME NEW rest, Take(rest, f)
      PROVE  \/ UNCHANGED <<completed, since>> /\ out' = {}
             \/ /\ completed' = [completed EXCEPT ![f.msg.type] = CompletedMark(f.msg.type, f.msg.id)]
                /\ since' = [since EXCEPT ![f.msg.type] = SpentSince(f.msg, Half)]
  BY <1>4 DEF Take, Deliver
<1> QED BY <1>1, <1>2, <1>3, <1>4

LEMMA InitChunkTypes == ChunkInit => ChunkTypes /\ MarksTracked
<1> SUFFICES ASSUME ChunkInit PROVE ChunkTypes /\ MarksTracked
  OBVIOUS
<1>1. 0 \in 0..(Modulus - 1) /\ 0 \in 0..MaxJump /\ 0 \in 0..Half
  BY HalfIsHalf
<1> QED BY <1>1 DEF ChunkInit, ChunkTypes, MarksTracked

(* The sender spends a number: every mark is one further behind.           *)
LEMMA SpendingTracks ==
    ASSUME ChunkTypes, MarksTracked, nextId' = NumberAfter(nextId),
           spent' = [u \in Types |-> Smaller(spent[u] + 1, MaxJump)],
           since' = [u \in Types |-> Smaller(since[u] + 1, Half)],
           UNCHANGED <<session, seen, completed>>, wire' \subseteq Fragments
    PROVE  ChunkTypes' /\ MarksTracked'
<1>1. nextId' \in 0..(Modulus - 1)
  BY NumberAfterIs, HalfIsHalf DEF ChunkTypes, Ids
<1>2. \A x \in Nat, c \in Nat : Smaller(x + 1, c) \in 0..c /\ (Smaller(x + 1, c) < c => Smaller(x + 1, c) = x + 1)
  BY DEF Smaller
<1>3. \A t \in Types : spent[t] \in Nat /\ since[t] \in Nat
  BY HalfIsHalf DEF ChunkTypes
<1>4. spent' \in [Types -> 0..MaxJump] /\ since' \in [Types -> 0..Half]
  BY <1>2, <1>3, HalfIsHalf
<1>5. ChunkTypes'
  BY <1>1, <1>4 DEF ChunkTypes, Fragments
<1>6. ASSUME NEW t \in Types, spent'[t] < MaxJump, NEW s \in seen[t] PROVE Behind(nextId', s, spent'[t])
  <2> DEFINE k == spent[t]
  <2>0. k \in Nat /\ spent'[t] = Smaller(k + 1, MaxJump)
    BY <1>3
  <2> HIDE DEF k
  <2>a. spent'[t] = k + 1
    BY <1>2, <1>6, <2>0, HalfIsHalf
  <2>b. k + 1 < Half /\ k < MaxJump
    BY <1>6, <2>0, <2>a, HalfIsHalf
  <2>1. spent'[t] = spent[t] + 1 /\ spent[t] + 1 < Half /\ spent[t] < MaxJump
    BY <2>a, <2>b DEF k
  <2>2. Behind(nextId, s, spent[t]) /\ s \in Ids
    BY <2>1 DEF MarksTracked, ChunkTypes
  <2> QED BY <1>3, <2>1, <2>2, BehindGrows DEF ChunkTypes
<1>7. ASSUME NEW t \in Types, since'[t] < Half, NEW c \in completed[t] \ {0} PROVE Behind(nextId', c, since'[t])
  <2> DEFINE k == since[t]
  <2>0. k \in Nat /\ since'[t] = Smaller(k + 1, Half)
    BY <1>3
  <2> HIDE DEF k
  <2>a. since'[t] = k + 1
    BY <1>2, <1>7, <2>0, HalfIsHalf
  <2>b. k + 1 < Half /\ k < Half
    BY <1>7, <2>0, <2>a, HalfIsHalf
  <2>1. since'[t] = since[t] + 1 /\ since[t] + 1 < Half /\ since[t] < Half
    BY <2>a, <2>b DEF k
  <2>2. c \in 0..(Modulus - 1)
    BY DEF ChunkTypes
  <2>3. Behind(nextId, c, since[t]) /\ c \in Ids
    BY <2>1, <2>2, HalfIsHalf DEF MarksTracked, Ids
  <2> QED BY <1>3, <2>1, <2>3, BehindGrows DEF ChunkTypes
<1> QED BY <1>5, <1>6, <1>7 DEF MarksTracked

LEMMA ArrivalTracks ==
    ASSUME ChunkTypes, MarksTracked, NEW f \in wire, ArriveChunk(f)
    PROVE  ChunkTypes' /\ MarksTracked'
<1> DEFINE msg == f.msg
<1>1. msg \in [session : Nat, type : Types, id : Ids, size : Sizes]
  BY DEF ChunkTypes, Fragments
<1>2. /\ SpentSince(msg, MaxJump) \in 0..MaxJump /\ SpentSince(msg, Half) \in 0..Half
      /\ SpentSince(msg, MaxJump) < MaxJump => Behind(nextId, msg.id, SpentSince(msg, MaxJump))
      /\ SpentSince(msg, Half) < Half => Behind(nextId, msg.id, SpentSince(msg, Half))
  <2> HIDE DEF msg
  <2> QED BY <1>1, SpentSinceIs, HalfIsHalf
<1>3. msg.type \in Types /\ msg.id \in Ids
  BY <1>1
<1>4. Admissible(msg.type, msg.id) =>
        /\ CompletedMark(msg.type, msg.id) \subseteq {0, msg.id}
        /\ \A c, d \in CompletedMark(msg.type, msg.id) : c = d
  BY <1>3, CompletedMarkIs
<1>5. msg.id \in 0..(Modulus - 1) /\ 0 \in 0..(Modulus - 1)
  BY <1>3, HalfIsHalf DEF Ids
<1>6. /\ UNCHANGED <<session, nextId>> /\ wire' \subseteq wire
      /\ \/ UNCHANGED <<seen, completed, marks>>
         \/ /\ Admissible(msg.type, msg.id)
            /\ seen' = [seen EXCEPT ![msg.type] = {msg.id}]
            /\ spent' = [spent EXCEPT ![msg.type] = SpentSince(msg, MaxJump)]
            /\ \/ UNCHANGED <<completed, since>>
               \/ /\ completed' = [completed EXCEPT ![msg.type] = CompletedMark(msg.type, msg.id)]
                  /\ since' = [since EXCEPT ![msg.type] = SpentSince(msg, Half)]
  BY ArrivalMoves
<1> HIDE DEF msg
<1>7. CASE UNCHANGED <<seen, completed, marks>>
  BY <1>6, <1>7 DEF ChunkTypes, MarksTracked, marks, Fragments
<1>8. CASE /\ Admissible(msg.type, msg.id)
           /\ seen' = [seen EXCEPT ![msg.type] = {msg.id}]
           /\ spent' = [spent EXCEPT ![msg.type] = SpentSince(msg, MaxJump)]
           /\ \/ UNCHANGED <<completed, since>>
              \/ /\ completed' = [completed EXCEPT ![msg.type] = CompletedMark(msg.type, msg.id)]
                 /\ since' = [since EXCEPT ![msg.type] = SpentSince(msg, Half)]
  <2>1. seen' \in [Types -> SUBSET Ids] /\ spent' \in [Types -> 0..MaxJump]
    BY <1>2, <1>3, <1>8 DEF ChunkTypes
  <2>2. completed' \in [Types -> SUBSET (0..(Modulus - 1))] /\ since' \in [Types -> 0..Half]
    BY <1>2, <1>3, <1>4, <1>5, <1>8 DEF ChunkTypes
  <2>3. \A t \in Types : \A c, d \in completed'[t] : c = d
    BY <1>3, <1>4, <1>8 DEF ChunkTypes
  <2>4. ChunkTypes'
    BY <1>6, <2>1, <2>2, <2>3 DEF ChunkTypes, Fragments
  <2>5. ASSUME NEW t \in Types, spent'[t] < MaxJump, NEW s \in seen'[t] PROVE Behind(nextId, s, spent'[t])
    BY <1>2, <1>3, <1>8, <2>5 DEF ChunkTypes, MarksTracked
  <2>6. ASSUME NEW t \in Types, since'[t] < Half, NEW c \in completed'[t] \ {0} PROVE Behind(nextId, c, since'[t])
    BY <1>2, <1>3, <1>4, <1>8, <2>6 DEF ChunkTypes, MarksTracked
  <2> QED BY <1>6, <2>4, <2>5, <2>6 DEF MarksTracked
<1> QED BY <1>6, <1>7, <1>8

LEMMA NextTracks == ChunkTypes /\ MarksTracked /\ [ChunkNext]_chunkVars => ChunkTypes' /\ MarksTracked'
<1> SUFFICES ASSUME ChunkTypes, MarksTracked, [ChunkNext]_chunkVars PROVE ChunkTypes' /\ MarksTracked'
  OBVIOUS
<1>1. ASSUME NEW t \in Types, NEW n \in Sizes, SendMessage(t, n) PROVE ChunkTypes' /\ MarksTracked'
  <2> DEFINE msg == [session |-> session, type |-> t, id |-> NumberAfter(nextId), size |-> n]
  <2>1. msg \in [session : Nat, type : Types, id : Ids, size : Sizes]
    BY NumberAfterIs DEF ChunkTypes
  <2>2. n \in Nat /\ wire' = wire \cup {[msg |-> msg, index |-> i] : i \in 1..n}
    BY <1>1, FragmentAssumption DEF SendMessage
  <2>3. wire' \subseteq Fragments
    BY <2>1, <2>2 DEF Fragments, ChunkTypes
  <2> QED BY <1>1, <2>3, SpendingTracks DEF SendMessage, assembler
<1>2. ASSUME NEW f \in wire, LoseChunk(f) PROVE ChunkTypes' /\ MarksTracked'
  BY <1>2 DEF LoseChunk, ChunkTypes, MarksTracked, Fragments, sender, assembler, marks
<1>3. CASE SpendNumber
  <2>1. wire' \subseteq Fragments
    BY <1>3 DEF SpendNumber, ChunkTypes
  <2> QED BY <1>3, <2>1, SpendingTracks DEF SpendNumber, assembler
<1>4. CASE NewSession
  <2>1. MaxJump \in 0..MaxJump /\ Half \in 0..Half /\ 0 \in 0..(Modulus - 1) /\ MaxJump \in Nat /\ Half \in Nat
    BY HalfIsHalf
  <2>2. ChunkTypes'
    BY <1>4, <2>1 DEF NewSession, ChunkTypes, Fragments, assembler
  <2>3. \A t \in Types : ~(spent'[t] < MaxJump) /\ ~(since'[t] < Half)
    BY <1>4, <2>1 DEF NewSession
  <2> QED BY <2>2, <2>3 DEF MarksTracked
<1>5. CASE Tick \/ UNCHANGED chunkVars
  BY <1>5 DEF Tick, ChunkTypes, MarksTracked, Fragments, chunkVars, sender, assembler, marks
<1> QED BY <1>1, <1>2, <1>3, <1>4, <1>5, ArrivalTracks DEF ChunkNext

(* A sender that goes on is heard: the number it uses next is admitted,    *)
(* across the wrap, unless it is one of the two senders Hears excludes.    *)
THEOREM SendersAreHeard == ChunkSpec => []Hears
<1>1. ChunkTypes /\ MarksTracked => Hears
  <2> SUFFICES ASSUME ChunkTypes, MarksTracked, NEW t \in Types,
                      spent[t] + 1 < MaxJump, completed[t] # {0}, since[t] + 2 < Half
               PROVE  Admissible(t, NumberAfter(nextId))
    BY DEF Hears, ChunkTypes
  <2>1. spent[t] \in Nat /\ since[t] \in Nat /\ nextId \in 0..(Modulus - 1)
    BY HalfIsHalf DEF ChunkTypes
  <2>2. ASSUME NEW s \in seen[t]
        PROVE  ~Newer(s, NumberAfter(nextId)) /\ Distance(NumberAfter(nextId), s) <= MaxJump
    <3>1. s \in Ids /\ Behind(nextId, s, spent[t]) /\ spent[t] + 2 <= MaxJump
      BY <2>1, HalfIsHalf DEF ChunkTypes, MarksTracked
    <3>2. NumberAfter(nextId) \in 0..(Modulus - 1) /\ s \in 0..(Modulus - 1)
      BY <2>1, <3>1, NumberAfterIs, HalfIsHalf DEF Ids
    <3>3. Distance(NumberAfter(nextId), s) \in Nat
      BY <3>2, DistanceIs
    <3> QED BY <2>1, <3>1, <3>3, NextIsNewer, HalfIsHalf
  <2>3. ASSUME NEW c \in completed[t], c # 0 PROVE Newer(NumberAfter(nextId), c)
    <3>1. c \in Ids /\ Behind(nextId, c, since[t])
      BY <2>1, <2>3, HalfIsHalf DEF ChunkTypes, MarksTracked, Ids
    <3> QED BY <2>1, <3>1, NextIsNewer
  <2>4. \A c \in completed[t] : c # 0
    BY DEF ChunkTypes
  <2> QED BY <2>2, <2>3, <2>4 DEF Admissible
<1> QED BY <1>1, InitChunkTypes, NextTracks, PTL DEF ChunkSpec

-----------------------------------------------------------------------------
(* FragmentAssembler: no message comes out twice.  What is under way is    *)
(* recent, so of two numbers under way the nearer to the sender is the     *)
(* newer, and the mark a delivery left is never passed back.               *)

Lag(x) == Distance(nextId, x)

GroupsKeyed == \A k \in DOMAIN groups : \A i \in DOMAIN groups[k].chunks : Key(groups[k].chunks[i]) = k

(* A message that came out, while a copy of it is under way, is refused by *)
(* the completed mark, and the newest number seen is no further back.      *)
Settled(m) ==
    /\ completed[m.type] # {} /\ \A c \in completed[m.type] : ~Newer(m.id, c)
    /\ seen[m.type] # {} /\ \A s \in seen[m.type] : Lag(s) <= Lag(m.id)

OnceInv ==
    session = 1 =>
        /\ \A f \in wire : f.msg.session = 1 /\ Lag(f.msg.id) <= MaxLag + 1
        /\ \A m \in delivered : Settled(m) /\ \E f \in wire : f.msg = m

LEMMA LagIsNat == ChunkTypes => nextId \in 0..(Modulus - 1) /\ \A x \in Ids : Lag(x) \in Nat
<1> SUFFICES ASSUME ChunkTypes, NEW x \in Ids PROVE nextId \in 0..(Modulus - 1) /\ Lag(x) \in Nat
  BY HalfIsHalf DEF ChunkTypes
<1>1. nextId \in 0..(Modulus - 1) /\ x \in 0..(Modulus - 1)
  BY HalfIsHalf DEF ChunkTypes, Ids
<1>2. Distance(nextId, x) \in 0..(Modulus - 1)
  BY <1>1, DistanceIs
<1> QED BY <1>1, <1>2, HalfIsHalf DEF Lag

LEMMA LagGrows ==
    ASSUME NEW n \in 0..(Modulus - 1), NEW x \in Ids, Distance(n, x) < MaxLag
    PROVE  Distance(NumberAfter(n), x) = Distance(n, x) + IF n = Modulus - 1 THEN 2 ELSE 1
<1> DEFINE y == NumberAfter(n)
<1>1. y = IF n = Modulus - 1 THEN 1 ELSE n + 1
  BY NumberAfterIs
<1>2. y \in 0..(Modulus - 1) /\ x \in 0..(Modulus - 1) /\ x # 0
  BY NumberAfterIs, HalfIsHalf DEF Ids
<1> HIDE DEF y
<1>3. /\ Distance(n, x) = IF x <= n THEN n - x ELSE n + Modulus - x
      /\ Distance(y, x) = IF x <= y THEN y - x ELSE y + Modulus - x
  BY <1>2, DistanceIs
<1>4. Distance(y, x) = Distance(n, x) + IF n = Modulus - 1 THEN 2 ELSE 1
  BY <1>1, <1>2, <1>3, HalfIsHalf
<1> QED BY <1>4 DEF y

(* Of two recent numbers the one further back is not the newer one.        *)
LEMMA FurtherIsOlder ==
    ASSUME NEW n \in 0..(Modulus - 1), NEW x \in Ids, NEW y \in Ids,
           Distance(n, x) <= MaxLag + 1, Distance(n, y) <= MaxLag + 1
    PROVE  /\ Distance(n, x) < Distance(n, y) => Newer(x, y) /\ ~Newer(y, x)
           /\ Distance(n, x) <= Distance(n, y) => ~Newer(y, x)
<1>1. x \in 0..(Modulus - 1) /\ y \in 0..(Modulus - 1)
  BY HalfIsHalf DEF Ids
<1>2. /\ Distance(n, x) = IF x <= n THEN n - x ELSE n + Modulus - x
      /\ Distance(n, y) = IF y <= n THEN n - y ELSE n + Modulus - y
      /\ Distance(x, y) = IF y <= x THEN x - y ELSE x + Modulus - y
      /\ Distance(y, x) = IF x <= y THEN y - x ELSE y + Modulus - x
  BY <1>1, DistanceIs
<1>3. Distance(n, x) = Distance(n, y) => x = y
  BY <1>1, <1>2, HalfIsHalf
<1>4. Distance(n, x) < Distance(n, y) =>
        x # y /\ Distance(x, y) < Half /\ ~(Distance(y, x) < Half)
  BY <1>1, <1>2, HalfIsHalf
<1>5. Distance(n, x) \in Nat /\ Distance(n, y) \in Nat
  BY <1>1, DistanceIs, HalfIsHalf
<1> QED BY <1>3, <1>4, <1>5 DEF Newer

(* What comes out belongs to the message whose fragment completed it.      *)
LEMMA ArrivalKeyed ==
    ASSUME BudgetInv, GroupsKeyed, NEW f \in wire, ArriveChunk(f)
    PROVE  GroupsKeyed' /\ \A m \in out' : Key(m) = Key(f.msg)
<1>1. PICK held \in Swept(groups) :
         \/ Refuse(held)
         \/ \E rest \in RoomFor(Without(held, Superseded(held, f.msg.type, f.msg.id))) : Take(rest, f)
  BY DEF ArriveChunk, Push
<1>2. PartOf(held)
  <2>1. PartOf(groups)
    BY DEF PartOf
  <2> QED BY <1>1, <2>1, WithoutPart DEF Swept
<1>3. CASE Refuse(held)
  BY <1>2, <1>3 DEF Refuse, PartOf, GroupsKeyed
<1>4. ASSUME NEW rest \in RoomFor(Without(held, Superseded(held, f.msg.type, f.msg.id))), Take(rest, f)
      PROVE  GroupsKeyed' /\ \A m \in out' : Key(m) = Key(f.msg)
  <2>1. PartOf(rest)
    BY <1>2, WithoutPart, RoomIsMade
  <2> DEFINE key == Key(f.msg)
             before == IF key \in DOMAIN rest THEN rest[key] ELSE NoGroup(f.msg.size)
             group == Stored(before, f)
  <2>2. before = [size |-> before.size, chunks |-> before.chunks, age |-> before.age]
    <3>1. CASE key \in DOMAIN rest
      BY <2>1, <3>1 DEF PartOf, BudgetInv, GroupShape
    <3>2. CASE key \notin DOMAIN rest
      BY <3>2 DEF NoGroup
    <3> QED BY <3>1, <3>2
  <2>3. \A i \in DOMAIN before.chunks : Key(before.chunks[i]) = key
    <3>1. CASE key \in DOMAIN rest
      BY <2>1, <3>1 DEF PartOf, GroupsKeyed
    <3>2. CASE key \notin DOMAIN rest
      BY <3>2 DEF NoGroup
    <3> QED BY <3>1, <3>2
  <2>4. \A i \in DOMAIN group.chunks : Key(group.chunks[i]) = key
    <3> HIDE DEF before
    <3>1. CASE f.index \in DOMAIN before.chunks \/ before.size # f.msg.size
      BY <2>3, <3>1 DEF Stored
    <3>2. CASE ~(f.index \in DOMAIN before.chunks \/ before.size # f.msg.size)
      <4> DEFINE c == [i \in DOMAIN before.chunks \cup {f.index} |->
                          IF i = f.index THEN f.msg ELSE before.chunks[i]]
      <4>1. group.chunks = c
        BY <2>2, <3>2 DEF Stored
      <4>2. \A i \in DOMAIN c : Key(c[i]) = key
        BY <2>3
      <4> QED BY <4>1, <4>2
    <3> QED BY <3>1, <3>2
  <2>5. CASE Complete(group)
    <3>1. groups' = Without(rest, {key}) /\ out' = {group.chunks[i] : i \in DOMAIN group.chunks}
      BY <1>4, <2>5 DEF Take, Deliver
    <3>2. PartOf(Without(rest, {key}))
      BY <2>1, WithoutPart
    <3> HIDE DEF group
    <3> QED BY <2>4, <3>1, <3>2 DEF PartOf, GroupsKeyed
  <2>6. CASE ~Complete(group)
    <3>1. /\ groups' = [k \in DOMAIN rest \cup {key} |-> IF k = key THEN group ELSE rest[k]]
          /\ out' = {}
      BY <1>4, <2>6 DEF Take
    <3> HIDE DEF group
    <3> QED BY <2>1, <2>4, <3>1 DEF PartOf, GroupsKeyed
  <2> QED BY <2>5, <2>6
<1> QED BY <1>1, <1>3, <1>4

LEMMA NextKeyed == BudgetInv /\ GroupsKeyed /\ [ChunkNext]_chunkVars => GroupsKeyed'
<1> SUFFICES ASSUME BudgetInv, GroupsKeyed, [ChunkNext]_chunkVars PROVE GroupsKeyed'
  OBVIOUS
<1>1. CASE UNCHANGED groups
  BY <1>1 DEF GroupsKeyed
<1>2. CASE Tick
  <2>1. DOMAIN groups' = DOMAIN groups
    BY <1>2 DEF Tick
  <2>2. ASSUME NEW k \in DOMAIN groups PROVE groups'[k].chunks = groups[k].chunks
    <3>1. groups'[k] = [groups[k] EXCEPT !.age = Smaller(@ + 1, Ttl)]
      BY <1>2 DEF Tick
    <3>2. GroupShape(groups[k])
      BY DEF BudgetInv
    <3> QED BY <3>1, <3>2 DEF GroupShape
  <2> QED BY <2>1, <2>2 DEF GroupsKeyed
<1>3. CASE SpendNumber \/ NewSession \/ UNCHANGED chunkVars
  BY <1>1, <1>3 DEF SpendNumber, NewSession, chunkVars, assembler
<1>4. ASSUME NEW t \in Types, NEW n \in Sizes, SendMessage(t, n) PROVE GroupsKeyed'
  BY <1>1, <1>4 DEF SendMessage, assembler
<1>5. ASSUME NEW f \in wire, LoseChunk(f) PROVE GroupsKeyed'
  BY <1>1, <1>5 DEF LoseChunk, assembler
<1> QED BY <1>2, <1>3, <1>4, <1>5, ArrivalKeyed DEF ChunkNext

(* What is admitted is not behind anything recent that was seen.           *)
LEMMA AdmittedIsAhead ==
    ASSUME ChunkTypes, NEW t \in Types, NEW id \in Ids, Admissible(t, id), Lag(id) <= MaxLag + 1,
           NEW s \in seen[t], Lag(s) <= MaxLag + 1
    PROVE  Lag(id) <= Lag(s)
<1>1. s \in Ids /\ nextId \in 0..(Modulus - 1)
  BY DEF ChunkTypes
<1>2. ~Newer(s, id)
  BY DEF Admissible
<1>3. ~(Lag(s) < Lag(id))
  BY <1>1, <1>2, FurtherIsOlder DEF Lag
<1>4. Lag(s) \in Nat /\ Lag(id) \in Nat
  BY <1>1, LagIsNat
<1> QED BY <1>3, <1>4

(* A settled message is not admitted, and stays settled when another one   *)
(* of its type is.                                                         *)
LEMMA SettledIsRefused ==
    ASSUME NEW m, Settled(m), Admissible(m.type, m.id)
    PROVE  FALSE
BY DEF Settled, Admissible

LEMMA StaysSettled ==
    ASSUME ChunkTypes, NEW f \in wire, ArriveChunk(f), NEW m, m.type \in Types, m.id \in Ids,
           Lag(f.msg.id) <= MaxLag + 1, Lag(m.id) <= MaxLag + 1, Settled(m)
    PROVE  Settled(m)'
<1>1. f.msg.type \in Types /\ f.msg.id \in Ids /\ nextId \in 0..(Modulus - 1)
  BY DEF ChunkTypes, Fragments
<1>2. nextId' = nextId
  BY ArrivalMoves
<1>3. CASE UNCHANGED <<seen, completed>>
  BY <1>2, <1>3 DEF Settled, Lag
<1>4. CASE /\ Admissible(f.msg.type, f.msg.id)
           /\ seen' = [seen EXCEPT ![f.msg.type] = {f.msg.id}]
           /\ \/ UNCHANGED completed
              \/ completed' = [completed EXCEPT ![f.msg.type] = CompletedMark(f.msg.type, f.msg.id)]
  <2>1. CASE m.type # f.msg.type
    <3>1. seen'[m.type] = seen[m.type] /\ completed'[m.type] = completed[m.type]
      BY <1>1, <1>4, <2>1 DEF ChunkTypes
    <3> QED BY <1>2, <3>1 DEF Settled, Lag
  <2>2. CASE m.type = f.msg.type
    <3>1. PICK s \in seen[m.type] : Lag(s) <= Lag(m.id)
      BY DEF Settled
    <3>2. s \in Ids
      BY DEF ChunkTypes
    <3>3. Lag(s) \in Nat /\ Lag(m.id) \in Nat /\ Lag(f.msg.id) \in Nat
      BY <1>1, <3>2, LagIsNat
    <3>4. Lag(s) <= MaxLag + 1
      BY <3>1, <3>3, HalfIsHalf
    <3>5. Lag(f.msg.id) <= Lag(s)
      BY <1>1, <1>4, <2>2, <3>4, AdmittedIsAhead
    <3>6. Lag(f.msg.id) <= Lag(m.id)
      BY <3>1, <3>3, <3>5
    <3>7. ~Newer(m.id, f.msg.id)
      BY <1>1, <3>6, FurtherIsOlder DEF Lag
    <3>8. seen'[m.type] = {f.msg.id}
      BY <1>1, <1>4, <2>2 DEF ChunkTypes
    <3>9. completed'[m.type] # {} /\ \A c \in completed'[m.type] : ~Newer(m.id, c)
      <4>1. CASE UNCHANGED completed
        BY <4>1 DEF Settled
      <4>2. CASE completed' = [completed EXCEPT ![f.msg.type] = CompletedMark(f.msg.type, f.msg.id)]
        <5>1. completed'[m.type] = CompletedMark(f.msg.type, f.msg.id)
          BY <1>1, <2>2, <4>2 DEF ChunkTypes
        <5>2. completed[f.msg.type] # {}
          BY <2>2 DEF Settled
        <5>3. completed'[m.type] \subseteq {f.msg.id} /\ completed'[m.type] # {}
          BY <1>1, <1>4, <5>1, <5>2, CompletedMarkIs
        <5> QED BY <3>7, <5>3
      <4> QED BY <1>4, <4>1, <4>2
    <3> QED BY <1>2, <3>6, <3>8, <3>9 DEF Settled, Lag
  <2> QED BY <2>1, <2>2
<1> QED BY <1>3, <1>4, ArrivalMoves

(* A message that comes out is settled by its own mark.                    *)
LEMMA DeliveredIsSettled ==
    ASSUME ChunkTypes, BudgetInv, GroupsKeyed, NEW f \in wire, ArriveChunk(f), NEW m \in out'
    PROVE  Settled(m)' /\ Admissible(m.type, m.id)
<1>1. m.type = f.msg.type /\ m.id = f.msg.id
  BY ArrivalKeyed DEF Key
<1>2. f.msg.type \in Types /\ f.msg.id \in Ids /\ nextId' = nextId
  BY ArrivalMoves DEF ChunkTypes, Fragments
<1>3. /\ Admissible(f.msg.type, f.msg.id)
      /\ seen' = [seen EXCEPT ![f.msg.type] = {f.msg.id}]
      /\ completed' = [completed EXCEPT ![f.msg.type] = CompletedMark(f.msg.type, f.msg.id)]
  BY ArrivalMoves
<1>4. seen'[m.type] = {m.id} /\ completed'[m.type] = CompletedMark(m.type, m.id)
  BY <1>1, <1>2, <1>3 DEF ChunkTypes
<1>5. \A c \in CompletedMark(m.type, m.id) : ~Newer(m.id, c)
  BY DEF CompletedMark, Newer
<1>6. CompletedMark(m.type, m.id) # {}
  BY DEF CompletedMark
<1>7. Lag(m.id) \in Nat
  BY <1>1, <1>2, LagIsNat
<1>8. Lag(m.id)' <= Lag(m.id)'
  BY <1>2, <1>7 DEF Lag
<1> QED BY <1>1, <1>3, <1>4, <1>5, <1>6, <1>8 DEF Settled, Lag

(* The sender spends a number, when nothing under way is out of time.      *)
LEMMA SpendingOnce ==
    ASSUME ChunkTypes, OnceInv, session = 1, nextId' = NumberAfter(nextId),
           \A f \in wire : InTime(f), UNCHANGED <<session, seen, completed, delivered>>,
           wire \subseteq wire', \A f \in wire' \ wire : f.msg.session = 1 /\ f.msg.id = nextId'
    PROVE  OnceInv'
<1>1. nextId \in 0..(Modulus - 1) /\ nextId' \in Ids /\ nextId' \in 0..(Modulus - 1)
  BY NumberAfterIs, HalfIsHalf DEF ChunkTypes, Ids
<1>2. \A f \in wire : f.msg.session = 1 /\ Lag(f.msg.id) < MaxLag /\ f.msg.id \in Ids
  BY DEF OnceInv, InTime, Lag, ChunkTypes, Fragments
<1>3. ASSUME NEW x \in Ids, Lag(x) < MaxLag
      PROVE  /\ Distance(nextId', x) = Lag(x) + IF nextId = Modulus - 1 THEN 2 ELSE 1
             /\ Lag(x) \in Nat
  <2>1. Lag(x) \in Nat
    BY LagIsNat
  <2> QED BY <1>1, <1>3, <2>1, LagGrows DEF Lag
<1>4. ASSUME NEW f \in wire' PROVE f.msg.session = 1 /\ Distance(nextId', f.msg.id) <= MaxLag + 1
  <2>1. CASE f \in wire
    BY <1>2, <1>3, <2>1, HalfIsHalf
  <2>2. CASE f \notin wire
    <3>1. f.msg.session = 1 /\ f.msg.id = nextId'
      BY <2>2
    <3>2. Distance(nextId', nextId') = 0
      BY <1>1, DistanceIs, HalfIsHalf
    <3> QED BY <3>1, <3>2, HalfIsHalf
  <2> QED BY <2>1, <2>2
<1>5. ASSUME NEW m \in delivered PROVE Settled(m)' /\ \E f \in wire' : f.msg = m
  <2>1. Settled(m) /\ \E f \in wire : f.msg = m
    BY DEF OnceInv
  <2>2. m.type \in Types /\ m.id \in Ids /\ Lag(m.id) < MaxLag
    BY <1>2, <2>1 DEF ChunkTypes, Fragments
  <2>3. ASSUME NEW s \in seen[m.type] PROVE Distance(nextId', s) <= Distance(nextId', m.id)
    <3>1. Lag(s) <= Lag(m.id) /\ s \in Ids
      BY <2>1, <2>2 DEF Settled, ChunkTypes
    <3>2. Lag(s) \in Nat
      BY <3>1, LagIsNat
    <3>3. Lag(m.id) \in Nat /\ Distance(nextId', m.id) = Lag(m.id) + IF nextId = Modulus - 1 THEN 2 ELSE 1
      BY <1>3, <2>2
    <3>4. Lag(s) < MaxLag
      BY <2>2, <3>1, <3>2, <3>3, HalfIsHalf
    <3>5. Distance(nextId', s) = Lag(s) + IF nextId = Modulus - 1 THEN 2 ELSE 1
      BY <1>3, <3>1, <3>4
    <3> QED BY <3>1, <3>2, <3>3, <3>5
  <2> QED BY <2>1, <2>3 DEF Settled, Lag
<1> QED BY <1>4, <1>5 DEF OnceInv, Lag

LEMMA ArrivalOnce ==
    ASSUME ChunkTypes, BudgetInv, GroupsKeyed, OnceInv, session = 1, NEW f \in wire, ArriveChunk(f)
    PROVE  OnceInv' /\ out' \cap delivered = {}
<1>1. session' = 1 /\ nextId' = nextId /\ wire' \subseteq wire
  BY ArrivalMoves
<1>2. \A g \in wire : g.msg.session = 1 /\ Lag(g.msg.id) <= MaxLag + 1 /\ g.msg.type \in Types /\ g.msg.id \in Ids
  BY DEF OnceInv, ChunkTypes, Fragments
<1>3. delivered' = {m \in delivered \cup out' : \E g \in wire' : g.msg = m}
  BY DEF ArriveChunk, InFlight
<1>4. ASSUME NEW m \in delivered' PROVE Settled(m)'
  <2>1. CASE m \in out'
    BY <2>1, DeliveredIsSettled
  <2>2. CASE m \in delivered
    <3>1. Settled(m) /\ \E g \in wire : g.msg = m
      BY <2>2 DEF OnceInv
    <3>2. m.type \in Types /\ m.id \in Ids /\ Lag(m.id) <= MaxLag + 1 /\ Lag(f.msg.id) <= MaxLag + 1
      BY <1>2, <3>1
    <3> QED BY <3>1, <3>2, StaysSettled
  <2> QED BY <1>3, <2>1, <2>2
<1>5. OnceInv'
  BY <1>1, <1>2, <1>3, <1>4 DEF OnceInv, Lag
<1>6. ASSUME NEW m \in out', m \in delivered PROVE FALSE
  <2>1. Settled(m)
    BY <1>6 DEF OnceInv
  <2>2. Admissible(m.type, m.id)
    BY DeliveredIsSettled
  <2> QED BY <2>1, <2>2, SettledIsRefused
<1> QED BY <1>5, <1>6

ChunkInv == ChunkTypes /\ MarksTracked /\ BudgetInv /\ GroupsKeyed /\ OnceInv

LEMMA InitChunkInv == ChunkInit => ChunkInv
<1> SUFFICES ASSUME ChunkInit PROVE GroupsKeyed /\ OnceInv
  BY InitChunkTypes, InitBudgetInv DEF ChunkInv
<1> QED BY DEF ChunkInit, GroupsKeyed, OnceInv

(* A step keeps OnceInv and brings out nothing that came out before.       *)
LEMMA NextOnce ==
    ASSUME ChunkInv, [ChunkNext]_chunkVars
    PROVE  OnceInv' /\ [session = 1 => out' \cap delivered = {}]_chunkVars
<1>1. ASSUME NEW f \in wire, ArriveChunk(f)
      PROVE  OnceInv' /\ (session = 1 => out' \cap delivered = {})
  <2>1. CASE session = 1
    BY <1>1, <2>1, ArrivalOnce DEF ChunkInv
  <2>2. CASE session # 1
    BY <1>1, <2>2, ArrivalMoves DEF ChunkInv, OnceInv
  <2> QED BY <2>1, <2>2
<1>2. ASSUME NEW t \in Types, NEW n \in Sizes, SendMessage(t, n)
      PROVE  OnceInv' /\ out' = {}
  <2>1. out' = {} /\ session' = session
    BY <1>2 DEF SendMessage
  <2>2. CASE session = 1
    <3> DEFINE msg == [session |-> session, type |-> t, id |-> NumberAfter(nextId), size |-> n]
    <3>1. /\ nextId' = NumberAfter(nextId) /\ \A f \in wire : InTime(f)
          /\ wire' = wire \cup {[msg |-> msg, index |-> i] : i \in 1..n}
          /\ UNCHANGED <<session, seen, completed, delivered>>
      BY <1>2 DEF SendMessage, assembler
    <3>2. \A f \in wire' \ wire : f.msg.session = 1 /\ f.msg.id = nextId'
      BY <2>2, <3>1
    <3>3. wire \subseteq wire'
      BY <3>1
    <3> HIDE DEF msg
    <3> QED BY <2>1, <2>2, <3>1, <3>2, <3>3, SpendingOnce DEF ChunkInv
  <2>3. CASE session # 1
    BY <2>1, <2>3 DEF OnceInv
  <2> QED BY <2>1, <2>2, <2>3
<1>3. ASSUME NEW f \in wire, LoseChunk(f) PROVE OnceInv' /\ out' = {}
  <2>1. /\ out' = {} /\ wire' \subseteq wire /\ delivered' = InFlight(delivered, wire')
        /\ UNCHANGED <<session, nextId, seen, completed>>
    BY <1>3 DEF LoseChunk, sender, assembler
  <2> QED BY <2>1 DEF ChunkInv, OnceInv, InFlight, Settled, Lag
<1>4. CASE SpendNumber
  <2>1. /\ out' = {} /\ nextId' = NumberAfter(nextId) /\ \A f \in wire : InTime(f)
        /\ UNCHANGED <<session, wire, seen, completed, delivered>>
    BY <1>4 DEF SpendNumber, assembler
  <2>2. CASE session = 1
    BY <2>1, <2>2, SpendingOnce DEF ChunkInv
  <2>3. CASE session # 1
    BY <2>1, <2>3 DEF OnceInv
  <2> QED BY <2>1, <2>2, <2>3
<1>5. CASE NewSession
  <2>1. session' # 1 /\ out' = {}
    BY <1>5 DEF NewSession, ChunkInv, ChunkTypes
  <2> QED BY <2>1 DEF OnceInv
<1>6. CASE Tick
  <2>1. out' = {} /\ UNCHANGED <<session, nextId, wire, seen, completed, delivered>>
    BY <1>6 DEF Tick, sender
  <2> QED BY <2>1 DEF ChunkInv, OnceInv, Settled, Lag
<1>7. CASE UNCHANGED chunkVars
  BY <1>7 DEF ChunkInv, OnceInv, Settled, Lag, chunkVars, sender, assembler
<1> QED BY <1>1, <1>2, <1>3, <1>4, <1>5, <1>6, <1>7 DEF ChunkNext

LEMMA NextChunkInv == ChunkInv /\ [ChunkNext]_chunkVars => ChunkInv'
<1> SUFFICES ASSUME ChunkInv, [ChunkNext]_chunkVars PROVE ChunkInv'
  OBVIOUS
<1>1. ChunkTypes' /\ MarksTracked'
  BY NextTracks DEF ChunkInv
<1>2. BudgetInv'
  BY NextBudgetInv DEF ChunkInv
<1>3. GroupsKeyed'
  BY NextKeyed DEF ChunkInv
<1>4. OnceInv'
  BY NextOnce
<1> QED BY <1>1, <1>2, <1>3, <1>4 DEF ChunkInv

(* The assembler's numbers and marks keep their types, and a type has at   *)
(* most one completed mark.                                                *)
THEOREM ChunkTypesCorrect == ChunkSpec => []ChunkTypes
<1>1. ChunkTypes /\ MarksTracked => ChunkTypes
  OBVIOUS
<1> QED BY <1>1, InitChunkTypes, NextTracks, PTL DEF ChunkSpec

(* No message of a session comes out twice, across the wrap of the         *)
(* numbers, however its fragments are repeated and reordered.              *)
THEOREM MessagesComeOutOnce == ChunkSpec => DeliveredOnce
<1>1. ChunkInv /\ [ChunkNext]_chunkVars => [session = 1 => out' \cap delivered = {}]_chunkVars
  BY NextOnce
<1> QED BY <1>1, InitChunkInv, NextChunkInv, PTL DEF ChunkSpec, DeliveredOnce
=============================================================================
