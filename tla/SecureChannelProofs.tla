------------------------- MODULE SecureChannelProofs -------------------------
(***************************************************************************)
(* Proofs about SecureChannel, for any keys, lanes, id space, width of the *)
(* replay window and number of sends: no nonce is used twice, an open      *)
(* channel is mutual, what is opened was sent, once and in order, and the  *)
(* replay window is exact.                                                 *)
(***************************************************************************)
EXTENDS SecureChannel, TLAPS

-----------------------------------------------------------------------------
(* The inductive invariant                                                  *)

SentMessages == SecEnds \X Nat
HelloMessages == [is : {"hello"}, id : Nat, key : Nat, fresh : SecEnds, major : Nat]
ProofMessages == [is : {"proof"}, id : Nat, major : Nat, signs : Nat \X Nat \X SecEnds \X SecEnds]
DataPieces == [is : {"data"}, id : Nat, message : SentMessages, part : {1, 2}]
WireMessages == HelloMessages \cup ProofMessages \cup DataPieces
Sends == [lane : {"none"} \cup {x[2] : x \in SecLanes}, id : Nat, part : {0, 1}]
Windows == [some : BOOLEAN, highest : Nat, seen : SUBSET Bits]

Places == {"start", "hello", "proof", "open", "failed"}

HandshakeTyped ==
    /\ secKey \in [SecEnds -> KeyRanks]
    /\ pinned \in [SecEnds -> SUBSET KeyRanks]
    /\ major \in [SecEnds -> Nat]
    /\ hs \in [SecEnds -> Places]
    /\ peerHello \in [SecEnds -> Seq(HelloMessages)]
    /\ secWire \in [SecEnds -> Seq(WireMessages)]

SenderTyped ==
    /\ nextId \in [SecEnds -> FirstDataId .. LastId + 1]
    /\ sending \in [SecEnds -> Sends]
    /\ control \in [SecEnds -> BOOLEAN]
    /\ started \in [SecEnds -> Seq(SentMessages)]

ReceiverTyped ==
    /\ window \in [SecEnds -> Windows]
    /\ opened \in [SecEnds -> Seq(SentMessages)]
    /\ misordered \in 0 .. MaxMisordered

Typed == HandshakeTyped /\ SenderTyped /\ ReceiverTyped

\* e has the hello of its peer, and found it acceptable.
Met(e) ==
    /\ peerHello[e] = <<Hello(Far(e))>>
    /\ major[e] = major[Far(e)] /\ secKey[Far(e)] \in pinned[e]
    /\ hs[e] \in {"proof", "open", "failed"}

\* Both ends have met and their keys differ, which gives each direction a key.
Joined(e) == Met(e) /\ Met(Far(e)) /\ secKey[e] # secKey[Far(e)]

\* A hello comes from the peer, and a proof from a peer that has met this end.
HandshakeOK(e) ==
    /\ peerHello[e] # <<>> => Met(e)
    /\ hs[e] = "proof" => Met(e)
    /\ hs[e] = "open" => Joined(e)
    /\ \A i \in DOMAIN secWire[e] :
          /\ secWire[e][i].is = "hello" => secWire[e][i] = Hello(Far(e))
          /\ secWire[e][i].is = "proof" => Met(Far(e))

\* The id of the n-th message of an end: the control message has id 0, and the
\* lanes' messages have the ids from FirstDataId on without a gap.
IdOf(n) == IF n = 0 THEN 0 ELSE FirstDataId + n - 1

\* Every message took the next id, whatever became of it.
CounterOK(e) ==
    /\ \A n \in DOMAIN started[e] : started[e][n] = <<e, n - 1>>
    /\ ~control[e] => Len(started[e]) = 0 /\ nextId[e] = FirstDataId
    /\ control[e] => Len(started[e]) >= 1 /\ nextId[e] = FirstDataId + Len(started[e]) - 1
    /\ sending[e].lane # "none" => control[e] /\ sending[e].id = IdOf(Len(started[e]) - 1)

\* What was sealed: messages of an end that has joined, under its key and the
\* id of the message.
SealedBy(x, e, n) ==
    Joined(e) /\ n < Len(started[e]) /\ x = <<TxKey(e), IdOf(n), <<e, n>>>>
SealOK == \A x \in sealed : \E e \in SecEnds, n \in Nat : SealedBy(x, e, n)

\* What travels to e are pieces of the messages of its peer.
FlightOK(e) ==
    \A i \in DOMAIN secWire[e] : secWire[e][i].is = "data" =>
        LET m == secWire[e][i]
        IN  /\ m.message[1] = Far(e) /\ m.message[2] < Len(started[Far(e)])
            /\ m.id = IdOf(m.message[2])

\* What e has opened are sealed messages of its peer, none twice.
Number(e, i) == opened[e][i][2]
OpenedOK(e) ==
    /\ \A i \in DOMAIN opened[e] :
          /\ opened[e][i] = <<Far(e), Number(e, i)>> /\ Number(e, i) < Len(started[Far(e)])
          /\ Joined(e) /\ <<RxKey(e), IdOf(Number(e, i)), opened[e][i]>> \in sealed
    /\ \A i, j \in DOMAIN opened[e] : i < j => Number(e, i) # Number(e, j)

\* The replay window against the ids of the opened messages.
WindowOK(e) ==
    LET w == window[e]
    IN  /\ ~w.some => opened[e] = <<>>
        /\ w.some => \A i \in DOMAIN opened[e] : IdOf(Number(e, i)) <= w.highest
        /\ w.some => \A k \in Bits :
              k \in w.seen <=> \E i \in DOMAIN opened[e] : IdOf(Number(e, i)) + k = w.highest

\* Over a stream the pieces arrive in the order of their writing: what is
\* opened comes before what travels, and that before what is being written.
InOrder(p, q) == p.message[2] < q.message[2] \/ (p.message[2] = q.message[2] /\ p.part < q.part)
StreamOK(e) ==
    LET w == secWire[e]
        s == sending[Far(e)]
        last == Len(started[Far(e)]) - 1
    IN  /\ \A i, j \in DOMAIN w : i < j /\ w[i].is = "data" /\ w[j].is = "data" => InOrder(w[i], w[j])
        /\ \A i \in DOMAIN w, j \in DOMAIN opened[e] : w[i].is = "data" => Number(e, j) < w[i].message[2]
        /\ \A i, j \in DOMAIN opened[e] : i < j => Number(e, i) < Number(e, j)
        /\ s.lane # "none" =>
              /\ \A i \in DOMAIN w : w[i].is = "data" =>
                    w[i].message[2] < last \/ (w[i].message[2] = last /\ w[i].part <= s.part)
              /\ \A j \in DOMAIN opened[e] : Number(e, j) < last

ChannelInv ==
    /\ Typed /\ SealOK
    /\ \A e \in SecEnds :
          /\ HandshakeOK(e) /\ CounterOK(e) /\ FlightOK(e) /\ OpenedOK(e) /\ WindowOK(e)
          /\ misordered = 0 => StreamOK(e)

-----------------------------------------------------------------------------
(* Ends, ids and keys                                                       *)

\* The two ends.
LEMMA EndFacts ==
    ASSUME NEW e \in SecEnds
    PROVE  /\ Far(e) \in SecEnds /\ Far(Far(e)) = e /\ Far(e) # e
           /\ \A x \in SecEnds : x = e \/ x = Far(e)
BY DEF SecEnds, Far

\* Later messages have greater ids.
LEMMA IdFacts ==
    ASSUME NEW n \in Nat, NEW m \in Nat
    PROVE  /\ IdOf(n) \in Nat /\ (n < m => IdOf(n) < IdOf(m))
           /\ (IdOf(n) = IdOf(m) => n = m)
BY SecureConstants DEF IdOf

\* The two directions of a joined connection have keys of their own, and each
\* end receives with the key the other sends with.
LEMMA KeyFacts ==
    ASSUME Typed, NEW e \in SecEnds, Joined(e)
    PROVE  RxKey(e) = TxKey(Far(e)) /\ TxKey(e) # TxKey(Far(e))
<1>1. PICK f \in SecEnds : f = Far(e) /\ Far(f) = e /\ f # e
  BY EndFacts
<1>2. secKey[e] \in Nat /\ secKey[f] \in Nat /\ secKey[e] # secKey[f]
  BY <1>1, SecureConstants DEF Typed, HandshakeTyped, Joined
<1>3. peerHello[e] = <<Hello(f)>> /\ peerHello[f] = <<Hello(e)>>
  BY <1>1 DEF Joined, Met
<1>4. /\ peerHello[e][1].key = secKey[f] /\ peerHello[e][1].fresh = f
      /\ peerHello[f][1].key = secKey[e] /\ peerHello[f][1].fresh = e
  BY <1>3 DEF Hello, Fresh
<1>5. CASE secKey[e] < secKey[f]
  <2>1. ~(secKey[f] < secKey[e])
    BY <1>2, <1>5
  <2>2. Context(e) = <<<<secKey[e], e>>, <<secKey[f], f>>>>
    BY <1>4, <1>5 DEF Context, Fresh
  <2>3. Context(f) = <<<<secKey[e], e>>, <<secKey[f], f>>>>
    BY <1>4, <2>1 DEF Context, Fresh
  <2>4. /\ TxKey(e) = <<Context(e), "a_to_b">> /\ RxKey(e) = <<Context(e), "b_to_a">>
        /\ TxKey(f) = <<Context(f), "b_to_a">>
    BY <1>4, <1>5, <2>1 DEF TxKey, RxKey
  <2> QED
    BY <1>1, <2>2, <2>3, <2>4
<1>6. CASE secKey[f] < secKey[e]
  <2>1. ~(secKey[e] < secKey[f])
    BY <1>2, <1>6
  <2>2. Context(f) = <<<<secKey[f], f>>, <<secKey[e], e>>>>
    BY <1>4, <1>6 DEF Context, Fresh
  <2>3. Context(e) = <<<<secKey[f], f>>, <<secKey[e], e>>>>
    BY <1>4, <2>1 DEF Context, Fresh
  <2>4. /\ TxKey(e) = <<Context(e), "b_to_a">> /\ RxKey(e) = <<Context(e), "a_to_b">>
        /\ TxKey(f) = <<Context(f), "a_to_b">>
    BY <1>4, <1>6, <2>1 DEF TxKey, RxKey
  <2> QED
    BY <1>1, <2>2, <2>3, <2>4
<1> QED
  BY <1>2, <1>5, <1>6

\* The identities never change, so whoever has met stays joined with its keys.
Steady ==
    /\ UNCHANGED <<secKey, pinned, major>>
    /\ \A x \in SecEnds : Met(x) => Met(x)'

\* The keys of a joined connection are its keys from then on.
LEMMA SteadyFacts ==
    ASSUME Steady, NEW e \in SecEnds, Joined(e)
    PROVE  Joined(e)' /\ TxKey(e)' = TxKey(e) /\ RxKey(e)' = RxKey(e)
<1>1. PICK f \in SecEnds : f = Far(e) /\ Far(f) = e /\ f # e
  BY EndFacts
<1>2. Met(e)' /\ Met(f)'
  BY <1>1 DEF Steady, Joined
<1>3. Joined(e)'
  BY <1>1, <1>2 DEF Steady, Joined
<1>4. Hello(f)' = Hello(f)
  BY DEF Steady, Hello
<1>5. peerHello[e] = <<Hello(f)>> /\ peerHello'[e] = <<Hello(f)>>
  BY <1>1, <1>2, <1>4 DEF Joined, Met
<1>6. secKey' = secKey /\ peerHello'[e][1] = peerHello[e][1]
  BY <1>5 DEF Steady
<1>7. Context(e)' = Context(e)
  BY <1>6 DEF Context
<1> QED
  BY <1>3, <1>6, <1>7 DEF TxKey, RxKey

\* What was sealed and what was opened stays so.
LEMMA HistoryKept ==
    ASSUME Typed, Typed', Steady, SealOK, sealed \subseteq sealed', NEW e \in SecEnds, OpenedOK(e),
           \A x \in SecEnds : Len(started[x]) <= Len(started[x])'
    PROVE  /\ \A x \in sealed : \E y \in SecEnds, n \in Nat : SealedBy(x, y, n)'
           /\ opened'[e] = opened[e] => OpenedOK(e)'
<1>1. \A x \in SecEnds : Len(started[x]) \in Nat /\ Len(started[x])' \in Nat
  BY DEF Typed, SenderTyped
<1>2. ASSUME NEW x \in sealed PROVE \E y \in SecEnds, n \in Nat : SealedBy(x, y, n)'
  <2>1. PICK y \in SecEnds, n \in Nat : SealedBy(x, y, n)
    BY DEF SealOK
  <2>2. Joined(y)' /\ TxKey(y)' = TxKey(y)
    BY <2>1, SteadyFacts DEF SealedBy
  <2>3. n < Len(started[y])'
    BY <1>1, <2>1 DEF SealedBy
  <2>4. IdOf(n)' = IdOf(n)
    BY DEF IdOf
  <2> QED
    BY <2>1, <2>2, <2>3, <2>4 DEF SealedBy
<1>3. ASSUME opened'[e] = opened[e] PROVE OpenedOK(e)'
  <2>1. \A i \in DOMAIN opened[e] : Number(e, i)' = Number(e, i) /\ Number(e, i) \in Nat
    <3>1. \A i \in DOMAIN opened[e] : opened[e][i] \in SentMessages
      BY DEF Typed, ReceiverTyped
    <3> QED
      BY <1>3, <3>1 DEF Number, SentMessages
  <2>2. ASSUME NEW i \in DOMAIN opened[e]
        PROVE  /\ opened[e][i] = <<Far(e), Number(e, i)>> /\ Number(e, i) < Len(started[Far(e)])'
               /\ Joined(e)' /\ <<RxKey(e)', IdOf(Number(e, i)), opened[e][i]>> \in sealed'
    <3>1. /\ opened[e][i] = <<Far(e), Number(e, i)>> /\ Number(e, i) < Len(started[Far(e)])
          /\ Joined(e) /\ <<RxKey(e), IdOf(Number(e, i)), opened[e][i]>> \in sealed
      BY DEF OpenedOK
    <3>2. Joined(e)' /\ RxKey(e)' = RxKey(e)
      BY <3>1, SteadyFacts
    <3>3. Number(e, i) < Len(started[Far(e)])'
      BY <1>1, <2>1, <3>1, EndFacts
    <3> QED
      BY <3>1, <3>2, <3>3
  <2>3. \A i, j \in DOMAIN opened[e] : i < j => Number(e, i) # Number(e, j)
    BY DEF OpenedOK
  <2> QED
    BY <1>3, <2>1, <2>2, <2>3 DEF OpenedOK, IdOf, Far
<1> QED
  BY <1>2, <1>3

-----------------------------------------------------------------------------
(* Steps that neither seal nor open                                         *)

\* The pieces of new are those of old after its first d, in their order.
Shifts(new, old, d) ==
    \A i \in DOMAIN new : new[i].is = "data" => i + d \in DOMAIN old /\ new[i] = old[i + d]

\* A send that is given up, or goes on.
Yields(new, old) == new = old \/ new.lane = "none"

\* Reading from the front of a wire keeps what is known of the rest.
LEMMA WireShifted ==
    ASSUME Typed, Typed', NEW e \in SecEnds, FlightOK(e), NEW d \in Nat,
           Shifts(secWire'[e], secWire[e], d), opened'[e] = opened[e],
           started'[Far(e)] = started[Far(e)], Yields(sending'[Far(e)], sending[Far(e)])
    PROVE  FlightOK(e)' /\ (StreamOK(e) => StreamOK(e)')
<1>1. PICK f \in SecEnds : f = Far(e)
  BY EndFacts
<1>2. PICK w, v : w = secWire[e] /\ v = secWire'[e]
  OBVIOUS
<1>3. \A i \in DOMAIN v : v[i].is = "data" => i + d \in DOMAIN w /\ v[i] = w[i + d]
  BY <1>2 DEF Shifts
<1>4. \A i, j \in DOMAIN v : i \in Nat /\ j \in Nat /\ (i < j => i + d < j + d)
  BY <1>2 DEF Typed, HandshakeTyped
<1>5. FlightOK(e)'
  <2>1. ASSUME NEW i \in DOMAIN v, v[i].is = "data"
        PROVE  /\ v[i].message[1] = f /\ v[i].message[2] < Len(started[f])
               /\ v[i].id = IdOf(v[i].message[2])
    <3>1. i + d \in DOMAIN w /\ v[i] = w[i + d]
      BY <1>3, <2>1
    <3> QED
      BY <1>1, <1>2, <2>1, <3>1 DEF FlightOK
  <2>2. started'[f] = started[f]
    BY <1>1
  <2> QED
    BY <1>1, <1>2, <2>1, <2>2 DEF FlightOK, IdOf, Far
<1>6. ASSUME StreamOK(e) PROVE StreamOK(e)'
  <2>1. \A i \in DOMAIN opened[e] : Number(e, i)' = Number(e, i)
    BY DEF Number
  <2>2. ASSUME NEW i \in DOMAIN v, NEW j \in DOMAIN v, i < j, v[i].is = "data", v[j].is = "data"
        PROVE  InOrder(v[i], v[j])
    <3>1. i + d \in DOMAIN w /\ v[i] = w[i + d] /\ j + d \in DOMAIN w /\ v[j] = w[j + d]
      BY <1>3, <2>2
    <3>2. i + d < j + d
      BY <1>4, <2>2
    <3> QED
      BY <1>2, <1>6, <2>2, <3>1, <3>2 DEF StreamOK
  <2>3. ASSUME NEW i \in DOMAIN v, NEW j \in DOMAIN opened[e], v[i].is = "data"
        PROVE  Number(e, j) < v[i].message[2]
    <3>1. i + d \in DOMAIN w /\ v[i] = w[i + d]
      BY <1>3, <2>3
    <3> QED
      BY <1>2, <1>6, <2>3, <3>1 DEF StreamOK
  <2>4. \A i, j \in DOMAIN opened[e] : i < j => Number(e, i) < Number(e, j)
    BY <1>6 DEF StreamOK
  <2>5. ASSUME sending'[f].lane # "none"
        PROVE  /\ \A i \in DOMAIN v : v[i].is = "data" =>
                     \/ v[i].message[2] < Len(started[f]) - 1
                     \/ v[i].message[2] = Len(started[f]) - 1 /\ v[i].part <= sending'[f].part
               /\ \A j \in DOMAIN opened[e] : Number(e, j) < Len(started[f]) - 1
    <3>1. sending'[f] = sending[f] /\ sending[f].lane # "none"
      BY <1>1, <2>5 DEF Yields
    <3>2. ASSUME NEW i \in DOMAIN v, v[i].is = "data"
          PROVE  \/ v[i].message[2] < Len(started[f]) - 1
                 \/ v[i].message[2] = Len(started[f]) - 1 /\ v[i].part <= sending'[f].part
      <4>1. i + d \in DOMAIN w /\ v[i] = w[i + d]
        BY <1>3, <3>2
      <4> QED
        BY <1>1, <1>2, <1>6, <3>1, <3>2, <4>1 DEF StreamOK
    <3>3. \A j \in DOMAIN opened[e] : Number(e, j) < Len(started[f]) - 1
      BY <1>1, <1>6, <3>1 DEF StreamOK
    <3> QED
      BY <3>2, <3>3
  <2>6. started'[f] = started[f] /\ opened'[e] = opened[e] /\ secWire'[e] = v /\ Far(e) = f
    BY <1>1, <1>2
  <2> HIDE DEF Number
  <2> QED
    BY <2>1, <2>2, <2>3, <2>4, <2>5, <2>6 DEF StreamOK, InOrder, Far
<1> QED
  BY <1>5, <1>6

\* A step that leaves the ids, the window and what was opened alone.
LEMMA QuietInv ==
    ASSUME ChannelInv, Typed', Steady,
           UNCHANGED <<sealed, started, control, nextId, window, opened, misordered>>,
           \A x \in SecEnds : Yields(sending'[x], sending[x]),
           \A x \in SecEnds : HandshakeOK(x)',
           \A x \in SecEnds : \E d \in Nat : Shifts(secWire'[x], secWire[x], d)
    PROVE  ChannelInv'
<1>1. Typed /\ SealOK
  BY DEF ChannelInv
<1>2. \A x \in SecEnds : Len(started[x]) <= Len(started[x])'
  BY <1>1 DEF Typed, SenderTyped
<1>3. SealOK'
  <2>1. PICK e \in SecEnds : OpenedOK(e)
    BY DEF ChannelInv, SecEnds
  <2>2. \A x \in sealed : \E y \in SecEnds, n \in Nat : SealedBy(x, y, n)'
    BY <1>1, <1>2, <2>1, HistoryKept
  <2> QED
    BY <2>2 DEF SealOK
<1>4. ASSUME NEW e \in SecEnds
      PROVE  /\ CounterOK(e)' /\ FlightOK(e)' /\ OpenedOK(e)' /\ WindowOK(e)'
             /\ misordered' = 0 => StreamOK(e)'
  <2>1. /\ CounterOK(e) /\ FlightOK(e) /\ OpenedOK(e) /\ WindowOK(e)
        /\ misordered = 0 => StreamOK(e)
    BY DEF ChannelInv
  <2>2. OpenedOK(e)'
    BY <1>1, <1>2, <2>1, HistoryKept
  <2>3. WindowOK(e)'
    BY <2>1 DEF WindowOK, Number, IdOf
  <2>4. CounterOK(e)'
    <3>1. sending'[e].lane # "none" => sending'[e] = sending[e]
      BY DEF Yields
    <3> QED
      BY <2>1, <3>1 DEF CounterOK, IdOf
  <2>5. PICK d \in Nat : Shifts(secWire'[e], secWire[e], d)
    OBVIOUS
  <2>6. Far(e) \in SecEnds
    BY EndFacts
  <2>7. FlightOK(e)' /\ (StreamOK(e) => StreamOK(e)')
    BY <1>1, <2>1, <2>5, <2>6, WireShifted
  <2> QED
    BY <2>1, <2>2, <2>3, <2>4, <2>7
<1> QED
  BY <1>3, <1>4 DEF ChannelInv

\* Once the handshake is over, or when it fails, no new hello or proof appears.
LEMMA HandshakeKept ==
    ASSUME ChannelInv, UNCHANGED <<secKey, pinned, major, peerHello>>,
           \A x \in SecEnds : hs'[x] = hs[x] \/ hs'[x] = "failed",
           \A x \in SecEnds : \A i \in DOMAIN secWire'[x] :
              secWire'[x][i].is # "data" => \E j \in DOMAIN secWire[x] : secWire'[x][i] = secWire[x][j]
    PROVE  Steady /\ \A x \in SecEnds : HandshakeOK(x)'
<1>1. \A x \in SecEnds : Hello(x)' = Hello(x)
  BY DEF Hello
<1>2. ASSUME NEW x \in SecEnds, Met(x) PROVE Met(x)'
  BY <1>1, <1>2, EndFacts DEF Met
<1>3. ASSUME NEW x \in SecEnds PROVE HandshakeOK(x)'
  <2>1. HandshakeOK(x) /\ Far(x) \in SecEnds
    BY EndFacts DEF ChannelInv
  <2>2. (peerHello'[x] # <<>> => Met(x)') /\ (hs'[x] = "proof" => Met(x)')
    BY <1>2, <2>1 DEF HandshakeOK
  <2>3. hs'[x] = "open" => Joined(x)'
    BY <1>2, <2>1 DEF HandshakeOK, Joined
  <2>4. ASSUME NEW i \in DOMAIN secWire'[x]
        PROVE  /\ secWire'[x][i].is = "hello" => secWire'[x][i] = Hello(Far(x))
               /\ secWire'[x][i].is = "proof" => Met(Far(x))
    <3>1. CASE secWire'[x][i].is = "data"
      BY <3>1
    <3>2. CASE secWire'[x][i].is # "data"
      BY <2>1, <3>2 DEF HandshakeOK
    <3> QED
      BY <3>1, <3>2
  <2>5. \A i \in DOMAIN secWire'[x] :
           /\ secWire'[x][i].is = "hello" => secWire'[x][i] = Hello(Far(x))'
           /\ secWire'[x][i].is = "proof" => Met(Far(x))'
    <3>1. Hello(Far(x))' = Hello(Far(x)) /\ (Met(Far(x)) => Met(Far(x))')
      BY <1>1, <1>2, <2>1 DEF Far
    <3> QED
      BY <2>4, <3>1
  <2> QED
    BY <2>2, <2>3, <2>5 DEF HandshakeOK
<1> QED
  BY <1>2, <1>3 DEF Steady

-----------------------------------------------------------------------------
(* The handshake                                                            *)

\* A message at the end of a wire.
LEMMA AppendFacts ==
    ASSUME NEW S, NEW w \in Seq(S), NEW m \in S, NEW v, v = Append(w, m)
    PROVE  /\ v \in Seq(S) /\ Len(w) \in Nat /\ DOMAIN w = 1..Len(w)
           /\ DOMAIN v = 1..Len(w) + 1 /\ Len(v) = Len(w) + 1 /\ v[Len(w) + 1] = m
           /\ \A i \in DOMAIN w : v[i] = w[i]
           /\ \A i \in DOMAIN v : i = Len(w) + 1 \/ i \in DOMAIN w
OBVIOUS

\* The wire without its first message.
LEMMA TailFacts ==
    ASSUME NEW S, NEW w \in Seq(S), w # <<>>, NEW v, v = Tail(w)
    PROVE  /\ v \in Seq(S) /\ Head(w) \in S /\ Head(w) = w[1] /\ 1 \in DOMAIN w
           /\ \A i \in DOMAIN v : i + 1 \in DOMAIN w /\ v[i] = w[i + 1]
OBVIOUS

\* What an end says of itself.
LEMMA HelloTyped ==
    ASSUME Typed, NEW e \in SecEnds
    PROVE  Hello(e) \in HelloMessages /\ Hello(e) \in WireMessages /\ Hello(e).is = "hello"
<1>1. secKey[e] \in Nat /\ major[e] \in Nat
  BY SecureConstants DEF Typed, HandshakeTyped
<1> QED
  BY <1>1 DEF Hello, Fresh, HelloMessages, WireMessages

\* The first message.
LEMMA SendHelloInv ==
    ASSUME ChannelInv, NEW e \in SecEnds, SendHello(e)
    PROVE  ChannelInv'
<1>1. PICK f \in SecEnds : f = Far(e) /\ Far(f) = e /\ f # e /\ \A x \in SecEnds : x = e \/ x = f
  BY EndFacts
<1>2. Typed
  BY DEF ChannelInv
<1>3. PICK m \in WireMessages : m = Hello(e) /\ m.is = "hello"
  BY <1>2, HelloTyped
<1>4. PICK w \in Seq(WireMessages) : w = secWire[f]
  BY <1>2 DEF Typed, HandshakeTyped
<1>5. PICK v : v = Append(w, m)
  OBVIOUS
<1>6. /\ v \in Seq(WireMessages) /\ \A i \in DOMAIN v : v[i] = m \/ (i \in DOMAIN w /\ v[i] = w[i])
  BY <1>5, AppendFacts
<1>7. /\ hs[e] = "start" /\ hs' = [hs EXCEPT ![e] = "hello"]
      /\ secWire' = [secWire EXCEPT ![f] = v]
      /\ UNCHANGED <<secKey, pinned, major, peerHello, nextId, sending, control, sealed, started,
                     window, opened, misordered>>
  BY <1>1, <1>3, <1>4, <1>5 DEF SendHello, handshakeVars, receiverVars
<1>8. hs'[e] = "hello" /\ hs'[f] = hs[f] /\ secWire'[f] = v /\ secWire'[e] = secWire[e]
  BY <1>1, <1>2, <1>7 DEF Typed, HandshakeTyped
<1>9. Typed'
  <2>1. hs' \in [SecEnds -> Places]
    BY <1>2, <1>7 DEF Typed, HandshakeTyped, Places
  <2>2. secWire' \in [SecEnds -> Seq(WireMessages)]
    BY <1>2, <1>6, <1>7 DEF Typed, HandshakeTyped
  <2> QED
    BY <1>2, <1>7, <2>1, <2>2 DEF Typed, HandshakeTyped, SenderTyped, ReceiverTyped
<1>10. \A x \in SecEnds : Hello(x)' = Hello(x)
  BY <1>7 DEF Hello
<1>11. HandshakeOK(e) /\ HandshakeOK(f) /\ ~Met(e)
  BY <1>7 DEF ChannelInv, Met
<1>12. Met(f) => Met(f)'
  BY <1>1, <1>7, <1>8, <1>10 DEF Met
<1>13. Steady
  BY <1>1, <1>7, <1>11, <1>12 DEF Steady
<1>14. HandshakeOK(e)'
  <2>1. peerHello'[e] = <<>>
    BY <1>7, <1>11 DEF HandshakeOK
  <2>2. \A i \in DOMAIN secWire'[e] :
           /\ secWire'[e][i].is = "hello" => secWire'[e][i] = Hello(f)'
           /\ secWire'[e][i].is = "proof" => Met(f)'
    BY <1>1, <1>8, <1>10, <1>11, <1>12 DEF HandshakeOK
  <2> QED
    BY <1>1, <1>8, <2>1, <2>2 DEF HandshakeOK, Far
<1>15. HandshakeOK(f)'
  <2>1. (peerHello'[f] # <<>> => Met(f)') /\ (hs'[f] = "proof" => Met(f)')
    BY <1>7, <1>8, <1>11, <1>12 DEF HandshakeOK
  <2>2. hs'[f] # "open"
    BY <1>1, <1>8, <1>11 DEF HandshakeOK, Joined
  <2>3. \A i \in DOMAIN secWire'[f] :
           /\ secWire'[f][i].is = "hello" => secWire'[f][i] = Hello(e)'
           /\ secWire'[f][i].is = "proof" => Met(e)'
    BY <1>1, <1>3, <1>4, <1>6, <1>8, <1>10, <1>11 DEF HandshakeOK
  <2> QED
    BY <1>1, <2>1, <2>2, <2>3 DEF HandshakeOK, Far
<1>16. \A x \in SecEnds : Shifts(secWire'[x], secWire[x], 0)
  <2>1. Shifts(secWire'[f], secWire[f], 0)
    <3>1. \A i \in DOMAIN v : i + 0 = i
      BY <1>6
    <3> QED
      BY <1>3, <1>4, <1>6, <1>8, <3>1 DEF Shifts
  <2>2. Shifts(secWire'[e], secWire[e], 0)
    <3>1. \A i \in DOMAIN secWire[e] : i + 0 = i
      BY <1>2 DEF Typed, HandshakeTyped
    <3> QED
      BY <1>8, <3>1 DEF Shifts
  <2> QED
    BY <1>1, <2>1, <2>2
<1>17. \A x \in SecEnds : HandshakeOK(x)' /\ Yields(sending'[x], sending[x])
  BY <1>1, <1>7, <1>14, <1>15 DEF Yields
<1>18. \A x \in SecEnds : \E d \in Nat : Shifts(secWire'[x], secWire[x], d)
  BY <1>16
<1> QED
  BY <1>7, <1>9, <1>13, <1>17, <1>18, QuietInv

\* The peer's hello is answered with a proof, or the handshake fails.
LEMMA ReceiveHelloInv ==
    ASSUME ChannelInv, NEW e \in SecEnds, ReceiveHello(e)
    PROVE  ChannelInv'
<1>1. PICK f \in SecEnds : f = Far(e) /\ Far(f) = e /\ f # e /\ \A x \in SecEnds : x = e \/ x = f
  BY EndFacts
<1>2. Typed
  BY DEF ChannelInv
<1>3. hs[e] = "hello" /\ secWire[e] # <<>>
      /\ UNCHANGED <<secKey, pinned, major, nextId, sending, control, sealed, started,
                     window, opened, misordered>>
  BY DEF ReceiveHello, receiverVars
<1>4. PICK w \in Seq(WireMessages) : w = secWire[e] /\ w # <<>>
  BY <1>2, <1>3 DEF Typed, HandshakeTyped
<1>5. PICK t : t = Tail(w)
  OBVIOUS
<1>6. PICK m \in WireMessages : m = Head(w) /\ m = w[1] /\ 1 \in DOMAIN w
  BY <1>4, <1>5, TailFacts
<1>7. t \in Seq(WireMessages) /\ \A i \in DOMAIN t : i + 1 \in DOMAIN w /\ t[i] = w[i + 1]
  BY <1>4, <1>5, TailFacts
<1>8. HandshakeOK(e) /\ HandshakeOK(f) /\ ~Met(e) /\ peerHello[e] = <<>>
  BY <1>3 DEF ChannelInv, Met, HandshakeOK
<1>9. \A x \in SecEnds : Hello(x)' = Hello(x)
  BY <1>3 DEF Hello
<1>10. PICK ok \in BOOLEAN : ok <=> HelloFits(e, m)
  OBVIOUS
<1>11. PICK proof : proof = [is |-> "proof", id |-> 1, major |-> major[e],
                             signs |-> Transcript(secKey[e], m.key, Fresh(e), m.fresh)]
  OBVIOUS
<1>12. /\ hs' = [hs EXCEPT ![e] = IF ok THEN "proof" ELSE "failed"]
       /\ peerHello' = [peerHello EXCEPT ![e] = IF ok THEN <<m>> ELSE peerHello[e]]
       /\ secWire' = [secWire EXCEPT ![e] = t,
                                     ![f] = IF ok THEN Append(secWire[f], proof) ELSE secWire[f]]
  <2>1. /\ hs' = [hs EXCEPT ![e] = IF HelloFits(e, m) THEN "proof" ELSE "failed"]
        /\ peerHello' = [peerHello EXCEPT ![e] = IF HelloFits(e, m) THEN <<m>> ELSE @]
        /\ secWire' = [secWire EXCEPT ![e] = Tail(@),
                                      ![Far(e)] = IF HelloFits(e, m) THEN Append(@, proof) ELSE @]
    BY <1>4, <1>6, <1>11 DEF ReceiveHello
  <2>2. [secWire EXCEPT ![e] = Tail(@),
                        ![Far(e)] = IF HelloFits(e, m) THEN Append(@, proof) ELSE @]
         = [secWire EXCEPT ![e] = t,
                           ![f] = IF ok THEN Append(secWire[f], proof) ELSE secWire[f]]
    BY <1>1, <1>2, <1>4, <1>5, <1>10 DEF Typed, HandshakeTyped
  <2> QED
    BY <1>10, <2>1, <2>2
<1>13. PICK v : v = IF ok THEN Append(secWire[f], proof) ELSE secWire[f]
  OBVIOUS
<1>14. /\ hs'[e] = (IF ok THEN "proof" ELSE "failed") /\ hs'[f] = hs[f]
       /\ peerHello'[e] = (IF ok THEN <<m>> ELSE <<>>) /\ peerHello'[f] = peerHello[f]
       /\ secWire'[e] = t /\ secWire'[f] = v
  BY <1>1, <1>2, <1>8, <1>12, <1>13 DEF Typed, HandshakeTyped
<1>15. ASSUME ok
       PROVE  m = Hello(f) /\ m \in HelloMessages /\ major[e] = major[f] /\ secKey[f] \in pinned[e]
  <2>1. m.is = "hello" /\ m.major = major[e] /\ m.key \in pinned[e]
    BY <1>10, <1>15 DEF HelloFits, SameMajor
  <2>2. m = Hello(f)
    BY <1>1, <1>4, <1>6, <1>8, <2>1 DEF HandshakeOK
  <2>3. m.major = major[f] /\ m.key = secKey[f]
    BY <2>2 DEF Hello
  <2> QED
    BY <1>2, <2>1, <2>2, <2>3, HelloTyped
<1>16. ok => proof \in WireMessages /\ proof.is = "proof"
  <2>1. ASSUME ok PROVE proof \in WireMessages /\ proof.is = "proof"
    <3>1. m.key \in Nat /\ m.fresh \in SecEnds
      BY <1>15, <2>1 DEF HelloMessages
    <3>2. secKey[e] \in Nat /\ major[e] \in Nat /\ Fresh(e) \in SecEnds
      BY <1>2, SecureConstants DEF Typed, HandshakeTyped, Fresh
    <3>3. Transcript(secKey[e], m.key, Fresh(e), m.fresh) \in Nat \X Nat \X SecEnds \X SecEnds
      BY <3>1, <3>2 DEF Transcript
    <3>4. proof \in ProofMessages
      BY <1>11, <3>2, <3>3 DEF ProofMessages
    <3> QED
      BY <1>11, <3>4 DEF WireMessages
  <2> QED
    BY <2>1
<1>17. /\ v \in Seq(WireMessages)
       /\ \A i \in DOMAIN v : \/ ok /\ v[i].is = "proof"
                              \/ i \in DOMAIN secWire[f] /\ v[i] = secWire[f][i]
  <2>1. secWire[f] \in Seq(WireMessages)
    BY <1>2 DEF Typed, HandshakeTyped
  <2>2. CASE ok
    <3>1. v = Append(secWire[f], proof) /\ proof \in WireMessages /\ proof.is = "proof"
      BY <1>13, <1>16, <2>2
    <3> QED
      BY <2>1, <2>2, <3>1, AppendFacts
  <2>3. CASE ~ok
    BY <1>13, <2>1, <2>3
  <2> QED
    BY <2>2, <2>3
<1>18. Typed'
  <2>1. hs' \in [SecEnds -> Places]
    BY <1>2, <1>12 DEF Typed, HandshakeTyped, Places
  <2>2. secWire' \in [SecEnds -> Seq(WireMessages)]
    BY <1>2, <1>7, <1>12, <1>13, <1>17 DEF Typed, HandshakeTyped
  <2>3. peerHello' \in [SecEnds -> Seq(HelloMessages)]
    <3>1. (IF ok THEN <<m>> ELSE peerHello[e]) \in Seq(HelloMessages)
      BY <1>2, <1>15 DEF Typed, HandshakeTyped
    <3> QED
      BY <1>2, <1>12, <3>1 DEF Typed, HandshakeTyped
  <2> QED
    BY <1>2, <1>3, <2>1, <2>2, <2>3 DEF Typed, HandshakeTyped, SenderTyped, ReceiverTyped
<1>19. (Met(f) => Met(f)') /\ (ok => Met(e)')
  BY <1>1, <1>3, <1>9, <1>14, <1>15 DEF Met
<1>20. Steady
  BY <1>1, <1>3, <1>8, <1>19 DEF Steady
<1>21. HandshakeOK(e)'
  <2>1. (peerHello'[e] # <<>> => Met(e)') /\ (hs'[e] = "proof" => Met(e)') /\ hs'[e] # "open"
    BY <1>14, <1>19
  <2>2. \A i \in DOMAIN secWire'[e] :
           /\ secWire'[e][i].is = "hello" => secWire'[e][i] = Hello(f)'
           /\ secWire'[e][i].is = "proof" => Met(f)'
    BY <1>1, <1>4, <1>7, <1>8, <1>9, <1>14, <1>19 DEF HandshakeOK
  <2> QED
    BY <1>1, <2>1, <2>2 DEF HandshakeOK, Far
<1>22. HandshakeOK(f)'
  <2>1. (peerHello'[f] # <<>> => Met(f)') /\ (hs'[f] = "proof" => Met(f)')
    BY <1>8, <1>14, <1>19 DEF HandshakeOK
  <2>2. hs'[f] # "open"
    BY <1>1, <1>8, <1>14 DEF HandshakeOK, Joined
  <2>3. \A i \in DOMAIN secWire'[f] :
           /\ secWire'[f][i].is = "hello" => secWire'[f][i] = Hello(e)'
           /\ secWire'[f][i].is = "proof" => Met(e)'
    BY <1>1, <1>8, <1>9, <1>14, <1>17, <1>19 DEF HandshakeOK
  <2> QED
    BY <1>1, <2>1, <2>2, <2>3 DEF HandshakeOK, Far
<1>23. \A x \in SecEnds : \E d \in Nat : Shifts(secWire'[x], secWire[x], d)
  <2>1. Shifts(secWire'[e], secWire[e], 1)
    BY <1>4, <1>7, <1>14 DEF Shifts
  <2>2. Shifts(secWire'[f], secWire[f], 0)
    <3>1. \A i \in DOMAIN secWire'[f] : i + 0 = i
      BY <1>14, <1>17
    <3> QED
      BY <1>14, <1>17, <3>1 DEF Shifts
  <2> QED
    BY <1>1, <2>1, <2>2
<1>24. \A x \in SecEnds : HandshakeOK(x)' /\ Yields(sending'[x], sending[x])
  BY <1>1, <1>3, <1>21, <1>22 DEF Yields
<1> QED
  BY <1>3, <1>18, <1>20, <1>23, <1>24, QuietInv

\* The peer's proof opens the channel, or the handshake fails.
LEMMA ReceiveProofInv ==
    ASSUME ChannelInv, NEW e \in SecEnds, ReceiveProof(e)
    PROVE  ChannelInv'
<1>1. PICK f \in SecEnds : f = Far(e) /\ Far(f) = e /\ f # e /\ \A x \in SecEnds : x = e \/ x = f
  BY EndFacts
<1>2. Typed
  BY DEF ChannelInv
<1>3. hs[e] = "proof" /\ secWire[e] # <<>>
      /\ UNCHANGED <<secKey, pinned, major, peerHello, nextId, sending, control, sealed, started,
                     window, opened, misordered>>
  BY DEF ReceiveProof, receiverVars, handshakeVars
<1>4. PICK w \in Seq(WireMessages) : w = secWire[e] /\ w # <<>>
  BY <1>2, <1>3 DEF Typed, HandshakeTyped
<1>5. PICK t : t = Tail(w)
  OBVIOUS
<1>6. PICK m \in WireMessages : m = Head(w) /\ m = w[1] /\ 1 \in DOMAIN w
  BY <1>4, <1>5, TailFacts
<1>7. t \in Seq(WireMessages) /\ \A i \in DOMAIN t : i + 1 \in DOMAIN w /\ t[i] = w[i + 1]
  BY <1>4, <1>5, TailFacts
<1>8. HandshakeOK(e) /\ HandshakeOK(f) /\ Met(e)
  BY <1>3 DEF ChannelInv, HandshakeOK
<1>9. \A x \in SecEnds : Hello(x)' = Hello(x)
  BY <1>3 DEF Hello
<1>10. PICK ok \in BOOLEAN : /\ hs' = [hs EXCEPT ![e] = IF ok THEN "open" ELSE "failed"]
                             /\ ok => m.is = "proof" /\ DistinctKeys(e)
  BY <1>4, <1>6 DEF ReceiveProof
<1>11. secWire' = [secWire EXCEPT ![e] = t]
  BY <1>4, <1>5 DEF ReceiveProof
<1>12. /\ hs'[e] = (IF ok THEN "open" ELSE "failed") /\ hs'[f] = hs[f]
       /\ secWire'[e] = t /\ secWire'[f] = secWire[f]
  BY <1>1, <1>2, <1>10, <1>11 DEF Typed, HandshakeTyped
<1>13. Met(e)' /\ (Met(f) => Met(f)')
  BY <1>1, <1>3, <1>8, <1>9, <1>12 DEF Met
<1>14. ASSUME ok PROVE Joined(e)'
  <2>1. Met(f)
    BY <1>1, <1>4, <1>6, <1>8, <1>10, <1>14 DEF HandshakeOK
  <2>2. peerHello[e][1].key = secKey[f]
    BY <1>1, <1>8 DEF Met, Hello
  <2>3. secKey[e] # secKey[f]
    BY <1>10, <1>14, <2>2 DEF DistinctKeys
  <2> QED
    BY <1>1, <1>3, <1>13, <2>1, <2>3 DEF Joined
<1>15. Typed'
  <2>1. hs' \in [SecEnds -> Places]
    BY <1>2, <1>10 DEF Typed, HandshakeTyped, Places
  <2>2. secWire' \in [SecEnds -> Seq(WireMessages)]
    BY <1>2, <1>7, <1>11 DEF Typed, HandshakeTyped
  <2> QED
    BY <1>2, <1>3, <2>1, <2>2 DEF Typed, HandshakeTyped, SenderTyped, ReceiverTyped
<1>16. Steady
  BY <1>1, <1>3, <1>13 DEF Steady
<1>17. HandshakeOK(e)'
  <2>1. hs'[e] = "open" => Joined(e)'
    BY <1>12, <1>14
  <2>2. \A i \in DOMAIN secWire'[e] :
           /\ secWire'[e][i].is = "hello" => secWire'[e][i] = Hello(f)'
           /\ secWire'[e][i].is = "proof" => Met(f)'
    BY <1>1, <1>4, <1>7, <1>8, <1>9, <1>12, <1>13 DEF HandshakeOK
  <2> QED
    BY <1>1, <1>13, <2>1, <2>2 DEF HandshakeOK, Far
<1>18. HandshakeOK(f)'
  <2>1. (peerHello'[f] # <<>> => Met(f)') /\ (hs'[f] = "proof" => Met(f)')
    BY <1>3, <1>8, <1>12, <1>13 DEF HandshakeOK
  <2>2. hs'[f] = "open" => Joined(f)'
    BY <1>1, <1>3, <1>8, <1>12, <1>13 DEF HandshakeOK, Joined
  <2>3. \A i \in DOMAIN secWire'[f] :
           /\ secWire'[f][i].is = "hello" => secWire'[f][i] = Hello(e)'
           /\ secWire'[f][i].is = "proof" => Met(e)'
    BY <1>1, <1>8, <1>9, <1>12, <1>13 DEF HandshakeOK
  <2> QED
    BY <1>1, <2>1, <2>2, <2>3 DEF HandshakeOK, Far
<1>19. \A x \in SecEnds : \E d \in Nat : Shifts(secWire'[x], secWire[x], d)
  <2>1. Shifts(secWire'[e], secWire[e], 1)
    BY <1>4, <1>7, <1>12 DEF Shifts
  <2>2. Shifts(secWire'[f], secWire[f], 0)
    <3>1. \A i \in DOMAIN secWire[f] : i + 0 = i
      BY <1>2 DEF Typed, HandshakeTyped
    <3> QED
      BY <1>12, <3>1 DEF Shifts
  <2> QED
    BY <1>1, <2>1, <2>2
<1>20. \A x \in SecEnds : HandshakeOK(x)' /\ Yields(sending'[x], sending[x])
  BY <1>1, <1>3, <1>17, <1>18 DEF Yields
<1> QED
  BY <1>3, <1>15, <1>16, <1>19, <1>20, QuietInv

\* The handshake fails, a send is dropped, or the session ends: no message moves.
LEMMA StopInv ==
    ASSUME ChannelInv, NEW e \in SecEnds, HandshakeFails(e) \/ CancelSend(e) \/ SessionCloses(e)
    PROVE  ChannelInv'
<1>1. Typed
  BY DEF ChannelInv
<1>2. UNCHANGED <<secKey, pinned, major, peerHello, secWire, nextId, control, sealed, started,
                  window, opened, misordered>>
  BY DEF HandshakeFails, CancelSend, SessionCloses, handshakeVars, receiverVars
<1>3. hs' = hs \/ hs' = [hs EXCEPT ![e] = "failed"]
  BY DEF HandshakeFails, CancelSend, SessionCloses, Abandon
<1>4. sending' = sending \/ sending' = [sending EXCEPT ![e] = Idle]
  BY DEF HandshakeFails, CancelSend, SessionCloses
<1>5. Idle \in Sends /\ Idle.lane = "none"
  BY DEF Idle, Sends
<1>6. \A x \in SecEnds : hs'[x] = hs[x] \/ hs'[x] = "failed"
  BY <1>1, <1>3 DEF Typed, HandshakeTyped
<1>7. \A x \in SecEnds : Yields(sending'[x], sending[x])
  BY <1>1, <1>4, <1>5 DEF Typed, SenderTyped, Yields
<1>8. Typed'
  <2>1. hs' \in [SecEnds -> Places]
    BY <1>1, <1>3 DEF Typed, HandshakeTyped, Places
  <2>2. sending' \in [SecEnds -> Sends]
    BY <1>1, <1>4, <1>5 DEF Typed, SenderTyped
  <2> QED
    BY <1>1, <1>2, <2>1, <2>2 DEF Typed, HandshakeTyped, SenderTyped, ReceiverTyped
<1>9. Steady /\ \A x \in SecEnds : HandshakeOK(x)'
  BY <1>2, <1>6, HandshakeKept
<1>10. \A x \in SecEnds : \E d \in Nat : Shifts(secWire'[x], secWire[x], d)
  <2>1. \A x \in SecEnds : \A i \in DOMAIN secWire[x] : i + 0 = i
    BY <1>1 DEF Typed, HandshakeTyped
  <2>2. \A x \in SecEnds : Shifts(secWire'[x], secWire[x], 0)
    BY <1>2, <2>1 DEF Shifts
  <2> QED
    BY <2>2
<1> QED
  BY <1>2, <1>7, <1>8, <1>9, <1>10, QuietInv

-----------------------------------------------------------------------------
(* Sending                                                                  *)

\* A wire that does not change is shifted by nothing.
LEMMA WireStays ==
    ASSUME Typed, NEW e \in SecEnds, secWire'[e] = secWire[e]
    PROVE  Shifts(secWire'[e], secWire[e], 0)
<1>1. \A i \in DOMAIN secWire[e] : i + 0 = i
  BY DEF Typed, HandshakeTyped
<1> QED
  BY <1>1 DEF Shifts

\* Sealing the next message under the id that is its own.
LEMMA SealNext ==
    ASSUME ChannelInv, Typed', Steady, NEW e \in SecEnds, hs[e] = "open",
           NEW n \in Nat, n = Len(started[e]), opened' = opened,
           NEW x1, x1 = <<TxKey(e), IdOf(n), <<e, n>>>>, sealed' = sealed \cup {x1},
           NEW s1, s1 = Append(started[e], <<e, n>>), started'[e] = s1,
           \A x \in SecEnds : x # e => started'[x] = started[x]
    PROVE  /\ SealOK' /\ \A x \in SecEnds : OpenedOK(x)'
           /\ Len(started'[e]) = n + 1 /\ \A x \in SecEnds : x # e => started'[x] = started[x]
           /\ \A k \in DOMAIN started'[e] : started'[e][k] = <<e, k - 1>>
<1>1. Typed /\ SealOK /\ CounterOK(e) /\ Joined(e)
  BY DEF ChannelInv, HandshakeOK
<1>2. started \in [SecEnds -> Seq(SentMessages)]
  BY <1>1 DEF Typed, SenderTyped
<1>3. PICK s \in Seq(SentMessages) : s = started[e]
  BY <1>2
<1>4. <<e, n>> \in SentMessages
  BY DEF SentMessages
<1>5. started'[e] = Append(s, <<e, n>>) /\ \A x \in SecEnds : x # e => started'[x] = started[x]
  BY <1>3
<1>6. /\ Len(started'[e]) = n + 1 /\ DOMAIN started'[e] = 1..n + 1 /\ started'[e][n + 1] = <<e, n>>
      /\ \A k \in 1..n : started'[e][k] = started[e][k]
  BY <1>3, <1>4, <1>5
<1>7. \A k \in DOMAIN started'[e] : started'[e][k] = <<e, k - 1>>
  <2>1. ASSUME NEW k \in DOMAIN started'[e] PROVE started'[e][k] = <<e, k - 1>>
    <3>1. CASE k = n + 1
      <4>1. k - 1 = n
        BY <3>1
      <4> QED
        BY <1>6, <3>1, <4>1
    <3>2. CASE k # n + 1
      <4>1. k \in 1..n /\ k \in DOMAIN started[e]
        BY <1>3, <1>6, <3>2
      <4> QED
        BY <1>1, <1>6, <4>1 DEF CounterOK
    <3> QED
      BY <3>1, <3>2
  <2> QED
    BY <2>1
<1>8. \A x \in SecEnds : Len(started[x]) <= Len(started[x])'
  <2>1. \A x \in SecEnds : Len(started[x]) \in Nat
    BY <1>2
  <2> QED
    BY <1>5, <1>6, <2>1
<1>9. ASSUME NEW x \in SecEnds
      PROVE  /\ OpenedOK(x)'
             /\ \A y \in sealed : \E z \in SecEnds, k \in Nat : SealedBy(y, z, k)'
  <2>1. OpenedOK(x) /\ sealed \subseteq sealed'
    BY DEF ChannelInv
  <2> QED
    BY <1>1, <1>8, <2>1, HistoryKept
<1>10. SealedBy(x1, e, n)'
  <2>1. Joined(e)' /\ TxKey(e)' = TxKey(e)
    BY <1>1, SteadyFacts
  <2>2. n < Len(started[e])'
    BY <1>6
  <2> QED
    BY <2>1, <2>2 DEF SealedBy, IdOf
<1>11. SealOK'
  BY <1>9, <1>10 DEF SealOK
<1> QED
  BY <1>5, <1>6, <1>7, <1>9, <1>11

\* The end that sends receives what it would have received.
LEMMA OtherWay ==
    ASSUME ChannelInv, Typed', NEW e \in SecEnds, secWire'[e] = secWire[e],
           UNCHANGED <<window, opened, misordered>>,
           started'[Far(e)] = started[Far(e)], sending'[Far(e)] = sending[Far(e)]
    PROVE  FlightOK(e)' /\ (misordered' = 0 => StreamOK(e)') /\ \A x \in SecEnds : WindowOK(x)'
<1>1. Typed /\ FlightOK(e) /\ (misordered = 0 => StreamOK(e)) /\ \A x \in SecEnds : WindowOK(x)
  BY DEF ChannelInv
<1>2. Shifts(secWire'[e], secWire[e], 0)
  BY <1>1, WireStays
<1>3. FlightOK(e)' /\ (StreamOK(e) => StreamOK(e)')
  BY <1>1, <1>2, WireShifted DEF Yields
<1>4. \A x \in SecEnds : WindowOK(x)'
  BY <1>1 DEF WindowOK, Number, IdOf
<1> QED
  BY <1>1, <1>3, <1>4

\* A piece of the last message of e, as it is put on the wire.
LEMMA PieceFacts ==
    ASSUME NEW e \in SecEnds, NEW n \in Nat, NEW id \in Nat, NEW k \in {1, 2},
           NEW p, p = Piece(id, <<e, n>>, k)
    PROVE  /\ p \in WireMessages /\ p.is = "data" /\ p.id = id /\ p.part = k
           /\ p.message = <<e, n>> /\ p.message[1] = e /\ p.message[2] = n
<1>1. <<e, n>> \in SentMessages
  BY DEF SentMessages
<1> QED
  BY <1>1 DEF Piece, WireMessages, DataPieces

\* A lane takes the lock and the next id, and seals its message.
LEMMA AllocateInv ==
    ASSUME ChannelInv, NEW e \in SecEnds, NEW l \in {x[2] : x \in SecLanes}, Allocate(e, l)
    PROVE  ChannelInv'
<1>1. PICK f \in SecEnds : f = Far(e) /\ Far(f) = e /\ f # e /\ \A x \in SecEnds : x = e \/ x = f
  BY EndFacts
<1>2. Typed /\ CounterOK(e) /\ CounterOK(f) /\ FlightOK(f) /\ OpenedOK(f)
  BY DEF ChannelInv
<1>3. PICK n \in Nat : n = Len(started[e])
  BY <1>2 DEF Typed, SenderTyped
<1>4. /\ hs[e] = "open" /\ control[e] /\ nextId[e] <= LastId
      /\ nextId' = [nextId EXCEPT ![e] = nextId[e] + 1]
      /\ sending' = [sending EXCEPT ![e] = [lane |-> l, id |-> nextId[e], part |-> 0]]
      /\ sealed' = sealed \cup {<<TxKey(e), nextId[e], <<e, n>>>>}
      /\ started' = [started EXCEPT ![e] = Append(@, <<e, n>>)]
      /\ UNCHANGED <<secKey, pinned, major, peerHello, hs, secWire, control, window, opened, misordered>>
  BY <1>3 DEF Allocate, IdLeft, IdAfter, Sealed, NewMessage, handshakeVars, receiverVars
<1>5. PICK id \in FirstDataId .. LastId + 1 : id = nextId[e]
  BY <1>2 DEF Typed, SenderTyped
<1>6. n \in Nat /\ n >= 1 /\ id = FirstDataId + n - 1 /\ id = IdOf(n) /\ id \in Nat
      /\ id + 1 \in FirstDataId .. LastId + 1 /\ id + 1 = FirstDataId + (n + 1) - 1
  <2>1. n >= 1 /\ id = FirstDataId + n - 1 /\ id <= LastId
    BY <1>2, <1>3, <1>4, <1>5 DEF CounterOK
  <2>2. FirstDataId \in Nat /\ LastId \in Nat
    BY SecureConstants
  <2>3. id = IdOf(n)
    BY <2>1 DEF IdOf
  <2> QED
    BY <1>3, <1>5, <2>1, <2>2, <2>3
<1>7. Typed'
  <2>1. nextId' \in [SecEnds -> FirstDataId .. LastId + 1]
    BY <1>2, <1>4, <1>5, <1>6 DEF Typed, SenderTyped
  <2>2. [lane |-> l, id |-> nextId[e], part |-> 0] \in Sends
    BY <1>5, <1>6 DEF Sends
  <2>3. sending' \in [SecEnds -> Sends]
    BY <1>2, <1>4, <2>2 DEF Typed, SenderTyped
  <2>4. started' \in [SecEnds -> Seq(SentMessages)]
    <3>1. Append(started[e], <<e, n>>) \in Seq(SentMessages)
      BY <1>2 DEF Typed, SenderTyped, SentMessages
    <3> QED
      BY <1>2, <1>4, <3>1 DEF Typed, SenderTyped
  <2> QED
    BY <1>2, <1>4, <2>1, <2>3, <2>4 DEF Typed, HandshakeTyped, SenderTyped, ReceiverTyped
<1>8. Steady /\ \A x \in SecEnds : HandshakeOK(x)'
  BY <1>4, HandshakeKept
<1>9. /\ SealOK' /\ \A x \in SecEnds : OpenedOK(x)'
      /\ Len(started'[e]) = n + 1 /\ \A x \in SecEnds : x # e => started'[x] = started[x]
      /\ \A k \in DOMAIN started'[e] : started'[e][k] = <<e, k - 1>>
  <2>1. PICK x1 : x1 = <<TxKey(e), IdOf(n), <<e, n>>>> /\ sealed' = sealed \cup {x1}
    BY <1>4, <1>5, <1>6
  <2>2. PICK s1 : s1 = Append(started[e], <<e, n>>) /\ started'[e] = s1
    BY <1>2, <1>4 DEF Typed, SenderTyped
  <2>3. \A x \in SecEnds : x # e => started'[x] = started[x]
    BY <1>2, <1>4 DEF Typed, SenderTyped
  <2>4. opened' = opened /\ hs[e] = "open"
    BY <1>4
  <2> QED
    BY <1>3, <1>7, <1>8, <2>1, <2>2, <2>3, <2>4, SealNext
<1>10. /\ nextId'[e] = id + 1 /\ nextId'[f] = nextId[f] /\ sending'[f] = sending[f]
       /\ sending'[e].id = id /\ sending'[e].part = 0
  BY <1>1, <1>2, <1>4, <1>5 DEF Typed, SenderTyped
<1>11. CounterOK(e)'
  <2>1. n + 1 - 1 = n /\ n + 1 >= 1
    BY <1>6
  <2> QED
    <3>1. control'[e] /\ Len(started'[e]) >= 1 /\ nextId'[e] = FirstDataId + Len(started'[e]) - 1
      BY <1>4, <1>6, <1>9, <1>10
    <3>2. sending'[e].id = IdOf(Len(started'[e]) - 1)
      BY <1>6, <1>9, <1>10, <2>1
    <3> QED
      BY <1>9, <3>1, <3>2 DEF CounterOK, IdOf
<1>12. CounterOK(f)'
  BY <1>1, <1>2, <1>4, <1>9, <1>10 DEF CounterOK, IdOf
<1>13. FlightOK(e)' /\ (misordered' = 0 => StreamOK(e)') /\ \A x \in SecEnds : WindowOK(x)'
  BY <1>1, <1>4, <1>7, <1>9, <1>10, OtherWay
<1>14. \A i \in DOMAIN secWire[f] : secWire[f][i].is = "data" =>
          /\ secWire[f][i].message[1] = e /\ secWire[f][i].message[2] < n
          /\ secWire[f][i].id = IdOf(secWire[f][i].message[2]) /\ secWire[f][i].message[2] \in Nat
  <2>1. ASSUME NEW i \in DOMAIN secWire[f], secWire[f][i].is = "data" PROVE secWire[f][i].message[2] \in Nat
    <3>1. secWire[f][i] \in WireMessages
      BY <1>2 DEF Typed, HandshakeTyped
    <3>2. secWire[f][i] \in DataPieces
      BY <2>1, <3>1 DEF WireMessages, HelloMessages, ProofMessages
    <3> QED
      BY <3>2 DEF DataPieces, SentMessages
  <2> QED
    BY <1>1, <1>2, <1>3, <2>1 DEF FlightOK
<1>15. FlightOK(f)'
  <2>1. \A k \in Nat : k < n => k < n + 1
    OBVIOUS
  <2> QED
    BY <1>1, <1>4, <1>9, <1>14, <2>1 DEF FlightOK, IdOf, Far
<1>16. ASSUME misordered' = 0 PROVE StreamOK(f)'
  <2>1. StreamOK(f)
    BY <1>4, <1>16 DEF ChannelInv
  <2>2. \A j \in DOMAIN opened[f] : Number(f, j) < n
    BY <1>1, <1>2, <1>3 DEF OpenedOK
  <2>3. Len(started'[e]) - 1 = n
    BY <1>9
  <2> QED
    BY <1>1, <1>4, <1>14, <2>1, <2>2, <2>3 DEF StreamOK, Number, InOrder, Far
<1>17. \A x \in SecEnds : /\ HandshakeOK(x)' /\ CounterOK(x)' /\ FlightOK(x)' /\ OpenedOK(x)' /\ WindowOK(x)'
                          /\ misordered' = 0 => StreamOK(x)'
  BY <1>1, <1>8, <1>9, <1>11, <1>12, <1>13, <1>15, <1>16
<1> QED
  BY <1>7, <1>9, <1>17 DEF ChannelInv

\* A field of a piece that travels.
LEMMA DataFacts ==
    ASSUME Typed, NEW e \in SecEnds, NEW i \in DOMAIN secWire[e], secWire[e][i].is = "data"
    PROVE  /\ secWire[e][i].message \in SentMessages /\ secWire[e][i].message[2] \in Nat
           /\ secWire[e][i].part \in {1, 2} /\ secWire[e][i].id \in Nat
<1>1. secWire[e][i] \in WireMessages
  BY DEF Typed, HandshakeTyped
<1>2. secWire[e][i] \in DataPieces
  BY <1>1 DEF WireMessages, HelloMessages, ProofMessages
<1> QED
  BY <1>2 DEF DataPieces, SentMessages

\* The arbitration's message is the first, before anything was sent.
LEMMA SendControlInv ==
    ASSUME ChannelInv, NEW e \in SecEnds, SendControl(e)
    PROVE  ChannelInv'
<1>1. PICK f \in SecEnds : f = Far(e) /\ Far(f) = e /\ f # e /\ \A x \in SecEnds : x = e \/ x = f
  BY EndFacts
<1>2. Typed /\ CounterOK(e) /\ CounterOK(f) /\ FlightOK(f) /\ OpenedOK(f)
  BY DEF ChannelInv
<1>3. Len(started[e]) = 0 /\ nextId[e] = FirstDataId /\ sending[e] = Idle /\ hs[e] = "open"
  BY <1>2 DEF SendControl, CounterOK
<1>4. /\ control' = [control EXCEPT ![e] = TRUE]
      /\ sealed' = sealed \cup {<<TxKey(e), 0, <<e, 0>>>>}
      /\ started' = [started EXCEPT ![e] = Append(@, <<e, 0>>)]
      /\ secWire' = [secWire EXCEPT ![f] = @ \o <<Piece(0, <<e, 0>>, 1), Piece(0, <<e, 0>>, 2)>>]
      /\ UNCHANGED <<secKey, pinned, major, peerHello, hs, nextId, sending, window, opened, misordered>>
  BY <1>1, <1>3 DEF SendControl, Sealed, NewMessage, handshakeVars, receiverVars
<1>5. PICK p \in WireMessages : /\ p = Piece(0, <<e, 0>>, 1) /\ p.is = "data" /\ p.id = 0 /\ p.part = 1
                                /\ p.message[1] = e /\ p.message[2] = 0
  BY PieceFacts
<1>6. PICK q \in WireMessages : /\ q = Piece(0, <<e, 0>>, 2) /\ q.is = "data" /\ q.id = 0 /\ q.part = 2
                                /\ q.message[1] = e /\ q.message[2] = 0
  BY PieceFacts
<1>7. PICK w \in Seq(WireMessages) : w = secWire[f]
  BY <1>2 DEF Typed, HandshakeTyped
<1>8. PICK v : v = w \o <<p, q>>
  OBVIOUS
<1>9. /\ v \in Seq(WireMessages) /\ Len(w) \in Nat /\ DOMAIN w = 1..Len(w) /\ DOMAIN v = 1..Len(w) + 2
      /\ \A i \in 1..Len(w) : v[i] = w[i]
      /\ v[Len(w) + 1] = p /\ v[Len(w) + 2] = q
  BY <1>8
<1>10. \A i \in DOMAIN v : \/ i \in DOMAIN w /\ v[i] = w[i]
                           \/ i = Len(w) + 1 /\ v[i] = p
                           \/ i = Len(w) + 2 /\ v[i] = q
  BY <1>9
<1>11. secWire'[f] = v /\ secWire'[e] = secWire[e] /\ secWire' = [secWire EXCEPT ![f] = v]
  BY <1>1, <1>2, <1>4, <1>5, <1>6, <1>7, <1>8 DEF Typed, HandshakeTyped
<1>12. Typed'
  <2>1. secWire' \in [SecEnds -> Seq(WireMessages)]
    BY <1>2, <1>9, <1>11 DEF Typed, HandshakeTyped
  <2>2. started' \in [SecEnds -> Seq(SentMessages)]
    <3>1. Append(started[e], <<e, 0>>) \in Seq(SentMessages)
      BY <1>2 DEF Typed, SenderTyped, SentMessages
    <3> QED
      BY <1>2, <1>4, <3>1 DEF Typed, SenderTyped
  <2>3. control' \in [SecEnds -> BOOLEAN]
    BY <1>2, <1>4 DEF Typed, SenderTyped
  <2> QED
    BY <1>2, <1>4, <2>1, <2>2, <2>3 DEF Typed, HandshakeTyped, SenderTyped, ReceiverTyped
<1>13. Steady /\ \A x \in SecEnds : HandshakeOK(x)'
  <2>1. ASSUME NEW x \in SecEnds, NEW i \in DOMAIN secWire'[x], secWire'[x][i].is # "data"
        PROVE  \E j \in DOMAIN secWire[x] : secWire'[x][i] = secWire[x][j]
    BY <1>1, <1>5, <1>6, <1>7, <1>10, <1>11, <2>1
  <2> QED
    BY <1>4, <2>1, HandshakeKept
<1>14. /\ SealOK' /\ \A x \in SecEnds : OpenedOK(x)'
       /\ Len(started'[e]) = 0 + 1 /\ \A x \in SecEnds : x # e => started'[x] = started[x]
       /\ \A k \in DOMAIN started'[e] : started'[e][k] = <<e, k - 1>>
  <2>1. PICK x1 : x1 = <<TxKey(e), IdOf(0), <<e, 0>>>> /\ sealed' = sealed \cup {x1}
    BY <1>4 DEF IdOf
  <2>2. PICK s1 : s1 = Append(started[e], <<e, 0>>) /\ started'[e] = s1
    BY <1>2, <1>4 DEF Typed, SenderTyped
  <2>3. \A x \in SecEnds : x # e => started'[x] = started[x]
    BY <1>2, <1>4 DEF Typed, SenderTyped
  <2>4. opened' = opened /\ hs[e] = "open" /\ 0 = Len(started[e]) /\ 0 \in Nat
    BY <1>3, <1>4
  <2> QED
    BY <1>12, <1>13, <2>1, <2>2, <2>3, <2>4, SealNext
<1>15. CounterOK(e)'
  <2>1. control'[e] /\ nextId'[e] = FirstDataId + Len(started'[e]) - 1 /\ Len(started'[e]) >= 1
    BY <1>2, <1>3, <1>4, <1>14, SecureConstants DEF Typed, SenderTyped
  <2>2. sending'[e].lane = "none"
    BY <1>3, <1>4 DEF Idle
  <2> QED
    BY <1>14, <2>1, <2>2 DEF CounterOK
<1>16. CounterOK(f)'
  <2>1. control'[f] = control[f] /\ started'[f] = started[f]
    BY <1>1, <1>2, <1>4, <1>14 DEF Typed, SenderTyped
  <2> QED
    BY <1>2, <1>4, <2>1 DEF CounterOK, IdOf
<1>17. FlightOK(e)' /\ (misordered' = 0 => StreamOK(e)') /\ \A x \in SecEnds : WindowOK(x)'
  BY <1>1, <1>4, <1>11, <1>12, <1>14, OtherWay
<1>18. \A i \in DOMAIN w : w[i].is # "data"
  <2>1. ASSUME NEW i \in DOMAIN w, w[i].is = "data" PROVE FALSE
    <3>1. w[i].message[2] \in Nat
      BY <1>2, <1>7, <2>1, DataFacts
    <3>2. w[i].message[2] < 0
      BY <1>1, <1>2, <1>3, <1>7, <2>1 DEF FlightOK
    <3> QED
      BY <3>1, <3>2
  <2> QED
    BY <2>1
<1>19. DOMAIN opened[f] = {}
  <2>1. ASSUME NEW j \in DOMAIN opened[f] PROVE FALSE
    <3>1. opened[f][j] \in SentMessages
      BY <1>2 DEF Typed, ReceiverTyped
    <3>2. Number(f, j) \in Nat
      BY <3>1 DEF Number, SentMessages
    <3>3. Number(f, j) < 0
      BY <1>1, <1>2, <1>3 DEF OpenedOK
    <3> QED
      BY <3>2, <3>3
  <2> QED
    BY <2>1
<1>20. FlightOK(f)'
  <2>1. ASSUME NEW i \in DOMAIN v, v[i].is = "data"
        PROVE  v[i].message[1] = e /\ v[i].message[2] < Len(started'[e]) /\ v[i].id = IdOf(v[i].message[2])
    BY <1>5, <1>6, <1>10, <1>14, <1>18, <2>1 DEF IdOf
  <2> QED
    BY <1>1, <1>11, <2>1 DEF FlightOK, IdOf, Far
<1>21. StreamOK(f)'
  <2>1. ASSUME NEW i \in DOMAIN v, NEW j \in DOMAIN v, i < j, v[i].is = "data", v[j].is = "data"
        PROVE  InOrder(v[i], v[j])
    <3>1. i = Len(w) + 1 \/ i = Len(w) + 2
      BY <1>10, <1>18, <2>1
    <3>2. i = Len(w) + 1 /\ j = Len(w) + 2
      BY <1>9, <2>1, <3>1
    <3> QED
      BY <1>5, <1>6, <1>9, <3>2 DEF InOrder
  <2>2. DOMAIN opened'[f] = {} /\ sending'[e].lane = "none"
    BY <1>3, <1>4, <1>19 DEF Idle
  <2> QED
    BY <1>1, <1>11, <2>1, <2>2 DEF StreamOK, InOrder, Far
<1>22. \A x \in SecEnds : /\ HandshakeOK(x)' /\ CounterOK(x)' /\ FlightOK(x)' /\ OpenedOK(x)' /\ WindowOK(x)'
                          /\ misordered' = 0 => StreamOK(x)'
  BY <1>1, <1>13, <1>14, <1>15, <1>16, <1>17, <1>20, <1>21
<1> QED
  BY <1>12, <1>14, <1>22 DEF ChannelInv

\* A piece of the message under way is written.
LEMMA WritePieceInv ==
    ASSUME ChannelInv, NEW e \in SecEnds, WritePiece(e)
    PROVE  ChannelInv'
<1>1. PICK f \in SecEnds : f = Far(e) /\ Far(f) = e /\ f # e /\ \A x \in SecEnds : x = e \/ x = f
  BY EndFacts
<1>2. Typed /\ SealOK /\ CounterOK(e) /\ CounterOK(f) /\ FlightOK(f)
  BY DEF ChannelInv
<1>3. PICK s \in Sends : s = sending[e]
  BY <1>2 DEF Typed, SenderTyped
<1>4. s.part \in {0, 1} /\ s.id \in Nat /\ s.lane # "none"
  BY <1>3 DEF Sends, WritePiece
<1>5. PICK n \in Nat : n + 1 = Len(started[e]) /\ started[e][Len(started[e])] = <<e, n>> /\ s.id = IdOf(n)
  <2>1. Len(started[e]) \in Nat /\ Len(started[e]) >= 1 /\ s.id = IdOf(Len(started[e]) - 1)
    BY <1>2, <1>3, <1>4 DEF CounterOK, Typed, SenderTyped
  <2>2. Len(started[e]) \in DOMAIN started[e]
    BY <1>2, <2>1 DEF Typed, SenderTyped
  <2>3. started[e][Len(started[e])] = <<e, Len(started[e]) - 1>>
    BY <1>2, <2>2 DEF CounterOK
  <2> QED
    BY <2>1, <2>3
<1>6. PICK p \in WireMessages : /\ p = Piece(s.id, <<e, n>>, s.part + 1) /\ p.is = "data"
                                /\ p.id = IdOf(n) /\ p.part = s.part + 1
                                /\ p.message[1] = e /\ p.message[2] = n
  BY <1>4, <1>5, PieceFacts
<1>7. PICK s1 \in Sends : /\ s1 = IF s.part = 1 THEN Idle ELSE [s EXCEPT !.part = 1]
                          /\ s1.lane # "none" => s1.id = s.id /\ s1.part = 1 /\ s.part = 0
  <2>1. CASE s.part = 1
    <3>1. Idle \in Sends /\ Idle.lane = "none"
      BY DEF Idle, Sends
    <3> QED
      BY <2>1, <3>1
  <2>2. CASE s.part = 0
    <3>1. [s EXCEPT !.part = 1] \in Sends
      BY DEF Sends
    <3>2. [s EXCEPT !.part = 1].id = s.id /\ [s EXCEPT !.part = 1].part = 1
      BY DEF Sends
    <3>3. PICK s2 \in Sends : s2 = [s EXCEPT !.part = 1] /\ s2.id = s.id /\ s2.part = 1
      BY <3>1, <3>2
    <3>4. s2 = IF s.part = 1 THEN Idle ELSE [s EXCEPT !.part = 1]
      BY <2>2, <3>3
    <3> QED
      BY <2>2, <3>3, <3>4
  <2> QED
    BY <1>4, <2>1, <2>2
<1>8. PICK w \in Seq(WireMessages) : w = secWire[f]
  BY <1>2 DEF Typed, HandshakeTyped
<1>9. PICK v : v = Append(w, p)
  OBVIOUS
<1>10. /\ v \in Seq(WireMessages) /\ Len(w) \in Nat /\ DOMAIN w = 1..Len(w)
       /\ DOMAIN v = 1..Len(w) + 1
       /\ \A i \in DOMAIN v : (i \in DOMAIN w /\ v[i] = w[i]) \/ (i = Len(w) + 1 /\ v[i] = p)
  BY <1>9, AppendFacts
<1>11. /\ secWire' = [secWire EXCEPT ![f] = v] /\ sending' = [sending EXCEPT ![e] = s1]
       /\ UNCHANGED <<secKey, pinned, major, peerHello, hs, nextId, control, sealed, started,
                      window, opened, misordered>>
  BY <1>1, <1>3, <1>5, <1>6, <1>7, <1>8, <1>9 DEF WritePiece, handshakeVars, receiverVars
<1>12. secWire'[f] = v /\ secWire'[e] = secWire[e] /\ sending'[e] = s1 /\ sending'[f] = sending[f]
  BY <1>1, <1>2, <1>11 DEF Typed, HandshakeTyped, SenderTyped
<1>13. Typed'
  <2>1. secWire' \in [SecEnds -> Seq(WireMessages)]
    BY <1>2, <1>10, <1>11 DEF Typed, HandshakeTyped
  <2>2. sending' \in [SecEnds -> Sends]
    BY <1>2, <1>11 DEF Typed, SenderTyped
  <2> QED
    BY <1>2, <1>11, <2>1, <2>2 DEF Typed, HandshakeTyped, SenderTyped, ReceiverTyped
<1>14. Steady /\ \A x \in SecEnds : HandshakeOK(x)'
  <2>1. ASSUME NEW x \in SecEnds, NEW i \in DOMAIN secWire'[x], secWire'[x][i].is # "data"
        PROVE  \E j \in DOMAIN secWire[x] : secWire'[x][i] = secWire[x][j]
    BY <1>1, <1>6, <1>8, <1>10, <1>12, <2>1
  <2>2. \A x \in SecEnds : hs'[x] = hs[x] \/ hs'[x] = "failed"
    BY <1>11
  <2> QED
    BY <1>11, <2>1, <2>2, HandshakeKept
<1>15. SealOK' /\ \A x \in SecEnds : OpenedOK(x)'
  <2>1. \A x \in SecEnds : Len(started[x]) <= Len(started[x])'
    BY <1>2, <1>11 DEF Typed, SenderTyped
  <2>2. ASSUME NEW x \in SecEnds
        PROVE  OpenedOK(x)' /\ \A y \in sealed : \E z \in SecEnds, k \in Nat : SealedBy(y, z, k)'
    <3>1. OpenedOK(x) /\ sealed \subseteq sealed' /\ opened'[x] = opened[x]
      BY <1>11 DEF ChannelInv
    <3> QED
      BY <1>2, <1>13, <1>14, <2>1, <3>1, HistoryKept
  <2> QED
    BY <1>11, <2>2 DEF SealOK
<1>16. CounterOK(e)'
  <2>1. s1.lane # "none" => s1.id = IdOf(Len(started[e]) - 1) /\ control[e]
    BY <1>2, <1>3, <1>4, <1>7 DEF CounterOK
  <2> QED
    BY <1>2, <1>11, <1>12, <2>1 DEF CounterOK, IdOf
<1>17. CounterOK(f)'
  BY <1>2, <1>11, <1>12 DEF CounterOK, IdOf
<1>18. FlightOK(e)' /\ (misordered' = 0 => StreamOK(e)') /\ \A x \in SecEnds : WindowOK(x)'
  BY <1>1, <1>11, <1>12, <1>13, OtherWay
<1>19. FlightOK(f)'
  <2>1. ASSUME NEW i \in DOMAIN v, v[i].is = "data"
        PROVE  v[i].message[1] = e /\ v[i].message[2] < Len(started[e]) /\ v[i].id = IdOf(v[i].message[2])
    <3>1. n < Len(started[e])
      BY <1>5
    <3>2. CASE i \in DOMAIN w /\ v[i] = w[i]
      BY <1>1, <1>2, <1>8, <2>1, <3>2 DEF FlightOK
    <3>3. CASE v[i] = p
      BY <1>6, <3>1, <3>3
    <3> QED
      BY <1>10, <3>2, <3>3
  <2> QED
    BY <1>1, <1>11, <1>12, <2>1 DEF FlightOK, IdOf, Far
<1>20. ASSUME misordered' = 0 PROVE StreamOK(f)'
  <2>1. StreamOK(f)
    BY <1>11, <1>20 DEF ChannelInv
  <2>2. ASSUME NEW i \in DOMAIN w, w[i].is = "data"
        PROVE  /\ w[i].message[2] \in Nat /\ w[i].part \in {1, 2}
               /\ w[i].message[2] < n \/ (w[i].message[2] = n /\ w[i].part <= s.part)
    <3>1. w[i].message[2] \in Nat /\ w[i].part \in {1, 2}
      BY <1>2, <1>8, <2>2, DataFacts
    <3>2. Len(started[e]) - 1 = n
      BY <1>5
    <3>3. w[i].message[2] < n \/ (w[i].message[2] = n /\ w[i].part <= s.part)
      BY <1>1, <1>3, <1>4, <1>8, <2>1, <2>2, <3>2 DEF StreamOK
    <3> QED
      BY <3>1, <3>3
  <2>3. \A j \in DOMAIN opened[f] : Number(f, j) < n
    <3>1. Len(started[e]) - 1 = n
      BY <1>5
    <3> QED
      BY <1>1, <1>3, <1>4, <2>1, <3>1 DEF StreamOK
  <2>4. ASSUME NEW i \in DOMAIN v, NEW j \in DOMAIN v, i < j, v[i].is = "data", v[j].is = "data"
        PROVE  InOrder(v[i], v[j])
    <3>1. CASE j = Len(w) + 1
      <4>1. i \in DOMAIN w /\ v[i] = w[i] /\ v[j] = p
        BY <1>10, <2>4, <3>1
      <4>2. w[i].part <= s.part => w[i].part < p.part
        BY <1>4, <1>6, <2>2, <2>4, <4>1
      <4> QED
        BY <1>6, <2>2, <2>4, <4>1, <4>2 DEF InOrder
    <3>2. CASE j # Len(w) + 1
      <4>1. i \in DOMAIN w /\ v[i] = w[i] /\ j \in DOMAIN w /\ v[j] = w[j]
        BY <1>10, <2>4, <3>2
      <4> QED
        BY <1>8, <2>1, <2>4, <4>1 DEF StreamOK
    <3> QED
      BY <3>1, <3>2
  <2>5. ASSUME NEW i \in DOMAIN v, NEW j \in DOMAIN opened[f], v[i].is = "data"
        PROVE  Number(f, j) < v[i].message[2]
    <3>1. CASE i \in DOMAIN w /\ v[i] = w[i]
      BY <1>8, <2>1, <2>5, <3>1 DEF StreamOK
    <3>2. CASE v[i] = p
      BY <1>6, <2>3, <3>2
    <3> QED
      BY <1>10, <3>1, <3>2
  <2>6. \A i, j \in DOMAIN opened[f] : i < j => Number(f, i) < Number(f, j)
    BY <2>1 DEF StreamOK
  <2>7. ASSUME s1.lane # "none", NEW i \in DOMAIN v, v[i].is = "data"
        PROVE  v[i].message[2] < n \/ (v[i].message[2] = n /\ v[i].part <= s1.part)
    <3>1. s.part = 0 /\ s1.part = 1
      BY <1>7, <2>7
    <3>2. CASE i \in DOMAIN w /\ v[i] = w[i]
      BY <2>2, <2>7, <3>1, <3>2
    <3>3. CASE v[i] = p
      BY <1>6, <3>1, <3>3
    <3> QED
      BY <1>10, <3>2, <3>3
  <2>8. /\ \A j \in DOMAIN opened[f] : Number(f, j)' = Number(f, j)
        /\ Len(started'[e]) - 1 = n /\ opened'[f] = opened[f] /\ Far(f) = e
    BY <1>1, <1>5, <1>11 DEF Number
  <2> QED
    BY <1>12, <2>3, <2>4, <2>5, <2>6, <2>7, <2>8 DEF StreamOK, InOrder, Far
<1>21. \A x \in SecEnds : /\ HandshakeOK(x)' /\ CounterOK(x)' /\ FlightOK(x)' /\ OpenedOK(x)' /\ WindowOK(x)'
                          /\ misordered' = 0 => StreamOK(x)'
  BY <1>1, <1>14, <1>15, <1>16, <1>17, <1>18, <1>19, <1>20
<1> QED
  BY <1>13, <1>15, <1>21 DEF ChannelInv

-----------------------------------------------------------------------------
(* Receiving                                                                *)

\* A replay window against a set of ids.
Records(w, ids) ==
    /\ ~w.some => ids = {}
    /\ w.some => \A x \in ids : x <= w.highest
    /\ w.some => \A k \in Bits : k \in w.seen <=> \E x \in ids : x + k = w.highest

\* check_and_mark accepts no id twice, and records the one it accepts.
LEMMA MarkedFacts ==
    ASSUME NEW w \in Windows, NEW ids \in SUBSET Nat, Records(w, ids), NEW id \in Nat,
           ~Refused(w, id), NEW v, v = Marked(w, id)
    PROVE  /\ v \in Windows /\ v.some /\ id \notin ids /\ Records(v, ids \cup {id})
<1>1. /\ w.some \in BOOLEAN /\ w.highest \in Nat /\ w.seen \in SUBSET Bits
      /\ w = [some |-> w.some, highest |-> w.highest, seen |-> w.seen]
  BY DEF Windows
<1>2. PICK h \in Nat : h = w.highest
  BY <1>1
<1>3. WindowBits \in Nat /\ WindowBits > 0 /\ Bits = 0 .. WindowBits - 1 /\ 0 \in Bits
  BY SecureConstants DEF Bits
<1>4. CASE Older(w, id)
  <2>1. w.some /\ id <= h
    BY <1>2, <1>4 DEF Older
  <2>2. PICK k \in Bits : k = h - id /\ k \notin w.seen
    BY <1>2, <1>3, <1>4, <2>1 DEF Refused
  <2>3. \A x \in ids : x + k # h
    BY <1>2, <2>1, <2>2 DEF Records
  <2>4. id \notin ids /\ id + k = h
    BY <1>3, <2>2, <2>3
  <2>5. PICK s \in SUBSET Bits : s = w.seen \cup {k}
    BY <1>1, <2>2
  <2>6. v = [some |-> TRUE, highest |-> h, seen |-> s]
    <3>1. v = [w EXCEPT !.seen = s]
      BY <1>2, <1>4, <2>2, <2>5 DEF Marked
    <3> QED
      BY <1>1, <1>2, <2>1, <3>1
  <2>7. v \in Windows /\ v.some /\ v.highest = h /\ v.seen = s
    BY <2>6 DEF Windows
  <2>8. \A x \in ids \cup {id} : x <= h
    BY <1>2, <2>1 DEF Records
  <2>9. ASSUME NEW j \in Bits PROVE j \in s <=> \E x \in ids \cup {id} : x + j = h
    <3>1. j \in w.seen <=> \E x \in ids : x + j = h
      BY <1>2, <2>1 DEF Records
    <3>2. j = k <=> id + j = h
      BY <1>3, <2>2, <2>4
    <3> QED
      BY <2>5, <3>1, <3>2
  <2> QED
    BY <2>4, <2>7, <2>8, <2>9 DEF Records
<1>5. CASE ~w.some
  <2>1. v = [some |-> TRUE, highest |-> id, seen |-> {0}] /\ ids = {}
    BY <1>5 DEF Marked, Older, Records
  <2>2. v \in Windows /\ v.some /\ v.highest = id /\ v.seen = {0}
    BY <1>3, <2>1 DEF Windows
  <2>3. \A k \in Bits : k = 0 <=> id + k = id
    BY <1>3
  <2> QED
    BY <2>1, <2>2, <2>3 DEF Records
<1>6. CASE w.some /\ ~Older(w, id)
  <2>1. h < id
    BY <1>2, <1>6 DEF Older
  <2>2. PICK d \in Nat : d = id - h /\ d > 0 /\ id = h + d
    BY <2>1
  <2>3. PICK s : s = Shifted(w.seen, d) \cup {0}
    OBVIOUS
  <2>4. v = [some |-> TRUE, highest |-> id, seen |-> s]
    BY <1>2, <1>6, <2>2, <2>3 DEF Marked
  <2>5. s \in SUBSET Bits
    BY <1>3, <2>3 DEF Shifted
  <2>6. v \in Windows /\ v.some /\ v.highest = id /\ v.seen = s
    BY <2>4, <2>5 DEF Windows
  <2>7. \A x \in ids : x <= h
    BY <1>2, <1>6 DEF Records
  <2>8. id \notin ids /\ \A x \in ids \cup {id} : x <= id
    BY <2>1, <2>7
  <2>9. ASSUME NEW k \in Bits PROVE k \in s <=> \E x \in ids \cup {id} : x + k = id
    <3>1. k = 0 <=> id + k = id
      BY <1>3
    <3>2. ASSUME k \in Shifted(w.seen, d) PROVE \E x \in ids : x + k = id
      <4>1. PICK j \in w.seen : k = j + d
        BY <3>2 DEF Shifted
      <4>2. j \in Bits /\ j \in Nat
        BY <1>1, <1>3
      <4>3. PICK x \in ids : x + j = h
        BY <1>2, <1>6, <4>2 DEF Records
      <4>4. x + k = id
        BY <2>2, <4>1, <4>2, <4>3
      <4> QED
        BY <4>4
    <3>3. ASSUME NEW x \in ids, x + k = id PROVE k \in Shifted(w.seen, d)
      <4>1. k \in Nat /\ k < WindowBits /\ x \in Nat /\ x <= h
        BY <1>3, <2>7
      <4>2. PICK j \in Nat : j = h - x
        BY <4>1
      <4>3. k = j + d /\ x + j = h
        BY <2>2, <3>3, <4>1, <4>2
      <4>4. j \in Bits /\ d < WindowBits
        BY <1>3, <4>1, <4>3
      <4>5. j \in w.seen
        BY <1>2, <1>6, <4>3, <4>4 DEF Records
      <4> QED
        BY <1>3, <4>3, <4>4, <4>5 DEF Shifted
    <3> QED
      BY <2>3, <3>1, <3>2, <3>3
  <2> QED
    BY <2>6, <2>8, <2>9 DEF Records
<1> QED
  BY <1>4, <1>5, <1>6

\* WindowOK speaks of the ids of the opened messages.
Ids(e) == {IdOf(Number(e, i)) : i \in DOMAIN opened[e]}

\* The replay window records exactly these ids.
LEMMA WindowRecords ==
    ASSUME Typed, NEW e \in SecEnds
    PROVE  /\ \A i \in DOMAIN opened[e] : Number(e, i) \in Nat
           /\ Ids(e) \in SUBSET Nat /\ (WindowOK(e) <=> Records(window[e], Ids(e)))
<1>1. \A i \in DOMAIN opened[e] : opened[e][i] \in SentMessages
  BY DEF Typed, ReceiverTyped
<1>2. \A i \in DOMAIN opened[e] : Number(e, i) \in Nat
  BY <1>1 DEF Number, SentMessages
<1>3. Ids(e) \in SUBSET Nat
  BY <1>2, IdFacts DEF Ids
<1>4. opened[e] = <<>> <=> Ids(e) = {}
  <2>1. opened[e] \in Seq(SentMessages)
    BY DEF Typed, ReceiverTyped
  <2>2. opened[e] # <<>> => 1 \in DOMAIN opened[e]
    BY <2>1
  <2>3. opened[e] = <<>> => DOMAIN opened[e] = {}
    BY <2>1
  <2> QED
    BY <2>2, <2>3 DEF Ids
<1>5. \A h : (\A x \in Ids(e) : x <= h) <=> (\A i \in DOMAIN opened[e] : IdOf(Number(e, i)) <= h)
  BY DEF Ids
<1>6. \A k, h : (\E x \in Ids(e) : x + k = h) <=> (\E i \in DOMAIN opened[e] : IdOf(Number(e, i)) + k = h)
  BY DEF Ids
<1> QED
  BY <1>2, <1>3, <1>4, <1>5, <1>6 DEF WindowOK, Records

\* A frame that opens is a message of the peer, under the id of that message.
LEMMA OpensFacts ==
    ASSUME ChannelInv, NEW e \in SecEnds, hs[e] = "open", NEW id, NEW m,
           <<RxKey(e), id, m>> \in sealed
    PROVE  /\ Joined(e)
           /\ \E n \in Nat : n < Len(started[Far(e)]) /\ m = <<Far(e), n>> /\ id = IdOf(n)
<1>1. Typed /\ SealOK /\ Joined(e)
  BY DEF ChannelInv, HandshakeOK
<1>2. PICK x : x = <<RxKey(e), id, m>>
  OBVIOUS
<1>3. PICK y \in SecEnds, n \in Nat : SealedBy(x, y, n)
  BY <1>1, <1>2 DEF SealOK
<1>4. RxKey(e) = TxKey(Far(e)) /\ TxKey(e) # TxKey(Far(e))
  BY <1>1, KeyFacts
<1>5. RxKey(e) = TxKey(y) /\ id = IdOf(n) /\ m = <<y, n>> /\ n < Len(started[y])
  BY <1>2, <1>3 DEF SealedBy
<1>6. y = Far(e)
  BY <1>4, <1>5, EndFacts
<1> QED
  BY <1>1, <1>5, <1>6

\* The rest of a wire whose first two pieces were read.
LEMMA RestFacts ==
    ASSUME NEW S, NEW w \in Seq(S), Len(w) >= 2, NEW v, v = SubSeq(w, 3, Len(w))
    PROVE  /\ v \in Seq(S) /\ 1 \in DOMAIN w /\ 2 \in DOMAIN w /\ w[1] \in S /\ w[2] \in S
           /\ \A i \in DOMAIN v : i \in Nat /\ i >= 1 /\ i + 2 \in DOMAIN w /\ v[i] = w[i + 2]
OBVIOUS

\* A frame that does not open ends the session.
LEMMA RefuseFrameInv ==
    ASSUME ChannelInv, NEW e \in SecEnds, ReceiveFrame(e),
           ~OpensFrame(e, secWire[e][1], secWire[e][2])
    PROVE  ChannelInv'
<1>1. Typed
  BY DEF ChannelInv
<1>2. /\ hs' = [hs EXCEPT ![e] = "failed"] /\ Len(secWire[e]) >= 2
      /\ secWire' = [secWire EXCEPT ![e] = SubSeq(@, 3, Len(@))]
      /\ UNCHANGED <<secKey, pinned, major, peerHello, nextId, sending, control, sealed, started,
                     window, opened, misordered>>
  BY DEF ReceiveFrame, FrameReady, Abandon, handshakeVars
<1>3. PICK w \in Seq(WireMessages) : w = secWire[e]
  BY <1>1 DEF Typed, HandshakeTyped
<1>4. PICK v : v = SubSeq(w, 3, Len(w))
  OBVIOUS
<1>5. v \in Seq(WireMessages) /\ \A i \in DOMAIN v : i + 2 \in DOMAIN w /\ v[i] = w[i + 2]
  BY <1>2, <1>3, <1>4, RestFacts
<1>6. secWire'[e] = v /\ \A x \in SecEnds : x # e => secWire'[x] = secWire[x]
  BY <1>1, <1>2, <1>3, <1>4 DEF Typed, HandshakeTyped
<1>7. Typed'
  <2>1. hs' \in [SecEnds -> Places]
    BY <1>1, <1>2 DEF Typed, HandshakeTyped, Places
  <2>2. secWire' \in [SecEnds -> Seq(WireMessages)]
    BY <1>1, <1>2, <1>3, <1>4, <1>5 DEF Typed, HandshakeTyped
  <2> QED
    BY <1>1, <1>2, <2>1, <2>2 DEF Typed, HandshakeTyped, SenderTyped, ReceiverTyped
<1>8. Steady /\ \A x \in SecEnds : HandshakeOK(x)'
  <2>1. \A x \in SecEnds : hs'[x] = hs[x] \/ hs'[x] = "failed"
    BY <1>1, <1>2 DEF Typed, HandshakeTyped
  <2>2. ASSUME NEW x \in SecEnds, NEW i \in DOMAIN secWire'[x]
        PROVE  \E j \in DOMAIN secWire[x] : secWire'[x][i] = secWire[x][j]
    BY <1>3, <1>5, <1>6
  <2> QED
    BY <1>2, <2>1, <2>2, HandshakeKept
<1>9. \A x \in SecEnds : \E d \in Nat : Shifts(secWire'[x], secWire[x], d)
  <2>1. Shifts(secWire'[e], secWire[e], 2)
    BY <1>3, <1>5, <1>6 DEF Shifts
  <2>2. \A x \in SecEnds : x # e => Shifts(secWire'[x], secWire[x], 0)
    BY <1>1, <1>6, WireStays
  <2> QED
    BY <2>1, <2>2
<1>10. \A x \in SecEnds : Yields(sending'[x], sending[x])
  BY <1>2 DEF Yields
<1> QED
  BY <1>2, <1>7, <1>8, <1>9, <1>10, QuietInv

\* A frame that opens is handed on, and its id is marked.
LEMMA OpenFrameInv ==
    ASSUME ChannelInv, NEW e \in SecEnds, ReceiveFrame(e),
           OpensFrame(e, secWire[e][1], secWire[e][2])
    PROVE  ChannelInv'
<1>1. PICK f \in SecEnds : f = Far(e) /\ Far(f) = e /\ f # e /\ \A x \in SecEnds : x = e \/ x = f
  BY EndFacts
<1>2. Typed /\ SealOK /\ FlightOK(e) /\ OpenedOK(e) /\ WindowOK(e) /\ (misordered = 0 => StreamOK(e))
  BY DEF ChannelInv
<1>3. PICK w \in Seq(WireMessages) : w = secWire[e]
  BY <1>2 DEF Typed, HandshakeTyped
<1>4. PICK p \in WireMessages, q \in WireMessages, v \in Seq(WireMessages) :
         /\ 1 \in DOMAIN w /\ 2 \in DOMAIN w /\ p = w[1] /\ q = w[2] /\ v = SubSeq(w, 3, Len(w))
         /\ \A i \in DOMAIN v : i \in Nat /\ i >= 1 /\ i + 2 \in DOMAIN w /\ v[i] = w[i + 2]
  <2>1. Len(w) >= 2
    BY <1>3 DEF ReceiveFrame, FrameReady
  <2>2. PICK v : v = SubSeq(w, 3, Len(w))
    OBVIOUS
  <2>3. /\ v \in Seq(WireMessages) /\ 1 \in DOMAIN w /\ 2 \in DOMAIN w
        /\ w[1] \in WireMessages /\ w[2] \in WireMessages
        /\ \A i \in DOMAIN v : i \in Nat /\ i >= 1 /\ i + 2 \in DOMAIN w /\ v[i] = w[i + 2]
    BY <2>1, <2>2, RestFacts
  <2> QED
    BY <2>2, <2>3
<1>5. /\ hs[e] = "open" /\ OpensFrame(e, p, q)
      /\ window' = [window EXCEPT ![e] = Marked(@, p.id)]
      /\ opened' = [opened EXCEPT ![e] = Append(@, p.message)]
      /\ secWire' = [secWire EXCEPT ![e] = v]
      /\ UNCHANGED <<secKey, pinned, major, peerHello, hs, nextId, sending, control, sealed, started,
                     misordered>>
  BY <1>3, <1>4 DEF ReceiveFrame, handshakeVars
<1>6. /\ p.is = "data" /\ q.is = "data" /\ p.id = q.id /\ p.part = 1 /\ q.part = 2
      /\ <<RxKey(e), p.id, p.message>> \in sealed /\ ~Refused(window[e], p.id)
  BY <1>5 DEF OpensFrame, Whole
<1>7. PICK n \in Nat : /\ n < Len(started[f]) /\ p.message = <<f, n>> /\ p.id = IdOf(n) /\ Joined(e)
                       /\ p.message[2] = n
  BY <1>1, <1>5, <1>6, OpensFacts
<1>8. PICK win \in Windows : win = window[e]
  BY <1>2 DEF Typed, ReceiverTyped
<1>9. PICK new : new = Marked(win, p.id)
  OBVIOUS
<1>10. /\ new \in Windows /\ new.some /\ IdOf(n) \notin Ids(e) /\ Records(new, Ids(e) \cup {IdOf(n)})
  <2>1. PICK ids \in SUBSET Nat : ids = Ids(e) /\ Records(win, ids)
    BY <1>2, <1>8, WindowRecords
  <2>2. PICK id \in Nat : id = IdOf(n)
    BY IdFacts
  <2>3. ~Refused(win, id) /\ new = Marked(win, id)
    BY <1>6, <1>7, <1>8, <1>9, <2>2
  <2>4. new \in Windows /\ new.some /\ id \notin ids /\ Records(new, ids \cup {id})
    BY <2>1, <2>3, MarkedFacts
  <2> QED
    BY <2>1, <2>2, <2>4
<1>11. PICK o \in Seq(SentMessages), m \in SentMessages : o = opened[e] /\ m = p.message /\ m = <<f, n>>
  BY <1>2, <1>7 DEF Typed, ReceiverTyped, SentMessages
<1>12. PICK o1 : o1 = Append(o, m)
  OBVIOUS
<1>13. /\ o1 \in Seq(SentMessages) /\ Len(o) \in Nat /\ DOMAIN o = 1..Len(o)
       /\ DOMAIN o1 = 1..Len(o) + 1 /\ o1[Len(o) + 1] = m /\ \A i \in DOMAIN o : o1[i] = o[i]
       /\ \A i \in DOMAIN o1 : i = Len(o) + 1 \/ i \in DOMAIN o
  BY <1>12, AppendFacts
<1>14. window' = [window EXCEPT ![e] = new] /\ opened' = [opened EXCEPT ![e] = o1]
  BY <1>2, <1>5, <1>8, <1>9, <1>11, <1>12 DEF Typed, ReceiverTyped
<1>15. /\ window'[e] = new /\ window'[f] = window[f] /\ opened'[e] = o1 /\ opened'[f] = opened[f]
       /\ secWire'[e] = v /\ secWire'[f] = secWire[f]
  BY <1>1, <1>2, <1>5, <1>14 DEF Typed, HandshakeTyped, ReceiverTyped
<1>16. Typed'
  <2>1. window' \in [SecEnds -> Windows]
    BY <1>2, <1>10, <1>14 DEF Typed, ReceiverTyped
  <2>2. opened' \in [SecEnds -> Seq(SentMessages)]
    BY <1>2, <1>13, <1>14 DEF Typed, ReceiverTyped
  <2>3. secWire' \in [SecEnds -> Seq(WireMessages)]
    BY <1>2, <1>5 DEF Typed, HandshakeTyped
  <2> QED
    BY <1>2, <1>5, <2>1, <2>2, <2>3 DEF Typed, HandshakeTyped, SenderTyped, ReceiverTyped
<1>17. Steady /\ \A x \in SecEnds : HandshakeOK(x)'
  <2>1. \A x \in SecEnds : hs'[x] = hs[x] \/ hs'[x] = "failed"
    BY <1>5
  <2>2. ASSUME NEW x \in SecEnds, NEW i \in DOMAIN secWire'[x]
        PROVE  \E j \in DOMAIN secWire[x] : secWire'[x][i] = secWire[x][j]
    BY <1>1, <1>3, <1>4, <1>15
  <2> QED
    BY <1>5, <2>1, <2>2, HandshakeKept
<1>18. /\ \A i \in DOMAIN o : Number(e, i)' = Number(e, i) /\ Number(e, i) \in Nat
       /\ Number(e, Len(o) + 1)' = n
  <2>1. \A i \in DOMAIN o : Number(e, i)' = Number(e, i)
    BY <1>11, <1>13, <1>15 DEF Number
  <2>2. \A i \in DOMAIN o : Number(e, i) \in Nat
    BY <1>2, <1>11, WindowRecords
  <2>3. ASSUME NEW z, z = Len(o) + 1 PROVE o1[z][2] = n
    BY <1>11, <1>13, <2>3
  <2>4. Number(e, Len(o) + 1)' = n
    BY <1>15, <1>12, <2>3 DEF Number
  <2> QED
    BY <2>1, <2>2, <2>4
<1>19. n \notin {Number(e, i) : i \in DOMAIN o}
  BY <1>10, <1>11 DEF Ids
<1>20. OpenedOK(e)'
  <2>1. Joined(e)' /\ RxKey(e)' = RxKey(e)
    BY <1>7, <1>17, SteadyFacts
  <2>2. ASSUME NEW i \in DOMAIN o1
        PROVE  /\ o1[i] = <<f, Number(e, i)'>> /\ Number(e, i)' < Len(started[f])
               /\ <<RxKey(e), IdOf(Number(e, i)'), o1[i]>> \in sealed
    <3>1. CASE i \in DOMAIN o
      <4>1. /\ o[i] = <<f, Number(e, i)>> /\ Number(e, i) < Len(started[f])
            /\ <<RxKey(e), IdOf(Number(e, i)), o[i]>> \in sealed
        BY <1>1, <1>2, <1>11, <3>1 DEF OpenedOK
      <4> QED
        BY <1>13, <1>18, <3>1, <4>1
    <3>2. CASE i = Len(o) + 1
      <4>1. Number(e, i)' = n /\ o1[i] = m
        BY <1>13, <1>18, <3>2
      <4> QED
        BY <1>6, <1>7, <1>11, <4>1
    <3> QED
      BY <1>13, <3>1, <3>2
  <2>3. ASSUME NEW i \in DOMAIN o1, NEW j \in DOMAIN o1, i < j
        PROVE  Number(e, i)' # Number(e, j)'
    <3>1. CASE j \in DOMAIN o
      <4>1. i \in DOMAIN o
        BY <1>13, <2>3, <3>1
      <4>2. Number(e, i) # Number(e, j)
        BY <1>2, <1>11, <2>3, <3>1, <4>1 DEF OpenedOK
      <4> QED
        BY <1>18, <3>1, <4>1, <4>2
    <3>2. CASE j = Len(o) + 1
      <4>1. i \in DOMAIN o
        BY <1>13, <2>3, <3>2
      <4>2. Number(e, j)' = n
        BY <1>18, <3>2
      <4> QED
        BY <1>18, <1>19, <4>1, <4>2
    <3> QED
      BY <1>13, <3>1, <3>2
  <2>4. /\ opened'[e] = o1 /\ started' = started /\ sealed' = sealed /\ Far(e) = f
    BY <1>1, <1>5, <1>15
  <2> HIDE DEF Number
  <2> QED
    BY <2>1, <2>2, <2>3, <2>4 DEF OpenedOK, IdOf, Far
<1>21. OpenedOK(f)' /\ SealOK'
  <2>1. \A x \in SecEnds : Len(started[x]) <= Len(started[x])'
    BY <1>2, <1>5 DEF Typed, SenderTyped
  <2>2. OpenedOK(f) /\ sealed \subseteq sealed'
    BY <1>5 DEF ChannelInv
  <2>3. OpenedOK(f)' /\ \A x \in sealed : \E y \in SecEnds, k \in Nat : SealedBy(x, y, k)'
    BY <1>2, <1>15, <1>16, <1>17, <2>1, <2>2, HistoryKept
  <2> QED
    BY <1>5, <2>3 DEF SealOK
<1>22. WindowOK(e)'
  <2>1. ASSUME NEW i \in DOMAIN o1 PROVE IdOf(Number(e, i)') \in Ids(e) \cup {IdOf(n)}
    BY <1>11, <1>13, <1>18 DEF Ids
  <2>2. ASSUME NEW x \in Ids(e) \cup {IdOf(n)} PROVE \E i \in DOMAIN o1 : x = IdOf(Number(e, i)')
    <3>1. CASE x = IdOf(n)
      <4>1. PICK i \in DOMAIN o1 : i = Len(o) + 1
        BY <1>13
      <4>2. Number(e, i)' = n
        BY <1>18, <4>1
      <4> QED
        BY <3>1, <4>2
    <3>2. CASE x \in Ids(e)
      <4>1. PICK i \in DOMAIN o : x = IdOf(Number(e, i))
        BY <1>11, <3>2 DEF Ids
      <4>2. i \in DOMAIN o1 /\ Number(e, i)' = Number(e, i)
        BY <1>13, <1>18, <4>1
      <4> QED
        BY <4>1, <4>2
    <3> QED
      BY <3>1, <3>2
  <2>3. \A i \in DOMAIN o1 : IdOf(Number(e, i)') <= new.highest
    BY <1>10, <2>1 DEF Records
  <2>4. ASSUME NEW k \in Bits
        PROVE  k \in new.seen <=> \E i \in DOMAIN o1 : IdOf(Number(e, i)') + k = new.highest
    <3>1. k \in new.seen <=> \E x \in Ids(e) \cup {IdOf(n)} : x + k = new.highest
      BY <1>10 DEF Records
    <3> HIDE DEF Number, IdOf, Ids
    <3> QED
      BY <2>1, <2>2, <3>1
  <2>5. window'[e] = new /\ new.some /\ opened'[e] = o1
    BY <1>10, <1>15
  <2> HIDE DEF Number
  <2> QED
    BY <2>3, <2>4, <2>5 DEF WindowOK, IdOf, Bits
<1>23. WindowOK(f)'
  <2>1. WindowOK(f)
    BY DEF ChannelInv
  <2> QED
    BY <1>15, <2>1 DEF WindowOK, Number, IdOf
<1>24. \A x \in SecEnds : CounterOK(x)'
  BY <1>5 DEF ChannelInv, CounterOK, IdOf
<1>25. FlightOK(e)'
  <2>1. ASSUME NEW i \in DOMAIN v, v[i].is = "data"
        PROVE  v[i].message[1] = f /\ v[i].message[2] < Len(started[f]) /\ v[i].id = IdOf(v[i].message[2])
    <3>1. i + 2 \in DOMAIN w /\ v[i] = w[i + 2]
      BY <1>4
    <3> QED
      BY <1>1, <1>2, <1>3, <2>1, <3>1 DEF FlightOK
  <2> QED
    BY <1>1, <1>5, <1>15, <2>1 DEF FlightOK, IdOf, Far
<1>26. FlightOK(f)' /\ (misordered' = 0 => StreamOK(f)')
  <2>1. FlightOK(f) /\ (misordered = 0 => StreamOK(f))
    BY DEF ChannelInv
  <2>2. Shifts(secWire'[f], secWire[f], 0)
    BY <1>2, <1>15, WireStays
  <2>3. FlightOK(f)' /\ (StreamOK(f) => StreamOK(f)')
    BY <1>1, <1>2, <1>5, <1>15, <1>16, <2>1, <2>2, WireShifted DEF Yields
  <2> QED
    BY <1>5, <2>1, <2>3
<1>27. ASSUME misordered' = 0 PROVE StreamOK(e)'
  <2>1. StreamOK(e)
    BY <1>2, <1>5, <1>27
  <2>2. q.message[2] = n
    <3>1. q.id = IdOf(q.message[2]) /\ q.message[2] \in Nat
      BY <1>2, <1>3, <1>4, <1>6, DataFacts DEF FlightOK
    <3> QED
      BY <1>6, <1>7, <3>1, IdFacts
  <2>3. ASSUME NEW i \in DOMAIN v, v[i].is = "data"
        PROVE  /\ i + 2 \in DOMAIN w /\ v[i] = w[i + 2] /\ i \in Nat /\ n < v[i].message[2]
    <3>1. i \in Nat /\ i >= 1 /\ i + 2 \in DOMAIN w /\ v[i] = w[i + 2]
      BY <1>4
    <3>2. v[i].message[2] \in Nat /\ v[i].part \in {1, 2}
      BY <1>2, <1>3, <2>3, <3>1, DataFacts
    <3>3. 2 < i + 2
      BY <3>1
    <3>4. InOrder(q, v[i])
      BY <1>3, <1>4, <1>6, <2>1, <2>3, <3>1, <3>3 DEF StreamOK
    <3> QED
      BY <1>6, <2>2, <3>1, <3>2, <3>4 DEF InOrder
  <2>4. ASSUME NEW i \in DOMAIN v, NEW j \in DOMAIN v, i < j, v[i].is = "data", v[j].is = "data"
        PROVE  InOrder(v[i], v[j])
    <3>1. /\ i + 2 \in DOMAIN w /\ v[i] = w[i + 2] /\ j + 2 \in DOMAIN w /\ v[j] = w[j + 2]
          /\ i \in Nat /\ j \in Nat
      BY <2>3, <2>4
    <3>2. i + 2 < j + 2
      BY <2>4, <3>1
    <3> QED
      BY <1>3, <2>1, <2>4, <3>1, <3>2 DEF StreamOK
  <2>5. \A j \in DOMAIN o : Number(e, j) < n
    BY <1>3, <1>4, <1>6, <1>7, <1>11, <2>1 DEF StreamOK
  <2>6. ASSUME NEW i \in DOMAIN v, NEW j \in DOMAIN o1, v[i].is = "data"
        PROVE  Number(e, j)' < v[i].message[2]
    <3>1. CASE j \in DOMAIN o
      <4>1. i + 2 \in DOMAIN w /\ v[i] = w[i + 2]
        BY <2>3, <2>6
      <4>2. Number(e, j) < v[i].message[2]
        BY <1>3, <1>11, <2>1, <2>6, <3>1, <4>1 DEF StreamOK
      <4> QED
        BY <1>18, <3>1, <4>2
    <3>2. CASE j = Len(o) + 1
      BY <1>18, <2>3, <2>6, <3>2
    <3> QED
      BY <1>13, <3>1, <3>2
  <2>7. ASSUME NEW i \in DOMAIN o1, NEW j \in DOMAIN o1, i < j
        PROVE  Number(e, i)' < Number(e, j)'
    <3>1. i \in DOMAIN o
      BY <1>13, <2>7
    <3>2. CASE j \in DOMAIN o
      <4>1. Number(e, i) < Number(e, j)
        BY <1>11, <2>1, <2>7, <3>1, <3>2 DEF StreamOK
      <4> QED
        BY <1>18, <3>1, <3>2, <4>1
    <3>3. CASE j = Len(o) + 1
      BY <1>18, <2>5, <3>1, <3>3
    <3> QED
      BY <1>13, <3>2, <3>3
  <2>8. ASSUME sending[f].lane # "none"
        PROVE  /\ \A i \in DOMAIN v : v[i].is = "data" =>
                     \/ v[i].message[2] < Len(started[f]) - 1
                     \/ v[i].message[2] = Len(started[f]) - 1 /\ v[i].part <= sending[f].part
               /\ \A j \in DOMAIN o1 : Number(e, j)' < Len(started[f]) - 1
    <3>1. ASSUME NEW i \in DOMAIN v, v[i].is = "data"
          PROVE  \/ v[i].message[2] < Len(started[f]) - 1
                 \/ v[i].message[2] = Len(started[f]) - 1 /\ v[i].part <= sending[f].part
      <4>1. i + 2 \in DOMAIN w /\ v[i] = w[i + 2]
        BY <2>3, <3>1
      <4> QED
        BY <1>1, <1>3, <2>1, <2>8, <3>1, <4>1 DEF StreamOK
    <3>2. n < Len(started[f]) - 1
      <4>1. sending[f].part \in {0, 1}
        BY <1>2 DEF Typed, SenderTyped, Sends
      <4>2. \/ q.message[2] < Len(started[f]) - 1
            \/ q.message[2] = Len(started[f]) - 1 /\ q.part <= sending[f].part
        BY <1>1, <1>3, <1>4, <1>6, <2>1, <2>8 DEF StreamOK
      <4> QED
        BY <1>6, <2>2, <4>1, <4>2
    <3>3. ASSUME NEW j \in DOMAIN o1 PROVE Number(e, j)' < Len(started[f]) - 1
      <4>1. CASE j \in DOMAIN o
        <5>1. Number(e, j) < Len(started[f]) - 1
          BY <1>1, <1>11, <2>1, <2>8, <4>1 DEF StreamOK
        <5> QED
          BY <1>18, <4>1, <5>1
      <4>2. CASE j = Len(o) + 1
        BY <1>18, <3>2, <4>2
      <4> QED
        BY <1>13, <4>1, <4>2
    <3> QED
      BY <3>1, <3>3
  <2>9. /\ secWire'[e] = v /\ opened'[e] = o1 /\ started' = started /\ sending' = sending /\ Far(e) = f
    BY <1>1, <1>5, <1>15
  <2> HIDE DEF Number
  <2> QED
    BY <2>4, <2>6, <2>7, <2>8, <2>9 DEF StreamOK, InOrder, Far
<1>28. \A x \in SecEnds : /\ HandshakeOK(x)' /\ CounterOK(x)' /\ FlightOK(x)' /\ OpenedOK(x)' /\ WindowOK(x)'
                          /\ misordered' = 0 => StreamOK(x)'
  BY <1>1, <1>17, <1>20, <1>21, <1>22, <1>23, <1>24, <1>25, <1>26, <1>27
<1> QED
  BY <1>16, <1>21, <1>28 DEF ChannelInv

\* What is within a wire, in whatever order and however often.
Within(v, w) == v \in Seq(WireMessages) /\ \A k \in DOMAIN v : \E j \in DOMAIN w : v[k] = w[j]

\* Two parts of a wire, put together.
LEMMA ConcatWithin ==
    ASSUME NEW w, NEW a, NEW b, Within(a, w), Within(b, w), NEW v, v = a \o b
    PROVE  Within(v, w)
<1>1. a \in Seq(WireMessages) /\ b \in Seq(WireMessages)
  BY DEF Within
<1>2. v \in Seq(WireMessages) /\ Len(a) \in Nat /\ Len(b) \in Nat /\ Len(v) = Len(a) + Len(b)
  BY <1>1
<1>3. DOMAIN a = 1..Len(a) /\ DOMAIN b = 1..Len(b) /\ DOMAIN v = 1..Len(a) + Len(b)
  BY <1>1, <1>2
<1>4. ASSUME NEW k \in DOMAIN v PROVE \E j \in DOMAIN w : v[k] = w[j]
  <2>1. CASE k <= Len(a)
    <3>1. k \in DOMAIN a /\ v[k] = a[k]
      BY <1>1, <1>2, <1>3, <2>1
    <3> QED
      BY <3>1 DEF Within
  <2>2. CASE ~(k <= Len(a))
    <3>1. k - Len(a) \in DOMAIN b /\ v[k] = b[k - Len(a)]
      BY <1>1, <1>2, <1>3, <2>2
    <3> QED
      BY <3>1 DEF Within
  <2> QED
    BY <2>1, <2>2
<1> QED
  BY <1>2, <1>4 DEF Within

\* The transport repeats or delays a frame: the order is lost, and nothing else.
LEMMA MisorderFrameInv ==
    ASSUME ChannelInv, NEW e \in SecEnds, NEW again \in BOOLEAN, MisorderFrame(e, again)
    PROVE  ChannelInv'
<1>1. Typed
  BY DEF ChannelInv
<1>2. PICK w \in Seq(WireMessages) : w = secWire[e]
  BY <1>1 DEF Typed, HandshakeTyped
<1>3. PICK i \in 1 .. Len(w) - 1 : secWire' = [secWire EXCEPT ![e] =
                IF again THEN @ \o <<@[i], @[i + 1]>>
                ELSE SubSeq(@, 1, i - 1) \o SubSeq(@, i + 2, Len(@)) \o <<@[i], @[i + 1]>>]
  BY <1>2 DEF MisorderFrame
<1>4. /\ misordered < MaxMisordered /\ misordered' = misordered + 1
      /\ UNCHANGED <<secKey, pinned, major, peerHello, hs, nextId, sending, control, sealed, started,
                     window, opened>>
  BY DEF MisorderFrame, handshakeVars
<1>5. PICK tail \in Seq(WireMessages) : tail = <<w[i], w[i + 1]>> /\ i \in DOMAIN w /\ i + 1 \in DOMAIN w
  <2>1. i \in DOMAIN w /\ i + 1 \in DOMAIN w
    OBVIOUS
  <2>2. PICK x \in WireMessages, y \in WireMessages : x = w[i] /\ y = w[i + 1]
    BY <2>1
  <2>3. <<x, y>> \in Seq(WireMessages)
    OBVIOUS
  <2> QED
    BY <2>1, <2>2, <2>3
<1>6. PICK v : secWire' = [secWire EXCEPT ![e] = v] /\ Within(v, w)
  <2>1. Within(tail, w)
    BY <1>5 DEF Within
  <2>2. CASE again
    <3>1. PICK v : v = w \o tail
      OBVIOUS
    <3>2. Within(w, w)
      BY DEF Within
    <3>3. Within(v, w)
      BY <2>1, <3>1, <3>2, ConcatWithin
    <3>4. secWire' = [secWire EXCEPT ![e] = v]
      BY <1>2, <1>3, <1>5, <2>2, <3>1
    <3> QED
      BY <3>3, <3>4
  <2>3. CASE ~again
    <3>1. PICK a, b, ab, v : /\ a = SubSeq(w, 1, i - 1) /\ b = SubSeq(w, i + 2, Len(w))
                             /\ ab = a \o b /\ v = ab \o tail
      OBVIOUS
    <3>2. i \in Nat /\ i >= 1 /\ Len(w) \in Nat /\ i + 1 <= Len(w)
      BY <1>2
    <3>3. a \in Seq(WireMessages) /\ \A k \in DOMAIN a : k \in DOMAIN w /\ a[k] = w[k]
      BY <3>1, <3>2
    <3>4. b \in Seq(WireMessages) /\ \A k \in DOMAIN b : k + i + 1 \in DOMAIN w /\ b[k] = w[k + i + 1]
      BY <3>1, <3>2
    <3>5. Within(a, w) /\ Within(b, w)
      BY <3>3, <3>4 DEF Within
    <3>6. Within(ab, w)
      BY <3>1, <3>5, ConcatWithin
    <3>7. Within(v, w)
      BY <2>1, <3>1, <3>6, ConcatWithin
    <3>8. secWire' = [secWire EXCEPT ![e] = v]
      BY <1>2, <1>3, <1>5, <2>3, <3>1
    <3> QED
      BY <3>7, <3>8
  <2> QED
    BY <2>2, <2>3
<1>7. \A x \in SecEnds : \A k \in DOMAIN secWire'[x] : \E j \in DOMAIN secWire[x] : secWire'[x][k] = secWire[x][j]
  <2>1. secWire'[e] = v /\ \A x \in SecEnds : x # e => secWire'[x] = secWire[x]
    BY <1>1, <1>6 DEF Typed, HandshakeTyped
  <2> QED
    BY <1>2, <1>6, <2>1 DEF Within
<1>8. Typed'
  <2>1. secWire' \in [SecEnds -> Seq(WireMessages)]
    BY <1>1, <1>6 DEF Typed, HandshakeTyped, Within
  <2>2. misordered' \in 0 .. MaxMisordered
    BY <1>1, <1>4, SecureConstants DEF Typed, ReceiverTyped
  <2> QED
    BY <1>1, <1>4, <2>1, <2>2 DEF Typed, HandshakeTyped, SenderTyped, ReceiverTyped
<1>9. misordered' # 0
  BY <1>1, <1>4, SecureConstants DEF Typed, ReceiverTyped
<1>10. Steady /\ \A x \in SecEnds : HandshakeOK(x)'
  <2>1. \A x \in SecEnds : hs'[x] = hs[x] \/ hs'[x] = "failed"
    BY <1>4
  <2> QED
    BY <1>4, <1>7, <2>1, HandshakeKept
<1>11. \A x \in SecEnds : Len(started[x]) <= Len(started[x])'
  BY <1>1, <1>4 DEF Typed, SenderTyped
<1>12. ASSUME NEW x \in SecEnds
       PROVE  /\ CounterOK(x)' /\ FlightOK(x)' /\ OpenedOK(x)' /\ WindowOK(x)'
              /\ \A y \in sealed : \E z \in SecEnds, k \in Nat : SealedBy(y, z, k)'
  <2>1. SealOK /\ CounterOK(x) /\ FlightOK(x) /\ OpenedOK(x) /\ WindowOK(x) /\ sealed \subseteq sealed'
    BY <1>4 DEF ChannelInv
  <2>2. CounterOK(x)'
    BY <1>4, <2>1 DEF CounterOK, IdOf
  <2>3. WindowOK(x)'
    BY <1>4, <2>1 DEF WindowOK, Number, IdOf
  <2>4. /\ OpenedOK(x)'
        /\ \A y \in sealed : \E z \in SecEnds, k \in Nat : SealedBy(y, z, k)'
    BY <1>1, <1>4, <1>8, <1>10, <1>11, <2>1, HistoryKept
  <2>5. FlightOK(x)'
    <3>1. PICK ws, vs : ws = secWire[x] /\ vs = secWire'[x]
      OBVIOUS
    <3>2. ASSUME NEW k \in DOMAIN vs, vs[k].is = "data"
          PROVE  /\ vs[k].message[1] = Far(x) /\ vs[k].message[2] < Len(started[Far(x)])
                 /\ vs[k].id = IdOf(vs[k].message[2])
      <4>1. PICK j \in DOMAIN ws : vs[k] = ws[j]
        BY <1>7, <3>1
      <4> QED
        BY <2>1, <3>1, <3>2, <4>1 DEF FlightOK
    <3> QED
      BY <1>4, <3>1, <3>2 DEF FlightOK, IdOf, Far
  <2> QED
    BY <2>2, <2>3, <2>4, <2>5
<1>13. SealOK'
  BY <1>4, <1>12 DEF SealOK
<1> QED
  BY <1>8, <1>9, <1>10, <1>12, <1>13 DEF ChannelInv

-----------------------------------------------------------------------------
(* The theorem                                                              *)

\* A connection of which nothing has been sent.
LEMMA InitInv ==
    ASSUME SecInit
    PROVE  ChannelInv
<1>1. Typed
  <2>1. HandshakeTyped
    BY DEF SecInit, HandshakeTyped, Places
  <2>2. SenderTyped
    <3>1. FirstDataId \in FirstDataId .. LastId + 1
      BY SecureConstants
    <3>2. Idle \in Sends
      BY DEF Idle, Sends
    <3> QED
      BY <3>1, <3>2 DEF SecInit, SenderTyped
  <2>3. ReceiverTyped
    <3>1. [some |-> FALSE, highest |-> 0, seen |-> {}] \in Windows
      BY DEF Windows
    <3>2. 0 \in 0 .. MaxMisordered
      BY SecureConstants
    <3> QED
      BY <3>1, <3>2 DEF SecInit, ReceiverTyped
  <2> QED
    BY <2>1, <2>2, <2>3 DEF Typed
<1>2. SealOK
  BY DEF SecInit, SealOK
<1>3. ASSUME NEW e \in SecEnds
      PROVE  HandshakeOK(e) /\ CounterOK(e) /\ FlightOK(e) /\ OpenedOK(e) /\ WindowOK(e) /\ StreamOK(e)
  <2>1. /\ hs[e] = "start" /\ peerHello[e] = <<>> /\ secWire[e] = <<>> /\ opened[e] = <<>>
        /\ started[e] = <<>> /\ nextId[e] = FirstDataId /\ ~control[e]
        /\ sending[e] = Idle /\ window[e] = [some |-> FALSE, highest |-> 0, seen |-> {}]
    BY DEF SecInit
  <2>2. sending[Far(e)] = Idle
    BY EndFacts DEF SecInit
  <2>3. DOMAIN secWire[e] = {} /\ DOMAIN opened[e] = {} /\ DOMAIN started[e] = {} /\ Len(started[e]) = 0
    BY <2>1
  <2>4. sending[e].lane = "none" /\ sending[Far(e)].lane = "none" /\ ~window[e].some
    BY <2>1, <2>2 DEF Idle
  <2>5. HandshakeOK(e)
    BY <2>1, <2>3 DEF HandshakeOK
  <2>6. CounterOK(e)
    BY <2>1, <2>3, <2>4 DEF CounterOK
  <2>7. FlightOK(e) /\ OpenedOK(e)
    BY <2>3 DEF FlightOK, OpenedOK
  <2>8. WindowOK(e)
    BY <2>1, <2>4 DEF WindowOK
  <2>9. StreamOK(e)
    BY <2>3, <2>4 DEF StreamOK
  <2> QED
    BY <2>5, <2>6, <2>7, <2>8, <2>9
<1> QED
  BY <1>1, <1>2, <1>3 DEF ChannelInv

\* Every step.
LEMMA NextInv ==
    ASSUME ChannelInv, [SecNext]_secVars
    PROVE  ChannelInv'
<1>1. CASE SecNext
  <2>1. PICK e \in SecEnds :
           \/ SendHello(e) \/ ReceiveHello(e) \/ ReceiveProof(e) \/ HandshakeFails(e)
           \/ SendControl(e) \/ (\E l \in {x[2] : x \in SecLanes} : Allocate(e, l))
           \/ WritePiece(e) \/ CancelSend(e) \/ ReceiveFrame(e) \/ SessionCloses(e)
           \/ \E again \in BOOLEAN : MisorderFrame(e, again)
    BY <1>1 DEF SecNext
  <2>2. CASE SendHello(e)
    BY <2>2, SendHelloInv
  <2>3. CASE ReceiveHello(e)
    BY <2>3, ReceiveHelloInv
  <2>4. CASE ReceiveProof(e)
    BY <2>4, ReceiveProofInv
  <2>5. CASE HandshakeFails(e) \/ CancelSend(e) \/ SessionCloses(e)
    BY <2>5, StopInv
  <2>6. CASE SendControl(e)
    BY <2>6, SendControlInv
  <2>7. ASSUME NEW l \in {x[2] : x \in SecLanes}, Allocate(e, l) PROVE ChannelInv'
    BY <2>7, AllocateInv
  <2>8. CASE WritePiece(e)
    BY <2>8, WritePieceInv
  <2>9. CASE ReceiveFrame(e)
    BY <2>9, RefuseFrameInv, OpenFrameInv
  <2>10. ASSUME NEW again \in BOOLEAN, MisorderFrame(e, again) PROVE ChannelInv'
    BY <2>10, MisorderFrameInv
  <2> QED
    BY <2>1, <2>2, <2>3, <2>4, <2>5, <2>6, <2>7, <2>8, <2>9, <2>10
<1>2. CASE UNCHANGED secVars
  <2>1. UNCHANGED <<secKey, pinned, major, hs, peerHello, secWire, nextId, sending, control, sealed,
                    started, window, opened, misordered>>
    BY <1>2 DEF secVars
  <2>2. Typed
    BY DEF ChannelInv
  <2>3. Typed'
    BY <2>1, <2>2 DEF Typed, HandshakeTyped, SenderTyped, ReceiverTyped
  <2>4. Steady /\ \A x \in SecEnds : HandshakeOK(x)'
    BY <2>1, HandshakeKept
  <2>5. \A x \in SecEnds : Yields(sending'[x], sending[x])
    BY <2>1 DEF Yields
  <2>6. \A x \in SecEnds : \E d \in Nat : Shifts(secWire'[x], secWire[x], d)
    <3>1. \A x \in SecEnds : Shifts(secWire'[x], secWire[x], 0)
      BY <2>1, <2>2, WireStays
    <3> QED
      BY <3>1
  <2> QED
    BY <2>1, <2>3, <2>4, <2>5, <2>6, QuietInv
<1> QED
  BY <1>1, <1>2

\* What the invariant says of nonces, of the peer, of the order and of the
\* replay window.
LEMMA InvSafe ==
    ASSUME ChannelInv
    PROVE  ChannelSafe
<1>1. Typed /\ SealOK
  BY DEF ChannelInv
<1>2. SecTypeOK
  <2>1. \A e \in SecEnds : window[e] \in Windows
    BY <1>1 DEF Typed, ReceiverTyped
  <2>2. \A e \in SecEnds : window[e].seen \subseteq Bits
    BY <2>1 DEF Windows
  <2> QED
    BY <1>1, <2>2 DEF SecTypeOK, Typed, HandshakeTyped, SenderTyped, ReceiverTyped, Places
<1>3. NoNonceReuse
  <2>1. ASSUME NEW s \in sealed, NEW t \in sealed, s[1] = t[1], s[2] = t[2] PROVE s[3] = t[3]
    <3>1. PICK d \in SecEnds, n \in Nat : SealedBy(s, d, n)
      BY <1>1 DEF SealOK
    <3>2. PICK e \in SecEnds, m \in Nat : SealedBy(t, e, m)
      BY <1>1 DEF SealOK
    <3>3. TxKey(d) = TxKey(e) /\ IdOf(n) = IdOf(m) /\ s[3] = <<d, n>> /\ t[3] = <<e, m>>
      BY <2>1, <3>1, <3>2 DEF SealedBy
    <3>4. n = m
      BY <3>3, IdFacts
    <3>5. TxKey(d) # TxKey(Far(d))
      BY <1>1, <3>1, KeyFacts DEF SealedBy
    <3>6. d = e
      BY <3>3, <3>5, EndFacts
    <3> QED
      BY <3>3, <3>4, <3>6
  <2> QED
    BY <2>1 DEF NoNonceReuse
<1>4. OpenMeansMutual
  <2>1. ASSUME NEW e \in SecEnds, hs[e] = "open"
        PROVE  /\ secKey[e] \in pinned[Far(e)] /\ secKey[Far(e)] \in pinned[e]
               /\ major[e] = major[Far(e)]
               /\ hs[Far(e)] \in {"proof", "open", "failed"} /\ peerHello[Far(e)] = <<Hello(e)>>
    <3>1. Met(e) /\ Met(Far(e)) /\ Far(Far(e)) = e
      BY <2>1, EndFacts DEF ChannelInv, HandshakeOK, Joined
    <3> QED
      BY <3>1 DEF Met
  <2> QED
    BY <2>1 DEF OpenMeansMutual
<1>5. OpenedInOrder
  <2>1. ASSUME NEW e \in SecEnds, NEW i \in DOMAIN opened[e]
        PROVE  opened[e][i] \in {started[Far(e)][k] : k \in DOMAIN started[Far(e)]}
    <3>1. PICK f \in SecEnds : f = Far(e)
      BY EndFacts
    <3>2. PICK n \in Nat : n = Number(e, i)
      BY <1>1, WindowRecords
    <3>3. opened[e][i] = <<f, n>> /\ n < Len(started[f])
      BY <3>1, <3>2 DEF ChannelInv, OpenedOK
    <3>4. started[f] \in Seq(SentMessages) /\ CounterOK(f)
      BY <1>1 DEF Typed, SenderTyped, ChannelInv
    <3>5. n + 1 \in DOMAIN started[f] /\ n + 1 - 1 = n
      BY <3>3, <3>4
    <3>6. started[f][n + 1] = <<f, n>>
      BY <3>4, <3>5 DEF CounterOK
    <3> QED
      BY <3>1, <3>3, <3>5, <3>6
  <2>2. ASSUME NEW e \in SecEnds, NEW i \in DOMAIN opened[e], NEW j \in DOMAIN opened[e], i < j
        PROVE  IF misordered = 0 THEN opened[e][i][2] < opened[e][j][2] ELSE opened[e][i] # opened[e][j]
    <3>1. CASE misordered = 0
      BY <2>2, <3>1 DEF ChannelInv, StreamOK, Number
    <3>2. CASE misordered # 0
      <4>1. Number(e, i) # Number(e, j)
        BY <2>2 DEF ChannelInv, OpenedOK
      <4> QED
        BY <3>2, <4>1 DEF Number
    <3> QED
      BY <3>1, <3>2
  <2> QED
    BY <2>1, <2>2 DEF OpenedInOrder
<1>6. WindowIsExact
  <2>1. ASSUME NEW e \in SecEnds, window[e].some, NEW k \in Bits
        PROVE  k \in window[e].seen <=>
                  \E i \in DOMAIN opened[e] :
                      \E s \in sealed : /\ s[1] = RxKey(e) /\ s[3] = opened[e][i]
                                        /\ s[2] + k = window[e].highest
    <3>1. OpenedOK(e)
      BY DEF ChannelInv
    <3>2. k \in window[e].seen <=> \E i \in DOMAIN opened[e] : IdOf(Number(e, i)) + k = window[e].highest
      BY <2>1 DEF ChannelInv, WindowOK
    <3>3. ASSUME NEW i \in DOMAIN opened[e], IdOf(Number(e, i)) + k = window[e].highest
          PROVE  \E s \in sealed : /\ s[1] = RxKey(e) /\ s[3] = opened[e][i]
                                   /\ s[2] + k = window[e].highest
      <4>1. PICK s : s = <<RxKey(e), IdOf(Number(e, i)), opened[e][i]>> /\ s \in sealed
        BY <3>1 DEF OpenedOK
      <4> QED
        BY <3>3, <4>1
    <3>4. ASSUME NEW i \in DOMAIN opened[e], NEW s \in sealed, s[3] = opened[e][i]
          PROVE  s[2] = IdOf(Number(e, i))
      <4>1. PICK d \in SecEnds, n \in Nat : SealedBy(s, d, n)
        BY <1>1 DEF SealOK
      <4>2. s[2] = IdOf(n) /\ opened[e][i] = <<d, n>>
        BY <3>4, <4>1 DEF SealedBy
      <4>3. Number(e, i) = n
        BY <4>2 DEF Number
      <4> QED
        BY <4>2, <4>3
    <3> HIDE DEF IdOf, Number
    <3> QED
      BY <3>2, <3>3, <3>4
  <2> QED
    BY <2>1 DEF WindowIsExact
<1> QED
  BY <1>2, <1>3, <1>4, <1>5, <1>6 DEF ChannelSafe

\* The secure channel is safe, for any keys, lanes, id space, width of the
\* replay window, number of sends and of misordered frames: the allocator and
\* the control message never give the AEAD one nonce twice under a key, an end
\* that completes the handshake was accepted by its peer, recv hands out only
\* what the peer sent, once, and in order over a stream, and check_and_mark's
\* mask is exactly the set of accepted ids within its reach.
THEOREM ChannelIsSafe == SecSpec => []ChannelSafe
<1>1. SecInit => ChannelInv
  BY InitInv
<1>2. ChannelInv /\ [SecNext]_secVars => ChannelInv'
  BY NextInv
<1>3. ChannelInv => ChannelSafe
  BY InvSafe
<1> QED
  BY <1>1, <1>2, <1>3, PTL DEF SecSpec
=============================================================================
