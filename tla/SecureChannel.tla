--------------------------- MODULE SecureChannel ---------------------------
(***************************************************************************)
(* One connection, from its first byte to its last: the handshake of       *)
(* crates/network/src/secure.rs, the message-id allocator shared by all    *)
(* lanes (sequence.rs), the AEAD session with its replay window            *)
(* (crates/crypto/src/session.rs) and the framed byte stream of tcp.rs and *)
(* quic.rs.                                                                *)
(*                                                                         *)
(* A frame is written in two pieces, so that a send whose future is        *)
(* dropped while it waits for the socket leaves a torn frame behind.  The  *)
(* cryptography is ideal: a proof verifies exactly when it signs the       *)
(* transcript the verifier has, and a body opens exactly when it is whole  *)
(* and was sealed under that id by the key of that direction.              *)
(***************************************************************************)
EXTENDS Naturals, Sequences, FiniteSets

CONSTANTS
    KeyRanks,     \* identity keys, in the order of their bytes
    SecLanes,     \* the runtime lanes <<end, lane>>
    FirstDataId,  \* SESSION_DATA_FIRST_ID
    LastId,       \* u64::MAX
    WindowBits,   \* u128::BITS
    MaxSecSends,  \* bound on the sends of a run
    MaxMisordered \* frames an unreliable transport may deliver late or twice

SecEnds == {"dialer", "acceptor"}

ASSUME SecureConstants ==
    /\ KeyRanks \subseteq Nat
    /\ SecLanes \subseteq SecEnds \X STRING
    /\ FirstDataId \in Nat \ {0} /\ LastId \in Nat /\ FirstDataId <= LastId
    /\ WindowBits \in Nat \ {0}
    /\ MaxSecSends \in Nat /\ MaxMisordered \in Nat

VARIABLES
    secKey,    \* the identity key of each end
    pinned,    \* the keys each end trusts
    major,     \* the protocol version each end speaks
    hs,        \* "start", "hello", "proof", "open", "failed"
    peerHello, \* what each end received: the material of the transcript
    secWire,   \* bytes in flight to each end
    nextId,    \* SequencedConnection::next_id; LastId + 1 is None
    sending,   \* per end: the send that holds the lock, or Idle
    control,   \* whether an end has sent its arbitration message (id 0)
    sealed,    \* history: <<key, id, message>> given to the AEAD
    started,   \* history: messages whose frame each end began to write
    window,    \* ReplayWindow: highest and the positions of the bits set in seen
    opened,    \* history: the messages each end accepted, in order
    misordered

secVars == <<secKey, pinned, major, hs, peerHello, secWire, nextId, sending,
             control, sealed, started, window, opened, misordered>>
handshakeVars == <<secKey, pinned, major, peerHello>>
receiverVars == <<window, opened, misordered>>

-----------------------------------------------------------------------------
Far(e) == IF e = "dialer" THEN "acceptor" ELSE "dialer"
Idle == [lane |-> "none", id |-> 0, part |-> 0]

\* EphemeralKeyAgreement::generate: every end of every connection has material
\* that no other has.
Fresh(e) == e

Hello(e) == [is |-> "hello", id |-> 0, key |-> secKey[e], fresh |-> Fresh(e), major |-> major[e]]

\* trusted_session_transcript: who signs for whom, with the material of both.
Transcript(signer, verifier, signerFresh, verifierFresh) ==
    <<signer, verifier, signerFresh, verifierFresh>>

\* encode_envelope and FrameCodec::encode, in the two pieces a write may split.
Piece(id, message, part) == [is |-> "data", id |-> id, message |-> message, part |-> part]

SecInit ==
    /\ secKey \in [SecEnds -> KeyRanks]
    /\ \E mutual \in BOOLEAN :
          pinned = [e \in SecEnds |-> IF mutual \/ e = "dialer" THEN KeyRanks ELSE {}]
    /\ \E old \in BOOLEAN : major = [e \in SecEnds |-> IF old /\ e = "dialer" THEN 1 ELSE 2]
    /\ hs = [e \in SecEnds |-> "start"]
    /\ peerHello = [e \in SecEnds |-> <<>>]
    /\ secWire = [e \in SecEnds |-> <<>>]
    /\ nextId = [e \in SecEnds |-> FirstDataId]
    /\ sending = [e \in SecEnds |-> Idle]
    /\ control = [e \in SecEnds |-> FALSE]
    /\ sealed = {} /\ started = [e \in SecEnds |-> <<>>]
    /\ window = [e \in SecEnds |-> [some |-> FALSE, highest |-> 0, seen |-> {}]]
    /\ opened = [e \in SecEnds |-> <<>>]
    /\ misordered = 0

-----------------------------------------------------------------------------
(* establish_trusted_session_inner                                         *)

\* Any error and the timeout around the handshake drop the connection.
Abandon(e) == hs' = [hs EXCEPT ![e] = "failed"]

SendHello(e) ==
    /\ hs[e] = "start"
    /\ hs' = [hs EXCEPT ![e] = "hello"]
    /\ secWire' = [secWire EXCEPT ![Far(e)] = Append(@, Hello(e))]
    /\ UNCHANGED <<handshakeVars, nextId, sending, control, sealed, started, receiverVars>>

\* VersionRange::negotiate
SameMajor(e, m) == m.major = major[e]

\* The checks of the peer's hello.
HelloFits(e, m) == m.is = "hello" /\ m.id = 0 /\ SameMajor(e, m) /\ m.key \in pinned[e]

ReceiveHello(e) ==
    /\ hs[e] = "hello" /\ secWire[e] # <<>>
    /\ LET m == Head(secWire[e])
           ok == HelloFits(e, m)
           proof == [is |-> "proof", id |-> 1, major |-> major[e],
                     signs |-> Transcript(secKey[e], m.key, Fresh(e), m.fresh)]
       IN  /\ hs' = [hs EXCEPT ![e] = IF ok THEN "proof" ELSE "failed"]
           /\ peerHello' = [peerHello EXCEPT ![e] = IF ok THEN <<m>> ELSE @]
           /\ secWire' = [secWire EXCEPT ![e] = Tail(@),
                                         ![Far(e)] = IF ok THEN Append(@, proof) ELSE @]
    /\ UNCHANGED <<secKey, pinned, major, nextId, sending, control, sealed, started, receiverVars>>

\* trusted_peer_session_security refuses two identical keys.
DistinctKeys(e) == secKey[e] # peerHello[e][1].key

ReceiveProof(e) ==
    /\ hs[e] = "proof" /\ secWire[e] # <<>>
    /\ LET m == Head(secWire[e])
           h == peerHello[e][1]
           ok == /\ m.is = "proof" /\ m.id = 1 /\ SameMajor(e, m)
                 /\ m.signs = Transcript(h.key, secKey[e], h.fresh, Fresh(e))
                 /\ DistinctKeys(e)
       IN  hs' = [hs EXCEPT ![e] = IF ok THEN "open" ELSE "failed"]
    /\ secWire' = [secWire EXCEPT ![e] = Tail(@)]
    /\ UNCHANGED <<handshakeVars, nextId, sending, control, sealed, started, receiverVars>>

\* HANDSHAKE_TIMEOUT, a failed socket operation, or the peer's end closed.
HandshakeFails(e) ==
    /\ hs[e] \in {"start", "hello", "proof"}
    /\ Abandon(e)
    /\ UNCHANGED <<handshakeVars, secWire, nextId, sending, control, sealed, started, receiverVars>>

-----------------------------------------------------------------------------
(* Sending                                                                 *)

\* trusted_session_context: the material of both ends, the smaller key first.
Context(e) ==
    LET mine == <<secKey[e], Fresh(e)>>
        theirs == <<peerHello[e][1].key, peerHello[e][1].fresh>>
    IN  IF secKey[e] < peerHello[e][1].key THEN <<mine, theirs>> ELSE <<theirs, mine>>

\* SessionKeys::derive_pair: endpoint A is the smaller key, and each direction
\* has a key of its own.
TxKey(e) == <<Context(e), IF secKey[e] < peerHello[e][1].key THEN "a_to_b" ELSE "b_to_a">>
RxKey(e) == <<Context(e), IF secKey[e] < peerHello[e][1].key THEN "b_to_a" ELSE "a_to_b">>

Sealed(e, id, message) == sealed \cup {<<TxKey(e), id, message>>}
NewMessage(e) == <<e, Len(started[e])>>
SendsLeft == Len(started["dialer"]) + Len(started["acceptor"]) < MaxSecSends

\* The one message of the session arbitration, sent before the lanes start.
SendControl(e) ==
    /\ hs[e] = "open" /\ ~control[e] /\ SendsLeft
    /\ sending[e] = Idle /\ nextId[e] = FirstDataId
    /\ control' = [control EXCEPT ![e] = TRUE]
    /\ sealed' = Sealed(e, 0, NewMessage(e))
    /\ started' = [started EXCEPT ![e] = Append(@, NewMessage(e))]
    /\ secWire' = [secWire EXCEPT ![Far(e)] =
                     @ \o <<Piece(0, NewMessage(e), 1), Piece(0, NewMessage(e), 2)>>]
    /\ UNCHANGED <<handshakeVars, hs, nextId, sending, receiverVars>>

\* The counter has not run out; otherwise the send is MessageIdExhausted.
IdLeft(e) == nextId[e] <= LastId

\* checked_add: an id is spent even if the send is cancelled later.
IdKept(id) == id
IdAfter(id) == id + 1

\* SequencedConnection::send up to the first write: the lock, the id, the seal.
Allocate(e, l) ==
    /\ hs[e] = "open" /\ control[e] /\ <<e, l>> \in SecLanes /\ SendsLeft
    /\ sending[e] = Idle
    /\ IdLeft(e)
    /\ nextId' = [nextId EXCEPT ![e] = IdAfter(@)]
    /\ sending' = [sending EXCEPT ![e] = [lane |-> l, id |-> nextId[e], part |-> 0]]
    /\ sealed' = Sealed(e, nextId[e], NewMessage(e))
    /\ started' = [started EXCEPT ![e] = Append(@, NewMessage(e))]
    /\ UNCHANGED <<handshakeVars, hs, secWire, control, receiverVars>>

\* write_all and flush, one piece at a time; the lock goes with the last.
WritePiece(e) ==
    /\ hs[e] = "open" /\ sending[e].lane # "none"
    /\ LET s == sending[e]
       IN  /\ secWire' = [secWire EXCEPT ![Far(e)] =
                            Append(@, Piece(s.id, started[e][Len(started[e])], s.part + 1))]
           /\ sending' = [sending EXCEPT ![e] = IF s.part = 1 THEN Idle ELSE [s EXCEPT !.part = 1]]
    /\ UNCHANGED <<handshakeVars, hs, nextId, control, sealed, started, receiverVars>>

\* The future of the send is dropped: a timeout around it, or its lane's task
\* is aborted.  The lock is released with whatever has been written.
CancelSend(e) ==
    /\ sending[e].lane # "none"
    /\ sending' = [sending EXCEPT ![e] = Idle]
    /\ UNCHANGED <<handshakeVars, hs, secWire, nextId, control, sealed, started, receiverVars>>

-----------------------------------------------------------------------------
(* Receiving                                                               *)

Bits == 0 .. WindowBits - 1

\* A shift drops the bits that leave the word, and one by its width or more is
\* not left to the machine.
Shifted(mask, n) == IF n >= WindowBits THEN {} ELSE {k \in Bits : \E j \in mask : k = j + n}
Older(w, id) == w.some /\ id <= w.highest
Refused(w, id) == Older(w, id) /\ (w.highest - id >= WindowBits \/ w.highest - id \in w.seen)

\* ReplayWindow::check_and_mark, for an id that is not Refused.
Marked(w, id) ==
    IF Older(w, id) THEN [w EXCEPT !.seen = @ \cup {w.highest - id}]
    ELSE [some |-> TRUE, highest |-> id,
          seen |-> IF w.some THEN Shifted(w.seen, id - w.highest) \cup {0} ELSE {0}]

\* FrameCodec::decode hands out as many bytes as the first piece announces.
Whole(p, q) == p.is = "data" /\ q.is = "data" /\ p.id = q.id /\ p.part = 1 /\ q.part = 2

\* AEAD open, then the replay window; a session that sees an error ends.
OpensFrame(e, p, q) ==
    /\ Whole(p, q)
    /\ <<RxKey(e), p.id, p.message>> \in sealed
    /\ ~Refused(window[e], p.id)

\* recv reads the socket until a frame is complete.
FrameReady(e) == Len(secWire[e]) >= 2

ReceiveFrame(e) ==
    /\ hs[e] = "open" /\ FrameReady(e)
    /\ LET p == secWire[e][1]
           q == secWire[e][2]
       IN  IF OpensFrame(e, p, q)
           THEN /\ window' = [window EXCEPT ![e] = Marked(@, p.id)]
                /\ opened' = [opened EXCEPT ![e] = Append(@, p.message)]
                /\ UNCHANGED hs
           ELSE Abandon(e) /\ UNCHANGED <<window, opened>>
    /\ secWire' = [secWire EXCEPT ![e] = SubSeq(@, 3, Len(@))]
    /\ UNCHANGED <<handshakeVars, nextId, sending, control, sealed, started, misordered>>

\* route_inbound leaves its loop, all lanes stop, the link breaks.
SessionCloses(e) ==
    /\ hs[e] = "open"
    /\ Abandon(e)
    /\ sending' = [sending EXCEPT ![e] = Idle]
    /\ UNCHANGED <<handshakeVars, secWire, nextId, control, sealed, started, receiverVars>>

\* External: a transport without the ordering of a stream delivers a whole
\* frame late, and perhaps a first time before.
MisorderFrame(e, again) ==
    /\ misordered < MaxMisordered
    /\ misordered' = misordered + 1
    /\ \E i \in 1 .. Len(secWire[e]) - 1 :
          /\ Whole(secWire[e][i], secWire[e][i + 1])
          /\ secWire' = [secWire EXCEPT ![e] =
                IF again THEN @ \o <<@[i], @[i + 1]>>
                ELSE SubSeq(@, 1, i - 1) \o SubSeq(@, i + 2, Len(@)) \o <<@[i], @[i + 1]>>]
    /\ UNCHANGED <<handshakeVars, hs, nextId, sending, control, sealed, started, window, opened>>

SecNext ==
    \E e \in SecEnds :
        \/ SendHello(e) \/ ReceiveHello(e) \/ ReceiveProof(e) \/ HandshakeFails(e)
        \/ SendControl(e) \/ (\E l \in {x[2] : x \in SecLanes} : Allocate(e, l))
        \/ WritePiece(e) \/ CancelSend(e) \/ ReceiveFrame(e) \/ SessionCloses(e)
        \/ \E again \in BOOLEAN : MisorderFrame(e, again)

SecSpec == SecInit /\ [][SecNext]_secVars

-----------------------------------------------------------------------------
SecTypeOK ==
    /\ hs \in [SecEnds -> {"start", "hello", "proof", "open", "failed"}]
    /\ nextId \in [SecEnds -> FirstDataId .. LastId + 1]
    /\ \A e \in SecEnds : window[e].seen \subseteq Bits
    /\ misordered \in 0 .. MaxMisordered

\* The id is the AEAD nonce (nonce_for), so under one key an id never covers
\* two messages: not the control message and a lane's, not a cancelled send and
\* the next one, not the two ends of one connection.
NoNonceReuse ==
    \A s, t \in sealed : (s[1] = t[1] /\ s[2] = t[2]) => s[3] = t[3]

\* An end that completes establish_trusted_session was accepted by its peer:
\* the peer pins its key, speaks its version, and saw the same two hellos.
OpenMeansMutual ==
    \A e \in SecEnds : hs[e] = "open" =>
        /\ secKey[e] \in pinned[Far(e)] /\ secKey[Far(e)] \in pinned[e]
        /\ major[e] = major[Far(e)]
        /\ hs[Far(e)] \in {"proof", "open", "failed"} /\ peerHello[Far(e)] = <<Hello(e)>>

\* What SecureConnection::recv hands to the router is what the peer sent, each
\* message at most once, and over a stream in the order of the sends, whatever
\* was cancelled in the middle of a write or delivered twice.
OpenedInOrder ==
    \A e \in SecEnds :
        /\ \A i \in DOMAIN opened[e] : opened[e][i] \in {started[Far(e)][k] : k \in DOMAIN started[Far(e)]}
        /\ \A i, j \in DOMAIN opened[e] :
              i < j => IF misordered = 0 THEN opened[e][i][2] < opened[e][j][2] ELSE opened[e][i] # opened[e][j]

\* The bit mask of the replay window is the set of ids accepted near the
\* highest: bit k stands for the id that is k below it.
WindowIsExact ==
    \A e \in SecEnds : window[e].some =>
        \A k \in Bits :
            k \in window[e].seen <=>
                \E i \in DOMAIN opened[e] :
                    \E s \in sealed : /\ s[1] = RxKey(e) /\ s[3] = opened[e][i]
                                      /\ s[2] + k = window[e].highest

\* What a lane relies on from establish_trusted_session to the last frame.
ChannelSafe ==
    /\ SecTypeOK
    /\ NoNonceReuse
    /\ OpenMeansMutual
    /\ OpenedInOrder
    /\ WindowIsExact
=============================================================================
