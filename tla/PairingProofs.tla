---------------------------- MODULE PairingProofs ----------------------------
(***************************************************************************)
(* Proofs about Pairing, for any number of initiators and any scenarios:   *)
(* no crash, lost message or failing write leaves a pinned peer that a     *)
(* user refused, an active peer without trust, or two ends that disagree   *)
(* about the outcome.                                                      *)
(***************************************************************************)
EXTENDS Pairing, TLAPS, FiniteSetTheorems

-----------------------------------------------------------------------------
(* The two ends of a connection                                             *)

\* The device at an end, its peer, and where the device is with this end's
\* attempt: a responder that serves another initiator is away from it.
Owner(e) == IF e[2] = "resp" THEN Responder ELSE e[1]
Partner(e) == IF e[2] = "resp" THEN e[1] ELSE Responder
Place(e) == IF e[2] = "init" THEN step[e[1]]
            ELSE IF serving = e[1] THEN step[Responder] ELSE "away"

Elems(s) == {s[k] : k \in 1..Len(s)}

Prompting == {"dial", "awaitResponse", "away", "awaitRequest", "prompt"}
Early == Prompting \cup {"sendApproval", "awaitApproval", "load", "insert"}
Writing == {"insert", "flush", "save", "restoreInsert", "restoreFlush"}
Reporting == {"sendStatus", "awaitStatus"}
Undoing == {"undoConfig", "undoLoad", "undoInsert", "undoFlush"}
Restoring == {"undoInsert", "undoFlush"}
Applying == {"load"} \cup Writing \cup Reporting \cup Undoing

\* The device holds what its files were before the attempt.
HoldsAt(d, place) ==
    place \in Writing \cup Undoing \/ (place \in Reporting /\ applied[d])

-----------------------------------------------------------------------------
(* The inductive invariant                                                  *)

\* The responder serves one connection at a time, and each at most once.
ServeOK ==
    /\ step[Responder] = "idle" <=> serving = NoPeer
    /\ step[Responder] \notin {"dial", "ended", "awaitResponse"}
    /\ \A i \in Initiators : step[i] \notin {"idle", "awaitRequest", "away"}
    /\ \A i \in Initiators : i \in waiting \/ i = serving =>
          i # serving \/ i \notin waiting
    /\ \A i \in Initiators : i \in waiting \/ i = serving =>
          link[i] # "none" /\ outcome[<<i, "resp">>] = "none"
    /\ waiting = {} \/ \E i \in Initiators : waiting = {i}

PlaceOK(e) ==
    /\ outcome[e] # "none" => Place(e) \in {"ended", "away"}
    /\ Place(e) = "ended" => outcome[e] # "none"

\* The configuration does not name the peer, and will not after a rollback.
NotActive(e) ==
    LET d == Owner(e)
    IN config[d] # Partner(e) /\ (HoldsAt(d, step[d]) => savedConfig[d] # Partner(e))

Unchanged(e) == trust[Owner(e)][Partner(e)] = Before(Owner(e), Partner(e))

\* An attempt that has not come to its first write has changed nothing.
EarlyOK(e) ==
    outcome[e] = "none" /\ Place(e) \in Early => Unchanged(e) /\ NotActive(e)

\* Answers are given once, what travels is what was answered, and whoever
\* applies or keeps a new entry has both.
Agreed(e) == answer[e] /\ answer[Other(e)]
UsersOK(e) ==
    /\ outcome[e] = "none" /\ Place(e) \in Prompting => ~answer[e]
    /\ \A m \in Elems(inbox[e]) : m.id = 1 /\ m.ok => answer[Other(e)]
    /\ Place(e) \in Applying => Agreed(e)
    /\ trust[Owner(e)][Partner(e)] = "new" => Agreed(e)

\* What the device knows of its files while it applies or undoes an attempt.
FilesOK(e) ==
    LET d == Owner(e)
        p == Partner(e)
        at == Place(e)
    IN /\ at \in Writing \cup Restoring =>
             \A q \in PairDevices : q # p => store[d][q] = trust[d][q]
       /\ HoldsAt(d, at) => savedTrust[d] = Before(d, p) /\ savedConfig[d] # p
       /\ at = "flush" => store[d][p] = "new"
       /\ at \in {"restoreFlush", "undoFlush"} => store[d][p] = savedTrust[d]
       /\ at \in {"save", "undoConfig"} \/ (at \in Reporting /\ applied[d]) => trust[d][p] = "new"
       /\ at \in Reporting /\ ~applied[d] /\ undone[d] => Unchanged(e)
       /\ at \in {"undoLoad"} \cup Restoring /\ (undone[d] \/ ~ioFailed) => config[d] = savedConfig[d]
       /\ at \in Writing \cup Reporting => heard[d] = "nothing"
       /\ at \in Writing => ~applied[d]
       /\ at \in Undoing => applied[d]

\* While no write has failed the active peer is trusted, and so is the one a
\* rollback would make active again.
ConfigOK(d) ==
    ~ioFailed =>
        /\ config[d] # NoPeer => trust[d][config[d]] # "absent"
        /\ HoldsAt(d, step[d]) /\ savedConfig[d] # NoPeer => trust[d][savedConfig[d]] # "absent"
ApplyOK(e) ==
    ~ioFailed /\ Place(e) \in Writing => config[Owner(e)] # Partner(e)

\* What the reported outcome says of the device's own files.
OutcomeOK(e) ==
    /\ outcome[e] \in {"cancelled", "failed", "refused", "unconfirmed"} => Unchanged(e)
    /\ outcome[e] \in {"refused", "unconfirmed"} => NotActive(e)
    /\ outcome[e] = "paired" => trust[Owner(e)][Partner(e)] = "new"

\* What an end has told the other of its writes stays true: of a success, that
\* it had succeeded; of a failure, that it never reports success.
ToldYes(e) ==
    \/ \E m \in Elems(inbox[Other(e)]) : m.id = 2 /\ m.ok
    \/ outcome[Other(e)] = "paired"
ToldNo(e) ==
    \/ \E m \in Elems(inbox[Other(e)]) : m.id = 2 /\ ~m.ok
    \/ Place(Other(e)) \in Undoing /\ heard[Partner(e)] = "no"
    \/ outcome[Other(e)] = "refused"
HasWritten(e) ==
    \/ Place(e) \in Undoing \/ (Place(e) = "awaitStatus" /\ applied[Owner(e)])
    \/ outcome[e] \in {"paired", "refused", "unconfirmed", "dirty", "crashed"}
HasFailed(e) ==
    \/ Place(e) = "awaitStatus" /\ ~applied[Owner(e)]
    \/ outcome[e] \in {"failed", "dirty", "crashed"}
ToldOK(e) == (ToldYes(e) => HasWritten(e)) /\ (ToldNo(e) => HasFailed(e))

EndOK(e) ==
    /\ PlaceOK(e) /\ EarlyOK(e) /\ UsersOK(e) /\ FilesOK(e) /\ ApplyOK(e)
    /\ OutcomeOK(e) /\ ToldOK(e)

PairInv ==
    /\ PairTypeOK /\ ServeOK
    /\ \A d \in PairDevices : ConfigOK(d)
    /\ \A e \in Ends : EndOK(e)
-----------------------------------------------------------------------------
(* Ends, places and messages                                                *)

\* The two ends of a connection belong to the two devices.
LEMMA EndFacts ==
    ASSUME NEW e \in Ends
    PROVE  /\ e[1] \in Initiators /\ e[2] \in {"init", "resp"} /\ e = <<e[1], e[2]>>
           /\ Other(e) \in Ends /\ Other(Other(e)) = e /\ Other(e) # e
           /\ Owner(e) \in PairDevices /\ Partner(e) \in PairDevices
           /\ Owner(Other(e)) = Partner(e) /\ Partner(Other(e)) = Owner(e)
           /\ Owner(e) # Partner(e) /\ Partner(e) # NoPeer
<1>1. e[1] \in Initiators /\ e[2] \in {"init", "resp"} /\ e = <<e[1], e[2]>>
  BY DEF Ends
<1>2. Responder \notin Initiators /\ NoPeer \notin Initiators /\ NoPeer # Responder
  BY PairingConstants
<1>3. CASE e[2] = "init"
  <2>1. Other(e) = <<e[1], "resp">>
    BY <1>3 DEF Other
  <2>2. Other(e) \in Ends /\ Other(e)[1] = e[1] /\ Other(e)[2] = "resp"
    BY <1>1, <2>1 DEF Ends
  <2>3. Other(Other(e)) = <<e[1], "init">>
    BY <2>2 DEF Other
  <2> QED
    BY <1>1, <1>2, <1>3, <2>2, <2>3 DEF Owner, Partner, PairDevices
<1>4. CASE e[2] = "resp"
  <2>1. Other(e) = <<e[1], "init">>
    BY <1>4 DEF Other
  <2>2. Other(e) \in Ends /\ Other(e)[1] = e[1] /\ Other(e)[2] = "init"
    BY <1>1, <2>1 DEF Ends
  <2>3. Other(Other(e)) = <<e[1], "resp">>
    BY <2>2 DEF Other
  <2> QED
    BY <1>1, <1>2, <1>4, <2>2, <2>3 DEF Owner, Partner, PairDevices
<1> QED
  BY <1>1, <1>3, <1>4

\* The end a device works at; it is away from its others.
LEMMA DeviceEnd ==
    ASSUME PairTypeOK, ServeOK, NEW d \in PairDevices, step[d] # "idle"
    PROVE  /\ End(d) \in Ends /\ Owner(End(d)) = d /\ Partner(End(d)) = Peer(d)
           /\ Conn(d) = End(d)[1] /\ Place(End(d)) = step[d]
           /\ \A x \in Ends : x # End(d) /\ Owner(x) = d =>
                 Place(x) = "away" /\ Partner(x) # Peer(d)
<1>1. Responder \notin Initiators /\ NoPeer \notin Initiators
  BY PairingConstants
<1>2. CASE d = Responder
  <2>1. serving \in Initiators
    BY <1>2 DEF PairTypeOK, ServeOK
  <2>2. End(d) = <<serving, "resp">> /\ Conn(d) = serving /\ Peer(d) = serving
    BY <1>2 DEF End, Conn, Peer
  <2>3. ASSUME NEW x \in Ends, x # End(d), Owner(x) = d
        PROVE  Place(x) = "away" /\ Partner(x) # Peer(d)
    <3>1. x[1] \in Initiators /\ x = <<x[1], x[2]>> /\ x[2] \in {"init", "resp"}
      BY EndFacts
    <3>2. x[2] = "resp"
      BY <1>1, <1>2, <2>3, <3>1 DEF Owner
    <3> QED
      BY <2>2, <2>3, <3>1, <3>2 DEF Place, Partner
  <2> QED
    BY <1>2, <2>1, <2>2, <2>3 DEF Ends, Owner, Partner, Place
<1>3. CASE d \in Initiators
  <2>1. End(d) = <<d, "init">> /\ Conn(d) = d /\ Peer(d) = Responder
    BY <1>1, <1>3 DEF End, Conn, Peer
  <2>2. ASSUME NEW x \in Ends, x # End(d), Owner(x) = d PROVE FALSE
    <3>1. x[1] \in Initiators /\ x = <<x[1], x[2]>> /\ x[2] \in {"init", "resp"}
      BY EndFacts
    <3> QED
      BY <1>1, <1>3, <2>1, <2>2, <3>1 DEF Owner
  <2> QED
    BY <1>1, <1>3, <2>1, <2>2 DEF Ends, Owner, Partner, Place
<1> QED
  BY <1>2, <1>3 DEF PairDevices

Places == {"dial", "idle", "ended", "awaitRequest", "awaitResponse",
           "prompt", "sendApproval", "awaitApproval", "load", "insert", "flush", "save",
           "restoreInsert", "restoreFlush", "sendStatus", "awaitStatus", "undoConfig",
           "undoLoad", "undoInsert", "undoFlush"}

\* A step that goes on to another place of the same attempt.
LEMMA GotoPlace ==
    ASSUME PairTypeOK, ServeOK, NEW d \in PairDevices, step[d] # "idle",
           NEW e \in Ends, e = End(d),
           NEW s \in Places \ {"dial", "idle", "ended", "awaitRequest", "awaitResponse"},
           Goto(d, s), UNCHANGED <<serving, waiting, link, outcome>>
    PROVE  /\ Place(e)' = s /\ step'[d] = s
           /\ \A x \in Ends : x # e => Place(x)' = Place(x)
           /\ \A c \in PairDevices : c # d => step'[c] = step[c]
           /\ step' \in [PairDevices -> Places] /\ ServeOK'
<1>1. step \in [PairDevices -> Places] /\ step' = [step EXCEPT ![d] = s]
  BY DEF PairTypeOK, Goto, Places
<1>2. /\ step'[d] = s /\ \A c \in PairDevices : c # d => step'[c] = step[c]
      /\ step' \in [PairDevices -> Places]
  BY <1>1
<1>3. Responder \in PairDevices /\ \A i \in Initiators : i \in PairDevices /\ i # Responder
  BY PairingConstants DEF PairDevices
<1>4. s \notin {"dial", "idle", "ended", "awaitRequest", "awaitResponse", "away"}
  BY DEF Places
<1>5. Place(e)' = s /\ \A x \in Ends : x # e => Place(x)' = Place(x)
  <2>1. CASE d = Responder
    <3>1. e = <<serving, "resp">>
      BY <2>1 DEF End, Conn
    <3>2. ASSUME NEW x \in Ends, x # e PROVE Place(x)' = Place(x)
      <4>1. x[1] \in Initiators /\ x = <<x[1], x[2]>> /\ x[2] \in {"init", "resp"}
        BY EndFacts
      <4> QED
        BY <1>2, <1>3, <2>1, <3>1, <3>2, <4>1 DEF Place
    <3> QED
      BY <1>2, <2>1, <3>1, <3>2 DEF Place
  <2>2. CASE d # Responder
    <3>1. e = <<d, "init">> /\ d \in Initiators
      BY <2>2 DEF End, Conn, PairDevices
    <3>2. ASSUME NEW x \in Ends, x # e PROVE Place(x)' = Place(x)
      <4>1. x[1] \in Initiators /\ x = <<x[1], x[2]>> /\ x[2] \in {"init", "resp"}
        BY EndFacts
      <4> QED
        BY <1>2, <1>3, <2>2, <3>1, <3>2, <4>1 DEF Place
    <3> QED
      BY <1>2, <3>1, <3>2 DEF Place
  <2> QED
    BY <2>1, <2>2
<1>6. ServeOK'
  BY <1>2, <1>3, <1>4 DEF ServeOK
<1> QED
  BY <1>2, <1>5, <1>6

\* A step that ends the attempt.
LEMMA FinishPlace ==
    ASSUME PairTypeOK, ServeOK, NEW d \in PairDevices, step[d] \notin {"idle", "dial"},
           NEW e \in Ends, e = End(d), NEW how \in Outcomes \ {"none"},
           Finish(d, how), UNCHANGED waiting
    PROVE  /\ Place(e)' \in {"ended", "away"} /\ step'[d] \in {"ended", "idle"}
           /\ \A x \in Ends : x # e => Place(x)' = Place(x) /\ outcome'[x] = outcome[x]
           /\ \A c \in PairDevices : c # d => step'[c] = step[c]
           /\ step' \in [PairDevices -> Places] /\ ServeOK'
           /\ outcome' \in [Ends -> Outcomes] /\ outcome'[e] = how
           /\ link' \in [Initiators -> {"none", "up", "closed"}]
           /\ serving' \in Initiators \cup {NoPeer}
<1> DEFINE s == IF d = Responder THEN "idle" ELSE "ended"
<1>1. /\ step \in [PairDevices -> Places] /\ step' = [step EXCEPT ![d] = s]
      /\ outcome \in [Ends -> Outcomes] /\ outcome' = [outcome EXCEPT ![e] = how]
      /\ link \in [Initiators -> {"none", "up", "closed"}]
      /\ link' = [link EXCEPT ![e[1]] = "closed"]
      /\ serving \in Initiators \cup {NoPeer}
      /\ serving' = IF d = Responder THEN NoPeer ELSE serving
  BY DeviceEnd DEF PairTypeOK, Goto, Places, Finish
<1>2. /\ step'[d] = s /\ \A c \in PairDevices : c # d => step'[c] = step[c]
      /\ step' \in [PairDevices -> Places]
  BY <1>1 DEF Places
<1>3. /\ outcome' \in [Ends -> Outcomes] /\ outcome'[e] = how
      /\ \A x \in Ends : x # e => outcome'[x] = outcome[x]
  BY <1>1
<1>4. /\ link' \in [Initiators -> {"none", "up", "closed"}]
      /\ \A i \in Initiators : link'[i] = "none" => link[i] = "none"
  BY <1>1
<1>5. Responder \in PairDevices /\ NoPeer \notin Initiators
      /\ \A i \in Initiators : i \in PairDevices /\ i # Responder
  BY PairingConstants DEF PairDevices
<1>6. CASE d = Responder
  <2>1. e = <<serving, "resp">> /\ serving \in Initiators
    BY <1>6 DEF End, Conn, ServeOK, PairTypeOK
  <2>2. ASSUME NEW x \in Ends, x # e PROVE Place(x)' = Place(x)
    <3>1. x[1] \in Initiators /\ x = <<x[1], x[2]>> /\ x[2] \in {"init", "resp"}
      BY EndFacts
    <3> QED
      BY <1>1, <1>2, <1>5, <1>6, <2>1, <2>2, <3>1 DEF Place
  <2>3. Place(e)' = "away"
    BY <1>1, <1>5, <1>6, <2>1 DEF Place
  <2>4. ASSUME NEW i \in waiting
        PROVE  i \in Initiators /\ i # serving /\ <<i, "resp">> \in Ends /\ <<i, "resp">> # e
    BY <2>1 DEF ServeOK, PairTypeOK, Ends
  <2>5. ServeOK'
    BY <1>1, <1>2, <1>3, <1>4, <1>5, <1>6, <2>4 DEF ServeOK
  <2> QED
    BY <1>1, <1>2, <1>3, <1>4, <1>6, <2>2, <2>3, <2>5
<1>7. CASE d # Responder
  <2>1. e = <<d, "init">> /\ d \in Initiators
    BY <1>7 DEF End, Conn, PairDevices
  <2>2. ASSUME NEW x \in Ends, x # e PROVE Place(x)' = Place(x)
    <3>1. x[1] \in Initiators /\ x = <<x[1], x[2]>> /\ x[2] \in {"init", "resp"}
      BY EndFacts
    <3> QED
      BY <1>1, <1>2, <1>5, <1>7, <2>1, <2>2, <3>1 DEF Place
  <2>3. Place(e)' = "ended"
    BY <1>2, <1>7, <2>1 DEF Place
  <2>4. \A i \in Initiators : <<i, "resp">> \in Ends /\ <<i, "resp">> # e
    BY <2>1 DEF Ends
  <2>5. ServeOK'
    BY <1>1, <1>2, <1>3, <1>4, <1>5, <1>7, <2>4 DEF ServeOK
  <2> QED
    BY <1>1, <1>2, <1>3, <1>4, <1>7, <2>2, <2>3, <2>5
<1> QED
  BY <1>6, <1>7

Messages == [id : 0..2, ok : BOOLEAN]

\* A message carries what was put into it.
LEMMA MessageFields ==
    ASSUME NEW id \in 0..2, NEW ok \in BOOLEAN
    PROVE  Message(id, ok) \in Messages /\ Message(id, ok).id = id /\ (Message(id, ok).ok <=> ok)
<1>1. Message(id, ok) \in Messages /\ Message(id, ok).id = id
  BY DEF Message, Messages
<1>2. Message(id, ok).ok <=> ok
  BY Zenon DEF Message
<1> QED
  BY <1>1, <1>2

\* What a message says is true: an answer was given, a write was done or failed.
Truthful(e, m) ==
    /\ m.id = 1 /\ m.ok => answer[e]
    /\ m.id = 2 => (m.ok => HasWritten(e)) /\ (~m.ok => HasFailed(e))

\* A step that reads at most at end e, and sends at most to the other end.
Speaks(e) ==
    /\ inbox' \in [Ends -> Seq(Messages)]
    /\ \A x \in Ends : x # e /\ x # Other(e) => inbox'[x] = inbox[x]
    /\ \A m \in Elems(inbox'[e]) : m \in Elems(inbox[e])
    /\ \A m \in Elems(inbox'[Other(e)]) : m \in Elems(inbox[Other(e)]) \/ Truthful(e, m)'

\* Reading the head of a sequence leaves some of its elements.
LEMMA ElemsTail ==
    ASSUME NEW S, NEW s \in Seq(S), s # <<>>
    PROVE  /\ Head(s) \in S /\ Head(s) \in Elems(s)
           /\ Tail(s) \in Seq(S)
           /\ \A m \in Elems(Tail(s)) : m \in Elems(s)
<1>1. Len(s) \in Nat /\ Len(s) >= 1 /\ Head(s) = s[1] /\ Tail(s) \in Seq(S)
      /\ Len(Tail(s)) = Len(s) - 1
  OBVIOUS
<1>2. \A k \in 1..Len(Tail(s)) : Tail(s)[k] = s[k + 1]
  OBVIOUS
<1>3. s[1] \in S
  BY <1>1
<1> QED
  BY <1>1, <1>2, <1>3 DEF Elems

\* Appending adds one element, and an empty inbox holds none.
LEMMA ElemsAppend ==
    ASSUME NEW S, NEW s \in Seq(S), NEW m \in S
    PROVE  /\ Append(s, m) \in Seq(S)
           /\ \A x \in Elems(Append(s, m)) : x \in Elems(s) \/ x = m
           /\ Elems(<<>>) = {} /\ <<>> \in Seq(S)
<1>1. Append(s, m) \in Seq(S) /\ Len(Append(s, m)) = Len(s) + 1 /\ Len(s) \in Nat
  OBVIOUS
<1>2. \A k \in 1..Len(s) + 1 : Append(s, m)[k] = IF k <= Len(s) THEN s[k] ELSE m
  OBVIOUS
<1>3. Elems(<<>>) = {} /\ <<>> \in Seq(S)
  BY DEF Elems
<1> QED
  BY <1>1, <1>2, <1>3 DEF Elems

\* A Request or a Response says nothing of answers or files.
LEMMA GreetingTruthful ==
    ASSUME NEW e, NEW m, m.id = 0
    PROVE  Truthful(e, m)'
BY DEF Truthful

\* A silent step.
LEMMA Silent ==
    ASSUME PairTypeOK, UNCHANGED inbox, NEW e \in Ends
    PROVE  Speaks(e)
BY EndFacts DEF Speaks, PairTypeOK, Messages

\* A send, on a connection that is up or not.
LEMMA SendSpeaks ==
    ASSUME PairTypeOK, ServeOK, NEW d \in PairDevices, step[d] # "idle",
           NEW e \in Ends, e = End(d), NEW m \in Messages, Sends(d, m), Truthful(e, m)'
    PROVE  Speaks(e)
<1>1. inbox \in [Ends -> Seq(Messages)] /\ Other(e) \in Ends /\ Other(e) # e
  BY EndFacts DEF PairTypeOK, Messages
<1>2. CASE UNCHANGED inbox
  BY <1>2, Silent
<1>3. CASE inbox' = [inbox EXCEPT ![Other(e)] = Append(inbox[Other(e)], m)]
  <2>1. inbox'[Other(e)] = Append(inbox[Other(e)], m)
        /\ \A x \in Ends : x # Other(e) => inbox'[x] = inbox[x]
    BY <1>1, <1>3
  <2>2. Append(inbox[Other(e)], m) \in Seq(Messages)
    BY <1>1, ElemsAppend
  <2>3. inbox' \in [Ends -> Seq(Messages)]
    BY <1>1, <1>3, <2>2
  <2>4. \A y \in Elems(inbox'[Other(e)]) : y \in Elems(inbox[Other(e)]) \/ y = m
    BY <1>1, <2>1, ElemsAppend
  <2> QED
    BY <1>1, <2>1, <2>3, <2>4 DEF Speaks
<1> QED
  BY <1>2, <1>3 DEF Sends

\* A receive takes a message that was there.
LEMMA ReceiveSpeaks ==
    ASSUME PairTypeOK, NEW d, NEW e \in Ends, e = End(d), NEW id, Receives(d, id)
    PROVE  /\ Speaks(e)
           /\ Head(inbox[e]) \in Elems(inbox[e]) /\ Head(inbox[e]) \in Messages
           /\ Head(inbox[e]).id = id
<1>1. inbox \in [Ends -> Seq(Messages)] /\ Other(e) \in Ends /\ Other(e) # e
  BY EndFacts DEF PairTypeOK, Messages
<1>2. /\ inbox[e] # <<>> /\ Head(inbox[e]).id = id
      /\ inbox' = [inbox EXCEPT ![e] = Tail(inbox[e])]
  BY DEF Receives
<1>3. /\ Head(inbox[e]) \in Elems(inbox[e]) /\ Head(inbox[e]) \in Messages
      /\ Tail(inbox[e]) \in Seq(Messages)
      /\ \A m \in Elems(Tail(inbox[e])) : m \in Elems(inbox[e])
  BY <1>1, <1>2, ElemsTail
<1>4. /\ inbox'[e] = Tail(inbox[e]) /\ \A x \in Ends : x # e => inbox'[x] = inbox[x]
      /\ inbox' \in [Ends -> Seq(Messages)]
  BY <1>1, <1>2, <1>3
<1> QED
  BY <1>1, <1>2, <1>3, <1>4 DEF Speaks

-----------------------------------------------------------------------------
(* One step of one end                                                      *)

Steady(c) ==
    /\ trust'[c] = trust[c] /\ store'[c] = store[c] /\ savedTrust'[c] = savedTrust[c]
    /\ config'[c] = config[c] /\ savedConfig'[c] = savedConfig[c]
    /\ applied'[c] = applied[c] /\ heard'[c] = heard[c] /\ undone'[c] = undone[c]

\* A step at end e leaves the other ends' attempts alone, and of its own
\* device's files only the entry for the peer and the active peer may change.
At(e) ==
    LET d == Owner(e)
        p == Partner(e)
    IN /\ \A x \in Ends : x # e =>
             /\ Place(x)' = Place(x) /\ outcome'[x] = outcome[x] /\ answer'[x] = answer[x]
             /\ Place(x) = "away" \/ Steady(Owner(x))
             /\ Owner(x) = d => Partner(x) # p
       /\ \A c \in PairDevices : c # d => Steady(c) /\ step'[c] = step[c]
       /\ \A q \in PairDevices : q # p => trust'[d][q] = trust[d][q]
       /\ \/ config'[d] \in {config[d], p}
          \/ HoldsAt(d, step[d]) /\ config'[d] = savedConfig[d]
       /\ HoldsAt(d, step[d])' =>
             \/ savedConfig'[d] = config[d]
             \/ HoldsAt(d, step[d]) /\ savedConfig'[d] = savedConfig[d]
       /\ answer[e] => answer'[e]
       /\ ioFailed => ioFailed'
       /\ budget'.known = budget.known

\* What the other end has been told stays true, and what this end concludes it
\* was told.
Honest(e) ==
    /\ HasWritten(e) => HasWritten(e)'
    /\ HasFailed(e) => HasFailed(e)'
    /\ outcome'[e] = "paired" => ToldYes(Other(e))
    /\ (Place(e)' \in Undoing /\ heard'[Owner(e)] = "no") \/ outcome'[e] = "refused" =>
          ToldNo(Other(e))

\* The other ends keep what is known of them.
LEMMA OthersKept ==
    ASSUME PairInv, NEW e \in Ends, At(e), Speaks(e), Honest(e), NEW x \in Ends, x # e
    PROVE  EndOK(x)'
<1> DEFINE d == Owner(e)
           p == Partner(e)
           c == Owner(x)
           q == Partner(x)
<1>1. /\ c \in PairDevices /\ q \in PairDevices /\ d \in PairDevices /\ c # q
      /\ Other(x) \in Ends /\ Other(e) \in Ends /\ Owner(Other(x)) = q
      /\ Other(Other(x)) = x /\ Other(Other(e)) = e /\ Other(x) # x
  BY EndFacts
<1>2. EndOK(x) /\ Place(x)' = Place(x) /\ outcome'[x] = outcome[x] /\ answer'[x] = answer[x]
      /\ (Place(x) = "away" \/ Steady(c)) /\ (c = d => q # p)
  BY DEF PairInv, At
<1>3. trust'[c][q] = trust[c][q]
  BY <1>1, <1>2 DEF At, Steady
<1>4. Unchanged(x) => Unchanged(x)'
  BY <1>3 DEF Unchanged, Before, At
<1>5. NotActive(x) => NotActive(x)'
  <2>1. CASE c # d
    BY <1>1, <2>1 DEF At, Steady, NotActive, HoldsAt
  <2>2. CASE c = d
    BY <1>1, <1>2, <2>2 DEF At, NotActive
  <2> QED
    BY <2>1, <2>2
<1>6. answer[Other(x)] => answer'[Other(x)]
  BY <1>1 DEF At
<1>7. UsersOK(x)'
  <2>1. UsersOK(x)
    BY <1>2 DEF EndOK
  <2>2. ASSUME NEW m \in Elems(inbox'[x]), m.id = 1, m.ok PROVE answer'[Other(x)]
    <3>1. CASE x # Other(e)
      BY <1>6, <2>1, <2>2, <3>1 DEF Speaks, UsersOK
    <3>2. CASE x = Other(e)
      <4>1. Other(x) = e
        BY <1>1, <3>2
      <4> QED
        BY <1>6, <2>1, <2>2, <3>2, <4>1 DEF Speaks, UsersOK, Truthful
    <3> QED
      BY <3>1, <3>2
  <2> QED
    BY <1>2, <1>3, <1>6, <2>1, <2>2 DEF UsersOK, Agreed
<1>8. FilesOK(x)'
  <2>1. CASE Place(x) = "away"
    BY <1>2, <2>1 DEF FilesOK, HoldsAt, Writing, Restoring, Reporting, Undoing
  <2>2. CASE Steady(c)
    <3>1. FilesOK(x)
      BY <1>2 DEF EndOK
    <3>2. ioFailed => ioFailed'
      BY DEF At
    <3>3. HoldsAt(c, Place(x))' = HoldsAt(c, Place(x))
      BY <1>2, <2>2 DEF HoldsAt, Steady
    <3>4. Before(c, q)' = Before(c, q)
      BY DEF Before, At
    <3> QED
      BY <1>2, <1>4, <2>2, <3>1, <3>2, <3>3, <3>4 DEF FilesOK, Steady
  <2> QED
    BY <1>2, <2>1, <2>2
<1>9. PlaceOK(x)' /\ EarlyOK(x)' /\ OutcomeOK(x)'
  BY <1>2, <1>3, <1>4, <1>5 DEF EndOK, PlaceOK, EarlyOK, OutcomeOK
<1>10. ApplyOK(x)'
  <2>1. Place(x) \in Writing => config'[c] = config[c]
    BY <1>2 DEF Steady, Writing
  <2> QED
    BY <1>2, <2>1 DEF EndOK, ApplyOK, At
<1>11. (HasWritten(x) => HasWritten(x)') /\ (HasFailed(x) => HasFailed(x)')
  <2>1. Place(x) = "awaitStatus" => applied'[c] = applied[c]
    BY <1>2 DEF Steady
  <2> QED
    BY <1>2, <2>1 DEF HasWritten, HasFailed
<1>12. ToldOK(x)'
  <2>1. ToldOK(x)
    BY <1>2 DEF EndOK
  <2>2. CASE Other(x) # e
    <3>1. Other(x) # Other(e)
      BY <1>1
    <3>2. inbox'[Other(x)] = inbox[Other(x)] /\ Place(Other(x))' = Place(Other(x))
          /\ outcome'[Other(x)] = outcome[Other(x)]
          /\ (Place(Other(x)) = "away" \/ Steady(q))
      BY <1>1, <2>2, <3>1 DEF Speaks, At
    <3>3. (ToldYes(x)' => ToldYes(x)) /\ (ToldNo(x)' => ToldNo(x))
      BY <3>2 DEF ToldYes, ToldNo, Undoing, Steady
    <3> QED
      BY <1>11, <2>1, <3>3 DEF ToldOK
  <2>3. CASE Other(x) = e
    <3>1. x = Other(e) /\ q = d
      BY <1>1, <2>3
    <3>2. ToldYes(x)' => ToldYes(x)
      BY <2>3, <3>1 DEF ToldYes, Speaks, Honest
    <3>3. ToldNo(x)' => ToldNo(x)
      BY <2>3, <3>1 DEF ToldNo, Speaks, Honest
    <3> QED
      BY <1>11, <2>1, <3>2, <3>3 DEF ToldOK
  <2> QED
    BY <2>2, <2>3
<1> QED
  BY <1>7, <1>8, <1>9, <1>10, <1>12 DEF EndOK

\* What the users have agreed to, at the end that moves.
OwnUsers(e) ==
    /\ outcome'[e] = "none" /\ Place(e)' \in Prompting => ~answer'[e]
    /\ Place(e)' \in Applying => Agreed(e)'
    /\ trust'[Owner(e)][Partner(e)] = "new" => Agreed(e)'

\* A step at end e preserves the invariant when it does so at e.
LEMMA StepInv ==
    ASSUME PairInv, NEW e \in Ends, At(e), Speaks(e), Honest(e), OwnUsers(e),
           PairTypeOK', ServeOK', ConfigOK(Owner(e))', PlaceOK(e)', EarlyOK(e)', FilesOK(e)',
           ApplyOK(e)', OutcomeOK(e)'
    PROVE  PairInv'
<1>1. /\ Owner(e) \in PairDevices /\ Other(e) \in Ends /\ Other(e) # e
      /\ Partner(e) \in PairDevices /\ Owner(e) # Partner(e) /\ Owner(Other(e)) = Partner(e)
  BY EndFacts
<1>2. ASSUME NEW c \in PairDevices, c # Owner(e) PROVE ConfigOK(c)'
  <2>1. Steady(c) /\ step'[c] = step[c] /\ ConfigOK(c) /\ (ioFailed => ioFailed')
    BY <1>2 DEF At, PairInv
  <2> QED
    BY <2>1 DEF ConfigOK, Steady, HoldsAt
<1>3. UsersOK(e) /\ ToldOK(e) /\ answer'[Other(e)] = answer[Other(e)]
  BY <1>1 DEF PairInv, EndOK, At
<1>4. UsersOK(e)'
  <2>1. \A m \in Elems(inbox'[e]) : m.id = 1 /\ m.ok => answer'[Other(e)]
    BY <1>3 DEF Speaks, UsersOK
  <2> QED
    BY <2>1 DEF UsersOK, OwnUsers
<1>5. ToldOK(e)'
  <2>1. /\ outcome'[Other(e)] = outcome[Other(e)] /\ Place(Other(e))' = Place(Other(e))
        /\ heard'[Partner(e)] = heard[Partner(e)]
    BY <1>1 DEF At, Steady
  <2>2. ToldYes(e)' => HasWritten(e)'
    BY <1>3, <2>1 DEF ToldYes, ToldOK, Speaks, Truthful, Honest
  <2>3. ToldNo(e)' => HasFailed(e)'
    BY <1>3, <2>1 DEF ToldNo, ToldOK, Speaks, Truthful, Honest
  <2> QED
    BY <2>2, <2>3 DEF ToldOK
<1>6. EndOK(e)'
  BY <1>4, <1>5 DEF EndOK
<1> QED
  BY <1>1, <1>2, <1>6, OthersKept DEF PairInv

\* A step that touches no file: of the device only where it is may change.
LEMMA CalmAt ==
    ASSUME PairInv, NEW e \in Ends,
           UNCHANGED <<fileVars, applied, undone, budget, ioFailed>>,
           \A c \in PairDevices : c # Owner(e) => heard'[c] = heard[c] /\ step'[c] = step[c],
           \A x \in Ends : x # e =>
              /\ Place(x)' = Place(x) /\ outcome'[x] = outcome[x] /\ answer'[x] = answer[x]
              /\ Owner(x) = Owner(e) => Partner(x) # Partner(e)
              /\ Owner(x) = Owner(e) => Place(x) = "away" \/ UNCHANGED heard,
           HoldsAt(Owner(e), step[Owner(e)])' => HoldsAt(Owner(e), step[Owner(e)]),
           answer[e] => answer'[e]
    PROVE  At(e)
<1>1. ASSUME NEW c \in PairDevices, heard'[c] = heard[c] PROVE Steady(c)
  BY <1>1 DEF Steady, fileVars
<1>2. \A x \in Ends : Owner(x) \in PairDevices
  BY EndFacts
<1>3. \A x \in Ends : x # e => Place(x) = "away" \/ Steady(Owner(x))
  BY <1>1, <1>2
<1> QED
  BY <1>1, <1>3, EndFacts DEF At, fileVars

\* Up to the point where the files are loaded nothing is at stake but the
\* users' answers.
BeforeLoad == Prompting \cup {"sendApproval", "awaitApproval"}

\* A step there preserves the invariant when the answers are kept.
LEMMA EarlyStep ==
    ASSUME PairInv, NEW e \in Ends, outcome[e] = "none", Place(e) \in BeforeLoad,
           UNCHANGED <<fileVars, applied, heard, undone, budget, ioFailed>>,
           PairTypeOK', ServeOK', Speaks(e),
           \A c \in PairDevices : c # Owner(e) => step'[c] = step[c],
           \A x \in Ends : x # e =>
              /\ Place(x)' = Place(x) /\ outcome'[x] = outcome[x] /\ answer'[x] = answer[x]
              /\ Owner(x) = Owner(e) => Partner(x) # Partner(e),
           HoldsAt(Owner(e), step[Owner(e)])' => HoldsAt(Owner(e), step[Owner(e)]),
           \/ Place(e)' \in BeforeLoad \cup {"load"} /\ outcome'[e] = "none"
           \/ Place(e)' \in {"ended", "away"} /\ outcome'[e] \in {"failed", "cancelled", "crashed"},
           outcome'[e] = "none" /\ Place(e)' \in Prompting => ~answer'[e],
           Place(e)' = "load" => Agreed(e)',
           answer[e] => answer'[e]
    PROVE  PairInv'
<1>1. EndOK(e) /\ Unchanged(e) /\ NotActive(e) /\ ConfigOK(Owner(e))
  BY EndFacts DEF PairInv, EndOK, EarlyOK, BeforeLoad, Early
<1>2. At(e)
  BY CalmAt
<1>3. trust'[Owner(e)][Partner(e)] = trust[Owner(e)][Partner(e)] /\ UNCHANGED <<config, savedConfig>>
  BY DEF fileVars
<1>4. Unchanged(e)' /\ NotActive(e)'
  BY <1>1, <1>3 DEF Unchanged, Before, NotActive
<1>5. trust'[Owner(e)][Partner(e)] # "new"
  BY <1>1, <1>3 DEF Unchanged, Before
<1>6. OwnUsers(e)
  BY <1>5 DEF OwnUsers, Applying, BeforeLoad, Prompting, Writing, Reporting, Undoing
<1>7. Honest(e)
  BY DEF Honest, HasWritten, HasFailed, BeforeLoad, Prompting, Undoing
<1>8. ConfigOK(Owner(e))'
  BY <1>1 DEF ConfigOK, fileVars
<1>9. PlaceOK(e)' /\ EarlyOK(e)' /\ OutcomeOK(e)'
  BY <1>1, <1>4, <1>5 DEF PlaceOK, EarlyOK, OutcomeOK, BeforeLoad, Prompting
<1>10. FilesOK(e)' /\ ApplyOK(e)'
  BY DEF FilesOK, ApplyOK, HoldsAt, BeforeLoad, Prompting, Writing, Restoring, Reporting, Undoing
<1> QED
  BY <1>2, <1>6, <1>7, <1>8, <1>9, <1>10, StepInv

-----------------------------------------------------------------------------
(* Types, in parts                                                          *)

TalkTyped ==
    /\ step \in [PairDevices -> Places]
    /\ serving \in Initiators \cup {NoPeer}
    /\ link \in [Initiators -> {"none", "up", "closed"}]
    /\ inbox \in [Ends -> Seq(Messages)]
    /\ answer \in [Ends -> BOOLEAN]
    /\ outcome \in [Ends -> Outcomes]
FilesTyped ==
    /\ trust \in [PairDevices -> [PairDevices -> Entries]]
    /\ store \in [PairDevices -> [PairDevices -> Entries]]
    /\ savedTrust \in [PairDevices -> Entries]
    /\ config \in [PairDevices -> Initiators \cup {Responder, NoPeer}]
    /\ savedConfig \in [PairDevices -> Initiators \cup {Responder, NoPeer}]
NotesTyped ==
    /\ applied \in [PairDevices -> BOOLEAN] /\ undone \in [PairDevices -> BOOLEAN]
    /\ heard \in [PairDevices -> {"nothing", "yes", "no"}]
FaultsTyped ==
    /\ budget \in [dialers : SUBSET Initiators, known : SUBSET (PairDevices \X PairDevices),
                   refuse : BOOLEAN, writes : Nat, crashes : Nat, losses : Nat]
    /\ ioFailed \in BOOLEAN

\* The type invariant gives the parts.
LEMMA TypedParts ==
    ASSUME PairTypeOK
    PROVE  TalkTyped /\ FilesTyped /\ NotesTyped /\ FaultsTyped
BY DEF PairTypeOK, TalkTyped, FilesTyped, NotesTyped, FaultsTyped, Places, Messages

\* The parts of the next state give the type invariant there.
LEMMA TypedNext ==
    ASSUME ServeOK', TalkTyped', FilesTyped', NotesTyped', FaultsTyped'
    PROVE  PairTypeOK'
<1>1. ASSUME NEW i PROVE Cardinality({i}) = 1
  BY FS_Singleton
<1>2. Cardinality({}) = 0
  BY FS_EmptySet
<1>3. waiting' \in SUBSET Initiators /\ Cardinality(waiting') <= 1
  <2>1. CASE waiting' = {}
    BY <1>2, <2>1
  <2>2. ASSUME NEW i \in Initiators, waiting' = {i}
        PROVE  waiting' \in SUBSET Initiators /\ Cardinality(waiting') <= 1
    <3>1. Cardinality(waiting') = 1
      BY <1>1, <2>2
    <3> QED
      BY <2>2, <3>1
  <2> QED
    BY <2>1, <2>2 DEF ServeOK
<1> QED
  BY <1>3 DEF PairTypeOK, TalkTyped, FilesTyped, NotesTyped, FaultsTyped, Places, Messages

\* A step that touches no file keeps the files' types.
LEMMA TypedCalm ==
    ASSUME PairTypeOK, ServeOK', TalkTyped', heard' \in [PairDevices -> {"nothing", "yes", "no"}],
           UNCHANGED <<fileVars, applied, undone, budget, ioFailed>>
    PROVE  PairTypeOK'
<1>1. FilesTyped' /\ NotesTyped' /\ FaultsTyped'
  BY TypedParts DEF FilesTyped, NotesTyped, FaultsTyped, fileVars
<1> QED
  BY <1>1, TypedNext

\* A device has one end towards each peer.
LEMMA OneEnd ==
    ASSUME NEW e \in Ends, NEW x \in Ends, x # e, Owner(x) = Owner(e)
    PROVE  Partner(x) # Partner(e)
<1>1. /\ e[1] \in Initiators /\ e[2] \in {"init", "resp"} /\ e = <<e[1], e[2]>>
      /\ x[1] \in Initiators /\ x[2] \in {"init", "resp"} /\ x = <<x[1], x[2]>>
  BY EndFacts
<1>2. Responder \notin Initiators
  BY PairingConstants
<1> QED
  BY <1>1, <1>2 DEF Owner, Partner

-----------------------------------------------------------------------------
(* Dialling and approval                                                    *)

\* A connection is dialled.
LEMMA DialInv ==
    ASSUME PairInv, NEW i \in Initiators, Dial(i)
    PROVE  PairInv'
<1> DEFINE e == <<i, "init">>
           m == Message(0, TRUE)
<1>1. /\ e \in Ends /\ e[1] = i /\ e[2] = "init" /\ Owner(e) = i /\ Partner(e) = Responder
      /\ Other(e) = <<i, "resp">> /\ Other(e) \in Ends /\ Other(e) # e
      /\ i \in PairDevices /\ i # Responder /\ m \in Messages /\ m.id = 0
  BY PairingConstants DEF Ends, Owner, Partner, Other, PairDevices, Message, Messages
<1>2. PairTypeOK /\ ServeOK /\ TalkTyped /\ EndOK(e)
  BY <1>1, TypedParts DEF PairInv
<1>3. /\ step[i] = "dial" /\ step' = [step EXCEPT ![i] = "awaitResponse"]
      /\ link' = [link EXCEPT ![i] = "up"] /\ inbox' = [inbox EXCEPT ![Other(e)] = <<m>>]
      /\ UNCHANGED <<serving, waiting, answer, fileVars, applied, heard, undone, outcome,
                     budget, ioFailed>>
  BY <1>1 DEF Dial, Goto, queueVars, faultVars
<1>4. Place(e) = "dial" /\ outcome[e] = "none" /\ ~answer[e]
  BY <1>1, <1>2, <1>3 DEF Place, EndOK, PlaceOK, UsersOK, Prompting
<1>5. /\ step' \in [PairDevices -> Places] /\ step'[i] = "awaitResponse"
      /\ \A c \in PairDevices : c # i => step'[c] = step[c]
      /\ link' \in [Initiators -> {"none", "up", "closed"}]
      /\ \A j \in Initiators : link'[j] = "none" => link[j] = "none"
  BY <1>1, <1>2, <1>3 DEF TalkTyped, Places
<1>6. ServeOK'
  BY <1>1, <1>2, <1>3, <1>5, PairingConstants DEF ServeOK, PairDevices
<1>7. Speaks(e)
  <2>1. <<m>> \in Seq(Messages) /\ \A y \in Elems(<<m>>) : y = m
    <3> HIDE DEF m
    <3>1. <<m>> = Append(<<>>, m) /\ <<>> \in Seq(Messages)
      BY <1>1
    <3> QED
      BY <1>1, <3>1, ElemsAppend
  <2>2. inbox \in [Ends -> Seq(Messages)]
    BY <1>2 DEF TalkTyped
  <2>3. /\ inbox'[Other(e)] = <<m>> /\ inbox' \in [Ends -> Seq(Messages)]
        /\ \A x \in Ends : x # Other(e) => inbox'[x] = inbox[x]
    BY <1>1, <1>3, <2>1, <2>2
  <2>4. Truthful(e, m)'
    BY <1>1, GreetingTruthful
  <2> QED
    BY <1>1, <2>1, <2>3, <2>4 DEF Speaks
<1>8. TalkTyped'
  BY <1>2, <1>3, <1>5, <1>7 DEF TalkTyped, Speaks
<1>9. PairTypeOK'
  BY <1>2, <1>3, <1>6, <1>8, TypedCalm DEF PairTypeOK
<1>10. Place(e)' = "awaitResponse"
  BY <1>1, <1>5 DEF Place
<1>11. \A x \in Ends : x # e => Place(x)' = Place(x)
  <2>1. ASSUME NEW x \in Ends, x # e PROVE Place(x)' = Place(x)
    <3>1. x[1] \in Initiators /\ x = <<x[1], x[2]>> /\ x[2] \in {"init", "resp"}
      BY EndFacts
    <3>2. Responder \in PairDevices /\ x[1] \in PairDevices
      BY <3>1 DEF PairDevices
    <3> QED
      BY <1>1, <1>3, <1>5, <2>1, <3>1, <3>2 DEF Place
  <2> QED
    BY <2>1
<1>12. ~HoldsAt(i, step[i])'
  BY <1>5 DEF HoldsAt, Writing, Undoing, Reporting
<1> HIDE DEF e, m
<1> QED
  BY <1>1, <1>3, <1>4, <1>5, <1>6, <1>7, <1>9, <1>10, <1>11, <1>12, OneEnd, EarlyStep
     DEF BeforeLoad, Prompting

\* A connection waits in the responder's channel, or is dropped.
LEMMA QueueInv ==
    ASSUME PairInv, NEW i \in Initiators, QueueRequest(i)
    PROVE  PairInv'
<1> DEFINE e == <<i, "resp">>
<1>1. /\ e \in Ends /\ e[1] = i /\ e[2] = "resp" /\ Owner(e) = Responder /\ Partner(e) = i
      /\ Other(e) = <<i, "init">> /\ Other(e) \in Ends /\ Other(e) # e
  BY DEF Ends, Owner, Partner, Other
<1>2. PairTypeOK /\ ServeOK /\ TalkTyped /\ EndOK(e)
  BY <1>1, TypedParts DEF PairInv
<1>3. /\ link[i] = "up" /\ i # serving /\ i \notin waiting /\ outcome[e] = "none"
      /\ UNCHANGED <<step, serving, answer, fileVars, applied, heard, undone, budget, ioFailed>>
  BY DEF QueueRequest, faultVars
<1>4. Place(e) = "away" /\ ~answer[e] /\ \A x \in Ends : Place(x)' = Place(x)
  BY <1>1, <1>2, <1>3 DEF Place, EndOK, UsersOK, Prompting
<1>5. /\ \/ waiting = {} /\ waiting' = {i} /\ UNCHANGED <<link, inbox, outcome>>
         \/ /\ link' = [link EXCEPT ![i] = "closed"] /\ inbox' = [inbox EXCEPT ![e] = <<>>]
            /\ outcome' = [outcome EXCEPT ![e] = "failed"] /\ UNCHANGED waiting
  BY DEF QueueRequest, ChannelFree
<1>6. Speaks(e) /\ TalkTyped'
  <2>1. <<>> \in Seq(Messages) /\ Elems(<<>>) = {}
    BY DEF Elems
  <2>2. CASE UNCHANGED inbox
    BY <1>1, <1>2, <1>3, <1>5, <2>2, Silent DEF TalkTyped, Outcomes
  <2>3. CASE inbox' = [inbox EXCEPT ![e] = <<>>]
    <3>1. /\ inbox'[e] = <<>> /\ inbox' \in [Ends -> Seq(Messages)]
          /\ \A x \in Ends : x # e => inbox'[x] = inbox[x]
      BY <1>1, <1>2, <2>1, <2>3 DEF TalkTyped
    <3> QED
      BY <1>1, <1>2, <1>3, <1>5, <2>1, <3>1 DEF TalkTyped, Outcomes, Speaks
  <2> QED
    BY <1>5, <2>2, <2>3
<1>7. /\ \A x \in Ends : x # e => outcome'[x] = outcome[x]
      /\ outcome'[e] \in {"none", "failed"}
      /\ \A j \in Initiators : link'[j] = "none" => link[j] = "none"
  BY <1>1, <1>2, <1>3, <1>5 DEF TalkTyped
<1>8. ServeOK'
  <2>1. \A j \in Initiators : <<j, "resp">> \in Ends /\ (<<j, "resp">> = e => j = i)
    BY DEF Ends
  <2>2. CASE waiting = {} /\ waiting' = {i} /\ UNCHANGED <<link, inbox, outcome>>
    BY <1>2, <1>3, <2>2 DEF ServeOK
  <2>3. CASE UNCHANGED waiting
    <3> HIDE DEF e
    <3> QED
      BY <1>2, <1>3, <1>7, <2>1, <2>3 DEF ServeOK
  <2> QED
    BY <1>5, <2>2, <2>3
<1>9. PairTypeOK'
  BY <1>2, <1>3, <1>6, <1>8, TypedCalm DEF PairTypeOK
<1>10. HoldsAt(Responder, step[Responder])' => HoldsAt(Responder, step[Responder])
  BY <1>3 DEF HoldsAt
<1> HIDE DEF e
<1> QED
  BY <1>1, <1>3, <1>4, <1>6, <1>7, <1>8, <1>9, <1>10, OneEnd, EarlyStep
     DEF BeforeLoad, Prompting

\* The responder takes the next connection.
LEMMA TakeInv ==
    ASSUME PairInv, TakeRequest
    PROVE  PairInv'
<1>1. PairTypeOK /\ ServeOK /\ TalkTyped
  BY TypedParts DEF PairInv
<1>2. PICK i \in waiting : serving' = i /\ waiting' = waiting \ {i}
  BY DEF TakeRequest
<1>3. /\ step[Responder] = "idle" /\ step' = [step EXCEPT ![Responder] = "awaitRequest"]
      /\ UNCHANGED <<link, inbox, answer, fileVars, applied, heard, undone, outcome, budget, ioFailed>>
  BY DEF TakeRequest, Goto, wireVars, faultVars
<1>4. i \in Initiators /\ waiting = {i} /\ waiting' = {} /\ serving = NoPeer
      /\ NoPeer \notin Initiators /\ link[i] # "none" /\ outcome[<<i, "resp">>] = "none"
  BY <1>1, <1>2, <1>3, PairingConstants DEF ServeOK
<1> DEFINE e == <<i, "resp">>
<1>5. /\ e \in Ends /\ e[1] = i /\ e[2] = "resp" /\ Owner(e) = Responder /\ Partner(e) = i
      /\ Responder \in PairDevices /\ \A j \in Initiators : j \in PairDevices /\ j # Responder
  BY <1>4, PairingConstants DEF Ends, Owner, Partner, PairDevices
<1>6. /\ step' \in [PairDevices -> Places] /\ step'[Responder] = "awaitRequest"
      /\ \A c \in PairDevices : c # Responder => step'[c] = step[c]
  BY <1>1, <1>3, <1>5 DEF TalkTyped, Places
<1>7. ServeOK'
  BY <1>1, <1>2, <1>3, <1>4, <1>5, <1>6 DEF ServeOK
<1>8. Place(e) = "away" /\ Place(e)' = "awaitRequest" /\ outcome[e] = "none"
  BY <1>2, <1>4, <1>5, <1>6 DEF Place
<1>9. ASSUME NEW x \in Ends, x # e PROVE Place(x)' = Place(x)
  <2>1. x[1] \in Initiators /\ x = <<x[1], x[2]>> /\ x[2] \in {"init", "resp"}
    BY EndFacts
  <2> QED
    BY <1>2, <1>4, <1>5, <1>6, <1>9, <2>1 DEF Place
<1>10. Speaks(e) /\ EndOK(e)
  BY <1>1, <1>3, <1>5, Silent DEF PairInv
<1>11. ~answer[e]
  BY <1>8, <1>10 DEF EndOK, UsersOK, Prompting
<1>12. PairTypeOK'
  <2>1. TalkTyped'
    BY <1>1, <1>2, <1>3, <1>4, <1>6 DEF TalkTyped
  <2> QED
    BY <1>1, <1>3, <1>7, <2>1, TypedCalm DEF PairTypeOK
<1>13. ~HoldsAt(Responder, step[Responder])'
  BY <1>6 DEF HoldsAt, Writing, Undoing, Reporting
<1> HIDE DEF e
<1> QED
  BY <1>3, <1>5, <1>6, <1>7, <1>8, <1>9, <1>10, <1>11, <1>12, <1>13, OneEnd, EarlyStep
     DEF BeforeLoad, Prompting

\* A step of a device that has not loaded its files yet.
LEMMA EarlyMove ==
    ASSUME PairInv, NEW d \in PairDevices, NEW e \in Ends, e = End(d),
           step[d] \in {"awaitRequest", "awaitResponse", "prompt", "sendApproval", "awaitApproval"},
           Speaks(e), UNCHANGED <<fileVars, applied, heard, undone, budget, ioFailed>>,
           answer' \in [Ends -> BOOLEAN], answer[e] => answer'[e],
           \A x \in Ends : x # e => answer'[x] = answer[x],
           \/ \E s \in {"prompt", "sendApproval", "awaitApproval", "load"} :
                 /\ Goto(d, s) /\ UNCHANGED <<serving, waiting, link, outcome>>
                 /\ s = "prompt" => ~answer'[e]
                 /\ s = "load" => Agreed(e)'
           \/ \E how \in {"failed", "cancelled"} : Finish(d, how) /\ UNCHANGED waiting
    PROVE  PairInv'
<1>1. PairTypeOK /\ ServeOK /\ TalkTyped /\ EndOK(e) /\ step[d] # "idle"
  BY TypedParts DEF PairInv
<1>2. Owner(e) = d /\ Place(e) = step[d]
  BY <1>1, DeviceEnd
<1>3. Place(e) \in BeforeLoad /\ outcome[e] = "none"
  BY <1>1, <1>2 DEF EndOK, PlaceOK, BeforeLoad, Prompting
<1>4. ASSUME NEW s \in {"prompt", "sendApproval", "awaitApproval", "load"},
             Goto(d, s), UNCHANGED <<serving, waiting, link, outcome>>,
             s = "prompt" => ~answer'[e], s = "load" => Agreed(e)'
      PROVE  PairInv'
  <2>1. s \in Places \ {"dial", "idle", "ended", "awaitRequest", "awaitResponse"}
    BY DEF Places
  <2>2. /\ Place(e)' = s /\ step'[d] = s /\ \A x \in Ends : x # e => Place(x)' = Place(x)
        /\ \A c \in PairDevices : c # d => step'[c] = step[c]
        /\ step' \in [PairDevices -> Places] /\ ServeOK'
    BY <1>1, <1>4, <2>1, GotoPlace
  <2>3. TalkTyped'
    BY <1>1, <1>4, <2>2 DEF TalkTyped, Speaks
  <2>4. PairTypeOK'
    BY <1>1, <2>2, <2>3, TypedCalm DEF PairTypeOK
  <2>5. ~HoldsAt(Owner(e), step[Owner(e)])'
    BY <1>2, <2>2 DEF HoldsAt, Writing, Undoing, Reporting
  <2>6. Place(e)' \in BeforeLoad \cup {"load"} /\ outcome'[e] = "none"
        /\ (Place(e)' \in Prompting => ~answer'[e]) /\ (Place(e)' = "load" => Agreed(e)')
    BY <1>3, <1>4, <2>2 DEF BeforeLoad, Prompting
  <2> QED
    BY <1>2, <1>3, <1>4, <2>2, <2>4, <2>5, <2>6, OneEnd, EarlyStep
<1>5. ASSUME NEW how \in {"failed", "cancelled"}, Finish(d, how), UNCHANGED waiting
      PROVE  PairInv'
  <2>1. how \in Outcomes \ {"none"} /\ step[d] \notin {"idle", "dial"}
    BY DEF Outcomes
  <2>2. /\ Place(e)' \in {"ended", "away"} /\ step'[d] \in {"ended", "idle"}
        /\ \A x \in Ends : x # e => Place(x)' = Place(x) /\ outcome'[x] = outcome[x]
        /\ \A c \in PairDevices : c # d => step'[c] = step[c]
        /\ step' \in [PairDevices -> Places] /\ ServeOK'
        /\ outcome' \in [Ends -> Outcomes] /\ outcome'[e] = how
        /\ link' \in [Initiators -> {"none", "up", "closed"}]
        /\ serving' \in Initiators \cup {NoPeer}
    BY <1>1, <1>5, <2>1, FinishPlace
  <2>3. TalkTyped'
    BY <1>1, <1>5, <2>2 DEF TalkTyped, Speaks
  <2>4. PairTypeOK'
    BY <1>1, <2>2, <2>3, TypedCalm DEF PairTypeOK
  <2>5. ~HoldsAt(Owner(e), step[Owner(e)])'
    BY <1>2, <2>2 DEF HoldsAt, Writing, Undoing, Reporting
  <2>6. outcome'[e] \in {"failed", "cancelled", "crashed"} /\ outcome'[e] # "none"
        /\ Place(e)' # "load"
    BY <1>5, <2>2
  <2> QED
    BY <1>2, <1>3, <2>2, <2>4, <2>5, <2>6, OneEnd, EarlyStep
<1> QED
  BY <1>4, <1>5

\* The handshake and the exchange of answers.
LEMMA ApprovalSteps ==
    ASSUME PairInv, NEW d \in PairDevices,
           \/ d = Responder /\ AnswerRequest
           \/ d \in Initiators /\ ReceiveResponse(d)
           \/ \E yes \in BOOLEAN : UserAnswers(d, yes)
           \/ SendApproval(d) \/ ReceiveApproval(d)
    PROVE  PairInv'
<1>1. PairTypeOK /\ ServeOK /\ TalkTyped
  BY TypedParts DEF PairInv
<1>2. step[d] \in {"awaitRequest", "awaitResponse", "prompt", "sendApproval", "awaitApproval"}
  BY DEF AnswerRequest, ReceiveResponse, UserAnswers, SendApproval, ReceiveApproval
<1>3. End(d) \in Ends /\ Place(End(d)) = step[d] /\ Owner(End(d)) = d
  BY <1>1, <1>2, DeviceEnd
<1>4. PICK e \in Ends : e = End(d)
  BY <1>3
<1>5. EndOK(e) /\ Place(e) = step[d] /\ outcome[e] = "none" /\ answer \in [Ends -> BOOLEAN]
      /\ Other(e) \in Ends /\ Other(e) # e
  BY <1>1, <1>2, <1>3, <1>4, EndFacts DEF PairInv, EndOK, PlaceOK, TalkTyped
<1>6. step[d] \in {"awaitRequest", "awaitResponse", "prompt"} => ~answer[e]
  BY <1>5 DEF EndOK, UsersOK, Prompting
<1>7. CASE d = Responder /\ AnswerRequest
  <2>1. /\ step[d] = "awaitRequest"
        /\ UNCHANGED <<answer, fileVars, applied, heard, undone, budget, ioFailed>>
    BY <1>7 DEF AnswerRequest, faultVars
  <2>2. CASE /\ inbox[e] # <<>>
             /\ inbox' = [inbox EXCEPT ![e] = Tail(@),
                             ![Other(e)] = IF link[serving] = "up"
                                           THEN Append(@, Message(0, TRUE)) ELSE @]
             /\ Goto(d, "prompt") /\ UNCHANGED <<serving, waiting, link, outcome>>
    <3> DEFINE m == Message(0, TRUE)
    <3>1. m \in Messages /\ m.id = 0
      BY DEF Message, Messages
    <3>2. Truthful(e, m)'
      BY <3>1, GreetingTruthful
    <3>3. /\ inbox[e] \in Seq(Messages) /\ inbox[Other(e)] \in Seq(Messages)
          /\ inbox \in [Ends -> Seq(Messages)]
      BY <1>1, <1>5 DEF TalkTyped
    <3>4. Tail(inbox[e]) \in Seq(Messages) /\ \A y \in Elems(Tail(inbox[e])) : y \in Elems(inbox[e])
      BY <2>2, <3>3, ElemsTail
    <3> HIDE DEF m
    <3>5. PICK new \in Seq(Messages) :
             /\ inbox' = [inbox EXCEPT ![e] = Tail(inbox[e]), ![Other(e)] = new]
             /\ \A y \in Elems(new) : y \in Elems(inbox[Other(e)]) \/ y = m
      <4>1. CASE link[serving] = "up"
        <5>1. /\ Append(inbox[Other(e)], m) \in Seq(Messages)
              /\ \A y \in Elems(Append(inbox[Other(e)], m)) : y \in Elems(inbox[Other(e)]) \/ y = m
          BY <3>1, <3>3, ElemsAppend
        <5>2. inbox' = [inbox EXCEPT ![e] = Tail(inbox[e]), ![Other(e)] = Append(inbox[Other(e)], m)]
          BY <1>5, <2>2, <3>3, <4>1 DEF m
        <5> QED
          BY <5>1, <5>2
      <4>2. CASE link[serving] # "up"
        <5>1. inbox' = [inbox EXCEPT ![e] = Tail(inbox[e]), ![Other(e)] = inbox[Other(e)]]
          BY <1>5, <2>2, <3>3, <4>2
        <5> QED
          BY <3>3, <5>1
      <4> QED
        BY <4>1, <4>2
    <3>6. /\ inbox'[e] = Tail(inbox[e]) /\ inbox'[Other(e)] = new
          /\ \A x \in Ends : x # e /\ x # Other(e) => inbox'[x] = inbox[x]
          /\ inbox' \in [Ends -> Seq(Messages)]
      BY <1>5, <3>3, <3>4, <3>5
    <3>7. Speaks(e)
      BY <3>2, <3>4, <3>5, <3>6 DEF Speaks
    <3> QED
      BY <1>2, <1>4, <1>5, <1>6, <2>1, <2>2, <3>7, EarlyMove
  <2>3. CASE /\ inbox[e] # <<>> /\ inbox' = [inbox EXCEPT ![e] = Tail(@)]
             /\ Finish(d, "failed") /\ UNCHANGED waiting
    <3>1. Receives(d, Head(inbox[e]).id)
      BY <1>4, <2>3 DEF Receives
    <3>2. Speaks(e)
      BY <1>1, <1>4, <3>1, ReceiveSpeaks
    <3> QED
      BY <1>2, <1>4, <1>5, <2>1, <2>3, <3>2, EarlyMove
  <2>4. CASE Finish(d, "failed") /\ UNCHANGED <<waiting, inbox>>
    BY <1>1, <1>2, <1>4, <1>5, <2>1, <2>4, Silent, EarlyMove
  <2> QED
    BY <1>4, <1>7, <2>2, <2>3, <2>4 DEF AnswerRequest, queueVars
<1>8. CASE d \in Initiators /\ ReceiveResponse(d)
  <2>1. step[d] = "awaitResponse" /\ UNCHANGED <<answer, fileVars, applied, heard, undone, budget, ioFailed>>
    BY <1>8 DEF ReceiveResponse, faultVars
  <2>2. CASE Receives(d, 0) /\ Goto(d, "prompt") /\ UNCHANGED <<serving, waiting, link, outcome>>
    <3>1. Speaks(e)
      BY <1>1, <1>4, <2>2, ReceiveSpeaks
    <3> QED
      BY <1>2, <1>4, <1>5, <1>6, <2>1, <2>2, <3>1, EarlyMove
  <2>3. CASE Finish(d, "failed") /\ UNCHANGED <<waiting, inbox>>
    BY <1>1, <1>2, <1>4, <1>5, <2>1, <2>3, Silent, EarlyMove
  <2> QED
    BY <1>8, <2>2, <2>3 DEF ReceiveResponse, queueVars
<1>9. ASSUME NEW yes \in BOOLEAN, UserAnswers(d, yes) PROVE PairInv'
  <2>1. /\ step[d] = "prompt" /\ answer' = [answer EXCEPT ![e] = yes] /\ Goto(d, "sendApproval")
        /\ UNCHANGED <<serving, waiting, link, inbox, outcome, fileVars, applied, heard, undone,
                       budget, ioFailed>>
    BY <1>4, <1>9 DEF UserAnswers, queueVars, wireVars, faultVars
  <2>2. /\ answer' \in [Ends -> BOOLEAN] /\ ~answer[e]
        /\ \A x \in Ends : x # e => answer'[x] = answer[x]
    BY <1>5, <1>6, <2>1
  <2> QED
    BY <1>1, <1>2, <1>4, <1>5, <2>1, <2>2, Silent, EarlyMove
<1>10. CASE SendApproval(d)
  <2>1. step[d] = "sendApproval" /\ UNCHANGED <<answer, fileVars, applied, heard, undone, budget, ioFailed>>
    BY <1>10 DEF SendApproval, faultVars
  <2>2. CASE /\ Sends(d, Message(1, answer[e])) /\ Goto(d, "awaitApproval")
             /\ UNCHANGED <<serving, waiting, link, outcome>>
    <3>1. PICK m \in Messages : m = Message(1, answer[e]) /\ m.id = 1 /\ (m.ok <=> answer[e])
      <4>1. answer[e] \in BOOLEAN /\ 1 \in 0..2
        BY <1>5
      <4> QED
        BY <4>1, MessageFields
    <3>2. Truthful(e, m)'
      BY <2>1, <3>1 DEF Truthful
    <3>3. Speaks(e)
      BY <1>1, <1>2, <1>4, <2>2, <3>1, <3>2, SendSpeaks
    <3> QED
      BY <1>2, <1>4, <1>5, <2>1, <2>2, <3>3, EarlyMove
  <2>3. CASE Finish(d, "failed") /\ UNCHANGED <<waiting, inbox>>
    BY <1>1, <1>2, <1>4, <1>5, <2>1, <2>3, Silent, EarlyMove
  <2> QED
    BY <1>4, <1>10, <2>2, <2>3 DEF SendApproval, queueVars
<1>11. CASE ReceiveApproval(d)
  <2>1. step[d] = "awaitApproval" /\ UNCHANGED <<answer, fileVars, applied, heard, undone, budget, ioFailed>>
    BY <1>11 DEF ReceiveApproval, faultVars
  <2>2. ASSUME Receives(d, 1)
        PROVE  Speaks(e) /\ (BothAccepted(d) => Agreed(e)')
    <3>1. /\ Speaks(e) /\ Head(inbox[e]) \in Elems(inbox[e]) /\ Head(inbox[e]).id = 1
      BY <1>1, <1>4, <2>2, ReceiveSpeaks
    <3>2. BothAccepted(d) => answer[e] /\ answer[Other(e)]
      BY <1>4, <1>5, <3>1 DEF BothAccepted, EndOK, UsersOK
    <3> QED
      BY <2>1, <3>1, <3>2 DEF Agreed
  <2>3. CASE Receives(d, 1) /\ BothAccepted(d) /\ Goto(d, "load") /\ UNCHANGED <<serving, waiting, link, outcome>>
    BY <1>2, <1>4, <1>5, <2>1, <2>2, <2>3, EarlyMove
  <2>4. CASE Receives(d, 1) /\ Finish(d, "cancelled") /\ UNCHANGED waiting
    BY <1>2, <1>4, <1>5, <2>1, <2>2, <2>4, EarlyMove
  <2>5. CASE Finish(d, "failed") /\ UNCHANGED <<waiting, inbox>>
    BY <1>1, <1>2, <1>4, <1>5, <2>1, <2>5, Silent, EarlyMove
  <2> QED
    BY <1>11, <2>3, <2>4, <2>5 DEF ReceiveApproval, queueVars
<1> QED
  BY <1>7, <1>8, <1>9, <1>10, <1>11

-----------------------------------------------------------------------------
(* Steps on the files                                                       *)

\* A step of one device, which may change its entry for the peer it is pairing
\* with, its active peer and its notes.
OwnFiles(d, p) ==
    /\ \A c \in PairDevices : c # d => Steady(c)
    /\ \A q \in PairDevices : q # p => trust'[d][q] = trust[d][q]
    /\ \/ config'[d] \in {config[d], p}
       \/ HoldsAt(d, step[d]) /\ config'[d] = savedConfig[d]
    /\ HoldsAt(d, step[d])' =>
          \/ savedConfig'[d] = config[d]
          \/ HoldsAt(d, step[d]) /\ savedConfig'[d] = savedConfig[d]
    /\ UNCHANGED answer
    /\ ioFailed => ioFailed'
    /\ budget'.known = budget.known

\* Such a step is a step at the end the device works at.
LEMMA OwnAt ==
    ASSUME PairInv, NEW d \in PairDevices, NEW e \in Ends, e = End(d), step[d] # "idle",
           OwnFiles(d, Peer(d)),
           \A x \in Ends : x # e => Place(x)' = Place(x) /\ outcome'[x] = outcome[x],
           \A c \in PairDevices : c # d => step'[c] = step[c]
    PROVE  At(e)
<1>1. /\ Owner(e) = d /\ Partner(e) = Peer(d)
      /\ \A x \in Ends : x # e /\ Owner(x) = d => Place(x) = "away"
  BY DeviceEnd DEF PairInv
<1>2. ASSUME NEW x \in Ends, x # e
      PROVE  /\ Place(x)' = Place(x) /\ outcome'[x] = outcome[x] /\ answer'[x] = answer[x]
             /\ Place(x) = "away" \/ Steady(Owner(x))
             /\ Owner(x) = Owner(e) => Partner(x) # Partner(e)
  <2>1. Owner(x) \in PairDevices
    BY EndFacts
  <2> QED
    BY <1>1, <1>2, <2>1, OneEnd DEF OwnFiles
<1> QED
  BY <1>1, <1>2 DEF At, OwnFiles

\* A step of apply_pairing_settings or of a rollback that goes on with the
\* attempt preserves the invariant when it leaves the device's files in order.
LEMMA LocalMove ==
    ASSUME PairInv, NEW d \in PairDevices, NEW e \in Ends, e = End(d),
           step[d] \in Applying \ {"awaitStatus"},
           NEW s \in Applying \ {"load", "awaitStatus"},
           Goto(d, s), UNCHANGED <<serving, waiting, link, inbox, outcome>>,
           OwnFiles(d, Peer(d)), FilesTyped', NotesTyped', FaultsTyped',
           step[d] \in Undoing => s \in Undoing,
           s \in Undoing /\ heard'[d] = "no" => step[d] \in Undoing /\ heard[d] = "no",
           s = "insert" => Unchanged(e)' /\ NotActive(e)',
           ConfigOK(d)', Place(e)' = s => FilesOK(e)' /\ ApplyOK(e)'
    PROVE  PairInv'
<1>1. PairTypeOK /\ ServeOK /\ TalkTyped /\ EndOK(e) /\ step[d] # "idle"
  BY TypedParts DEF PairInv, Applying, Writing, Reporting, Undoing
<1>2. Owner(e) = d /\ Place(e) = step[d] /\ Partner(e) = Peer(d)
  BY <1>1, DeviceEnd
<1>3. outcome[e] = "none" /\ Agreed(e)
  BY <1>1, <1>2 DEF EndOK, PlaceOK, UsersOK, Applying, Writing, Reporting, Undoing
<1>4. s \in Places \ {"dial", "idle", "ended", "awaitRequest", "awaitResponse"}
  BY DEF Places, Applying, Writing, Reporting, Undoing
<1>5. /\ Place(e)' = s /\ step'[d] = s /\ \A x \in Ends : x # e => Place(x)' = Place(x)
      /\ \A c \in PairDevices : c # d => step'[c] = step[c]
      /\ step' \in [PairDevices -> Places] /\ ServeOK'
  BY <1>1, <1>4, GotoPlace
<1>6. TalkTyped'
  BY <1>1, <1>5 DEF TalkTyped, OwnFiles
<1>7. PairTypeOK'
  BY <1>5, <1>6, TypedNext
<1>8. At(e) /\ Speaks(e)
  BY <1>1, <1>5, OwnAt, Silent
<1>9. Agreed(e)'
  BY <1>3 DEF Agreed, OwnFiles
<1>10. OwnUsers(e)
  BY <1>5, <1>9 DEF OwnUsers, Applying, Prompting, Writing, Reporting, Undoing
<1>11. Honest(e)
  <2>1. HasWritten(e) => HasWritten(e)'
    BY <1>2, <1>3, <1>5 DEF HasWritten, Applying, Writing, Reporting, Undoing
  <2>2. ~HasFailed(e) /\ outcome'[e] = "none"
    BY <1>2, <1>3 DEF HasFailed, Applying, Writing, Reporting, Undoing
  <2>3. Place(e)' \in Undoing /\ heard'[Owner(e)] = "no" => ToldNo(Other(e))
    <3>1. Other(Other(e)) = e /\ Partner(Other(e)) = d
      BY <1>2, EndFacts
    <3> QED
      BY <1>2, <1>5, <3>1 DEF ToldNo
  <2> QED
    BY <2>1, <2>2, <2>3 DEF Honest
<1>12. PlaceOK(e)' /\ OutcomeOK(e)' /\ EarlyOK(e)'
  BY <1>3, <1>5 DEF PlaceOK, OutcomeOK, EarlyOK, Early, Prompting, Applying, Writing, Reporting, Undoing
<1> QED
  BY <1>2, <1>5, <1>7, <1>8, <1>10, <1>11, <1>12, StepInv

\* A file operation, successful or not.
LEMMA IOFacts ==
    ASSUME FaultsTyped, NEW ok \in BOOLEAN, IO(ok)
    PROVE  /\ FaultsTyped' /\ budget'.known = budget.known
           /\ (ioFailed => ioFailed') /\ (~ok => ioFailed')
<1>1. CASE ok
  BY <1>1 DEF IO, faultVars, FaultsTyped
<1>2. CASE ~ok
  <2>1. budget.writes > 0 /\ budget' = [budget EXCEPT !.writes = budget.writes - 1] /\ ioFailed' = TRUE
    BY <1>2 DEF IO
  <2>2. budget \in [dialers : SUBSET Initiators, known : SUBSET (PairDevices \X PairDevices),
                    refuse : BOOLEAN, writes : Nat, crashes : Nat, losses : Nat]
    BY DEF FaultsTyped
  <2>3. budget.writes - 1 \in Nat
    BY <2>1, <2>2
  <2>4. budget'.known = budget.known
        /\ budget' \in [dialers : SUBSET Initiators, known : SUBSET (PairDevices \X PairDevices),
                    refuse : BOOLEAN, writes : Nat, crashes : Nat, losses : Nat]
    BY <2>1, <2>2, <2>3
  <2> QED
    BY <2>1, <2>4 DEF FaultsTyped
<1> QED
  BY <1>1, <1>2

\* Writing the trust store puts the memory of one device into its file.
LEMMA WriteFacts ==
    ASSUME FilesTyped, FaultsTyped, NEW d \in PairDevices,
           store' \in [PairDevices -> [PairDevices -> Entries]],
           NEW ok \in BOOLEAN, NEW landed \in BOOLEAN, WriteTrust(d, ok, landed)
    PROVE  /\ trust' \in [PairDevices -> [PairDevices -> Entries]]
           /\ \A c \in PairDevices : c # d => trust'[c] = trust[c]
           /\ trust'[d] \in {store'[d], trust[d]} /\ (ok => trust'[d] = store'[d])
           /\ FaultsTyped' /\ budget'.known = budget.known
           /\ (ioFailed => ioFailed') /\ (~ok => ioFailed')
<1>1. /\ FaultsTyped' /\ budget'.known = budget.known
      /\ (ioFailed => ioFailed') /\ (~ok => ioFailed')
  BY IOFacts DEF WriteTrust
<1>2. trust \in [PairDevices -> [PairDevices -> Entries]]
  BY DEF FilesTyped
<1>3. CASE landed
  <2>1. trust' = [trust EXCEPT ![d] = store'[d]]
    BY <1>3 DEF WriteTrust
  <2>2. trust' \in [PairDevices -> [PairDevices -> Entries]] /\ trust'[d] = store'[d]
        /\ \A c \in PairDevices : c # d => trust'[c] = trust[c]
    BY <1>2, <2>1
  <2> QED
    BY <1>1, <2>2
<1>4. CASE ~landed
  BY <1>1, <1>2, <1>4 DEF WriteTrust
<1> QED
  BY <1>3, <1>4

\* Inserting an entry changes the memory of one device at its peer.
LEMMA InsertFacts ==
    ASSUME FilesTyped, NEW d \in PairDevices, Peer(d) \in PairDevices, NEW entry \in Entries,
           Inserted(d, entry)
    PROVE  /\ store' \in [PairDevices -> [PairDevices -> Entries]]
           /\ \A c \in PairDevices : c # d => store'[c] = store[c]
           /\ store'[d][Peer(d)] = entry
           /\ \A q \in PairDevices : q # Peer(d) => store'[d][q] = store[d][q]
<1>1. PICK p \in PairDevices : p = Peer(d)
  OBVIOUS
<1>2. store \in [PairDevices -> [PairDevices -> Entries]] /\ store[d] \in [PairDevices -> Entries]
  BY DEF FilesTyped
<1>3. store' = [store EXCEPT ![d] = [store[d] EXCEPT ![p] = entry]]
  BY <1>1 DEF Inserted
<1>4. PICK row \in [PairDevices -> Entries] : row = [store[d] EXCEPT ![p] = entry]
  BY <1>2
<1>5. row[p] = entry /\ \A q \in PairDevices : q # p => row[q] = store[d][q]
  BY <1>2, <1>4
<1>6. store' = [store EXCEPT ![d] = row]
  BY <1>3, <1>4
<1>7. /\ store' \in [PairDevices -> [PairDevices -> Entries]] /\ store'[d] = row
      /\ \A c \in PairDevices : c # d => store'[c] = store[c]
  BY <1>2, <1>6
<1> QED
  BY <1>1, <1>5, <1>7

\* A device that applies an attempt, and the end it does so at.
LEMMA Working ==
    ASSUME PairInv, NEW d \in PairDevices, step[d] \in Applying
    PROVE  /\ FilesTyped /\ NotesTyped /\ FaultsTyped /\ ConfigOK(d) /\ Peer(d) \in PairDevices
           /\ Peer(d) # NoPeer /\ step[d] # "idle"
           /\ \E e \in Ends :
                 /\ e = End(d) /\ Owner(e) = d /\ Partner(e) = Peer(d) /\ Place(e) = step[d]
                 /\ EndOK(e) /\ outcome[e] = "none"
<1>1. PairTypeOK /\ ServeOK /\ step[d] # "idle"
  BY DEF PairInv, Applying, Writing, Reporting, Undoing
<1>2. PICK e \in Ends : e = End(d)
  BY <1>1, DeviceEnd
<1>3. Owner(e) = d /\ Partner(e) = Peer(d) /\ Place(e) = step[d]
  BY <1>1, <1>2, DeviceEnd
<1>4. EndOK(e) /\ ConfigOK(d) /\ FilesTyped /\ NotesTyped /\ FaultsTyped
  BY <1>1, TypedParts DEF PairInv
<1>5. outcome[e] = "none"
  BY <1>3, <1>4 DEF EndOK, PlaceOK, Applying, Writing, Reporting, Undoing
<1>6. Partner(e) \in PairDevices /\ Partner(e) # NoPeer
  BY EndFacts
<1> QED
  BY <1>1, <1>2, <1>3, <1>4, <1>5, <1>6

\* Loading the files.
LEMMA LoadInv ==
    ASSUME PairInv, NEW d \in PairDevices, NEW expired \in BOOLEAN, NEW ok \in BOOLEAN,
           LoadSettings(d, expired, ok)
    PROVE  PairInv'
<1>1. step[d] = "load" /\ step[d] \in Applying
  BY DEF LoadSettings, Applying
<1>2. /\ FilesTyped /\ NotesTyped /\ FaultsTyped /\ ConfigOK(d) /\ Peer(d) \in PairDevices
      /\ Peer(d) # NoPeer
  BY <1>1, Working
<1>3. PICK e \in Ends :
         /\ e = End(d) /\ Owner(e) = d /\ Partner(e) = Peer(d) /\ Place(e) = step[d]
         /\ EndOK(e) /\ outcome[e] = "none"
  BY <1>1, Working
<1>4. PICK p \in PairDevices : p = Peer(d)
  BY <1>2
<1>5. /\ IO(ok) /\ UNCHANGED <<serving, waiting, link, inbox, answer, trust, config, outcome>>
      /\ applied' = [applied EXCEPT ![d] = FALSE]
      /\ heard' = [heard EXCEPT ![d] = "nothing"]
      /\ undone' = [undone EXCEPT ![d] = TRUE]
  BY DEF LoadSettings, queueVars, wireVars
<1>6. /\ applied'[d] = FALSE /\ heard'[d] = "nothing" /\ undone'[d] = TRUE
      /\ \A c \in PairDevices : c # d => applied'[c] = applied[c] /\ heard'[c] = heard[c]
                                          /\ undone'[c] = undone[c]
      /\ NotesTyped'
  BY <1>2, <1>5 DEF NotesTyped
<1>7. FaultsTyped' /\ budget'.known = budget.known /\ (ioFailed => ioFailed')
  BY <1>2, <1>5, IOFacts
<1>8. trust[d][p] = Before(d, p) /\ config[d] # p
  BY <1>1, <1>3, <1>4 DEF EndOK, EarlyOK, Unchanged, NotActive, Early
<1>9. Before(d, p)' = Before(d, p)
  BY <1>7 DEF Before
<1>10. CASE ok
  <2>1. PICK s \in {"insert", "restoreInsert"} : Goto(d, s)
    BY <1>10 DEF LoadSettings
  <2>2. /\ store' = [store EXCEPT ![d] = trust[d]]
        /\ savedTrust' = [savedTrust EXCEPT ![d] = trust[d][p]]
        /\ savedConfig' = [savedConfig EXCEPT ![d] = config[d]]
    BY <1>4, <1>10 DEF LoadSettings
  <2>3. trust[d] \in [PairDevices -> Entries] /\ trust[d][p] \in Entries
        /\ config[d] \in Initiators \cup {Responder, NoPeer}
    BY <1>2 DEF FilesTyped
  <2>4. /\ store'[d] = trust[d] /\ savedTrust'[d] = trust[d][p] /\ savedConfig'[d] = config[d]
        /\ \A c \in PairDevices : c # d => /\ store'[c] = store[c] /\ savedTrust'[c] = savedTrust[c]
                                           /\ savedConfig'[c] = savedConfig[c]
        /\ FilesTyped'
    BY <1>2, <1>5, <2>2, <2>3 DEF FilesTyped
  <2>5. \A c \in PairDevices : c # d => Steady(c)
    BY <1>5, <1>6, <2>4 DEF Steady
  <2>6. OwnFiles(d, Peer(d))
    BY <1>5, <1>7, <2>4, <2>5 DEF OwnFiles
  <2>7. ConfigOK(d)'
    BY <1>2, <1>5, <1>7, <2>4 DEF ConfigOK
  <2>8. ASSUME Place(e)' = s PROVE FilesOK(e)' /\ ApplyOK(e)'
    <3>1. FilesOK(e)'
      BY <1>3, <1>4, <1>5, <1>6, <1>8, <1>9, <2>4, <2>8
         DEF FilesOK, HoldsAt, Writing, Restoring, Reporting, Undoing
    <3>2. ApplyOK(e)'
      BY <1>3, <1>4, <1>5, <1>8 DEF ApplyOK
    <3> QED
      BY <3>1, <3>2
  <2>9. Unchanged(e)' /\ NotActive(e)'
    BY <1>3, <1>4, <1>5, <1>8, <1>9, <2>4 DEF Unchanged, NotActive
  <2> QED
    BY <1>1, <1>3, <1>5, <1>6, <1>7, <2>1, <2>4, <2>6, <2>7, <2>8, <2>9, LocalMove
       DEF Applying, Writing, Undoing, Reporting
<1>11. CASE ~ok
  <2>1. Goto(d, "sendStatus") /\ UNCHANGED <<store, savedTrust, savedConfig>>
    BY <1>11 DEF LoadSettings
  <2>2. FilesTyped'
    BY <1>2, <1>5, <2>1 DEF FilesTyped
  <2>3. \A c \in PairDevices : c # d => Steady(c)
    BY <1>5, <1>6, <2>1 DEF Steady
  <2>4. ioFailed'
    BY <1>2, <1>5, <1>11, IOFacts
  <2>5. ConfigOK(d)'
    BY <2>4 DEF ConfigOK
  <2>6. ASSUME Place(e)' = "sendStatus" PROVE FilesOK(e)' /\ ApplyOK(e)'
    <3>1. FilesOK(e)'
      BY <1>3, <1>4, <1>5, <1>6, <1>8, <1>9, <2>6
         DEF FilesOK, HoldsAt, Unchanged, Writing, Restoring, Reporting, Undoing
    <3> QED
      BY <2>4, <3>1 DEF ApplyOK
  <2>7. step'[d] = "sendStatus"
    <3>1. step \in [PairDevices -> Places]
      BY TypedParts DEF PairInv, TalkTyped
    <3> QED
      BY <2>1, <3>1 DEF Goto
  <2>8. OwnFiles(d, Peer(d))
    BY <1>5, <1>6, <1>7, <2>3, <2>7 DEF OwnFiles, HoldsAt, Writing, Undoing
  <2> QED
    BY <1>1, <1>3, <1>5, <1>6, <1>7, <2>1, <2>2, <2>5, <2>6, <2>8, LocalMove
       DEF Applying, Writing, Undoing, Reporting
<1> QED
  BY <1>10, <1>11

\* A write of the trust store, which goes on with the attempt.
LEMMA TrustMove ==
    ASSUME PairInv, NEW d \in PairDevices, NEW e \in Ends, e = End(d),
           step[d] \in Writing \cup Restoring,
           NEW s \in Applying \ {"load", "insert", "awaitStatus"}, Goto(d, s),
           step[d] \in Undoing <=> s \in Undoing,
           UNCHANGED <<serving, waiting, link, inbox, answer, outcome, savedTrust, config,
                       savedConfig, applied, heard>>,
           NEW ok \in BOOLEAN, NEW landed \in BOOLEAN, WriteTrust(d, ok, landed),
           store' \in [PairDevices -> [PairDevices -> Entries]],
           \A c \in PairDevices : c # d => store'[c] = store[c],
           \A q \in PairDevices : q # Peer(d) => store'[d][q] = store[d][q],
           undone' \in [PairDevices -> BOOLEAN],
           \A c \in PairDevices : c # d => undone'[c] = undone[c],
           ~ioFailed' => trust'[d][Peer(d)] # "absent" \/ config[d] # Peer(d),
           Place(e)' = s => FilesOK(e)'
    PROVE  PairInv'
<1>1. step[d] \in Applying \ {"awaitStatus"} /\ HoldsAt(d, step[d])
  BY DEF Applying, Writing, Restoring, Reporting, Undoing, HoldsAt
<1>2. /\ FilesTyped /\ NotesTyped /\ FaultsTyped /\ ConfigOK(d) /\ Peer(d) \in PairDevices
      /\ Owner(e) = d /\ Partner(e) = Peer(d) /\ Place(e) = step[d] /\ EndOK(e)
  BY <1>1, Working
<1>3. PICK p \in PairDevices : p = Peer(d)
  BY <1>2
<1>4. /\ trust' \in [PairDevices -> [PairDevices -> Entries]]
      /\ \A c \in PairDevices : c # d => trust'[c] = trust[c]
      /\ trust'[d] \in {store'[d], trust[d]}
      /\ FaultsTyped' /\ budget'.known = budget.known
      /\ (ioFailed => ioFailed')
  BY <1>2, WriteFacts
<1>5. FilesTyped' /\ NotesTyped'
  BY <1>2, <1>4 DEF FilesTyped, NotesTyped
<1>6. \A q \in PairDevices : q # p => trust'[d][q] = trust[d][q]
  <2>1. \A q \in PairDevices : q # p => store[d][q] = trust[d][q]
    BY <1>2, <1>3 DEF EndOK, FilesOK
  <2> QED
    BY <1>3, <1>4, <2>1
<1>7. \A c \in PairDevices : c # d => Steady(c)
  BY <1>4 DEF Steady
<1>8. OwnFiles(d, Peer(d))
  BY <1>1, <1>3, <1>4, <1>6, <1>7 DEF OwnFiles
<1>9. savedConfig[d] # p
  BY <1>1, <1>2, <1>3 DEF EndOK, FilesOK
<1>10. ConfigOK(d)'
  <2>1. config[d] \in PairDevices \cup {NoPeer} /\ savedConfig[d] \in PairDevices \cup {NoPeer}
    BY <1>2 DEF FilesTyped, PairDevices
  <2> QED
    BY <1>1, <1>2, <1>3, <1>4, <1>6, <1>9, <2>1 DEF ConfigOK
<1>11. ASSUME Place(e)' = s PROVE FilesOK(e)' /\ ApplyOK(e)'
  <2>1. s \in Writing => step[d] \in Writing
    BY DEF Writing, Undoing, Restoring
  <2> QED
    BY <1>2, <1>4, <1>11, <2>1 DEF EndOK, ApplyOK
<1> QED
  BY <1>1, <1>4, <1>5, <1>8, <1>10, <1>11, LocalMove

\* The new entry is inserted.
LEMMA InsertInv ==
    ASSUME PairInv, NEW d \in PairDevices, NEW ok \in BOOLEAN, NEW landed \in BOOLEAN,
           InsertEntry(d, ok, landed)
    PROVE  PairInv'
<1>1. step[d] = "insert" /\ step[d] \in Applying /\ step[d] \in Writing \cup Restoring
  BY DEF InsertEntry, Applying, Writing
<1>2. /\ FilesTyped /\ NotesTyped /\ FaultsTyped /\ Peer(d) \in PairDevices
      /\ "new" \in Entries
  BY <1>1, Working DEF Entries
<1>3. PICK e \in Ends :
         /\ e = End(d) /\ Owner(e) = d /\ Partner(e) = Peer(d) /\ Place(e) = step[d]
         /\ EndOK(e) /\ outcome[e] = "none"
  BY <1>1, Working
<1>4. PICK p \in PairDevices : p = Peer(d)
  BY <1>2
<1>5. /\ Inserted(d, "new") /\ WriteTrust(d, ok, landed) /\ Goto(d, "flush")
      /\ UNCHANGED <<serving, waiting, link, inbox, answer, outcome, savedTrust, config,
                     savedConfig, applied, heard, undone>>
  BY DEF InsertEntry, queueVars, wireVars
<1>6. /\ store' \in [PairDevices -> [PairDevices -> Entries]]
      /\ \A c \in PairDevices : c # d => store'[c] = store[c]
      /\ store'[d][p] = "new"
      /\ \A q \in PairDevices : q # p => store'[d][q] = store[d][q]
  BY <1>2, <1>4, <1>5, InsertFacts
<1>7. /\ trust'[d] \in {store'[d], trust[d]} /\ (ok => trust'[d] = store'[d])
      /\ budget'.known = budget.known /\ (~ok => ioFailed')
  BY <1>2, <1>5, <1>6, WriteFacts
<1>8. FilesOK(e)
  BY <1>3 DEF EndOK
<1>9. Before(d, p)' = Before(d, p)
  BY <1>7 DEF Before
<1>10. \A q \in PairDevices : q # p => store'[d][q] = trust'[d][q]
  BY <1>1, <1>3, <1>4, <1>6, <1>7, <1>8 DEF FilesOK, Writing
<1>11. /\ savedTrust[d] = Before(d, p) /\ savedConfig[d] # p /\ heard[d] = "nothing"
       /\ ~applied[d]
  BY <1>1, <1>3, <1>4, <1>8 DEF FilesOK, HoldsAt, Writing
<1>12. ASSUME Place(e)' = "flush" PROVE FilesOK(e)'
  BY <1>3, <1>4, <1>5, <1>6, <1>9, <1>10, <1>11, <1>12
     DEF FilesOK, HoldsAt, Writing, Restoring, Reporting, Undoing
<1>13. undone' \in [PairDevices -> BOOLEAN]
  BY <1>2, <1>5 DEF NotesTyped
<1>14. ~ioFailed' => trust'[d][p] # "absent"
  BY <1>6, <1>7
<1> QED
  BY <1>1, <1>3, <1>4, <1>5, <1>6, <1>12, <1>13, <1>14, TrustMove
     DEF Applying, Writing, Undoing, Reporting

\* The new entry is flushed.
LEMMA FlushInv ==
    ASSUME PairInv, NEW d \in PairDevices, NEW ok \in BOOLEAN, NEW landed \in BOOLEAN,
           FlushTrust(d, ok, landed)
    PROVE  PairInv'
<1>1. step[d] = "flush" /\ step[d] \in Applying /\ step[d] \in Writing \cup Restoring
  BY DEF FlushTrust, Applying, Writing
<1>2. FilesTyped /\ NotesTyped /\ FaultsTyped /\ Peer(d) \in PairDevices
  BY <1>1, Working
<1>3. PICK e \in Ends :
         /\ e = End(d) /\ Owner(e) = d /\ Partner(e) = Peer(d) /\ Place(e) = step[d]
         /\ EndOK(e) /\ outcome[e] = "none"
  BY <1>1, Working
<1>4. PICK p \in PairDevices : p = Peer(d)
  BY <1>2
<1>5. /\ WriteTrust(d, ok, landed)
      /\ UNCHANGED <<serving, waiting, link, inbox, answer, outcome, store, savedTrust, config,
                     savedConfig, applied, heard, undone>>
  BY DEF FlushTrust, queueVars, wireVars
<1>6. PICK s \in {"save", "restoreInsert"} : Goto(d, s) /\ (s = "save" => ok)
  BY DEF FlushTrust
<1>7. store' \in [PairDevices -> [PairDevices -> Entries]] /\ undone' \in [PairDevices -> BOOLEAN]
  BY <1>2, <1>5 DEF FilesTyped, NotesTyped
<1>8. /\ trust'[d] \in {store'[d], trust[d]} /\ (ok => trust'[d] = store'[d])
      /\ budget'.known = budget.known /\ (~ok => ioFailed')
  BY <1>2, <1>5, <1>7, WriteFacts
<1>9. FilesOK(e)
  BY <1>3 DEF EndOK
<1>10. Before(d, p)' = Before(d, p)
  BY <1>8 DEF Before
<1>11. /\ \A q \in PairDevices : q # p => store'[d][q] = trust'[d][q]
       /\ ok => trust'[d][p] = "new"
  BY <1>1, <1>3, <1>4, <1>5, <1>8, <1>9 DEF FilesOK, Writing
<1>12. /\ savedTrust[d] = Before(d, p) /\ savedConfig[d] # p /\ heard[d] = "nothing"
       /\ ~applied[d]
  BY <1>1, <1>3, <1>4, <1>9 DEF FilesOK, HoldsAt, Writing
<1>13. ASSUME Place(e)' = s PROVE FilesOK(e)'
  BY <1>3, <1>4, <1>5, <1>6, <1>10, <1>11, <1>12, <1>13
     DEF FilesOK, HoldsAt, Writing, Restoring, Reporting, Undoing
<1>14. ~ioFailed' => trust'[d][p] # "absent"
  BY <1>8, <1>11
<1> QED
  BY <1>1, <1>3, <1>4, <1>5, <1>6, <1>7, <1>13, <1>14, TrustMove
     DEF Applying, Writing, Undoing, Reporting

\* The previous entry is put back, after an error here or at the peer.
LEMMA RestoreInv ==
    ASSUME PairInv, NEW d \in PairDevices, NEW ok \in BOOLEAN, NEW landed \in BOOLEAN,
           RestoreEntry(d, ok, landed)
    PROVE  PairInv'
<1>1. step[d] \in {"restoreInsert", "undoInsert"} /\ step[d] \in Applying
      /\ step[d] \in Writing \cup Restoring
  BY DEF RestoreEntry, Applying, Writing, Undoing, Restoring
<1>2. FilesTyped /\ NotesTyped /\ FaultsTyped /\ Peer(d) \in PairDevices
  BY <1>1, Working
<1>3. PICK e \in Ends :
         /\ e = End(d) /\ Owner(e) = d /\ Partner(e) = Peer(d) /\ Place(e) = step[d]
         /\ EndOK(e) /\ outcome[e] = "none"
  BY <1>1, Working
<1>4. PICK p \in PairDevices : p = Peer(d)
  BY <1>2
<1>5. /\ Inserted(d, savedTrust[d]) /\ WriteTrust(d, ok, landed)
      /\ UNCHANGED <<serving, waiting, link, inbox, answer, outcome, savedTrust, config,
                     savedConfig, applied, heard, undone>>
  BY DEF RestoreEntry, PreviousEntry, queueVars, wireVars
<1>6. PICK s \in {"undoFlush", "restoreFlush"} :
         Goto(d, s) /\ (s = "undoFlush" <=> step[d] = "undoInsert")
  BY <1>1 DEF RestoreEntry
<1>7. PICK old \in Entries : old = savedTrust[d]
  BY <1>2 DEF FilesTyped
<1>8. /\ store' \in [PairDevices -> [PairDevices -> Entries]]
      /\ \A c \in PairDevices : c # d => store'[c] = store[c]
      /\ store'[d][p] = savedTrust[d]
      /\ \A q \in PairDevices : q # p => store'[d][q] = store[d][q]
  BY <1>2, <1>4, <1>5, <1>7, InsertFacts
<1>9. /\ trust'[d] \in {store'[d], trust[d]}
      /\ budget'.known = budget.known /\ (ioFailed => ioFailed')
  BY <1>2, <1>5, <1>8, WriteFacts
<1>10. FilesOK(e) /\ ApplyOK(e)
  BY <1>3 DEF EndOK
<1>11. Before(d, p)' = Before(d, p)
  BY <1>9 DEF Before
<1>12. \A q \in PairDevices : q # p => store'[d][q] = trust'[d][q]
  BY <1>1, <1>3, <1>4, <1>8, <1>9, <1>10 DEF FilesOK
<1>13. savedTrust[d] = Before(d, p) /\ savedConfig[d] # p
  BY <1>1, <1>3, <1>4, <1>10 DEF FilesOK, HoldsAt, Writing, Undoing
<1>14. /\ step[d] = "restoreInsert" => heard[d] = "nothing" /\ ~applied[d]
       /\ step[d] = "undoInsert" => applied[d]
       /\ step[d] = "undoInsert" /\ (undone[d] \/ ~ioFailed) => config[d] = savedConfig[d]
  BY <1>3, <1>4, <1>10 DEF FilesOK, Writing, Undoing, Restoring
<1>15. ASSUME Place(e)' = s PROVE FilesOK(e)'
  BY <1>1, <1>3, <1>4, <1>5, <1>6, <1>8, <1>9, <1>11, <1>12, <1>13, <1>14, <1>15
     DEF FilesOK, HoldsAt, Writing, Restoring, Reporting, Undoing
<1>16. undone' \in [PairDevices -> BOOLEAN]
  BY <1>2, <1>5 DEF NotesTyped
<1>17. ~ioFailed' => config[d] # p
  BY <1>1, <1>3, <1>4, <1>9, <1>10, <1>13, <1>14 DEF ApplyOK, Writing
<1>18. /\ s \in Applying \ {"load", "insert", "awaitStatus"}
       /\ step[d] \in Undoing <=> s \in Undoing
  BY <1>1, <1>6 DEF Applying, Writing, Undoing, Reporting
<1>19. \A q \in PairDevices : q # Peer(d) => store'[d][q] = store[d][q]
  BY <1>4, <1>8
<1>20. ~ioFailed' => trust'[d][Peer(d)] # "absent" \/ config[d] # Peer(d)
  BY <1>4, <1>17
<1> QED
  BY <1>1, <1>3, <1>5, <1>6, <1>8, <1>15, <1>16, <1>18, <1>19, <1>20, TrustMove

\* The previous entry is flushed, after an error here.
LEMMA RestoreFlushInv ==
    ASSUME PairInv, NEW d \in PairDevices, NEW ok \in BOOLEAN, NEW landed \in BOOLEAN,
           RestoreFlush(d, ok, landed)
    PROVE  PairInv'
<1>1. step[d] = "restoreFlush" /\ step[d] \in Applying /\ step[d] \in Writing \cup Restoring
  BY DEF RestoreFlush, Applying, Writing
<1>2. FilesTyped /\ NotesTyped /\ FaultsTyped /\ Peer(d) \in PairDevices
  BY <1>1, Working
<1>3. PICK e \in Ends :
         /\ e = End(d) /\ Owner(e) = d /\ Partner(e) = Peer(d) /\ Place(e) = step[d]
         /\ EndOK(e) /\ outcome[e] = "none"
  BY <1>1, Working
<1>4. PICK p \in PairDevices : p = Peer(d)
  BY <1>2
<1>5. /\ WriteTrust(d, ok, landed) /\ undone' = [undone EXCEPT ![d] = ok] /\ Goto(d, "sendStatus")
      /\ UNCHANGED <<serving, waiting, link, inbox, answer, outcome, store, savedTrust, config,
                     savedConfig, applied, heard>>
  BY DEF RestoreFlush, queueVars, wireVars
<1>6. store' \in [PairDevices -> [PairDevices -> Entries]]
  BY <1>2, <1>5 DEF FilesTyped
<1>7. /\ undone' \in [PairDevices -> BOOLEAN] /\ (undone'[d] <=> ok)
      /\ \A c \in PairDevices : c # d => undone'[c] = undone[c]
  BY <1>2, <1>5 DEF NotesTyped
<1>8. /\ (ok => trust'[d] = store'[d]) /\ budget'.known = budget.known
      /\ (ioFailed => ioFailed') /\ (~ok => ioFailed')
  BY <1>2, <1>5, <1>6, WriteFacts
<1>9. FilesOK(e) /\ ApplyOK(e)
  BY <1>3 DEF EndOK
<1>10. Before(d, p)' = Before(d, p)
  BY <1>8 DEF Before
<1>11. /\ store[d][p] = Before(d, p) /\ heard[d] = "nothing" /\ ~applied[d]
  BY <1>1, <1>3, <1>4, <1>9 DEF FilesOK, HoldsAt, Writing
<1>12. undone'[d] => trust'[d][p] = Before(d, p)
  BY <1>5, <1>7, <1>8, <1>11
<1>13. ASSUME Place(e)' = "sendStatus" PROVE FilesOK(e)'
  BY <1>3, <1>4, <1>5, <1>10, <1>11, <1>12, <1>13
     DEF FilesOK, HoldsAt, Unchanged, Writing, Restoring, Reporting, Undoing
<1>14. ~ioFailed' => config[d] # p
  BY <1>1, <1>3, <1>4, <1>8, <1>9 DEF ApplyOK, Writing
<1>15. /\ "sendStatus" \in Applying \ {"load", "insert", "awaitStatus"}
       /\ step[d] \in Undoing <=> "sendStatus" \in Undoing
  BY <1>1 DEF Applying, Writing, Undoing, Reporting
<1>16. \A q \in PairDevices : q # Peer(d) => store'[d][q] = store[d][q]
  BY <1>5
<1>17. ~ioFailed' => trust'[d][Peer(d)] # "absent" \/ config[d] # Peer(d)
  BY <1>4, <1>14
<1> QED
  BY <1>1, <1>3, <1>5, <1>6, <1>7, <1>13, <1>15, <1>16, <1>17, TrustMove

\* A step that ends an attempt after its files were loaded preserves the
\* invariant when what it reports is true.
LEMMA FinishMove ==
    ASSUME PairInv, NEW d \in PairDevices, NEW e \in Ends, e = End(d), step[d] \in Applying,
           NEW how \in Outcomes \ {"none"}, Finish(d, how), UNCHANGED <<waiting, answer, config>>,
           Speaks(e), FilesTyped', NotesTyped', FaultsTyped',
           \A c \in PairDevices : c # d => Steady(c),
           \A q \in PairDevices : q # Peer(d) => trust'[d][q] = trust[d][q],
           ioFailed => ioFailed', budget'.known = budget.known,
           HasWritten(e) => how \in {"paired", "refused", "unconfirmed", "dirty", "crashed"},
           HasFailed(e) => how \in {"failed", "dirty", "crashed"},
           how = "paired" => ToldYes(Other(e)) /\ trust'[d][Peer(d)] = "new",
           how = "refused" => ToldNo(Other(e)),
           how \in {"cancelled", "failed", "refused", "unconfirmed"} =>
              trust'[d][Peer(d)] = Before(d, Peer(d)),
           how \in {"refused", "unconfirmed"} => config[d] # Peer(d),
           ~ioFailed' => trust'[d][Peer(d)] # "absent" \/ config[d] # Peer(d)
    PROVE  PairInv'
<1>1. /\ PairTypeOK /\ ServeOK /\ TalkTyped /\ EndOK(e) /\ step[d] \notin {"idle", "dial"}
      /\ FilesTyped /\ ConfigOK(d)
  BY TypedParts DEF PairInv, Applying, Writing, Reporting, Undoing
<1>2. Owner(e) = d /\ Place(e) = step[d] /\ Partner(e) = Peer(d)
  BY <1>1, DeviceEnd
<1>3. Agreed(e)
  BY <1>1, <1>2 DEF EndOK, UsersOK
<1>4. /\ Place(e)' \in {"ended", "away"} /\ step'[d] \in {"ended", "idle"}
      /\ \A x \in Ends : x # e => Place(x)' = Place(x) /\ outcome'[x] = outcome[x]
      /\ \A c \in PairDevices : c # d => step'[c] = step[c]
      /\ step' \in [PairDevices -> Places] /\ ServeOK'
      /\ outcome' \in [Ends -> Outcomes] /\ outcome'[e] = how
      /\ link' \in [Initiators -> {"none", "up", "closed"}]
      /\ serving' \in Initiators \cup {NoPeer}
  BY <1>1, FinishPlace
<1>5. TalkTyped'
  BY <1>1, <1>4 DEF TalkTyped, Speaks
<1>6. PairTypeOK'
  BY <1>4, <1>5, TypedNext
<1>7. ~HoldsAt(d, step[d])'
  BY <1>4 DEF HoldsAt, Writing, Undoing, Reporting
<1>8. PICK p \in PairDevices : p = Peer(d)
  BY <1>2, EndFacts
<1>9. At(e)
  <2>1. OwnFiles(d, Peer(d))
    BY <1>7 DEF OwnFiles
  <2> QED
    BY <1>1, <1>4, <2>1, OwnAt
<1>10. ConfigOK(d)'
  <2>1. config[d] \in PairDevices \cup {NoPeer}
    BY <1>1 DEF FilesTyped, PairDevices
  <2> QED
    BY <1>1, <1>7, <1>8, <2>1 DEF ConfigOK
<1>11. OwnUsers(e)
  BY <1>3, <1>4 DEF OwnUsers, Agreed
<1>12. Honest(e)
  BY <1>4 DEF Honest, HasWritten, HasFailed, Undoing
<1>13. PlaceOK(e)' /\ EarlyOK(e)' /\ ApplyOK(e)'
  BY <1>4 DEF PlaceOK, EarlyOK, ApplyOK, Writing
<1>14. FilesOK(e)'
  BY <1>4 DEF FilesOK, HoldsAt, Writing, Restoring, Reporting, Undoing
<1>15. OutcomeOK(e)'
  <2>1. Before(d, p)' = Before(d, p)
    BY DEF Before
  <2>2. how \in {"cancelled", "failed", "refused", "unconfirmed"} => Unchanged(e)'
    BY <1>2, <1>8, <2>1 DEF Unchanged
  <2>3. how \in {"refused", "unconfirmed"} => NotActive(e)'
    BY <1>2, <1>7, <1>8 DEF NotActive
  <2> QED
    BY <1>2, <1>4, <1>8, <2>2, <2>3 DEF OutcomeOK
<1> QED
  BY <1>2, <1>4, <1>6, <1>9, <1>10, <1>11, <1>12, <1>13, <1>14, <1>15, StepInv

\* Saving the configuration changes the active peer of one device.
LEMMA SaveFacts ==
    ASSUME FilesTyped, FaultsTyped, NEW d \in PairDevices, NEW peer \in Initiators \cup {Responder, NoPeer},
           NEW ok \in BOOLEAN, NEW landed \in BOOLEAN, SaveConfig(d, peer, ok, landed)
    PROVE  /\ config' \in [PairDevices -> Initiators \cup {Responder, NoPeer}]
           /\ \A c \in PairDevices : c # d => config'[c] = config[c]
           /\ config'[d] \in {peer, config[d]} /\ (ok => config'[d] = peer)
           /\ FaultsTyped' /\ budget'.known = budget.known
           /\ (ioFailed => ioFailed') /\ (~ok => ioFailed')
<1>1. /\ FaultsTyped' /\ budget'.known = budget.known
      /\ (ioFailed => ioFailed') /\ (~ok => ioFailed')
  BY IOFacts DEF SaveConfig
<1>2. config \in [PairDevices -> Initiators \cup {Responder, NoPeer}]
  BY DEF FilesTyped
<1>3. CASE landed
  <2>1. config' = [config EXCEPT ![d] = peer]
    BY <1>3 DEF SaveConfig
  <2>2. config' \in [PairDevices -> Initiators \cup {Responder, NoPeer}] /\ config'[d] = peer
        /\ \A c \in PairDevices : c # d => config'[c] = config[c]
    BY <1>2, <2>1
  <2> QED
    BY <1>1, <2>2
<1>4. CASE ~landed
  BY <1>1, <1>2, <1>4 DEF SaveConfig
<1> QED
  BY <1>3, <1>4

\* The configuration is saved with the new active peer.
LEMMA SaveInv ==
    ASSUME PairInv, NEW d \in PairDevices, NEW ok \in BOOLEAN, NEW landed \in BOOLEAN,
           SaveSettings(d, ok, landed)
    PROVE  PairInv'
<1>1. step[d] = "save" /\ step[d] \in Applying
  BY DEF SaveSettings, Applying, Writing
<1>2. /\ FilesTyped /\ NotesTyped /\ FaultsTyped /\ Peer(d) \in PairDevices /\ ConfigOK(d)
  BY <1>1, Working
<1>3. PICK e \in Ends :
         /\ e = End(d) /\ Owner(e) = d /\ Partner(e) = Peer(d) /\ Place(e) = step[d]
         /\ EndOK(e) /\ outcome[e] = "none"
  BY <1>1, Working
<1>4. PICK p \in PairDevices : p = Peer(d)
  BY <1>2
<1>5. /\ SaveConfig(d, p, ok, landed) /\ applied' = [applied EXCEPT ![d] = ok]
      /\ UNCHANGED <<serving, waiting, link, inbox, answer, outcome, trust, store, savedTrust,
                     savedConfig, heard, undone>>
  BY <1>4 DEF SaveSettings, queueVars, wireVars
<1>6. PICK s \in {"sendStatus", "restoreInsert"} : Goto(d, s) /\ (s = "sendStatus" <=> ok)
  BY DEF SaveSettings
<1>7. /\ config' \in [PairDevices -> Initiators \cup {Responder, NoPeer}]
      /\ \A c \in PairDevices : c # d => config'[c] = config[c]
      /\ config'[d] \in {p, config[d]}
      /\ FaultsTyped' /\ budget'.known = budget.known
      /\ (ioFailed => ioFailed') /\ (~ok => ioFailed')
  <2>1. p \in Initiators \cup {Responder, NoPeer}
    BY DEF PairDevices
  <2> QED
    BY <1>2, <1>5, <2>1, SaveFacts
<1>8. /\ applied' \in [PairDevices -> BOOLEAN] /\ (applied'[d] <=> ok)
      /\ \A c \in PairDevices : c # d => applied'[c] = applied[c]
  BY <1>2, <1>5 DEF NotesTyped
<1>9. FilesTyped' /\ NotesTyped'
  BY <1>2, <1>5, <1>7, <1>8 DEF FilesTyped, NotesTyped
<1>10. \A c \in PairDevices : c # d => Steady(c)
  BY <1>5, <1>7, <1>8 DEF Steady
<1>11. HoldsAt(d, step[d])
  BY <1>1 DEF HoldsAt, Writing
<1>12. OwnFiles(d, Peer(d))
  BY <1>4, <1>5, <1>7, <1>10, <1>11 DEF OwnFiles
<1>13. FilesOK(e)
  BY <1>3 DEF EndOK
<1>14. /\ \A q \in PairDevices : q # p => store[d][q] = trust[d][q]
       /\ savedTrust[d] = Before(d, p) /\ savedConfig[d] # p /\ heard[d] = "nothing"
       /\ trust[d][p] = "new"
  BY <1>1, <1>3, <1>4, <1>13 DEF FilesOK, HoldsAt, Writing
<1>15. Before(d, p)' = Before(d, p)
  BY <1>7 DEF Before
<1>16. ConfigOK(d)'
  BY <1>2, <1>5, <1>7, <1>11, <1>14 DEF ConfigOK
<1>17. ASSUME Place(e)' = s PROVE FilesOK(e)' /\ ApplyOK(e)'
  <2>1. FilesOK(e)'
    BY <1>3, <1>4, <1>5, <1>6, <1>8, <1>14, <1>15, <1>17
       DEF FilesOK, HoldsAt, Writing, Restoring, Reporting, Undoing
  <2> QED
    BY <1>6, <1>7, <1>17, <2>1 DEF ApplyOK, Writing
<1>18. s \in Applying \ {"load", "awaitStatus"} /\ s # "insert" /\ s \notin Undoing
       /\ step[d] \notin Undoing
  BY <1>1 DEF Applying, Writing, Reporting, Undoing
<1> QED
  BY <1>1, <1>3, <1>5, <1>6, <1>7, <1>9, <1>12, <1>16, <1>17, <1>18, LocalMove

\* A rollback restores the configuration.
LEMMA UndoConfigInv ==
    ASSUME PairInv, NEW d \in PairDevices, NEW ok \in BOOLEAN, NEW landed \in BOOLEAN,
           UndoConfig(d, ok, landed)
    PROVE  PairInv'
<1>1. step[d] = "undoConfig" /\ step[d] \in Applying
  BY DEF UndoConfig, Applying, Undoing
<1>2. /\ FilesTyped /\ NotesTyped /\ FaultsTyped /\ Peer(d) \in PairDevices /\ ConfigOK(d)
  BY <1>1, Working
<1>3. PICK e \in Ends :
         /\ e = End(d) /\ Owner(e) = d /\ Partner(e) = Peer(d) /\ Place(e) = step[d]
         /\ EndOK(e) /\ outcome[e] = "none"
  BY <1>1, Working
<1>4. PICK p \in PairDevices : p = Peer(d)
  BY <1>2
<1>5. /\ SaveConfig(d, savedConfig[d], ok, landed)
      /\ undone' = [undone EXCEPT ![d] = undone[d] /\ ok] /\ Goto(d, "undoLoad")
      /\ UNCHANGED <<serving, waiting, link, inbox, answer, outcome, trust, store, savedTrust,
                     savedConfig, heard, applied>>
  BY DEF UndoConfig, queueVars, wireVars
<1>6. /\ config' \in [PairDevices -> Initiators \cup {Responder, NoPeer}]
      /\ \A c \in PairDevices : c # d => config'[c] = config[c]
      /\ config'[d] \in {savedConfig[d], config[d]} /\ (ok => config'[d] = savedConfig[d])
      /\ FaultsTyped' /\ budget'.known = budget.known
      /\ (ioFailed => ioFailed') /\ (~ok => ioFailed')
  <2>1. savedConfig[d] \in Initiators \cup {Responder, NoPeer}
    BY <1>2 DEF FilesTyped
  <2> QED
    BY <1>2, <1>5, <2>1, SaveFacts
<1>7. /\ undone' \in [PairDevices -> BOOLEAN] /\ (undone'[d] => ok)
      /\ \A c \in PairDevices : c # d => undone'[c] = undone[c]
  BY <1>2, <1>5 DEF NotesTyped
<1>8. FilesTyped' /\ NotesTyped'
  BY <1>2, <1>5, <1>6, <1>7 DEF FilesTyped, NotesTyped
<1>9. \A c \in PairDevices : c # d => Steady(c)
  BY <1>5, <1>6, <1>7 DEF Steady
<1>10. HoldsAt(d, step[d])
  BY <1>1 DEF HoldsAt, Undoing
<1>11. OwnFiles(d, Peer(d))
  BY <1>4, <1>5, <1>6, <1>9, <1>10 DEF OwnFiles
<1>12. FilesOK(e)
  BY <1>3 DEF EndOK
<1>13. savedTrust[d] = Before(d, p) /\ savedConfig[d] # p /\ applied[d]
  BY <1>1, <1>3, <1>4, <1>12 DEF FilesOK, HoldsAt, Undoing
<1>14. Before(d, p)' = Before(d, p)
  BY <1>6 DEF Before
<1>15. ConfigOK(d)'
  BY <1>2, <1>5, <1>6, <1>10, <1>13 DEF ConfigOK
<1>16. ASSUME Place(e)' = "undoLoad" PROVE FilesOK(e)' /\ ApplyOK(e)'
  BY <1>3, <1>4, <1>5, <1>6, <1>7, <1>13, <1>14, <1>16
     DEF FilesOK, ApplyOK, HoldsAt, Writing, Restoring, Reporting, Undoing
<1>17. "undoLoad" \in Applying \ {"load", "awaitStatus"} /\ "undoLoad" \in Undoing
       /\ step[d] \in Undoing
  BY <1>1 DEF Applying, Writing, Reporting, Undoing
<1> QED
  BY <1>1, <1>3, <1>5, <1>6, <1>8, <1>11, <1>15, <1>16, <1>17, LocalMove

\* A rollback loads the trust store again, or cannot.
LEMMA UndoLoadInv ==
    ASSUME PairInv, NEW d \in PairDevices, NEW ok \in BOOLEAN, UndoLoad(d, ok)
    PROVE  PairInv'
<1>1. step[d] = "undoLoad" /\ step[d] \in Applying
  BY DEF UndoLoad, Applying, Undoing
<1>2. /\ FilesTyped /\ NotesTyped /\ FaultsTyped /\ Peer(d) \in PairDevices /\ ConfigOK(d)
  BY <1>1, Working
<1>3. PICK e \in Ends :
         /\ e = End(d) /\ Owner(e) = d /\ Partner(e) = Peer(d) /\ Place(e) = step[d]
         /\ EndOK(e) /\ outcome[e] = "none"
  BY <1>1, Working
<1>4. PICK p \in PairDevices : p = Peer(d)
  BY <1>2
<1>5. /\ IO(ok)
      /\ UNCHANGED <<inbox, answer, trust, savedTrust, config, savedConfig, applied, heard, undone>>
  BY DEF UndoLoad
<1>6. /\ FaultsTyped' /\ budget'.known = budget.known
      /\ (ioFailed => ioFailed') /\ (~ok => ioFailed')
  BY <1>2, <1>5, IOFacts
<1>7. NotesTyped'
  BY <1>2, <1>5 DEF NotesTyped
<1>8. FilesOK(e)
  BY <1>3 DEF EndOK
<1>9. CASE ok
  <2>1. /\ store' = [store EXCEPT ![d] = trust[d]] /\ Goto(d, "undoInsert")
        /\ UNCHANGED <<serving, waiting, link, outcome>>
    BY <1>9 DEF UndoLoad, queueVars
  <2>2. trust[d] \in [PairDevices -> Entries]
    BY <1>2 DEF FilesTyped
  <2>3. /\ store'[d] = trust[d] /\ FilesTyped'
        /\ \A c \in PairDevices : c # d => store'[c] = store[c]
    BY <1>2, <1>5, <2>1, <2>2 DEF FilesTyped
  <2>4. \A c \in PairDevices : c # d => Steady(c)
    BY <1>5, <2>3 DEF Steady
  <2>5. HoldsAt(d, step[d])
    BY <1>1 DEF HoldsAt, Undoing
  <2>6. OwnFiles(d, Peer(d))
    BY <1>5, <1>6, <2>4, <2>5 DEF OwnFiles
  <2>7. ConfigOK(d)'
    BY <1>2, <1>5, <1>6, <2>5 DEF ConfigOK
  <2>8. /\ savedTrust[d] = Before(d, p) /\ savedConfig[d] # p /\ applied[d]
        /\ undone[d] \/ ~ioFailed => config[d] = savedConfig[d]
    BY <1>1, <1>3, <1>4, <1>8 DEF FilesOK, HoldsAt, Undoing
  <2>9. Before(d, p)' = Before(d, p)
    BY <1>6 DEF Before
  <2>10. ASSUME Place(e)' = "undoInsert" PROVE FilesOK(e)' /\ ApplyOK(e)'
    BY <1>3, <1>4, <1>5, <1>6, <2>3, <2>8, <2>9, <2>10
       DEF FilesOK, ApplyOK, HoldsAt, Writing, Restoring, Reporting, Undoing
  <2>11. "undoInsert" \in Applying \ {"load", "awaitStatus"} /\ "undoInsert" \in Undoing
         /\ step[d] \in Undoing
    BY <1>1 DEF Applying, Writing, Reporting, Undoing
  <2> QED
    BY <1>1, <1>3, <1>5, <1>6, <1>7, <2>1, <2>3, <2>6, <2>7, <2>10, <2>11, LocalMove
<1>10. CASE ~ok
  <2>1. Finish(d, "dirty") /\ UNCHANGED <<waiting, store>> /\ ioFailed'
    BY <1>6, <1>10 DEF UndoLoad
  <2>2. FilesTyped' /\ Speaks(e) /\ "dirty" \in Outcomes \ {"none"}
    BY <1>2, <1>5, <2>1, Silent DEF FilesTyped, PairInv, Outcomes
  <2>3. \A c \in PairDevices : c # d => Steady(c)
    BY <1>5, <2>1 DEF Steady
  <2> QED
    BY <1>1, <1>3, <1>5, <1>6, <1>7, <2>1, <2>2, <2>3, FinishMove
<1> QED
  BY <1>9, <1>10

\* A rollback ends with the flush of the restored trust store.
LEMMA UndoFlushInv ==
    ASSUME PairInv, NEW d \in PairDevices, NEW ok \in BOOLEAN, NEW landed \in BOOLEAN,
           UndoFlush(d, ok, landed)
    PROVE  PairInv'
<1>1. step[d] = "undoFlush" /\ step[d] \in Applying
  BY DEF UndoFlush, Applying, Undoing
<1>2. FilesTyped /\ NotesTyped /\ FaultsTyped /\ Peer(d) \in PairDevices
  BY <1>1, Working
<1>3. PICK e \in Ends :
         /\ e = End(d) /\ Owner(e) = d /\ Partner(e) = Peer(d) /\ Place(e) = step[d]
         /\ EndOK(e) /\ outcome[e] = "none"
  BY <1>1, Working
<1>4. PICK p \in PairDevices : p = Peer(d)
  BY <1>2
<1>5. /\ WriteTrust(d, ok, landed)
      /\ UNCHANGED <<waiting, inbox, answer, store, savedTrust, config, savedConfig, applied,
                     heard, undone>>
  BY DEF UndoFlush
<1>6. PICK how \in {"dirty", "refused", "unconfirmed"} :
         /\ Finish(d, how) /\ (how # "dirty" => ok /\ undone[d])
         /\ how = "refused" => heard[d] = "no"
  <2>1. PICK fine \in BOOLEAN : fine = (ok /\ undone[d]) /\ Finish(d, RolledBackAs(d, fine))
    BY <1>2 DEF UndoFlush, NotesTyped
  <2> QED
    BY <2>1 DEF RolledBackAs
<1>7. store' \in [PairDevices -> [PairDevices -> Entries]] /\ NotesTyped'
  BY <1>2, <1>5 DEF FilesTyped, NotesTyped
<1>8. /\ trust' \in [PairDevices -> [PairDevices -> Entries]]
      /\ \A c \in PairDevices : c # d => trust'[c] = trust[c]
      /\ trust'[d] \in {store[d], trust[d]} /\ (ok => trust'[d] = store[d])
      /\ FaultsTyped' /\ budget'.known = budget.known
      /\ (ioFailed => ioFailed')
  BY <1>2, <1>5, <1>7, WriteFacts
<1>9. FilesTyped' /\ \A c \in PairDevices : c # d => Steady(c)
  BY <1>2, <1>5, <1>8 DEF FilesTyped, Steady
<1>10. FilesOK(e)
  BY <1>3 DEF EndOK
<1>11. /\ \A q \in PairDevices : q # p => store[d][q] = trust[d][q]
       /\ store[d][p] = Before(d, p) /\ savedConfig[d] # p
       /\ undone[d] \/ ~ioFailed => config[d] = savedConfig[d]
  BY <1>1, <1>3, <1>4, <1>10 DEF FilesOK, HoldsAt, Undoing, Restoring
<1>12. \A q \in PairDevices : q # Peer(d) => trust'[d][q] = trust[d][q]
  BY <1>4, <1>8, <1>11
<1>13. Speaks(e) /\ how \in Outcomes \ {"none"}
  BY <1>5, Silent DEF PairInv, Outcomes
<1>14. how = "refused" => ToldNo(Other(e))
  <2>1. Other(Other(e)) = e /\ Partner(Other(e)) = d
    BY <1>3, EndFacts
  <2> QED
    BY <1>1, <1>3, <1>6, <2>1 DEF ToldNo, Undoing
<1>15. /\ how \in {"refused", "unconfirmed"} =>
             trust'[d][Peer(d)] = Before(d, Peer(d)) /\ config[d] # Peer(d)
       /\ ~ioFailed' => config[d] # Peer(d)
  BY <1>4, <1>6, <1>8, <1>11
<1>16. ~HasFailed(e)
  BY <1>1, <1>3 DEF HasFailed
<1> QED
  BY <1>1, <1>3, <1>5, <1>6, <1>7, <1>8, <1>9, <1>12, <1>13, <1>14, <1>15, <1>16, FinishMove

-----------------------------------------------------------------------------
(* The exchange of statuses                                                 *)

\* A step of the exchange that goes on with the attempt.
LEMMA StatusMove ==
    ASSUME PairInv, NEW d \in PairDevices, NEW e \in Ends, e = End(d), step[d] \in Reporting,
           NEW s \in {"awaitStatus", "undoConfig"}, Goto(d, s),
           UNCHANGED <<serving, waiting, link, answer, outcome, fileVars, applied, undone,
                       budget, ioFailed>>,
           heard' \in [PairDevices -> {"nothing", "yes", "no"}],
           \A c \in PairDevices : c # d => heard'[c] = heard[c],
           s = "awaitStatus" => heard'[d] = "nothing", s = "undoConfig" => applied[d],
           Speaks(e), Place(e)' = s => Honest(e)
    PROVE  PairInv'
<1>1. /\ PairTypeOK /\ ServeOK /\ TalkTyped /\ EndOK(e) /\ step[d] # "idle" /\ ConfigOK(d)
  BY TypedParts DEF PairInv, Reporting
<1>2. Owner(e) = d /\ Place(e) = step[d] /\ Partner(e) = Peer(d)
  BY <1>1, DeviceEnd
<1>3. outcome[e] = "none" /\ Agreed(e)
  BY <1>1, <1>2 DEF EndOK, PlaceOK, UsersOK, Applying, Reporting
<1>4. s \in Places \ {"dial", "idle", "ended", "awaitRequest", "awaitResponse"}
  BY DEF Places
<1>5. /\ Place(e)' = s /\ step'[d] = s /\ \A x \in Ends : x # e => Place(x)' = Place(x)
      /\ \A c \in PairDevices : c # d => step'[c] = step[c]
      /\ step' \in [PairDevices -> Places] /\ ServeOK'
  BY <1>1, <1>4, GotoPlace
<1>6. TalkTyped'
  BY <1>1, <1>5 DEF TalkTyped, Speaks
<1>7. PairTypeOK'
  BY <1>1, <1>5, <1>6, TypedCalm
<1>8. \A c \in PairDevices : c # d => Steady(c)
  BY DEF Steady, fileVars
<1>9. HoldsAt(d, step[d])' => HoldsAt(d, step[d])
  BY <1>5 DEF HoldsAt, Writing, Undoing, Reporting
<1>10. OwnFiles(d, Peer(d))
  BY <1>8, <1>9 DEF OwnFiles, fileVars
<1>11. At(e)
  BY <1>1, <1>5, <1>10, OwnAt
<1>12. OwnUsers(e)
  <2>1. Agreed(e)'
    BY <1>3 DEF Agreed
  <2> QED
    BY <1>5, <2>1 DEF OwnUsers, Prompting
<1>13. ConfigOK(d)'
  BY <1>1, <1>9 DEF ConfigOK, fileVars
<1>14. PlaceOK(e)' /\ OutcomeOK(e)' /\ EarlyOK(e)' /\ ApplyOK(e)'
  BY <1>3, <1>5 DEF PlaceOK, OutcomeOK, EarlyOK, ApplyOK, Early, Prompting, Writing
<1>15. FilesOK(e)'
  <2>1. FilesOK(e)
    BY <1>1 DEF EndOK
  <2>2. Unchanged(e)' = Unchanged(e)
    BY DEF Unchanged, Before, fileVars
  <2>3. Before(Owner(e), Partner(e))' = Before(Owner(e), Partner(e))
    BY DEF Before
  <2>4. UNCHANGED <<trust, store, savedTrust, config, savedConfig, applied, undone, ioFailed>>
    BY DEF fileVars
  <2> QED
    BY <1>2, <1>5, <2>1, <2>2, <2>3, <2>4 DEF FilesOK, HoldsAt, Writing, Restoring, Reporting, Undoing
<1> QED
  BY <1>2, <1>5, <1>7, <1>11, <1>12, <1>13, <1>14, <1>15, StepInv

\* The status is sent.
LEMMA SendStatusInv ==
    ASSUME PairInv, NEW d \in PairDevices, SendStatus(d)
    PROVE  PairInv'
<1>1. step[d] = "sendStatus" /\ step[d] \in Applying /\ step[d] \in Reporting
  BY DEF SendStatus, Applying, Reporting
<1>2. /\ FilesTyped /\ NotesTyped /\ FaultsTyped /\ Peer(d) \in PairDevices /\ ConfigOK(d)
      /\ step[d] # "idle" /\ PairTypeOK /\ ServeOK
  BY <1>1, Working DEF PairInv
<1>3. PICK e \in Ends :
         /\ e = End(d) /\ Owner(e) = d /\ Partner(e) = Peer(d) /\ Place(e) = step[d]
         /\ EndOK(e) /\ outcome[e] = "none"
  BY <1>1, Working
<1>4. /\ UNCHANGED <<answer, fileVars, applied, heard, undone, budget, ioFailed>>
      /\ heard \in [PairDevices -> {"nothing", "yes", "no"}]
  BY <1>2 DEF SendStatus, faultVars, NotesTyped
<1>5. ~HasWritten(e) /\ ~HasFailed(e)
  BY <1>1, <1>3 DEF HasWritten, HasFailed, Undoing
<1>6. FilesOK(e)
  BY <1>3 DEF EndOK
<1>7. /\ heard[d] = "nothing" /\ applied[d] \in BOOLEAN /\ undone[d] \in BOOLEAN
      /\ ~applied[d] /\ undone[d] => trust[d][Peer(d)] = Before(d, Peer(d))
  BY <1>1, <1>2, <1>3, <1>6 DEF FilesOK, Unchanged, Reporting, NotesTyped
<1>8. outcome'[e] = "none" => Honest(e)
  BY <1>3, <1>4, <1>5, <1>7 DEF Honest
<1>9. CASE /\ Sends(d, Message(2, applied[d])) /\ Goto(d, "awaitStatus")
           /\ UNCHANGED <<serving, waiting, link, outcome>>
  <2>1. PICK m \in Messages : m = Message(2, applied[d]) /\ m.id = 2 /\ (m.ok <=> applied[d])
    <3>1. 2 \in 0..2
      OBVIOUS
    <3> QED
      BY <1>7, <3>1, MessageFields
  <2>2. Place(e)' = "awaitStatus"
    <3>1. "awaitStatus" \in Places \ {"dial", "idle", "ended", "awaitRequest", "awaitResponse"}
      BY DEF Places
    <3> QED
      BY <1>2, <1>3, <1>9, <3>1, GotoPlace
  <2>3. Truthful(e, m)'
    BY <1>3, <1>4, <2>1, <2>2 DEF Truthful, HasWritten, HasFailed
  <2>4. Speaks(e)
    BY <1>2, <1>3, <1>9, <2>1, <2>3, SendSpeaks
  <2> QED
    BY <1>1, <1>3, <1>4, <1>7, <1>8, <1>9, <2>4, StatusMove
<1>10. CASE applied[d] /\ Goto(d, RollbackStart) /\ UNCHANGED <<serving, waiting, link, outcome, inbox>>
  <2>1. Speaks(e) /\ RollbackStart = "undoConfig"
    BY <1>2, <1>10, Silent DEF RollbackStart
  <2> QED
    BY <1>1, <1>3, <1>4, <1>7, <1>8, <1>10, <2>1, StatusMove
<1>11. CASE ~applied[d] /\ Finish(d, FailedAs(d)) /\ UNCHANGED <<waiting, inbox>>
  <2>1. PICK how \in {"failed", "dirty"} : Finish(d, how) /\ (how = "failed" => undone[d])
    BY <1>11 DEF FailedAs
  <2>2. Speaks(e) /\ how \in Outcomes \ {"none"}
    BY <1>2, <1>11, Silent DEF Outcomes
  <2>3. \A c \in PairDevices : Steady(c)
    BY <1>4 DEF Steady, fileVars
  <2>4. FilesTyped' /\ NotesTyped' /\ FaultsTyped' /\ UNCHANGED <<trust, config>>
    BY <1>2, <1>4 DEF FilesTyped, NotesTyped, FaultsTyped, fileVars
  <2>5. ~ioFailed => trust[d][Peer(d)] # "absent" \/ config[d] # Peer(d)
    BY <1>2, Working, <1>1 DEF ConfigOK
  <2> QED
    BY <1>1, <1>3, <1>4, <1>5, <1>7, <1>11, <2>1, <2>2, <2>3, <2>4, <2>5, FinishMove
<1> QED
  BY <1>3, <1>9, <1>10, <1>11 DEF SendStatus, queueVars

\* The peer's status is received, or does not arrive.
LEMMA ReceiveStatusInv ==
    ASSUME PairInv, NEW d \in PairDevices, ReceiveStatus(d)
    PROVE  PairInv'
<1>1. step[d] = "awaitStatus" /\ step[d] \in Applying /\ step[d] \in Reporting
  BY DEF ReceiveStatus, Applying, Reporting
<1>2. /\ FilesTyped /\ NotesTyped /\ FaultsTyped /\ Peer(d) \in PairDevices /\ ConfigOK(d)
      /\ step[d] # "idle" /\ PairTypeOK /\ ServeOK
  BY <1>1, Working DEF PairInv
<1>3. PICK e \in Ends :
         /\ e = End(d) /\ Owner(e) = d /\ Partner(e) = Peer(d) /\ Place(e) = step[d]
         /\ EndOK(e) /\ outcome[e] = "none"
  BY <1>1, Working
<1>4. UNCHANGED <<answer, fileVars, applied, undone, budget, ioFailed>>
  BY DEF ReceiveStatus, faultVars
<1>5. FilesOK(e) /\ Other(Other(e)) = e /\ Partner(Other(e)) = d
  BY <1>3, EndFacts DEF EndOK
<1>6. /\ heard[d] = "nothing" /\ applied[d] \in BOOLEAN /\ undone[d] \in BOOLEAN
      /\ ~applied[d] /\ undone[d] => trust[d][Peer(d)] = Before(d, Peer(d))
      /\ applied[d] => trust[d][Peer(d)] = "new"
  BY <1>1, <1>2, <1>3, <1>5 DEF FilesOK, Unchanged, Reporting, NotesTyped
<1>7. heard \in [PairDevices -> {"nothing", "yes", "no"}]
  BY <1>2 DEF NotesTyped
<1>8. /\ Speaks(e) /\ heard' \in [PairDevices -> {"nothing", "yes", "no"}]
      /\ \A c \in PairDevices : c # d => heard'[c] = heard[c]
      /\ heard'[d] = "yes" => ToldYes(Other(e))
      /\ heard'[d] = "no" => ToldNo(Other(e))
  <2>1. CASE Receives(d, 2) /\ heard' = [heard EXCEPT ![d] = IF Head(inbox[e]).ok THEN "yes" ELSE "no"]
    <3>1. /\ Speaks(e) /\ Head(inbox[e]) \in Elems(inbox[e]) /\ Head(inbox[e]).id = 2
      BY <1>2, <1>3, <2>1, ReceiveSpeaks
    <3>2. /\ heard' \in [PairDevices -> {"nothing", "yes", "no"}]
          /\ \A c \in PairDevices : c # d => heard'[c] = heard[c]
          /\ heard'[d] = IF Head(inbox[e]).ok THEN "yes" ELSE "no"
      BY <1>7, <2>1
    <3>3. (heard'[d] = "yes" => ToldYes(Other(e))) /\ (heard'[d] = "no" => ToldNo(Other(e)))
      BY <1>5, <3>1, <3>2 DEF ToldYes, ToldNo
    <3> QED
      BY <3>1, <3>2, <3>3
  <2>2. CASE UNCHANGED <<inbox, heard>>
    BY <1>2, <1>6, <1>7, <2>2, Silent
  <2> QED
    BY <1>3, <2>1, <2>2 DEF ReceiveStatus
<1>9. \A c \in PairDevices : c # d => Steady(c)
  BY <1>4, <1>8 DEF Steady, fileVars
<1>10. FilesTyped' /\ NotesTyped' /\ FaultsTyped' /\ UNCHANGED <<trust, config>>
  BY <1>2, <1>4, <1>8 DEF FilesTyped, NotesTyped, FaultsTyped, fileVars
<1>11. ~ioFailed => trust[d][Peer(d)] # "absent" \/ config[d] # Peer(d)
  BY <1>1, <1>2, Working DEF ConfigOK
<1>12. CASE ~applied[d] /\ Finish(d, FailedAs(d)) /\ UNCHANGED waiting
  <2>1. PICK how \in {"failed", "dirty"} : Finish(d, how) /\ (how = "failed" => undone[d])
    BY <1>12 DEF FailedAs
  <2>2. how \in Outcomes \ {"none"}
    BY DEF Outcomes
  <2>3. ~HasWritten(e)
    BY <1>1, <1>3, <1>12 DEF HasWritten, Undoing
  <2> QED
    BY <1>1, <1>3, <1>4, <1>6, <1>8, <1>9, <1>10, <1>11, <1>12, <2>1, <2>2, <2>3, FinishMove
<1>13. CASE applied[d] /\ Confirmed(heard'[d]) /\ Finish(d, "paired") /\ UNCHANGED waiting
  <2>1. heard'[d] = "yes" /\ "paired" \in Outcomes \ {"none"}
    BY <1>13 DEF Confirmed, Outcomes
  <2>2. ~HasFailed(e)
    BY <1>1, <1>3, <1>13 DEF HasFailed
  <2> QED
    BY <1>1, <1>3, <1>4, <1>6, <1>8, <1>9, <1>10, <1>11, <1>13, <2>1, <2>2, FinishMove
<1>14. CASE applied[d] /\ Goto(d, RollbackStart) /\ UNCHANGED <<serving, waiting, link, outcome>>
  <2>1. ASSUME Place(e)' = "undoConfig" PROVE Honest(e)
    <3>1. HasWritten(e)' /\ ~HasFailed(e)
      BY <1>1, <1>3, <1>14, <2>1 DEF HasWritten, HasFailed, Undoing
    <3> QED
      BY <1>3, <1>8, <1>14, <3>1 DEF Honest
  <2>2. RollbackStart = "undoConfig"
    BY DEF RollbackStart
  <2> QED
    BY <1>1, <1>3, <1>4, <1>8, <1>14, <2>1, <2>2, StatusMove
<1> QED
  <2>1. \/ ~applied[d] /\ Finish(d, FailedAs(d)) /\ UNCHANGED waiting
        \/ applied[d] /\ Confirmed(heard'[d]) /\ Finish(d, "paired") /\ UNCHANGED waiting
        \/ applied[d] /\ Goto(d, RollbackStart) /\ UNCHANGED <<serving, waiting, link, outcome>>
    BY DEF ReceiveStatus, queueVars
  <2> QED
    BY <1>12, <1>13, <1>14, <2>1

-----------------------------------------------------------------------------
(* Lost links and crashes                                                   *)

\* A link breaks: files, answers and places are untouched, messages are lost.
LEMMA LinkLostInv ==
    ASSUME PairInv, NEW i \in Initiators, LinkLost(i)
    PROVE  PairInv'
<1>1. PICK e \in Ends : e = <<i, "init">>
  BY DEF Ends
<1>2. /\ PairTypeOK /\ ServeOK /\ TalkTyped /\ FilesTyped /\ NotesTyped /\ FaultsTyped
      /\ EndOK(e) /\ ConfigOK(Owner(e)) /\ Owner(e) \in PairDevices
      /\ Other(e) \in Ends /\ Other(Other(e)) = e /\ Partner(Other(e)) = Owner(e)
  BY TypedParts, EndFacts DEF PairInv
<1>3. /\ UNCHANGED <<step, serving, waiting, answer, applied, heard, undone, outcome, ioFailed>>
      /\ UNCHANGED <<trust, store, savedTrust, config, savedConfig>>
      /\ link' = [link EXCEPT ![i] = "closed"]
      /\ budget' = [budget EXCEPT !.losses = budget.losses - 1] /\ budget.losses > 0
  BY DEF LinkLost, queueVars, fileVars
<1>4. PICK lost \in SUBSET {"init", "resp"} :
         inbox' = [x \in Ends |-> IF x[1] = i /\ x[2] \in lost THEN <<>> ELSE inbox[x]]
  BY DEF LinkLost
<1>5. \A x \in Ends : inbox'[x] = <<>> \/ inbox'[x] = inbox[x]
  BY <1>4
<1>6. inbox \in [Ends -> Seq(Messages)] /\ <<>> \in Seq(Messages) /\ Elems(<<>>) = {}
  BY <1>2 DEF TalkTyped, Elems
<1>7. inbox' \in [Ends -> Seq(Messages)]
  BY <1>4, <1>6
<1>8. \A x \in Ends : x # e /\ x # Other(e) => inbox'[x] = inbox[x]
  <2>1. ASSUME NEW x \in Ends, x[1] = i PROVE x = e \/ x = Other(e)
    <3>1. x = <<x[1], x[2]>> /\ x[2] \in {"init", "resp"}
      BY EndFacts
    <3>2. Other(e) = <<i, "resp">>
      BY <1>1 DEF Other
    <3> QED
      BY <1>1, <2>1, <3>1, <3>2
  <2> QED
    BY <1>4, <2>1
<1>9. Speaks(e)
  BY <1>2, <1>5, <1>6, <1>7, <1>8 DEF Speaks
<1>10. /\ link' \in [Initiators -> {"none", "up", "closed"}]
       /\ \A j \in Initiators : link'[j] = "none" => link[j] = "none"
  BY <1>2, <1>3 DEF TalkTyped
<1>11. ServeOK' /\ TalkTyped'
  BY <1>2, <1>3, <1>7, <1>10 DEF ServeOK, TalkTyped
<1>12. FaultsTyped' /\ budget'.known = budget.known
  <2>1. budget \in [dialers : SUBSET Initiators, known : SUBSET (PairDevices \X PairDevices),
                    refuse : BOOLEAN, writes : Nat, crashes : Nat, losses : Nat]
    BY <1>2 DEF FaultsTyped
  <2>2. budget.losses - 1 \in Nat
    BY <1>3, <2>1
  <2>3. budget'.known = budget.known
        /\ budget' \in [dialers : SUBSET Initiators, known : SUBSET (PairDevices \X PairDevices),
                    refuse : BOOLEAN, writes : Nat, crashes : Nat, losses : Nat]
    BY <1>3, <2>1, <2>2
  <2> QED
    BY <1>2, <1>3, <2>3 DEF FaultsTyped
<1>13. FilesTyped' /\ NotesTyped'
  BY <1>2, <1>3 DEF FilesTyped, NotesTyped
<1>14. PairTypeOK'
  BY <1>11, <1>12, <1>13, TypedNext
<1>15. \A x \in Ends : Place(x)' = Place(x)
  BY <1>3 DEF Place
<1>16. \A c \in PairDevices : Steady(c)
  BY <1>3 DEF Steady
<1>17. At(e)
  <2>1. \A x \in Ends : x # e /\ Owner(x) = Owner(e) => Partner(x) # Partner(e)
    BY OneEnd
  <2>2. HoldsAt(Owner(e), step[Owner(e)])' = HoldsAt(Owner(e), step[Owner(e)])
    BY <1>3 DEF HoldsAt
  <2>3. \A x \in Ends : Steady(Owner(x))
    BY <1>16, EndFacts
  <2> QED
    BY <1>2, <1>3, <1>12, <1>15, <1>16, <2>1, <2>2, <2>3 DEF At
<1>18. /\ Agreed(e)' = Agreed(e) /\ Unchanged(e)' = Unchanged(e) /\ NotActive(e)' = NotActive(e)
       /\ Before(Owner(e), Partner(e))' = Before(Owner(e), Partner(e))
       /\ HoldsAt(Owner(e), Place(e))' = HoldsAt(Owner(e), Place(e))
       /\ HasWritten(e)' = HasWritten(e) /\ HasFailed(e)' = HasFailed(e)
  BY <1>3, <1>12, <1>15 DEF Agreed, Unchanged, NotActive, Before, HoldsAt, HasWritten, HasFailed
<1>19. Honest(e)
  BY <1>2, <1>3, <1>15, <1>18 DEF Honest, ToldYes, ToldNo
<1>20. OwnUsers(e)
  BY <1>2, <1>3, <1>15, <1>18 DEF OwnUsers, EndOK, UsersOK
<1>21. ConfigOK(Owner(e))'
  BY <1>2, <1>3 DEF ConfigOK, HoldsAt
<1>22. PlaceOK(e)' /\ EarlyOK(e)' /\ ApplyOK(e)' /\ OutcomeOK(e)'
  BY <1>2, <1>3, <1>15, <1>18 DEF EndOK, PlaceOK, EarlyOK, ApplyOK, OutcomeOK
<1>23. FilesOK(e)'
  BY <1>2, <1>3, <1>15, <1>18 DEF EndOK, FilesOK
<1> QED
  BY <1>9, <1>11, <1>14, <1>17, <1>19, <1>20, <1>21, <1>22, <1>23, StepInv

\* What a crash leaves of the faults.
LEMMA CrashFaults ==
    ASSUME FaultsTyped, NEW d, PairCrash(d)
    PROVE  FaultsTyped' /\ budget'.known = budget.known
<1>1. /\ budget.crashes > 0 /\ ioFailed' = ioFailed
      /\ budget' = [budget EXCEPT !.crashes = budget.crashes - 1]
  BY DEF PairCrash
<1>2. budget \in [dialers : SUBSET Initiators, known : SUBSET (PairDevices \X PairDevices),
                  refuse : BOOLEAN, writes : Nat, crashes : Nat, losses : Nat]
  BY DEF FaultsTyped
<1>3. budget.crashes - 1 \in Nat
  BY <1>1, <1>2
<1>4. budget'.known = budget.known
      /\ budget' \in [dialers : SUBSET Initiators, known : SUBSET (PairDevices \X PairDevices),
                  refuse : BOOLEAN, writes : Nat, crashes : Nat, losses : Nat]
  BY <1>1, <1>2, <1>3
<1> QED
  BY <1>1, <1>4 DEF FaultsTyped

\* An initiator crashes.
LEMMA InitiatorCrashInv ==
    ASSUME PairInv, NEW d \in Initiators, PairCrash(d)
    PROVE  PairInv'
<1>1. PICK e \in Ends : e = <<d, "init">>
  BY DEF Ends
<1>2. /\ PairTypeOK /\ ServeOK /\ TalkTyped /\ FilesTyped /\ NotesTyped /\ FaultsTyped
      /\ EndOK(e) /\ ConfigOK(d) /\ d \in PairDevices /\ d # Responder
      /\ Owner(e) = d /\ Partner(e) = Responder
  BY <1>1, TypedParts, PairingConstants DEF PairInv, Owner, Partner, PairDevices
<1>3. /\ UNCHANGED <<serving, waiting, inbox, answer, applied, heard, undone, ioFailed>>
      /\ UNCHANGED <<trust, store, savedTrust, config, savedConfig>>
      /\ step[d] \notin {"dial", "ended"} /\ step' = [step EXCEPT ![d] = "ended"]
      /\ link' = [link EXCEPT ![d] = "closed"] /\ outcome' = [outcome EXCEPT ![e] = "crashed"]
  BY <1>1, <1>2 DEF PairCrash, queueVars, fileVars, Goto
<1>4. FaultsTyped' /\ budget'.known = budget.known
  BY <1>2, CrashFaults
<1>5. /\ step' \in [PairDevices -> Places] /\ step'[d] = "ended"
      /\ \A c \in PairDevices : c # d => step'[c] = step[c]
      /\ link' \in [Initiators -> {"none", "up", "closed"}]
      /\ \A j \in Initiators : link'[j] = "none" => link[j] = "none"
      /\ outcome' \in [Ends -> Outcomes] /\ outcome'[e] = "crashed"
      /\ \A x \in Ends : x # e => outcome'[x] = outcome[x]
  BY <1>2, <1>3 DEF TalkTyped, Places, Outcomes
<1>6. ServeOK' /\ TalkTyped'
  <2>1. \A i \in Initiators : <<i, "resp">> \in Ends /\ <<i, "resp">> # e
    BY <1>1 DEF Ends
  <2>2. Responder \in PairDevices /\ \A i \in Initiators : i \in PairDevices
    BY DEF PairDevices
  <2>3. ServeOK'
    BY <1>2, <1>3, <1>5, <2>1, <2>2 DEF ServeOK
  <2> QED
    BY <1>2, <1>3, <1>5, <2>3 DEF TalkTyped
<1>7. FilesTyped' /\ NotesTyped'
  BY <1>2, <1>3 DEF FilesTyped, NotesTyped
<1>8. PairTypeOK'
  BY <1>4, <1>6, <1>7, TypedNext
<1>9. Place(e) = step[d] /\ Place(e)' = "ended" /\ outcome[e] = "none"
  <2>1. Place(e) = step[d] /\ Place(e)' = "ended"
    BY <1>1, <1>5 DEF Place
  <2>2. Place(e) # "away"
    BY <1>2, <2>1 DEF ServeOK
  <2> QED
    BY <1>2, <1>3, <2>1, <2>2 DEF EndOK, PlaceOK
<1>10. ASSUME NEW x \in Ends, x # e PROVE Place(x)' = Place(x)
  <2>1. x[1] \in Initiators /\ x = <<x[1], x[2]>> /\ x[2] \in {"init", "resp"}
    BY EndFacts
  <2>2. Responder \in PairDevices /\ x[1] \in PairDevices
    BY <2>1 DEF PairDevices
  <2> QED
    BY <1>1, <1>2, <1>3, <1>5, <1>10, <2>1, <2>2 DEF Place
<1>11. \A c \in PairDevices : Steady(c)
  BY <1>3 DEF Steady
<1>12. ~HoldsAt(d, step[d])'
  BY <1>5 DEF HoldsAt, Writing, Undoing, Reporting
<1>13. At(e)
  <2>1. \A x \in Ends : x # e /\ Owner(x) = Owner(e) => Partner(x) # Partner(e)
    BY OneEnd
  <2>2. \A x \in Ends : Steady(Owner(x))
    BY <1>11, EndFacts
  <2> QED
    BY <1>2, <1>3, <1>4, <1>5, <1>10, <1>11, <1>12, <2>1, <2>2 DEF At
<1>14. Speaks(e)
  BY <1>2, <1>3, Silent
<1>15. Honest(e)
  BY <1>5, <1>9 DEF Honest, HasWritten, HasFailed, Undoing
<1>16. OwnUsers(e)
  BY <1>2, <1>3, <1>5, <1>9 DEF OwnUsers, EndOK, UsersOK, Agreed, Applying, Writing, Reporting, Undoing
<1>17. ConfigOK(d)'
  BY <1>2, <1>3, <1>12 DEF ConfigOK
<1>18. PlaceOK(e)' /\ EarlyOK(e)' /\ ApplyOK(e)' /\ OutcomeOK(e)'
  BY <1>5, <1>9 DEF PlaceOK, EarlyOK, ApplyOK, OutcomeOK, Writing
<1>19. FilesOK(e)'
  BY <1>9 DEF FilesOK, HoldsAt, Writing, Restoring, Reporting, Undoing
<1> QED
  BY <1>2, <1>6, <1>8, <1>13, <1>14, <1>15, <1>16, <1>17, <1>18, <1>19, StepInv

\* The responder's daemon crashes and starts again.
LEMMA ResponderCrashInv ==
    ASSUME PairInv, PairCrash(Responder)
    PROVE  PairInv'
<1>1. /\ PairTypeOK /\ ServeOK /\ TalkTyped /\ FilesTyped /\ NotesTyped /\ FaultsTyped
      /\ Responder \in PairDevices /\ Responder \notin Initiators /\ NoPeer \notin Initiators
      /\ \A i \in Initiators : i \in PairDevices
  BY TypedParts, PairingConstants DEF PairInv, PairDevices
<1>2. /\ UNCHANGED <<inbox, answer, applied, heard, undone, ioFailed>>
      /\ UNCHANGED <<trust, store, savedTrust, config, savedConfig>>
      /\ step' = [step EXCEPT ![Responder] = "idle"] /\ serving' = NoPeer /\ waiting' = {}
      /\ link' = [i \in Initiators |-> IF link[i] = "up" THEN "closed" ELSE link[i]]
      /\ outcome' = [e \in Ends |->
             IF e[2] = "resp" /\ link[e[1]] # "none" /\ outcome[e] = "none"
             THEN "crashed" ELSE outcome[e]]
  BY DEF PairCrash, fileVars, Goto
<1>3. FaultsTyped' /\ budget'.known = budget.known
  BY <1>1, CrashFaults
<1>4. /\ step' \in [PairDevices -> Places] /\ step'[Responder] = "idle"
      /\ \A c \in PairDevices : c # Responder => step'[c] = step[c]
  BY <1>1, <1>2 DEF TalkTyped, Places
<1>5. link' \in [Initiators -> {"none", "up", "closed"}]
  BY <1>1, <1>2 DEF TalkTyped
<1>6. outcome' \in [Ends -> Outcomes]
  <2>1. \A x \in Ends : outcome[x] \in Outcomes /\ "crashed" \in Outcomes
    BY <1>1 DEF TalkTyped, Outcomes
  <2> QED
    BY <1>2, <2>1
<1>7. ServeOK'
  BY <1>1, <1>2, <1>4 DEF ServeOK
<1>8. TalkTyped' /\ FilesTyped' /\ NotesTyped'
  BY <1>1, <1>2, <1>4, <1>5, <1>6 DEF TalkTyped, FilesTyped, NotesTyped
<1>9. PairTypeOK'
  BY <1>3, <1>7, <1>8, TypedNext
<1>10. ~HoldsAt(Responder, step[Responder])'
  BY <1>4 DEF HoldsAt, Writing, Undoing, Reporting
<1>11. \A c \in PairDevices : HoldsAt(c, step[c])' => HoldsAt(c, step[c])
  BY <1>2, <1>4, <1>10 DEF HoldsAt
<1>12. \A c \in PairDevices : ConfigOK(c)'
  BY <1>2, <1>11 DEF PairInv, ConfigOK
<1>13. ASSUME NEW x \in Ends PROVE EndOK(x)'
  <2>1. /\ x[1] \in Initiators /\ x = <<x[1], x[2]>> /\ x[2] \in {"init", "resp"}
        /\ Other(x) \in Ends /\ Owner(x) \in PairDevices /\ EndOK(x)
    BY EndFacts DEF PairInv
  <2>2. ASSUME NEW y \in Ends
        PROVE  /\ y[2] = "init" => Place(y)' = Place(y) /\ outcome'[y] = outcome[y]
               /\ y[2] = "resp" => Place(y)' = "away"
               /\ outcome'[y] # outcome[y] => outcome'[y] = "crashed" /\ outcome[y] = "none"
               /\ outcome'[y] = "none" /\ y[2] = "resp" => Place(y) = "away" /\ outcome[y] = "none"
               /\ y[2] = "resp" /\ Place(y) # "away" => outcome'[y] = "crashed"
    <3>1. y[1] \in Initiators /\ y = <<y[1], y[2]>> /\ y[2] \in {"init", "resp"} /\ EndOK(y)
      BY EndFacts DEF PairInv
    <3>2. outcome'[y] = IF y[2] = "resp" /\ link[y[1]] # "none" /\ outcome[y] = "none"
                        THEN "crashed" ELSE outcome[y]
      BY <1>2
    <3>3. y[2] = "resp" /\ Place(y) # "away" => link[y[1]] # "none" /\ outcome[y] = "none"
      BY <1>1, <3>1 DEF Place, ServeOK
    <3> QED
      BY <1>1, <1>2, <1>4, <3>1, <3>2, <3>3 DEF Place
  <2>3. /\ Agreed(x)' = Agreed(x) /\ Unchanged(x)' = Unchanged(x)
        /\ Before(Owner(x), Partner(x))' = Before(Owner(x), Partner(x))
    BY <1>2, <1>3 DEF Agreed, Unchanged, Before
  <2>4. NotActive(x) => NotActive(x)'
    BY <1>2, <1>11, <2>1 DEF NotActive
  <2>5. PlaceOK(x)'
    BY <2>1, <2>2 DEF EndOK, PlaceOK
  <2>6. EarlyOK(x)'
    BY <2>1, <2>2, <2>3, <2>4 DEF EndOK, EarlyOK, Early, Prompting
  <2>7. UsersOK(x)'
    <3>1. UsersOK(x)
      BY <2>1 DEF EndOK
    <3>2. outcome'[x] = "none" /\ Place(x)' \in Prompting => ~answer'[x]
      BY <1>2, <2>1, <2>2, <3>1 DEF UsersOK, Prompting
    <3>3. Place(x)' \in Applying => Agreed(x)'
      BY <2>1, <2>2, <2>3, <3>1 DEF UsersOK, Applying, Writing, Reporting, Undoing
    <3> QED
      BY <1>2, <2>3, <3>1, <3>2, <3>3 DEF UsersOK
  <2>8. FilesOK(x)' /\ ApplyOK(x)'
    <3>1. CASE x[2] = "resp"
      BY <2>2, <3>1 DEF FilesOK, ApplyOK, HoldsAt, Writing, Restoring, Reporting, Undoing
    <3>2. CASE x[2] = "init"
      <4>1. HoldsAt(Owner(x), Place(x))' = HoldsAt(Owner(x), Place(x)) /\ Place(x)' = Place(x)
        BY <1>2, <2>2, <3>2 DEF HoldsAt
      <4>2. FilesOK(x)'
        BY <1>2, <2>1, <2>3, <4>1 DEF EndOK, FilesOK
      <4> QED
        BY <1>2, <2>1, <4>1, <4>2 DEF EndOK, ApplyOK
    <3> QED
      BY <2>1, <3>1, <3>2
  <2>9. OutcomeOK(x)'
    BY <1>2, <2>1, <2>2, <2>3, <2>4 DEF EndOK, OutcomeOK
  <2>10. ToldOK(x)'
    <3>1. HasWritten(x) => HasWritten(x)'
      BY <1>2, <2>1, <2>2 DEF HasWritten, Undoing
    <3>2. HasFailed(x) => HasFailed(x)'
      BY <1>2, <2>1, <2>2 DEF HasFailed
    <3>3. ToldYes(x)' => ToldYes(x)
      BY <1>2, <2>1, <2>2 DEF ToldYes
    <3>4. ToldNo(x)' => ToldNo(x)
      <4>1. Place(Other(x))' \in Undoing => Place(Other(x))' = Place(Other(x))
        <5>1. Other(x)[2] \in {"init", "resp"}
          BY <2>1, EndFacts
        <5> QED
          BY <2>1, <2>2, <5>1 DEF Undoing
      <4> QED
        BY <1>2, <2>1, <2>2, <4>1 DEF ToldNo
    <3> QED
      BY <2>1, <3>1, <3>2, <3>3, <3>4 DEF EndOK, ToldOK
  <2> QED
    BY <2>5, <2>6, <2>7, <2>8, <2>9, <2>10 DEF EndOK
<1> QED
  BY <1>7, <1>9, <1>12, <1>13 DEF PairInv

-----------------------------------------------------------------------------
(* The theorem                                                              *)

\* Before the first connection no end has done anything.
LEMMA StartInv == PairInit => PairInv
<1> SUFFICES ASSUME PairInit PROVE PairInv
  OBVIOUS
<1>1. /\ step = [d \in PairDevices |-> IF d = Responder THEN "idle" ELSE "dial"]
      /\ serving = NoPeer /\ waiting = {} /\ link = [i \in Initiators |-> "none"]
      /\ inbox = [e \in Ends |-> <<>>] /\ answer = [e \in Ends |-> FALSE]
      /\ budget \in Scenarios /\ ioFailed = FALSE
      /\ trust = [d \in PairDevices |-> [p \in PairDevices |-> Before(d, p)]] /\ store = trust
      /\ savedTrust = [d \in PairDevices |-> "absent"]
      /\ config = [d \in PairDevices |-> NoPeer] /\ savedConfig = config
      /\ applied = [d \in PairDevices |-> FALSE] /\ heard = [d \in PairDevices |-> "nothing"]
      /\ undone = [d \in PairDevices |-> TRUE] /\ outcome = [e \in Ends |-> "none"]
  BY DEF PairInit
<1>2. /\ Responder \in PairDevices /\ Responder \notin Initiators /\ NoPeer \notin PairDevices
      /\ \A i \in Initiators : i \in PairDevices
  BY PairingConstants DEF PairDevices
<1>3. \A d, p \in PairDevices : trust[d][p] = Before(d, p) /\ Before(d, p) \in Entries
                                /\ Before(d, p) # "new"
  BY <1>1 DEF Before, Entries
<1>4. PairTypeOK
  <2>1. budget \in [dialers : SUBSET Initiators, known : SUBSET (PairDevices \X PairDevices),
                    refuse : BOOLEAN, writes : Nat, crashes : Nat, losses : Nat]
    BY <1>1, PairingConstants DEF PairDevices
  <2>2. trust \in [PairDevices -> [PairDevices -> Entries]]
    <3>1. ASSUME NEW d \in PairDevices
          PROVE  [p \in PairDevices |-> Before(d, p)] \in [PairDevices -> Entries]
      BY <1>3
    <3> QED
      BY <1>1, <3>1
  <2>3. inbox \in [Ends -> Seq([id : 0..2, ok : BOOLEAN])]
    <3>1. <<>> \in Seq([id : 0..2, ok : BOOLEAN])
      OBVIOUS
    <3> QED
      BY <1>1, <3>1
  <2>4. Cardinality({}) <= 1
    BY FS_EmptySet
  <2>5. /\ step \in [PairDevices -> Places] /\ link \in [Initiators -> {"none", "up", "closed"}]
        /\ answer \in [Ends -> BOOLEAN] /\ outcome \in [Ends -> Outcomes]
    BY <1>1 DEF Places, Outcomes
  <2>6. /\ savedTrust \in [PairDevices -> Entries]
        /\ config \in [PairDevices -> Initiators \cup {Responder, NoPeer}]
        /\ applied \in [PairDevices -> BOOLEAN] /\ undone \in [PairDevices -> BOOLEAN]
        /\ heard \in [PairDevices -> {"nothing", "yes", "no"}]
    BY <1>1 DEF Entries
  <2> QED
    BY <1>1, <2>1, <2>2, <2>3, <2>4, <2>5, <2>6 DEF PairTypeOK, Places
<1>5. ServeOK
  BY <1>1, <1>2 DEF ServeOK
<1>6. \A d \in PairDevices : ConfigOK(d) /\ ~HoldsAt(d, step[d])
  BY <1>1 DEF ConfigOK, HoldsAt, Writing, Undoing, Reporting
<1>7. ASSUME NEW e \in Ends PROVE EndOK(e)
  <2>1. /\ e[1] \in Initiators /\ e[2] \in {"init", "resp"} /\ Other(e) \in Ends
        /\ Owner(e) \in PairDevices /\ Partner(e) \in PairDevices /\ Other(e)[1] \in Initiators
        /\ Other(e)[2] \in {"init", "resp"}
    BY EndFacts
  <2>2. Place(e) \in {"dial", "away"} /\ Place(Other(e)) \in {"dial", "away"}
    BY <1>1, <1>2, <2>1 DEF Place
  <2>3. outcome[e] = "none" /\ outcome[Other(e)] = "none" /\ ~answer[e]
        /\ inbox[e] = <<>> /\ inbox[Other(e)] = <<>> /\ Elems(<<>>) = {}
    BY <1>1, <2>1 DEF Elems
  <2>4. Unchanged(e) /\ NotActive(e) /\ trust[Owner(e)][Partner(e)] # "new"
    BY <1>1, <1>2, <1>3, <1>6, <2>1 DEF Unchanged, NotActive
  <2>5. PlaceOK(e) /\ EarlyOK(e) /\ OutcomeOK(e) /\ ApplyOK(e)
    BY <2>2, <2>3, <2>4 DEF PlaceOK, EarlyOK, OutcomeOK, ApplyOK, Writing
  <2>6. UsersOK(e)
    BY <2>2, <2>3, <2>4 DEF UsersOK, Applying, Writing, Reporting, Undoing
  <2>7. FilesOK(e)
    BY <2>2 DEF FilesOK, HoldsAt, Writing, Restoring, Reporting, Undoing
  <2>8. ToldOK(e)
    BY <2>2, <2>3 DEF ToldOK, ToldYes, ToldNo, Undoing
  <2> QED
    BY <2>5, <2>6, <2>7, <2>8 DEF EndOK
<1> QED
  BY <1>4, <1>5, <1>6, <1>7 DEF PairInv

\* No step breaks the invariant.
LEMMA NextInv == PairInv /\ [PairNext]_pairVars => PairInv'
<1> SUFFICES ASSUME PairInv, [PairNext]_pairVars PROVE PairInv'
  OBVIOUS
<1>1. ASSUME NEW d \in PairDevices, PairStep(d) PROVE PairInv'
  <2>1. CASE SendApproval(d) \/ ReceiveApproval(d)
    BY <1>1, <2>1, ApprovalSteps
  <2>2. CASE \E expired, ok \in BOOLEAN : LoadSettings(d, expired, ok)
    BY <1>1, <2>2, LoadInv
  <2>3. CASE \E ok, landed \in BOOLEAN :
                \/ InsertEntry(d, ok, landed) \/ FlushTrust(d, ok, landed)
                \/ SaveSettings(d, ok, landed)
                \/ RestoreEntry(d, ok, landed) \/ RestoreFlush(d, ok, landed)
                \/ UndoConfig(d, ok, landed) \/ UndoFlush(d, ok, landed)
    BY <1>1, <2>3, InsertInv, FlushInv, SaveInv, RestoreInv, RestoreFlushInv, UndoConfigInv,
       UndoFlushInv
  <2>4. CASE SendStatus(d) \/ ReceiveStatus(d)
    BY <1>1, <2>4, SendStatusInv, ReceiveStatusInv
  <2>5. CASE \E ok \in BOOLEAN : UndoLoad(d, ok)
    BY <1>1, <2>5, UndoLoadInv
  <2> QED
    BY <1>1, <2>1, <2>2, <2>3, <2>4, <2>5 DEF PairStep
<1>2. ASSUME NEW i \in Initiators, Dial(i) \/ QueueRequest(i) \/ ReceiveResponse(i) \/ LinkLost(i)
      PROVE  PairInv'
  <2>1. i \in PairDevices
    BY DEF PairDevices
  <2> QED
    BY <1>2, <2>1, DialInv, QueueInv, ApprovalSteps, LinkLostInv
<1>3. CASE TakeRequest
  BY <1>3, TakeInv
<1>4. CASE AnswerRequest
  <2>1. Responder \in PairDevices
    BY DEF PairDevices
  <2> QED
    BY <1>4, <2>1, ApprovalSteps
<1>5. ASSUME NEW d \in PairDevices, PairCrash(d) PROVE PairInv'
  BY <1>5, InitiatorCrashInv, ResponderCrashInv DEF PairDevices
<1>6. ASSUME NEW d \in PairDevices, NEW yes \in BOOLEAN, UserAnswers(d, yes) PROVE PairInv'
  BY <1>6, ApprovalSteps
<1>7. CASE UNCHANGED pairVars
  <2>1. /\ UNCHANGED <<step, serving, waiting, link, inbox, answer, trust, store>>
        /\ UNCHANGED <<savedTrust, config, savedConfig, applied, heard, undone, outcome, budget, ioFailed>>
    BY <1>7 DEF pairVars
  <2>2. PairTypeOK' /\ ServeOK'
    BY <2>1 DEF PairInv, PairTypeOK, ServeOK
  <2>3. \A d \in PairDevices : ConfigOK(d)'
    BY <2>1 DEF PairInv, ConfigOK, HoldsAt
  <2>4. ASSUME NEW e \in Ends PROVE EndOK(e)'
    <3>1. /\ EndOK(e) /\ Place(e)' = Place(e) /\ Place(Other(e))' = Place(Other(e))
          /\ Unchanged(e)' = Unchanged(e) /\ NotActive(e)' = NotActive(e)
          /\ Agreed(e)' = Agreed(e) /\ Before(Owner(e), Partner(e))' = Before(Owner(e), Partner(e))
      BY <2>1 DEF PairInv, Place, Unchanged, NotActive, HoldsAt, Agreed, Before
    <3>2. PlaceOK(e)' /\ EarlyOK(e)' /\ OutcomeOK(e)' /\ ApplyOK(e)' /\ UsersOK(e)'
      BY <2>1, <3>1 DEF EndOK, PlaceOK, EarlyOK, OutcomeOK, ApplyOK, UsersOK
    <3>3. FilesOK(e)'
      BY <2>1, <3>1 DEF EndOK, FilesOK, HoldsAt
    <3>4. ToldOK(e)'
      BY <2>1, <3>1 DEF EndOK, ToldOK, ToldYes, ToldNo, HasWritten, HasFailed
    <3> QED
      BY <3>2, <3>3, <3>4 DEF EndOK
  <2> QED
    BY <2>2, <2>3, <2>4 DEF PairInv
<1> QED
  BY <1>1, <1>2, <1>3, <1>4, <1>5, <1>6, <1>7 DEF PairNext

\* The invariant says what the pairing promises.
LEMMA InvGivesConsistency == PairInv => PairingConsistent
<1> SUFFICES ASSUME PairInv PROVE PairingConsistent
  OBVIOUS
<1>1. \A i \in Initiators :
         /\ <<i, "init">> \in Ends /\ Owner(<<i, "init">>) = i /\ Partner(<<i, "init">>) = Responder
         /\ Other(<<i, "init">>) = <<i, "resp">>
         /\ <<i, "resp">> \in Ends /\ Owner(<<i, "resp">>) = Responder /\ Partner(<<i, "resp">>) = i
         /\ Other(<<i, "resp">>) = <<i, "init">>
  BY DEF Ends, Owner, Partner, Other
<1>2. \A e \in Ends : EndOK(e) /\ UsersOK(e) /\ OutcomeOK(e) /\ ToldOK(e)
  BY DEF PairInv, EndOK
<1>3. TrustNeedsBothUsers
  BY <1>1, <1>2 DEF TrustNeedsBothUsers, UsersOK, Agreed
<1>4. ActivePeerIsTrusted
  BY DEF ActivePeerIsTrusted, PairInv, ConfigOK
<1>5. FailureRestoresTrust
  <2>1. ASSUME NEW e \in Ends, outcome[e] \in {"cancelled", "failed", "refused", "unconfirmed"}
        PROVE  /\ trust[Owner(e)][Partner(e)] = Before(Owner(e), Partner(e))
               /\ outcome[e] \in {"refused", "unconfirmed"} => config[Owner(e)] # Partner(e)
    BY <1>2, <2>1 DEF OutcomeOK, Unchanged, NotActive
  <2>2. Responder \notin Initiators
    BY PairingConstants
  <2>3. ASSUME NEW d \in PairDevices, NEW i \in Initiators, d \in {i, Responder}
        PROVE  LET e == <<i, IF d = Responder THEN "resp" ELSE "init">>
                   p == IF d = Responder THEN i ELSE Responder
               IN  outcome[e] \in {"cancelled", "failed", "refused", "unconfirmed"}
                   => /\ trust[d][p] = Before(d, p)
                      /\ outcome[e] \in {"refused", "unconfirmed"} => config[d] # p
    <3>1. CASE d = Responder
      <4>1. PICK e \in Ends : e = <<i, "resp">> /\ Owner(e) = d /\ Partner(e) = i
        BY <1>1, <3>1
      <4> QED
        BY <2>1, <3>1, <4>1
    <3>2. CASE d # Responder
      <4>1. PICK e \in Ends : e = <<d, "init">> /\ Owner(e) = d /\ Partner(e) = Responder
        BY <1>1, <2>3, <3>2
      <4> QED
        BY <2>1, <2>3, <3>2, <4>1
    <3> QED
      BY <3>1, <3>2
  <2> QED
    BY <2>3 DEF FailureRestoresTrust
<1>6. SuccessMeansPeerPersisted
  <2>1. ASSUME NEW e \in Ends, outcome[e] = "paired"
        PROVE  /\ outcome[Other(e)] \in {"none", "paired", "unconfirmed", "dirty", "crashed"}
               /\ trust[IF e[2] = "init" THEN e[1] ELSE Responder]
                       [IF e[2] = "init" THEN Responder ELSE e[1]] = "new"
    <3>1. /\ Other(e) \in Ends /\ Other(Other(e)) = e /\ e[2] \in {"init", "resp"}
          /\ Place(Other(e)) \in {"ended", "away"} \/ outcome[Other(e)] = "none"
      BY <1>2, EndFacts DEF EndOK, PlaceOK
    <3>2. HasWritten(Other(e))
      BY <1>2, <2>1, <3>1 DEF ToldOK, ToldYes
    <3>3. outcome[Other(e)] # "refused"
      <4>1. Place(e) \in {"ended", "away"}
        BY <1>2, <2>1 DEF EndOK, PlaceOK
      <4>2. ~HasFailed(e)
        BY <2>1, <4>1 DEF HasFailed
      <4> QED
        BY <1>2, <4>2 DEF ToldOK, ToldNo
    <3>4. outcome[Other(e)] \in {"none", "paired", "unconfirmed", "dirty", "crashed"}
      BY <3>1, <3>2, <3>3 DEF HasWritten, Undoing
    <3>5. trust[Owner(e)][Partner(e)] = "new"
      BY <1>2, <2>1 DEF OutcomeOK
    <3> QED
      BY <3>1, <3>4, <3>5 DEF Owner, Partner
  <2> QED
    BY <2>1 DEF SuccessMeansPeerPersisted
<1>7. PairTypeOK
  BY DEF PairInv
<1> QED
  BY <1>3, <1>4, <1>5, <1>6, <1>7 DEF PairingConsistent

\* Pairing is consistent over both devices' files, whatever crashes, lost links
\* and failing writes interrupt it: a pinned peer was accepted by both users, the
\* active peer is trusted, a failed attempt leaves the trust store as it was, and
\* one that reports success was persisted by the peer too
\* (complete_pairing_with_approval, apply_pairing_settings and rollback of
\* automatic_pairing.rs), for any number of initiators and any number of faults.
THEOREM PairingSafe == PairSpec => []PairingConsistent
<1>1. PairInit => PairInv
  BY StartInv
<1>2. PairInv /\ [PairNext]_pairVars => PairInv'
  BY NextInv
<1>3. PairInv => PairingConsistent
  BY InvGivesConsistency
<1> QED
  BY <1>1, <1>2, <1>3, PTL DEF PairSpec
=============================================================================
