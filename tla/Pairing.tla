------------------------------ MODULE Pairing ------------------------------
(***************************************************************************)
(* Automatic pairing (apps/desktop/src/automatic_pairing.rs): two devices  *)
(* exchange identities, ask both users to compare a code, exchange the     *)
(* answers, write the peer to the trust store and to the configuration,    *)
(* exchange whether that succeeded, and undo it when the peer could not.   *)
(* Several initiators may dial one responder, which serves them one after  *)
(* the other.  A step below is what runs between two awaits or two writes. *)
(*                                                                         *)
(* A write of a file replaces it atomically.  It may fail, and a write     *)
(* that fails after the rename (the final syncs) has replaced the file all *)
(* the same.  A process may crash anywhere; nothing is undone on restart.  *)
(***************************************************************************)
EXTENDS Naturals, Sequences, FiniteSets

CONSTANTS
    Initiators,      \* devices that dial
    Responder,       \* the device whose daemon answers
    NoPeer,          \* no device
    Scenarios        \* who dials, who is already paired, whether users may
                     \* refuse or be late, and how many file operations may fail,
                     \* processes crash and links break

ASSUME PairingConstants ==
    /\ Responder \notin Initiators
    /\ NoPeer \notin Initiators \cup {Responder}
    /\ Scenarios \subseteq [dialers : SUBSET Initiators,
                            known : SUBSET ((Initiators \cup {Responder}) \X (Initiators \cup {Responder})),
                            refuse : BOOLEAN, writes : Nat, crashes : Nat, losses : Nat]

PairDevices == Initiators \cup {Responder}

VARIABLES
    step,        \* where each device is in its attempt
    serving,     \* the initiator whose connection the responder works on
    waiting,     \* the connections in the responder's channel, at most one
    link,        \* per initiator: "none", "up", "closed"
    inbox,       \* messages in flight to each end of each connection
    answer,      \* the local user's answer
    trust,       \* trust store on disk: what each device has for each peer
    store,       \* FileTrustStore in memory
    savedTrust,  \* AppliedPairingSettings::previous_trust
    config,      \* the active peer in the configuration on disk
    savedConfig, \* AppliedPairingSettings::previous_config
    applied,     \* whether apply_pairing_settings succeeded
    heard,       \* the peer's persistence status: "nothing", "yes", "no"
    undone,      \* whether every write that had to undo it succeeded
    outcome,     \* how the attempt of each end of each connection ended
    budget,      \* the scenario, with the faults that may still happen
    ioFailed     \* whether a file operation has failed

pairVars == <<step, serving, waiting, link, inbox, answer, trust, store,
              savedTrust, config, savedConfig, applied, heard, undone, outcome, budget, ioFailed>>
fileVars == <<trust, store, savedTrust, config, savedConfig>>
wireVars == <<link, inbox>>
faultVars == <<budget, ioFailed>>
queueVars == <<serving, waiting>>

-----------------------------------------------------------------------------
Peer(d) == IF d = Responder THEN serving ELSE Responder
Conn(d) == IF d = Responder THEN serving ELSE d
End(d)  == <<Conn(d), IF d = Responder THEN "resp" ELSE "init">>
Other(e) == <<e[1], IF e[2] = "resp" THEN "init" ELSE "resp">>
Ends == Initiators \X {"init", "resp"}

Entries == {"absent", "old", "new"}
Outcomes == {"none", "paired", "cancelled", "failed", "refused", "unconfirmed",
             "dirty", "crashed"}
Message(id, ok) == [id |-> id, ok |-> ok]

\* What the trust store of d had for p before the attempts.
Before(d, p) == IF <<d, p>> \in budget.known THEN "old" ELSE "absent"

PairInit ==
    /\ step = [d \in PairDevices |-> IF d = Responder THEN "idle" ELSE "dial"]
    /\ serving = NoPeer /\ waiting = {}
    /\ link = [i \in Initiators |-> "none"]
    /\ inbox = [e \in Ends |-> <<>>]
    /\ answer = [e \in Ends |-> FALSE]
    /\ budget \in Scenarios /\ ioFailed = FALSE
    /\ trust = [d \in PairDevices |-> [p \in PairDevices |-> Before(d, p)]]
    /\ store = trust
    /\ savedTrust = [d \in PairDevices |-> "absent"]
    /\ config = [d \in PairDevices |-> NoPeer]
    /\ savedConfig = config
    /\ applied = [d \in PairDevices |-> FALSE]
    /\ heard = [d \in PairDevices |-> "nothing"]
    /\ undone = [d \in PairDevices |-> TRUE]
    /\ outcome = [e \in Ends |-> "none"]

-----------------------------------------------------------------------------
\* A read or write of a file: it succeeds, or it fails with or without effect.
IO(ok) == IF ok THEN UNCHANGED faultVars
          ELSE /\ budget.writes > 0
               /\ budget' = [budget EXCEPT !.writes = @ - 1]
               /\ ioFailed' = TRUE

\* FileTrustStore::write: the whole of the memory replaces the file.
WriteTrust(d, ok, landed) ==
    /\ ok => landed
    /\ IO(ok)
    /\ trust' = IF landed THEN [trust EXCEPT ![d] = store'[d]] ELSE trust

\* Config::save
SaveConfig(d, peer, ok, landed) ==
    /\ ok => landed
    /\ IO(ok)
    /\ config' = IF landed THEN [config EXCEPT ![d] = peer] ELSE config

Goto(d, s) == step' = [step EXCEPT ![d] = s]

\* The attempt is over: the connection is closed, which lets the peer still
\* read what was sent, and the responder goes back to its channel.
Finish(d, how) ==
    /\ outcome' = [outcome EXCEPT ![End(d)] = how]
    /\ link' = [link EXCEPT ![Conn(d)] = "closed"]
    /\ Goto(d, IF d = Responder THEN "idle" ELSE "ended")
    /\ serving' = IF d = Responder THEN NoPeer ELSE serving

\* send_pairing_message on a connection that is up.  On one that is closed the
\* send fails, or the bytes are accepted locally and never arrive.
Sends(d, m) ==
    IF link[Conn(d)] = "up"
    THEN inbox' = [inbox EXCEPT ![Other(End(d))] = Append(@, m)]
    ELSE UNCHANGED inbox

SendFails(d) == link[Conn(d)] # "up"

\* recv_pairing_message: the next message, if it has the expected id.
Receives(d, id) ==
    /\ inbox[End(d)] # <<>>
    /\ Head(inbox[End(d)]).id = id
    /\ inbox' = [inbox EXCEPT ![End(d)] = Tail(@)]

\* PAIRING_MESSAGE_TIMEOUT, or the end of the connection.
ReceiveFailsOnClose(d) == inbox[End(d)] = <<>> /\ link[Conn(d)] # "up"
ReceiveFails(d) == inbox[End(d)] = <<>>

-----------------------------------------------------------------------------
(* Dialling and the responder's channel.                                   *)

\* initiate: connect, then Request.
Dial(i) ==
    /\ step[i] = "dial" /\ i \in budget.dialers
    /\ link' = [link EXCEPT ![i] = "up"]
    /\ inbox' = [inbox EXCEPT ![<<i, "resp">>] = <<Message(0, TRUE)>>]
    /\ Goto(i, "awaitResponse")
    /\ UNCHANGED <<queueVars, answer, fileVars, applied, heard, undone, outcome, faultVars>>

ChannelFree == waiting = {}

\* The handler of spawn_responder: try_send into a channel of capacity one, and
\* a connection that does not fit is dropped.
QueueRequest(i) ==
    /\ link[i] = "up" /\ i # serving /\ i \notin waiting
    /\ outcome[<<i, "resp">>] = "none"
    /\ IF ChannelFree
       THEN waiting' = waiting \cup {i} /\ UNCHANGED <<link, inbox, outcome>>
       ELSE /\ link' = [link EXCEPT ![i] = "closed"]
            /\ inbox' = [inbox EXCEPT ![<<i, "resp">>] = <<>>]
            /\ outcome' = [outcome EXCEPT ![<<i, "resp">>] = "failed"]
            /\ UNCHANGED waiting
    /\ UNCHANGED <<step, serving, answer, fileVars, applied, heard, undone, faultVars>>

\* The responder task takes the next connection: respond loads the
\* configuration and receives the Request.
TakeRequest ==
    /\ step[Responder] = "idle"
    /\ \E i \in waiting : serving' = i /\ waiting' = waiting \ {i}
    /\ Goto(Responder, "awaitRequest")
    /\ UNCHANGED <<wireVars, answer, fileVars, applied, heard, undone, outcome, faultVars>>

\* respond_pairing_handshake: Request in, a session with a fresh token, Response out.
AnswerRequest ==
    /\ step[Responder] = "awaitRequest"
    /\ LET e == End(Responder) IN
       \/ /\ inbox[e] # <<>> /\ Head(inbox[e]).id = 0
          /\ \/ /\ inbox' = [inbox EXCEPT ![e] = Tail(@),
                                ![Other(e)] = IF link[serving] = "up"
                                              THEN Append(@, Message(0, TRUE)) ELSE @]
                /\ Goto(Responder, "prompt")
                /\ UNCHANGED <<queueVars, link, outcome>>
             \/ /\ SendFails(Responder)
                /\ inbox' = [inbox EXCEPT ![e] = Tail(@)]
                /\ Finish(Responder, "failed") /\ UNCHANGED waiting
       \/ /\ ReceiveFails(Responder)
          /\ Finish(Responder, "failed") /\ UNCHANGED <<waiting, inbox>>
    /\ UNCHANGED <<answer, fileVars, applied, heard, undone, faultVars>>

\* initiate_pairing_handshake, second half: Response in, or an error.
ReceiveResponse(i) ==
    /\ step[i] = "awaitResponse"
    /\ \/ /\ Receives(i, 0)
          /\ Goto(i, "prompt")
          /\ UNCHANGED <<queueVars, link, outcome>>
       \/ /\ ReceiveFails(i)
          /\ Finish(i, "failed") /\ UNCHANGED <<waiting, inbox>>
    /\ UNCHANGED <<answer, fileVars, applied, heard, undone, faultVars>>

-----------------------------------------------------------------------------
(* Approval.                                                               *)

\* prompt_for_approval: a blocking read of standard input, without a timeout.
UserAnswers(d, yes) ==
    /\ step[d] = "prompt" /\ (yes \/ budget.refuse)
    /\ answer' = [answer EXCEPT ![End(d)] = yes]
    /\ Goto(d, "sendApproval")
    /\ UNCHANGED <<queueVars, wireVars, fileVars, applied, heard, undone, outcome, faultVars>>

\* exchange_pairing_approval, first half.
SendApproval(d) ==
    /\ step[d] = "sendApproval"
    /\ \/ /\ Sends(d, Message(1, answer[End(d)]))
          /\ Goto(d, "awaitApproval")
          /\ UNCHANGED <<queueVars, link, outcome>>
       \/ /\ SendFails(d)
          /\ Finish(d, "failed") /\ UNCHANGED <<waiting, inbox>>
    /\ UNCHANGED <<answer, fileVars, applied, heard, undone, faultVars>>

BothAccepted(d) == answer[End(d)] /\ Head(inbox[End(d)]).ok

\* exchange_pairing_approval, second half: both users accepted, or the session
\* is rejected, or the receive failed.
ReceiveApproval(d) ==
    /\ step[d] = "awaitApproval"
    /\ \/ /\ Receives(d, 1)
          /\ IF BothAccepted(d)
             THEN Goto(d, "load") /\ UNCHANGED <<queueVars, link, outcome>>
             ELSE Finish(d, "cancelled") /\ UNCHANGED waiting
       \/ /\ ReceiveFails(d)
          /\ Finish(d, "failed") /\ UNCHANGED <<waiting, inbox>>
    /\ UNCHANGED <<answer, fileVars, applied, heard, undone, faultVars>>

-----------------------------------------------------------------------------
(* apply_pairing_settings.                                                 *)

\* PairingToken::check_live: the session is used once, so a token is refused only
\* when a user has let its DEFAULT_PAIRING_TTL pass.
MayExpire == budget.refuse

\* FileTrustStore::insert and remove: the memory changes whatever the write does.
Inserted(d, entry) == store' = [store EXCEPT ![d][Peer(d)] = entry]

\* Load both files and remember what they hold.  A file that cannot be loaded
\* fails the attempt before anything is written; an expired
\* token is refused by verify_and_accept, after which the previous
\* entry is written back all the same.
LoadSettings(d, expired, ok) ==
    /\ step[d] = "load" /\ (expired => MayExpire)
    /\ IO(ok)
    /\ IF ok
       THEN /\ store' = [store EXCEPT ![d] = trust[d]]
            /\ savedTrust' = [savedTrust EXCEPT ![d] = trust[d][Peer(d)]]
            /\ savedConfig' = [savedConfig EXCEPT ![d] = config[d]]
            /\ Goto(d, IF expired THEN "restoreInsert" ELSE "insert")
       ELSE Goto(d, "sendStatus") /\ UNCHANGED <<store, savedTrust, savedConfig>>
    /\ applied' = [applied EXCEPT ![d] = FALSE]
    /\ heard' = [heard EXCEPT ![d] = "nothing"]
    /\ undone' = [undone EXCEPT ![d] = TRUE]
    /\ UNCHANGED <<queueVars, wireVars, answer, trust, config, outcome>>

\* PairingSession::accept: insert into the store, whose write is best effort.
InsertEntry(d, ok, landed) ==
    /\ step[d] = "insert"
    /\ Inserted(d, "new")
    /\ WriteTrust(d, ok, landed)
    /\ Goto(d, "flush")
    /\ UNCHANGED <<queueVars, wireVars, answer, savedTrust, config, savedConfig,
                   applied, heard, undone, outcome>>

\* FileTrustStore::flush, whose failure is an error of confirm_pairing.
FlushTrust(d, ok, landed) ==
    /\ step[d] = "flush"
    /\ UNCHANGED store
    /\ WriteTrust(d, ok, landed)
    /\ Goto(d, IF ok THEN "save" ELSE "restoreInsert")
    /\ UNCHANGED <<queueVars, wireVars, answer, savedTrust, config, savedConfig,
                   applied, heard, undone, outcome>>

\* The configuration names the peer as the active one.
SaveSettings(d, ok, landed) ==
    /\ step[d] = "save"
    /\ SaveConfig(d, Peer(d), ok, landed)
    /\ applied' = [applied EXCEPT ![d] = ok]
    /\ Goto(d, IF ok THEN "sendStatus" ELSE "restoreInsert")
    /\ UNCHANGED <<queueVars, wireVars, answer, trust, store, savedTrust,
                   savedConfig, heard, undone, outcome>>

\* The entry from before the attempt is put back, or removed if there was none.
PreviousEntry(d) == savedTrust[d]

\* restore_trust_entry, on an error of this device or, after loading the store
\* again, on an error of the peer ("undo").
RestoreEntry(d, ok, landed) ==
    /\ step[d] \in {"restoreInsert", "undoInsert"}
    /\ Inserted(d, PreviousEntry(d))
    /\ WriteTrust(d, ok, landed)
    /\ Goto(d, IF step[d] = "undoInsert" THEN "undoFlush" ELSE "restoreFlush")
    /\ UNCHANGED <<queueVars, wireVars, answer, savedTrust, config, savedConfig,
                   applied, heard, undone, outcome>>

RestoreFlush(d, ok, landed) ==
    /\ step[d] = "restoreFlush"
    /\ UNCHANGED store
    /\ WriteTrust(d, ok, landed)
    /\ undone' = [undone EXCEPT ![d] = ok]
    /\ Goto(d, "sendStatus")
    /\ UNCHANGED <<queueVars, wireVars, answer, savedTrust, config, savedConfig,
                   applied, heard, outcome>>

-----------------------------------------------------------------------------
(* The outcome exchange and AppliedPairingSettings::rollback.              *)

\* rollback_applied starts with the configuration.
RollbackStart == "undoConfig"

\* The peer's status counts as success only when it was received.
NotRefused(h) == h # "no"
Confirmed(h) == h = "yes"

FailedAs(d) == IF undone[d] THEN "failed" ELSE "dirty"

\* exchange_pairing_persistence, first half: nothing is received when the send
\* fails.
SendStatus(d) ==
    /\ step[d] = "sendStatus"
    /\ \/ /\ Sends(d, Message(2, applied[d]))
          /\ Goto(d, "awaitStatus")
          /\ UNCHANGED <<queueVars, link, outcome>>
       \/ /\ SendFails(d)
          /\ IF applied[d]
             THEN Goto(d, RollbackStart) /\ UNCHANGED <<queueVars, link, outcome>>
             ELSE Finish(d, FailedAs(d)) /\ UNCHANGED waiting
          /\ UNCHANGED inbox
    /\ UNCHANGED <<answer, fileVars, applied, heard, undone, faultVars>>

\* exchange_pairing_persistence, second half: only success on both sides stands.
ReceiveStatus(d) ==
    /\ step[d] = "awaitStatus"
    /\ \/ /\ Receives(d, 2)
          /\ heard' = [heard EXCEPT ![d] = IF Head(inbox[End(d)]).ok THEN "yes" ELSE "no"]
       \/ ReceiveFails(d) /\ UNCHANGED <<inbox, heard>>
    /\ CASE ~applied[d] -> Finish(d, FailedAs(d)) /\ UNCHANGED waiting
         [] applied[d] /\ Confirmed(heard'[d]) -> Finish(d, "paired") /\ UNCHANGED waiting
         [] OTHER -> Goto(d, RollbackStart) /\ UNCHANGED <<queueVars, link, outcome>>
    /\ UNCHANGED <<answer, fileVars, applied, undone, faultVars>>

\* rollback restores the configuration first ...
UndoConfig(d, ok, landed) ==
    /\ step[d] = "undoConfig"
    /\ SaveConfig(d, savedConfig[d], ok, landed)
    /\ undone' = [undone EXCEPT ![d] = @ /\ ok]
    /\ Goto(d, "undoLoad")
    /\ UNCHANGED <<queueVars, wireVars, answer, trust, store, savedTrust,
                   savedConfig, applied, heard, outcome>>

RolledBackAs(d, ok) == CASE ~ok -> "dirty"
                         [] ok /\ heard[d] = "no" -> "refused"
                         [] OTHER -> "unconfirmed"

\* ... then loads the trust store again ...
UndoLoad(d, ok) ==
    /\ step[d] = "undoLoad"
    /\ IO(ok)
    /\ IF ok THEN /\ store' = [store EXCEPT ![d] = trust[d]]
                  /\ Goto(d, "undoInsert") /\ UNCHANGED <<queueVars, link, outcome>>
             ELSE Finish(d, "dirty") /\ UNCHANGED <<waiting, store>>
    /\ UNCHANGED <<inbox, answer, trust, savedTrust, config, savedConfig,
                   applied, heard, undone>>

\* ... and, after RestoreEntry, flushes it.
UndoFlush(d, ok, landed) ==
    /\ step[d] = "undoFlush"
    /\ UNCHANGED store
    /\ WriteTrust(d, ok, landed)
    /\ Finish(d, RolledBackAs(d, ok /\ undone[d])) /\ UNCHANGED waiting
    /\ UNCHANGED <<inbox, answer, savedTrust, config, savedConfig, applied, heard, undone>>

-----------------------------------------------------------------------------
\* The link breaks: what is in flight is lost, or still delivered.
LinkLost(i) ==
    /\ link[i] = "up" /\ budget.losses > 0
    /\ UNCHANGED ioFailed
    /\ link' = [link EXCEPT ![i] = "closed"]
    /\ \E lost \in SUBSET {"init", "resp"} :
          inbox' = [e \in Ends |-> IF e[1] = i /\ e[2] \in lost THEN <<>> ELSE inbox[e]]
    /\ budget' = [budget EXCEPT !.losses = @ - 1]
    /\ UNCHANGED <<step, queueVars, answer, fileVars, applied, heard, undone, outcome>>

\* A process crashes: an initiator is gone, the responder's daemon is started
\* again and has lost its connections.
PairCrash(d) ==
    /\ budget.crashes > 0
    /\ step[d] \notin {"dial", "ended"}
    /\ UNCHANGED ioFailed
    /\ budget' = [budget EXCEPT !.crashes = @ - 1]
    /\ IF d = Responder
       THEN /\ Goto(d, "idle") /\ serving' = NoPeer /\ waiting' = {}
            /\ link' = [i \in Initiators |-> IF link[i] = "up" THEN "closed" ELSE link[i]]
            /\ outcome' = [e \in Ends |->
                   IF e[2] = "resp" /\ link[e[1]] # "none" /\ outcome[e] = "none"
                   THEN "crashed" ELSE outcome[e]]
       ELSE /\ Goto(d, "ended")
            /\ link' = [link EXCEPT ![d] = "closed"]
            /\ outcome' = [outcome EXCEPT ![<<d, "init">>] = "crashed"]
            /\ UNCHANGED queueVars
    /\ UNCHANGED <<inbox, answer, fileVars, applied, heard, undone>>

-----------------------------------------------------------------------------
PairStep(d) ==
    \/ SendApproval(d) \/ ReceiveApproval(d)
    \/ \E expired, ok \in BOOLEAN : LoadSettings(d, expired, ok)
    \/ \E ok, landed \in BOOLEAN :
          \/ InsertEntry(d, ok, landed) \/ FlushTrust(d, ok, landed)
          \/ SaveSettings(d, ok, landed)
          \/ RestoreEntry(d, ok, landed) \/ RestoreFlush(d, ok, landed)
          \/ UndoConfig(d, ok, landed) \/ UndoFlush(d, ok, landed)
    \/ SendStatus(d) \/ ReceiveStatus(d)
    \/ \E ok \in BOOLEAN : UndoLoad(d, ok)

PairNext ==
    \/ \E i \in Initiators : Dial(i) \/ QueueRequest(i) \/ ReceiveResponse(i) \/ LinkLost(i)
    \/ TakeRequest \/ AnswerRequest
    \/ \E d \in PairDevices :
          \/ PairStep(d) \/ PairCrash(d)
          \/ \E yes \in BOOLEAN : UserAnswers(d, yes)

\* Every await of the exchange is bounded by PAIRING_MESSAGE_TIMEOUT and every
\* other step is local; only the users, who may never answer, are not fair.
PairFairness == \A d \in PairDevices : WF_pairVars(PairStep(d))

PairSpec == PairInit /\ [][PairNext]_pairVars

-----------------------------------------------------------------------------
PairTypeOK ==
    /\ step \in [PairDevices -> {"dial", "idle", "ended", "awaitRequest", "awaitResponse",
           "prompt", "sendApproval", "awaitApproval", "load", "insert", "flush", "save",
           "restoreInsert", "restoreFlush", "sendStatus", "awaitStatus", "undoConfig",
           "undoLoad", "undoInsert", "undoFlush"}]
    /\ serving \in Initiators \cup {NoPeer} /\ waiting \in SUBSET Initiators
    /\ Cardinality(waiting) <= 1
    /\ link \in [Initiators -> {"none", "up", "closed"}]
    /\ inbox \in [Ends -> Seq([id : 0..2, ok : BOOLEAN])]
    /\ answer \in [Ends -> BOOLEAN]
    /\ trust \in [PairDevices -> [PairDevices -> Entries]]
    /\ store \in [PairDevices -> [PairDevices -> Entries]]
    /\ savedTrust \in [PairDevices -> Entries]
    /\ config \in [PairDevices -> Initiators \cup {Responder, NoPeer}]
    /\ savedConfig \in [PairDevices -> Initiators \cup {Responder, NoPeer}]
    /\ applied \in [PairDevices -> BOOLEAN] /\ undone \in [PairDevices -> BOOLEAN]
    /\ outcome \in [Ends -> Outcomes]
    /\ heard \in [PairDevices -> {"nothing", "yes", "no"}]
    /\ budget \in [dialers : SUBSET Initiators, known : SUBSET (PairDevices \X PairDevices),
                   refuse : BOOLEAN, writes : Nat, crashes : Nat, losses : Nat]
    /\ ioFailed \in BOOLEAN

\* A peer pinned by this attempt, in the file of either side, was accepted by
\* both users: no crash, failed write or rollback ever leaves a new entry that
\* one of them had refused (complete_pairing_with_approval).
TrustNeedsBothUsers ==
    \A i \in Initiators :
        trust[i][Responder] = "new" \/ trust[Responder][i] = "new"
            => answer[<<i, "init">>] /\ answer[<<i, "resp">>]

\* The active peer of the configuration is in the trust store, at every moment
\* and so after a crash at any moment: apply writes trust before configuration
\* and rollback restores them in the opposite order.  Only a failing write of
\* one of the files may break this.
ActivePeerIsTrusted ==
    ~ioFailed =>
        \A d \in PairDevices : config[d] # NoPeer => trust[d][config[d]] # "absent"

\* An attempt that ends without success and reports no failed rollback leaves the
\* trust store as it was, and after a rollback the configuration does not name
\* the peer (apply_pairing_settings' error paths, AppliedPairingSettings::rollback).
FailureRestoresTrust ==
    \A d \in PairDevices : \A i \in Initiators :
        LET e == <<i, IF d = Responder THEN "resp" ELSE "init">>
            p == IF d = Responder THEN i ELSE Responder
        IN  (d \in {i, Responder} /\ outcome[e] \in {"cancelled", "failed", "refused", "unconfirmed"})
            => /\ trust[d][p] = Before(d, p)
               /\ outcome[e] \in {"refused", "unconfirmed"} => config[d] # p

\* A device that reports success has its peer pinned, and the peer had written
\* its own side too: afterwards the peer either has the new entry, or rolled it
\* back because the confirmation it waited for did not arrive, or crashed, or
\* could not undo its files.  It never ends as refused, failed or cancelled.
SuccessMeansPeerPersisted ==
    \A e \in Ends :
        outcome[e] = "paired" =>
            /\ outcome[Other(e)] \in {"none", "paired", "unconfirmed", "dirty", "crashed"}
            /\ trust[IF e[2] = "init" THEN e[1] ELSE Responder]
                    [IF e[2] = "init" THEN Responder ELSE e[1]] = "new"

\* The pairing transaction over both devices' files: nothing is pinned that a
\* user refused, the configuration follows the trust store, and the outcome each
\* side reports is true of its own files and consistent with the other's.
PairingConsistent ==
    /\ PairTypeOK
    /\ TrustNeedsBothUsers
    /\ ActivePeerIsTrusted
    /\ FailureRestoresTrust
    /\ SuccessMeansPeerPersisted

\* An attempt whose user has answered ends, whatever becomes of the peer, because
\* every wait is bounded: the users make finitely many attempts, so there comes a
\* time from which every device waits for a user or a request, or for nothing.
AttemptEnds ==
    <>[](\A d \in PairDevices :
            step[d] \in {"dial", "idle", "ended", "awaitRequest", "awaitResponse", "prompt"})
=============================================================================
