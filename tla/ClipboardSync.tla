--------------------------- MODULE ClipboardSync ---------------------------
(***************************************************************************)
(* Clipboard synchronisation: apps/desktop/src/clipboard_runtime.rs runs   *)
(* one session per connected peer, each with a ClipboardSync of its own    *)
(* (crates/clipboard/src/sync.rs) whose ConflictResolver orders the        *)
(* selections of that link (crates/clipboard/src/conflict.rs).  All the    *)
(* sessions of a device share its one clipboard.                           *)
(*                                                                         *)
(* A stamp (sequence, wall clock, origin) is compared only with stamps and *)
(* clocks of the same link, so a stamp is its rank among them: ranks are   *)
(* renumbered after every step, and a new stamp is placed anywhere above   *)
(* the clock of its resolver, which is what wall clocks that disagree can  *)
(* produce; with Synchronised clocks it is above all the others.           *)
(***************************************************************************)
EXTENDS Naturals, Sequences, FiniteSets

CONSTANTS
    ClipDevices,   \* the devices
    Topologies,    \* sets of links <<d, p>>, both directions listed
    Contents,      \* selections
    Concealed,     \* those marked as secret by the application that copied them
    TooLarge,      \* those that do not fit one frame of the transport
    Blank,         \* an empty clipboard
    Synchronised,  \* whether all devices read the same wall clock
    MaxCopies,     \* bound on the selections users make
    MaxClipFaults  \* bound on failed clipboard operations and lost links

ASSUME ClipboardConstants ==
    /\ Concealed \subseteq Contents /\ TooLarge \subseteq Contents /\ Blank \notin Contents
    /\ Synchronised \in BOOLEAN /\ MaxCopies \in Nat /\ MaxClipFaults \in Nat
    /\ \A t \in Topologies :
          /\ t \subseteq ClipDevices \X ClipDevices
          /\ \A s \in t : s[1] # s[2] /\ <<s[2], s[1]>> \in t

VARIABLES
    links,     \* the sessions: <<d, p>> is d's session with p
    clip,      \* the clipboard of each device
    resolver,  \* per session: [clock, rank, held]
    updates,   \* per session: updates in flight to it
    connected, \* per session: whether its connection is up
    copies,    \* selections made so far
    clipFaults

clipVars == <<links, clip, resolver, updates, connected, copies, clipFaults>>

-----------------------------------------------------------------------------
Back(s) == <<s[2], s[1]>>

\* ConflictResolver::new; rank 0 is no selection.
FreshResolver == [clock |-> 0, rank |-> 0, held |-> Blank]

\* The clocks and ranks in use on the link of session s.
RanksInUse(s, res, ups) ==
    UNION {{res[e].clock, res[e].rank} \cup {ups[e][i].rank : i \in DOMAIN ups[e]} : e \in {s, Back(s)}}

Renumber(used, r) == 2 * Cardinality({v \in used \ {0} : v <= r})

\* The resolvers and updates of all sessions, with those of s's link renumbered.
Renumbered(s, res, ups) ==
    LET used == RanksInUse(s, res, ups)
    IN  /\ resolver' = [e \in links |-> IF e \notin {s, Back(s)} THEN res[e]
                            ELSE [res[e] EXCEPT !.clock = Renumber(used, @), !.rank = Renumber(used, @)]]
        /\ updates' = [e \in links |-> IF e \notin {s, Back(s)} THEN ups[e]
                           ELSE [i \in DOMAIN ups[e] |-> [ups[e][i] EXCEPT !.rank = Renumber(used, @)]]]

\* ConflictResolver::on_local_change: max(clock + 1, now).
NewRanks(s) ==
    LET used == RanksInUse(s, resolver, updates)
        top  == CHOOSE v \in used : \A w \in used : w <= v
    IN  IF Synchronised THEN {top + 1}
        ELSE {v + 1 : v \in {w \in used : w >= resolver[s].clock}}

ClipInit ==
    /\ links \in Topologies
    /\ clip = [d \in ClipDevices |-> Blank]
    /\ resolver = [s \in links |-> FreshResolver]
    /\ updates = [s \in links |-> <<>>]
    /\ connected = [s \in links |-> TRUE]
    /\ copies = 0 /\ clipFaults = 0

ClipFault == /\ clipFaults < MaxClipFaults
             /\ clipFaults' = clipFaults + 1

-----------------------------------------------------------------------------
\* A user, or an application, puts a selection on the clipboard.
CopySelection(d, c) ==
    /\ copies < MaxCopies
    /\ clip' = [clip EXCEPT ![d] = c]
    /\ copies' = copies + 1
    /\ UNCHANGED <<links, resolver, updates, connected, clipFaults>>

\* ClipboardSync::prepare_outbound leaves concealed selections alone, and one
\* that is too large is an error.
LocalOnly == Concealed \cup TooLarge
Sendable(c) == c # Blank /\ c \notin LocalOnly

\* poll_and_send with prepare_outbound: a selection that is not secret and not
\* the one this session holds is stamped and sent.  A send on a connection that
\* is gone ends the session, after the resolver has taken the selection.
PollAndSend(s) ==
    LET c == clip[s[1]] IN
    /\ connected[s]
    /\ Sendable(c) /\ resolver[s].held # c
    /\ \E r \in NewRanks(s) :
          LET res == [resolver EXCEPT ![s] = [clock |-> r, rank |-> r, held |-> c]]
          IN  Renumbered(s, res, [updates EXCEPT ![Back(s)] = Append(@, [rank |-> r, held |-> c])])
    /\ UNCHANGED <<links, clip, connected, copies, clipFaults>>

\* Mutant of OnInbound: the first selection wins.
OnInboundFirst(res, u) ==
    LET seen == [res EXCEPT !.clock = IF u.rank > @ THEN u.rank ELSE @]
    IN  IF res.rank > 0 THEN [after |-> seen, apply |-> FALSE]
        ELSE [after |-> [seen EXCEPT !.rank = u.rank, !.held = u.held], apply |-> TRUE]

\* ConflictResolver::on_inbound: [the resolver after it, whether to apply].
OnInbound(res, u) ==
    LET seen == [res EXCEPT !.clock = IF u.rank > @ THEN u.rank ELSE @]
    IN  CASE res.held = u.held -> [after |-> IF u.rank > res.rank THEN [seen EXCEPT !.rank = u.rank] ELSE seen,
                                   apply |-> FALSE]
          [] res.held # u.held /\ res.rank > u.rank -> [after |-> seen, apply |-> FALSE]
          [] OTHER -> [after |-> [seen EXCEPT !.rank = u.rank, !.held = u.held], apply |-> TRUE]

\* ClipboardSync::accept_inbound: the resolver decides.  A payload that is too
\* large, or does not open, decompress and decode, would end the session; the
\* same program at the other end sends none (SecretsStayLocal).
AcceptInbound(s, u) == OnInbound(resolver[s], u)

\* The clipboard of d with the selection of an accepted update.
BoardKept(d, c) == clip
BoardWith(d, c) == [clip EXCEPT ![d] = c]

\* receive_and_apply: the resolver takes the update before the clipboard is
\* written, and a failed write is only logged.
ReceiveAndApply(s) ==
    /\ connected[s] /\ updates[s] # <<>>
    /\ LET u == Head(updates[s])
           d == AcceptInbound(s, u)
       IN  /\ Renumbered(s, [resolver EXCEPT ![s] = d.after], [updates EXCEPT ![s] = Tail(@)])
           /\ \/ /\ clip' = IF d.apply THEN BoardWith(s[1], u.held) ELSE clip
                 /\ UNCHANGED clipFaults
              \/ /\ d.apply /\ ClipFault
                 /\ UNCHANGED clip
    /\ UNCHANGED <<links, connected, copies>>

\* The connection ends with everything in flight; each side notices on its own
\* when it next sends or receives.
Disconnect(s) ==
    /\ connected[s]
    /\ connected' = [connected EXCEPT ![s] = FALSE, ![Back(s)] = FALSE]
    /\ updates' = [updates EXCEPT ![s] = <<>>, ![Back(s)] = <<>>]
    /\ UNCHANGED <<links, clip, resolver, copies>>

\* poll_and_send when prepare_outbound fails: the error ends the session, whose
\* handler closes the connection.
PollTooLarge(s) ==
    /\ clip[s[1]] \in TooLarge \ Concealed
    /\ Disconnect(s)
    /\ UNCHANGED clipFaults

\* The network loses the connection.
ConnectionLost(s) == ClipFault /\ Disconnect(s)

\* The next connection starts a session with a fresh resolver on both sides.
Reconnected(s) ==
    /\ ~connected[s]
    /\ connected' = [connected EXCEPT ![s] = TRUE, ![Back(s)] = TRUE]
    /\ resolver' = [resolver EXCEPT ![s] = FreshResolver, ![Back(s)] = FreshResolver]
    /\ UNCHANGED <<links, clip, updates, copies, clipFaults>>

-----------------------------------------------------------------------------
SessionStep(s) == PollAndSend(s) \/ PollTooLarge(s) \/ ReceiveAndApply(s) \/ Reconnected(s)

ClipNext ==
    \/ \E d \in ClipDevices, c \in Contents : CopySelection(d, c)
    \/ \E s \in links : SessionStep(s) \/ ConnectionLost(s)

\* The poll timer fires for ever, received updates are handled, and a lost
\* peer is dialled again.
ClipFairness ==
    \A s \in UNION Topologies :
        /\ WF_clipVars(s \in links /\ PollAndSend(s))
        /\ WF_clipVars(s \in links /\ ReceiveAndApply(s))
        /\ WF_clipVars(s \in links /\ Reconnected(s))

ClipSpec == ClipInit /\ [][ClipNext]_clipVars

-----------------------------------------------------------------------------
ClipTypeOK ==
    /\ links \in SUBSET (ClipDevices \X ClipDevices)
    /\ clip \in [ClipDevices -> Contents \cup {Blank}]
    /\ resolver \in [links -> [clock : Nat, rank : Nat, held : Contents \cup {Blank}]]
    /\ updates \in [links -> Seq([rank : Nat, held : Contents])]
    /\ connected \in [links -> BOOLEAN]
    /\ copies \in 0..MaxCopies /\ clipFaults \in 0..MaxClipFaults

\* A selection marked as secret, or too large for a frame, stays on the device
\* where it was copied: it is never in flight, held by a resolver, or on a
\* clipboard its user did not put it on (prepare_outbound).  So the receiver's
\* own size limit, which is the same, never ends a session.
SecretsStayLocal ==
    \A s \in links : /\ resolver[s].held \notin LocalOnly
                     /\ \A i \in DOMAIN updates[s] : updates[s][i].held \notin LocalOnly

\* The resolvers of the two ends of a link hold different selections only while
\* an update is in flight between them: neither an echo nor a selection that
\* loses by its stamp leaves a link silently split (ConflictResolver::on_inbound
\* and on_local_change, prepare_outbound's check of the held selection).
NoSilentSplit ==
    \A s \in links :
        (connected[s] /\ resolver[s].held # resolver[Back(s)].held)
            => updates[s] # <<>> \/ updates[Back(s)] # <<>>

\* What a clipboard session guarantees at every moment.
LinksAgree ==
    /\ ClipTypeOK
    /\ SecretsStayLocal
    /\ NoSilentSplit

\* When users stop copying, the devices of a link come to have the same
\* selection, whatever the order of arrival and the lost connections: "all peers
\* converge on the same selection regardless of arrival order"
\* (crates/clipboard/src/conflict.rs).  Selections that are secret or
\* too large are left alone, and a clipboard that was empty may stay so when the
\* write of the update failed.
ClipboardsConverge ==
    <>[](\A s \in links :
            \/ clip[s[1]] = clip[s[2]]
            \/ {clip[s[1]], clip[s[2]]} \cap LocalOnly # {}
            \/ clipFaults > 0 /\ Blank \in {clip[s[1]], clip[s[2]]})
=============================================================================
