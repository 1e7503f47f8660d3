--------------------------- MODULE Collaboration ---------------------------
(***************************************************************************)
(* A collaborative session (crates/core/src/collaboration.rs) started from *)
(* a team (crates/core/src/management.rs): who takes part, whose cursor is *)
(* shown, who has asked for control, and the one lease that delegates it.  *)
(* A user may leave and join again under a new participant id; time passes *)
(* between calls and is passed in by the caller.                           *)
(***************************************************************************)
EXTENDS Naturals, FiniteSets

CONSTANTS
    CollabDevices,     \* devices that may take part
    HostDevice,        \* the device that hosts the session
    ParticipantIds,    \* participant ids, each used for one membership
    Modes,             \* collaboration modes of this instance
    MaxParticipants,   \* CollaborationPolicy::max_participants, per mode
    DefaultLease,      \* CollaborationPolicy::default_lease_millis, per mode
    JoinRoles,         \* roles in which participants join
    Durations,         \* lease durations a caller may pass; 0 is refused
    MaxNow,            \* bound on the clock
    MaxMembers         \* bound on changes of the team

ASSUME CollaborationConstants ==
    /\ HostDevice \in CollabDevices
    /\ Modes \subseteq {"SharedCursor", "PairProgramming", "CollaborativeControl", "RemoteTeaching"}
    /\ MaxParticipants \in [Modes -> Nat] /\ DefaultLease \in [Modes -> Nat]
    /\ JoinRoles \subseteq STRING /\ Durations \subseteq Nat /\ MaxNow \in Nat /\ MaxMembers \in Nat

NoLease == [holder |-> 0, target |-> HostDevice, expires |-> 0]

VARIABLES
    members,       \* TeamCollaborationSpace::members: role of each device, "none" if it is not one
    teamChanges,
    mode,          \* "none" before the session is started
    participants,  \* records [id, device, role]
    usedIds,       \* participant ids given out so far
    cursors,       \* participants whose cursor is shown
    lease,         \* the control lease
    requests,      \* pending control requests <<requester, target>>
    now

collabVars == <<members, teamChanges, mode, participants, usedIds, cursors, lease, requests, now>>

-----------------------------------------------------------------------------
TeamRoles == {"none", "Admin", "Host", "Member", "Guest"}
CanHost(r) == r \in {"Admin", "Host"}
CanControl(r) == r \in {"Admin", "Host", "Member"}

\* TeamCollaborationSpace::can_start_session; RemoteTeaching is not in the
\* default allowed_modes.
CanStartSession(host, m, others) ==
    /\ m # "RemoteTeaching"
    /\ CanHost(members[host]) /\ \A d \in others : CanControl(members[d])

\* CollaborationPermissions::for_role
Roles == {"Host", "Driver", "Navigator", "Teacher", "Student", "Observer"}
CursorRoles == Roles \ {"Observer"}
RequestRoles == Roles \ {"Observer"}
ControlRoles == {"Host", "Driver", "Teacher"}
AdminRoles == {"Host", "Teacher"}

\* CollaborationPolicy::for_mode
AllowsDelegation(m) == m # "SharedCursor"

Member(id) == {p \in participants : p.id = id}
HasRole(id, roles) == \E p \in Member(id) : p.role \in roles

CollabInit ==
    /\ members = [d \in CollabDevices |-> IF d = HostDevice THEN "Host" ELSE "none"]
    /\ teamChanges = 0 /\ mode = "none" /\ participants = {} /\ usedIds = {}
    /\ cursors = {} /\ lease = NoLease /\ requests = {} /\ now = 0

\* upsert_member, which may also make a member inactive.
UpsertMember(d, r) ==
    /\ teamChanges < MaxMembers /\ teamChanges' = teamChanges + 1
    /\ members' = [members EXCEPT ![d] = r]
    /\ UNCHANGED <<mode, participants, usedIds, cursors, lease, requests, now>>

NextId == CHOOSE i \in ParticipantIds \ usedIds : \A j \in ParticipantIds \ usedIds : i <= j

\* CollaborationSession::new, for a host the team allows.
StartSession(m, others) ==
    /\ mode = "none" /\ CanStartSession(HostDevice, m, others)
    /\ mode' = m
    /\ participants' = {[id |-> NextId, device |-> HostDevice, role |-> "Host"]}
    /\ usedIds' = usedIds \cup {NextId}
    /\ UNCHANGED <<members, teamChanges, cursors, lease, requests, now>>

\* join: refused when the session is full or the device takes part already.
Join(d, r) ==
    /\ mode # "none" /\ usedIds # ParticipantIds
    /\ Cardinality(participants) < MaxParticipants[mode]
    /\ \A p \in participants : p.device # d
    /\ participants' = participants \cup {[id |-> NextId, device |-> d, role |-> r]}
    /\ usedIds' = usedIds \cup {NextId}
    /\ UNCHANGED <<members, teamChanges, mode, cursors, lease, requests, now>>

\* Mutant of Revoked: a lease survives its holder.
RevokedNever(id) == lease

\* The lease after a participant has left.
Revoked(id) == IF lease.holder = id THEN NoLease ELSE lease

LeaveSession(id) ==
    /\ Member(id) # {}
    /\ participants' = participants \ Member(id)
    /\ cursors' = cursors \ {id}
    /\ requests' = {q \in requests : q[1] # id}
    /\ lease' = Revoked(id)
    /\ UNCHANGED <<members, teamChanges, mode, usedIds, now>>

\* update_cursor; all four modes allow several cursors.
UpdateCursor(id) ==
    /\ HasRole(id, CursorRoles)
    /\ cursors' = cursors \cup {id}
    /\ UNCHANGED <<members, teamChanges, mode, participants, usedIds, lease, requests, now>>

\* request_control replaces a pending request of the same participant.
RequestControl(id, d) ==
    /\ mode # "none" /\ AllowsDelegation(mode) /\ HasRole(id, RequestRoles)
    /\ requests' = {q \in requests : q[1] # id} \cup {<<id, d>>}
    /\ UNCHANGED <<members, teamChanges, mode, participants, usedIds, cursors, lease, now>>

DenyControlRequest(by, id) ==
    /\ HasRole(by, AdminRoles)
    /\ requests' = {q \in requests : q[1] # id}
    /\ UNCHANGED <<members, teamChanges, mode, participants, usedIds, cursors, lease, now>>

\* grant_control: no request has to be pending, and a lease that is held is replaced.
GrantControl(by, id, d, duration) ==
    /\ mode # "none" /\ AllowsDelegation(mode)
    /\ HasRole(by, AdminRoles) /\ HasRole(id, ControlRoles)
    /\ duration > 0
    /\ lease' = [holder |-> id, target |-> d, expires |-> now + duration]
    /\ requests' = {q \in requests : q[1] # id}
    /\ UNCHANGED <<members, teamChanges, mode, participants, usedIds, cursors, now>>

\* revoke_control, by an administrator or the holder.
RevokeControl(by) ==
    /\ HasRole(by, AdminRoles) \/ (Member(by) # {} /\ lease.holder = by)
    /\ lease' = NoLease
    /\ UNCHANGED <<members, teamChanges, mode, participants, usedIds, cursors, requests, now>>

\* expire_control; all four policies revoke on timeout.
ExpireControl ==
    /\ lease # NoLease /\ now >= lease.expires
    /\ lease' = NoLease
    /\ UNCHANGED <<members, teamChanges, mode, participants, usedIds, cursors, requests, now>>

Tick ==
    /\ now < MaxNow /\ now' = now + 1
    /\ UNCHANGED <<members, teamChanges, mode, participants, usedIds, cursors, lease, requests>>

\* can_control
MayControl(id, d) == lease # NoLease /\ lease.holder = id /\ lease.target = d /\ now < lease.expires

CollabNext ==
    \/ \E d \in CollabDevices, r \in {"none", "Member", "Guest"} : UpsertMember(d, r)
    \/ \E m \in Modes, o \in SUBSET (CollabDevices \ {HostDevice}) : StartSession(m, o)
    \/ \E d \in CollabDevices, r \in JoinRoles : Join(d, r)
    \/ \E id \in ParticipantIds : LeaveSession(id) \/ UpdateCursor(id) \/ RevokeControl(id)
    \/ \E id \in ParticipantIds, d \in CollabDevices : RequestControl(id, d)
    \/ \E by, id \in ParticipantIds : DenyControlRequest(by, id)
    \/ \E by, id \in ParticipantIds, d \in CollabDevices, t \in Durations \cup {DefaultLease[m] : m \in {mode} \cap Modes} :
          GrantControl(by, id, d, t)
    \/ ExpireControl \/ Tick

-----------------------------------------------------------------------------
CollabTypeOK ==
    /\ members \in [CollabDevices -> TeamRoles] /\ mode \in Modes \cup {"none"}
    /\ participants \in SUBSET [id : ParticipantIds, device : CollabDevices, role : Roles]
    /\ cursors \in SUBSET ParticipantIds /\ usedIds \in SUBSET ParticipantIds
    /\ requests \in SUBSET (ParticipantIds \X CollabDevices) /\ now \in 0..MaxNow

\* Whoever may inject input takes part in the session under the very id the
\* lease names, with a role that may receive control, in a mode that delegates
\* it: a participant that left, also one that has joined again in another role,
\* has no control left (can_control, leave).
ControlIsDelegated ==
    \A id \in ParticipantIds, d \in CollabDevices :
        MayControl(id, d) =>
            /\ HasRole(id, ControlRoles)
            /\ mode \in Modes \ {"SharedCursor"}

\* Requests, cursors and devices follow the participants: one request and one
\* cursor for each at most, one participant for each device, no leftovers.
SessionHasNoLeftovers ==
    /\ \A q \in requests : HasRole(q[1], RequestRoles)
    /\ \A q, s \in requests : q[1] = s[1] => q = s
    /\ \A id \in cursors : HasRole(id, CursorRoles)
    /\ \A p, q \in participants : p.device = q.device => p = q
    /\ mode \in Modes => Cardinality(participants) <= MaxParticipants[mode]

\* A session after any sequence of joins, leaves, delegations and expiries: control
\* is held as it was delegated, and nothing of a participant outlives it.
CollaborationControlled == CollabTypeOK /\ ControlIsDelegated /\ SessionHasNoLeftovers
=============================================================================
