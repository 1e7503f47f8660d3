--------------------------- MODULE RemoteSession ---------------------------
(***************************************************************************)
(* Linking two devices over the internet: the offer and answer of          *)
(* crates/network/src/remote_session.rs, the connectivity planner of       *)
(* internet.rs, and the two ways round a hostile NAT, a relay (relay.rs)   *)
(* and a browser ticket (browser.rs).  The signalling channel is external: *)
(* it keeps every message, so that offers and answers are lost, late,      *)
(* repeated, reordered and handed to the wrong device.                     *)
(***************************************************************************)
EXTENDS Integers, Sequences, FiniteSets, SequencesExt

CONSTANTS
    Machines,          \* device ids
    Offerer,           \* the device whose RemoteSessionEstablisher is followed
    Gathered,          \* device -> its candidates: <<[kind, addr, priority], ...>>
    Nats,              \* NAT estimates a device may have
    Planners,          \* WebRtcConfigs: [relay, fallback]
    MaxRemoteSessions, \* bound on the offers
    MaxAnswers,        \* bound on the answers
    MaxTrustChanges,   \* bound on changes of the trust stores
    RelayCapacity,     \* RelayPolicy::max_devices
    TicketTtl,         \* max_ticket_ttl_millis
    MaxTicketTime      \* bound on the clock of the tickets

ASSUME RemoteConstants ==
    /\ Offerer \in Machines /\ Nats \subseteq {"OpenInternet", "Cone", "Restricted", "Unknown", "Symmetric", "UdpBlocked"}
    /\ {MaxRemoteSessions, MaxAnswers, MaxTrustChanges, RelayCapacity, TicketTtl, MaxTicketTime} \subseteq Nat

VARIABLES
    session,     \* the establisher, or {}: its offer, planner, state and plan
    offers,      \* offers on the signalling channel
    answersSent, \* answers on the signalling channel, with what their sender required and knew
    trustStores,       \* device -> the devices in its trust store
    trustChanges,
    relayed,     \* devices the relay has admitted
    ticket,      \* the browser ticket, or {}
    browser,     \* the browser session planned last: {} or {[at, ticket]}
    ticketTime

remoteVars == <<session, offers, answersSent, trustStores, trustChanges, relayed, ticket, browser, ticketTime>>
signalVars == <<session, offers, answersSent, trustStores, trustChanges>>
ticketVars == <<ticket, browser, ticketTime>>

-----------------------------------------------------------------------------
\* RemoteSessionPolicy as the set of what it requires; is_secure.
Requirements == {"trusted", "encryption", "replay"}
SecurityOf(policy) == policy \ {"trusted"}

\* worse_nat: the ranks, and the larger of two.
Rank == [OpenInternet |-> 0, Cone |-> 1, Restricted |-> 2, Unknown |-> 3, Symmetric |-> 4, UdpBlocked |-> 5]
BetterNat(a, b) == IF Rank[a] <= Rank[b] THEN a ELSE b
WorseNat(a, b) == IF Rank[a] >= Rank[b] THEN a ELSE b

ByPriority(cs) ==
    LET order == SetToSortSeq(DOMAIN cs, LAMBDA i, j : \/ cs[i].priority < cs[j].priority
                                                       \/ cs[i].priority = cs[j].priority /\ i < j)
    IN  [i \in DOMAIN order |-> cs[order[i]]]

IsDirect(c) == c.kind # "Relay"

\* InternetConnectivityPlanner::plan
PlanFor(planner, nat, cs) ==
    LET sorted == ByPriority(cs)
        direct == SelectSeq(sorted, IsDirect)
        relays == SelectSeq(sorted, LAMBDA c : ~IsDirect(c))
        None   == [kind |-> "Unavailable", via |-> <<>>]
    IN  IF nat \notin {"Symmetric", "UdpBlocked"} /\ direct # <<>> THEN [kind |-> "Direct", via |-> direct]
        ELSE IF ~planner.fallback THEN None
        ELSE IF planner.relay THEN [kind |-> "Relay", via |-> <<>>]
        ELSE IF relays # <<>> THEN [kind |-> "Relay", via |-> <<Head(relays)>>]
        ELSE None

-----------------------------------------------------------------------------
RemoteInit ==
    /\ session = {} /\ offers = {} /\ answersSent = {}
    /\ trustStores = [d \in Machines |-> Machines] /\ trustChanges = 0
    /\ relayed = {} /\ ticket = {} /\ browser = {} /\ ticketTime = 0

\* RemoteSessionEstablisher::offer; an insecure policy is refused and leaves nothing.
MakeOffer(peer, policy, planner, nat) ==
    LET o == [id |-> Cardinality(offers) + 1, target |-> peer, security |-> SecurityOf(policy), nat |-> nat]
    IN  /\ policy = Requirements /\ peer # Offerer /\ Cardinality(offers) < MaxRemoteSessions
        /\ session' = {[offer |-> o, planner |-> planner, state |-> "AwaitingAnswer",
                        plan |-> [kind |-> "Unavailable", via |-> <<>>]]}
        /\ offers' = offers \cup {o}
        /\ UNCHANGED <<answersSent, trustStores, trustChanges, relayed, ticketVars>>

\* answer_offer's verdict, its checks in their order.
Verdict(d, o, policy) ==
    CASE o.target # d -> "WrongTarget"
      [] o.target = d /\ "trusted" \in policy /\ Offerer \notin trustStores[d] -> "UntrustedPeer"
      [] OTHER -> IF SecurityOf(policy) \subseteq o.security THEN "Accept" ELSE "InsufficientSecurity"

AnswerOffer(d, o, policy, nat) ==
    /\ Cardinality(answersSent) < MaxAnswers
    /\ answersSent' = answersSent \cup
          {[id |-> o.id, by |-> d, verdict |-> Verdict(d, o, policy), nat |-> nat,
            policy |-> policy, trusted |-> Offerer \in trustStores[d]]}
    /\ answersSent' # answersSent
    /\ UNCHANGED <<session, offers, trustStores, trustChanges, relayed, ticketVars>>

\* Without comparing the session ids.
EvaluateAnyId(s, a) ==
    IF a.verdict # "Accept" THEN [state |-> "Rejected", plan |-> s.plan]
    ELSE LET p == PlanFor(s.planner, WorseNat(s.offer.nat, a.nat), Gathered[Offerer] \o Gathered[a.by])
         IN  [state |-> IF p.kind = "Unavailable" THEN "NoConnectivity" ELSE "Established", plan |-> p]

\* evaluate_answer
Evaluate(s, a) ==
    IF a.id # s.offer.id THEN [state |-> "SessionMismatch", plan |-> s.plan]
    ELSE IF a.verdict # "Accept" THEN [state |-> "Rejected", plan |-> s.plan]
    ELSE IF a.by # s.offer.target THEN [state |-> "UnexpectedAnswerer", plan |-> s.plan]
    ELSE LET p == PlanFor(s.planner, WorseNat(s.offer.nat, a.nat), Gathered[Offerer] \o Gathered[a.by])
         IN  [state |-> IF p.kind = "Unavailable" THEN "NoConnectivity" ELSE "Established", plan |-> p]

\* accept_answer: whatever the state was, it becomes what this answer says.
AcceptAnswer(a) ==
    \E s \in session :
        LET r == Evaluate(s, a)
        IN  /\ session' = {[s EXCEPT !.state = r.state, !.plan = r.plan]}
            /\ UNCHANGED <<offers, answersSent, trustStores, trustChanges, relayed, ticketVars>>

\* A device is paired or forgotten (external: the trust store).
ChangeTrust(d) ==
    /\ trustChanges < MaxTrustChanges /\ trustChanges' = trustChanges + 1 /\ d # Offerer
    /\ trustStores' = [trustStores EXCEPT ![d] = IF Offerer \in @ THEN @ \ {Offerer} ELSE @ \cup {Offerer}]
    /\ UNCHANGED <<session, offers, answersSent, relayed, ticketVars>>

\* RelayPolicy::admit of a secure policy, for a device that follows a relay plan.
RelayAdmit(d, encrypted) ==
    /\ \E s \in session : s.state = "Established" /\ s.plan.kind = "Relay" /\ d \in {Offerer, s.offer.target}
    /\ Cardinality(relayed) < RelayCapacity /\ Offerer \in trustStores[d] /\ encrypted
    /\ relayed' = relayed \cup {d} /\ relayed' # relayed
    /\ UNCHANGED <<signalVars, ticketVars>>

-----------------------------------------------------------------------------
\* A ticket is issued for a device, bound to an authenticated browser, and ages.
IssueTicket(issued, expires) ==
    /\ ticket = {} /\ ticketTime = 0 /\ offers = {}
    /\ ticket' = {[issued |-> issued, expires |-> expires, claimed |-> FALSE]}
    /\ UNCHANGED <<signalVars, relayed, browser, ticketTime>>

ClaimTicket ==
    \E t \in ticket :
        /\ ~t.claimed /\ ticket' = {[t EXCEPT !.claimed = TRUE]}
        /\ UNCHANGED <<signalVars, relayed, browser, ticketTime>>

AgeTicket ==
    /\ ticket # {} /\ ticketTime < MaxTicketTime /\ ticketTime' = ticketTime + 1
    /\ UNCHANGED <<signalVars, relayed, ticket, browser>>

\* is_claimable and BrowserSessionPolicy::plan; planning does not claim the ticket.
Claimable(t, at) == ~t.claimed /\ at <= t.expires
PlanBrowser(targetTrusted) ==
    \E t \in ticket :
        /\ Claimable(t, ticketTime) /\ targetTrusted
        /\ (IF t.expires > t.issued THEN t.expires - t.issued ELSE 0) <= TicketTtl
        /\ browser' = {[at |-> ticketTime, ticket |-> t]} /\ browser' # browser
        /\ UNCHANGED <<signalVars, relayed, ticket, ticketTime>>

RemoteNext ==
    \/ /\ ticket = {}
       /\ \/ \E p \in Machines, planner \in Planners, n \in Nats : MakeOffer(p, Requirements, planner, n)
          \/ \E d \in Machines \ {Offerer}, o \in offers, p \in {Requirements, {}}, n \in Nats :
                AnswerOffer(d, o, p, n)
          \/ \E a \in answersSent : AcceptAnswer(a)
          \/ \E d \in Machines : ChangeTrust(d)
          \/ \E d \in Machines : RelayAdmit(d, TRUE)
    \/ \E i \in 0..MaxTicketTime, e \in 0..MaxTicketTime : IssueTicket(i, e)
    \/ ClaimTicket
    \/ AgeTicket
    \/ PlanBrowser(TRUE)

RemoteSpec == RemoteInit /\ [][RemoteNext]_remoteVars

-----------------------------------------------------------------------------
RemoteTypeOK ==
    /\ Cardinality(session) <= 1 /\ Cardinality(ticket) <= 1 /\ Cardinality(browser) <= 1
    /\ trustStores \in [Machines -> SUBSET Machines] /\ relayed \subseteq Machines

\* The answers of a session's peer that accepted the offer the session stands for.
Acceptances(s) ==
    {a \in answersSent : a.id = s.offer.id /\ a.by = s.offer.target /\ a.verdict = "Accept"}

\* A session is established only if the device it was offered to accepted that very
\* offer, for what the offer guarantees and at a moment when it trusted the offerer,
\* if its own policy asks for trust. What the policy must ask is BothSidesRequire.
EstablishedIsAgreed ==
    \A s \in session : s.state = "Established" =>
        \E a \in Acceptances(s) :
            /\ "trusted" \in a.policy => a.trusted
            /\ a.policy \ {"trusted"} \subseteq s.offer.security

\* "A remote session is only established with an already-trusted device, and only when
\* both sides require application-layer encryption and replay protection." The offerer
\* checks its policy, the answerer does not: it accepts what its own policy, which may
\* require nothing, lets pass.
BothSidesRequire ==
    \A s \in session : s.state = "Established" =>
        /\ s.offer.security = {"encryption", "replay"}
        /\ \E a \in Acceptances(s) : a.trusted /\ {"encryption", "replay"} \subseteq a.policy

\* A session fails for a reason that is on the channel, and so does one that had been
\* established: accept_answer takes a later answer in any state. A refusal carries no
\* device, so that of a device the offer was misdirected to also ends the session; but
\* a device that is not the peer can never be taken for it.
FailureIsJustified ==
    \A s \in session :
        /\ s.state = "SessionMismatch" => \E a \in answersSent : a.id # s.offer.id
        /\ s.state = "Rejected" => \E a \in answersSent : a.id = s.offer.id /\ a.verdict # "Accept"
        /\ s.state = "NoConnectivity" /\ s.planner.fallback =>
              /\ ~s.planner.relay
              /\ \A c \in Range(Gathered[Offerer] \o Gathered[s.offer.target]) : IsDirect(c)
        /\ s.state # "UnexpectedAnswerer"

\* The direct path is planned only when neither side is behind a NAT it cannot
\* cross, and then tries every address of both sides that is no relay, the
\* preferred ones first; a relay is used only when it is permitted.
PlanCanWork ==
    \A s \in session : s.state = "Established" =>
        /\ s.plan.kind = "Relay" => s.planner.fallback
        /\ s.plan.kind = "Direct" =>
              /\ s.offer.nat \notin {"Symmetric", "UdpBlocked"}
              /\ \E a \in answersSent : a.by = s.offer.target /\ a.id = s.offer.id /\ a.nat \notin {"Symmetric", "UdpBlocked"}
              /\ Range(s.plan.via) = {c \in Range(Gathered[Offerer]) \cup Range(Gathered[s.offer.target]) : IsDirect(c)}
              /\ \A i, j \in DOMAIN s.plan.via : i < j => s.plan.via[i].priority <= s.plan.via[j].priority

\* No browser is let in on a ticket that had run out, nor later than the
\* longest lifetime after the ticket was issued, whatever the ticket claims.
TicketsRunOut ==
    \A b \in browser : b.at <= b.ticket.expires /\ b.at <= b.ticket.issued + TicketTtl /\ ~b.ticket.claimed

\* Offers, answers, plans and tickets, whatever the signalling channel does.
RemoteSound == RemoteTypeOK /\ EstablishedIsAgreed /\ FailureIsJustified /\ PlanCanWork /\ TicketsRunOut
=============================================================================
