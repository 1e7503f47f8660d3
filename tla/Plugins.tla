------------------------------ MODULE Plugins ------------------------------
(***************************************************************************)
(* The plugin host: the event bus (crates/core/src/event.rs) feeds the     *)
(* registry (crates/plugins/src/registry.rs), which delivers an event to   *)
(* the plugins whose grant covers it (host.rs, capability.rs).  Artifacts  *)
(* change on disk and are reloaded by the tracker of hot_reload.rs.  A     *)
(* later version of an artifact may require more than the user approved.   *)
(***************************************************************************)
EXTENDS Naturals, Sequences, FiniteSets

CONSTANTS
    PluginIds,      \* plugin ids
    Capabilities,   \* the flags of PluginCapabilities that matter here
    RequiredBy,     \* required_capabilities of each version of a plugin
    Listing,        \* marketplace: [blocked, cap, runtimes] of each plugin
    Kinds,          \* event kinds
    BusCapacity,    \* capacity of the broadcast channel
    Debounce,       \* HotReloadTracker::debounce
    MaxVersion, MaxPublished, MaxPluginTime, MaxPluginOps   \* bounds

ASSUME PluginConstants ==
    /\ BusCapacity \in Nat \ {0} /\ Debounce \in Nat
    /\ MaxVersion \in Nat /\ MaxPublished \in Nat /\ MaxPluginTime \in Nat /\ MaxPluginOps \in Nat
    /\ RequiredBy \in [PluginIds -> [0..MaxVersion -> SUBSET Capabilities]]

VARIABLES
    artifact,    \* version on disk
    loaded,      \* PluginRegistry::plugins: sets of [id, version, granted]
    approved,    \* history: what the user granted at registration
    lastSeen,    \* HotReloadTracker::last_seen; MaxVersion + 1 is never
    lastReload,  \* HotReloadTracker::last_reload; MaxPluginTime + 1 is never
    published,   \* events sent on the bus
    position,    \* the host's receiver: index of the last event it took
    delivered,   \* history: <<plugin, kind, what the user had approved>>
    behind,      \* history: plugins with a change that was seen and not acted upon
    pluginTime, pluginOps

pluginVars == <<artifact, loaded, approved, lastSeen, lastReload, published, position,
                delivered, behind, pluginTime, pluginOps>>
busVars == <<published, position, delivered>>
trackerVars == <<lastSeen, lastReload>>

-----------------------------------------------------------------------------
Loaded(id) == {p \in loaded : p.id = id}
Never == MaxVersion + 1
NotYet == MaxPluginTime + 1

\* PluginCapabilities::satisfies
Satisfies(granted, required) == required \subseteq granted

\* EventHook::for_message, EventHook::is_permitted and can_receive_event: the
\* capability an event needs; "nothing" for all, "never" for those no plugin sees.
CapabilityFor(kind) ==
    CASE kind = "Clipboard" -> "read_clipboard"
      [] kind = "Input" -> "read_input"
      [] kind \in {"DeviceConnected", "DeviceDisconnected"} -> "device_metadata"
      [] kind = "Shutdown" -> "nothing"
      [] OTHER -> "never"
CanReceive(granted, kind) == CapabilityFor(kind) \in granted \cup {"nothing"}

\* MarketplaceListing::installable, for a listing of this version's manifest.
Installable(id, v) ==
    /\ ~Listing[id].blocked /\ Satisfies(Listing[id].cap, RequiredBy[id][v])
    /\ Listing[id].runtimes # {}

PluginInit ==
    /\ artifact = [id \in PluginIds |-> 0]
    /\ loaded = {} /\ approved = [id \in PluginIds |-> {}]
    /\ lastSeen = [id \in PluginIds |-> Never] /\ lastReload = [id \in PluginIds |-> NotYet]
    /\ published = <<>> /\ position = 0 /\ delivered = {} /\ behind = {}
    /\ pluginTime = 0 /\ pluginOps = 0

PluginOp == pluginOps < MaxPluginOps /\ pluginOps' = pluginOps + 1

\* PluginRegistry::register: refused if loaded or if the grant is too small;
\* on_load may fail.
Register(id, granted) ==
    /\ PluginOp /\ Loaded(id) = {} /\ Installable(id, artifact[id])
    /\ Satisfies(granted, RequiredBy[id][artifact[id]])
    /\ loaded' = loaded \cup {[id |-> id, version |-> artifact[id], granted |-> granted]}
    /\ approved' = [approved EXCEPT ![id] = granted]
    /\ UNCHANGED <<artifact, trackerVars, busVars, behind, pluginTime>>

Unload(id) ==
    /\ PluginOp /\ Loaded(id) # {}
    /\ loaded' = loaded \ Loaded(id)
    /\ UNCHANGED <<artifact, approved, trackerVars, busVars, behind, pluginTime>>

\* Mutant of ReloadGrant: the replacement gets what its manifest asks for.
ReloadGrantRequested(id, granted) == granted \cup RequiredBy[id][artifact[id]]

\* reload registers the replacement under the grant of the old instance.
ReloadGrant(id, granted) == granted

\* PluginRegistry::reload: the old instance is unloaded first, so that a
\* replacement that needs more than was granted, or whose on_load fails, leaves
\* the plugin unloaded.
Reload(id, loads) ==
    LET old == Loaded(id) IN
    IF old = {} THEN UNCHANGED loaded
    ELSE \E p \in old :
           LET g == ReloadGrant(id, p.granted)
           IN  loaded' = IF loads /\ Satisfies(g, RequiredBy[id][artifact[id]])
                         THEN (loaded \ old) \cup {[p EXCEPT !.version = artifact[id], !.granted = g]}
                         ELSE loaded \ old

\* HotReloadTracker::observe and what the host does with its decision.  The
\* change is remembered as seen even when the debounce window hides it.
Observe(id, loads) ==
    /\ PluginOp
    /\ lastSeen' = [lastSeen EXCEPT ![id] = artifact[id]]
    /\ LET changed == lastSeen[id] # Never /\ lastSeen[id] # artifact[id]
           quiet == lastReload[id] # NotYet /\ pluginTime - lastReload[id] < Debounce
       IN  IF changed /\ ~quiet
           THEN /\ lastReload' = [lastReload EXCEPT ![id] = pluginTime]
                /\ Reload(id, loads)
                /\ behind' = behind \ {id}
           ELSE /\ behind' = IF changed \/ lastSeen[id] = Never THEN behind \cup {id} ELSE behind
                /\ UNCHANGED <<lastReload, loaded>>
    /\ UNCHANGED <<artifact, approved, busVars, pluginTime>>

\* A new version is written to disk.
ArtifactChanges(id) ==
    /\ artifact[id] < MaxVersion
    /\ artifact' = [artifact EXCEPT ![id] = @ + 1]
    /\ UNCHANGED <<loaded, approved, trackerVars, busVars, behind, pluginTime, pluginOps>>

PluginTick ==
    /\ pluginTime < MaxPluginTime /\ pluginTime' = pluginTime + 1
    /\ UNCHANGED <<artifact, loaded, approved, trackerVars, busVars, behind, pluginOps>>

\* EventBus::publish never waits for a receiver.
Publish(kind) ==
    /\ Len(published) < MaxPublished
    /\ published' = Append(published, kind)
    /\ UNCHANGED <<artifact, loaded, approved, trackerVars, position, delivered, behind, pluginTime, pluginOps>>

\* The next event of a receiver: one that lags skips to the oldest retained.
NextRead == IF Len(published) - position > BusCapacity
                THEN Len(published) - BusCapacity + 1 ELSE position + 1

\* PluginRegistry::dispatch: a plugin that fails does not keep the event from the others.
Dispatch ==
    /\ position < Len(published)
    /\ position' = NextRead
    /\ LET kind == published[NextRead]
       IN  delivered' = delivered \cup
               {<<p.id, kind, approved[p.id]>> : p \in {q \in loaded : CanReceive(q.granted, kind)}}
    /\ UNCHANGED <<artifact, loaded, approved, trackerVars, published, behind, pluginTime, pluginOps>>

PluginNext ==
    \/ \E id \in PluginIds, g \in SUBSET Capabilities : Register(id, g)
    \/ \E id \in PluginIds : Unload(id) \/ ArtifactChanges(id)
    \/ \E id \in PluginIds, loads \in BOOLEAN : Observe(id, loads)
    \/ \E kind \in Kinds : Publish(kind)
    \/ Dispatch \/ PluginTick

-----------------------------------------------------------------------------
PluginTypeOK ==
    /\ artifact \in [PluginIds -> 0..MaxVersion]
    /\ loaded \in SUBSET [id : PluginIds, version : 0..MaxVersion, granted : SUBSET Capabilities]
    /\ \A p, q \in loaded : p.id = q.id => p = q
    /\ position \in 0..Len(published) /\ behind \in SUBSET PluginIds

\* A plugin runs with exactly what the user approved, through any number of
\* reloads: a new version that needs more is not loaded, and one that runs has
\* all it needs (register, reload).
GrantsAreApproved ==
    \A p \in loaded : /\ p.granted = approved[p.id]
                      /\ Satisfies(p.granted, RequiredBy[p.id][p.version])

\* A plugin runs the version the tracker saw last, unless that change was the
\* first thing the tracker saw of it, or came within the debounce window of the
\* previous reload: then nothing reloads it until the artifact changes once
\* more (observe).
StaleOnlyWhenHidden ==
    \A p \in loaded : lastSeen[p.id] \notin {Never, p.version} =>
        \/ p.id \in behind
        \/ p.version > lastSeen[p.id]

\* No event reaches a plugin that the user did not allow to see its kind, and a
\* receiver that lags is never offered an event the channel has dropped.
EventsConfined ==
    /\ \A d \in delivered : CanReceive(d[3], d[2])
    /\ position < Len(published) => Len(published) - NextRead < BusCapacity

\* What the plugin host grants and delivers over loads, reloads and a full bus.
PluginsConfined == PluginTypeOK /\ GrantsAreApproved /\ StaleOnlyWhenHidden /\ EventsConfined
=============================================================================
